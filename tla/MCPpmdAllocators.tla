-------------------------- MODULE MCPpmdAllocators --------------------------
(* PpmdAllocators with the sizes 1, 2 and 5.                                *)
EXTENDS PpmdAllocators, TLC

Symmetry == Permutations(Block)

(* What the sizes must be for a split to fit two blocks; the small ones    *)
(* are, and so are the 38 sizes of the source.                             *)
SplitsExactly(sizes) ==
  \A old, new \in DOMAIN sizes :
    new < old =>
      LET diff == sizes[old] - sizes[new]
          i    == FittingIn(sizes, diff)
          rest == diff - sizes[i - 1]
      IN  sizes[i] = diff \/ sizes[FittingIn(sizes, rest)] = rest

ASSUME SmallSizesSplit  == SplitsExactly(Index2Units)
ASSUME SourceSizesSplit ==
  /\ SplitsExactly(SizesFor(4, 4, 4, 128))
  /\ Cardinality(DOMAIN SizesFor(4, 4, 4, 128)) = 38
  /\ SizesFor(4, 4, 4, 128)[37] = 128
=============================================================================
