------------------------------ MODULE PpmdUnits ------------------------------
(***************************************************************************)
(* What the four suballocators of PPMd have in common, ppmd/SubAllocator.h.  *)
(* Blocks come in a few sizes; a request is rounded up to the next one.  A *)
(* free block is on the list of its size, linked through its own first     *)
(* unit; a block that is too large is split, and what is left over goes on *)
(* one list or two.  Contexts are cut from the top of a gap that was never *)
(* handed out, other blocks from its bottom.                               *)
(*                                                                         *)
(* An allocator is a record, the argument self of its functions; a call    *)
(* that returns a block is [at, self].  An address is the number of a unit *)
(* of the heap; 0 is NULL.                                                 *)
(***************************************************************************)
EXTENDS Integers, Sequences, FiniteSets
LOCAL INSTANCE SequencesExt

CONSTANTS
  N1, N2, N3, \* how many sizes are 1, 2 and 3 units apart
  MaxUnits,   \* the largest size: 128
  HeapUnits,  \* SubAllocatorSize / UNIT_SIZE
  TextUnits,  \* variants H and I: the eighth of the heap kept for text
  Breaths,    \* variant G: how many of the largest blocks are set aside: 128
  GlueEvery,  \* variants H and I: how often free blocks are joined: 255, 8192
  MoveWithin, \* variant I: 16 * 1024 / UNIT_SIZE
  Block       \* blocks the model may hold at a time, for model checking

ASSUME PpmdUnitsAssumption ==
  /\ {N1, N2, N3, MaxUnits, HeapUnits, TextUnits, Breaths, GlueEvery, MoveWithin} \subseteq Nat
  /\ N1 > 0 /\ MaxUnits > 0 /\ TextUnits < HeapUnits /\ Breaths * MaxUnits < HeapUnits

Units == 1 .. HeapUnits

(* What a unit holds, as far as anybody reads it.                          *)
Link       == <<"link", 0>>   \* the next free block of a list
Stamp(nu)  == <<"stamp", nu>> \* a free block that says so, and how long it is
Old        == <<"old", 0>>
Word(b, k) == <<b, k>>        \* the k-th unit of what the model keeps in b
IsStamp(word) == word[1] = "stamp"
NU(word)      == word[2]

(* The sizes, for any parameters: those of the source are 4, 4, 4, 128.    *)
SizesFor(n1, n2, n3, max) ==
  LET n4 == (max + 3 - n1 - 2 * n2 - 3 * n3) \div 4
  IN  [i \in 0 .. n1 + n2 + n3 + n4 - 1 |->
         IF i < n1 THEN 1 + i
         ELSE IF i < n1 + n2 THEN 2 + n1 + (i - n1) * 2
         ELSE IF i < n1 + n2 + n3 THEN 3 + n1 + 2 * n2 + (i - n1 - n2) * 3
         ELSE 4 + n1 + 2 * n2 + 3 * n3 + (i - n1 - n2 - n3) * 4]

Index2Units == SizesFor(N1, N2, N3, MaxUnits)
Indexes     == DOMAIN Index2Units
LastIndex   == Cardinality(Indexes) - 1

(* The first size of at least num units.                                   *)
FittingIn(sizes, num) ==
  CHOOSE i \in DOMAIN sizes : sizes[i] >= num /\ (i = 0 \/ sizes[i - 1] < num)

Units2Index(num) == FittingIn(Index2Units, num)

-----------------------------------------------------------------------------
InsertNode(self, p, index) ==
  [self EXCEPT !.FreeList[index] = <<p>> \o @, !.mem[p] = Link]

InsertBlockAfter(self, p, index) ==
  [self EXCEPT !.FreeList[index] = <<p>> \o @, !.mem[p] = Stamp(Index2Units[index])]

(* Variant I stamps the blocks it frees.                                   *)
Insert(stamped, self, p, index) ==
  IF stamped THEN InsertBlockAfter(self, p, index) ELSE InsertNode(self, p, index)

RemoveNode(self, index) == [self EXCEPT !.FreeList[index] = Tail(@)]

InsertPieces(stamped, self, pieces) ==
  FoldLeft(LAMBDA s, piece : Insert(stamped, s, piece[1], piece[2]), self, pieces)

(* What remains of a block of one size when it is cut to another.          *)
Remainder(p, diff) ==
  LET i == Units2Index(diff)
  IN  IF Index2Units[i] = diff THEN <<<<p, i>>>>
      ELSE <<<<p, i - 1>>, <<p + Index2Units[i - 1], Units2Index(diff - Index2Units[i - 1])>>>>

SplitWith(stamped, self, at, oldindex, newindex) ==
  InsertPieces(stamped, self,
    Remainder(at + Index2Units[newindex], Index2Units[oldindex] - Index2Units[newindex]))

Refused(self)         == [at |-> 0, self |-> self]
HasNode(self, index)  == self.FreeList[index] # <<>>
TakeNode(self, index) == [at |-> Head(self.FreeList[index]), self |-> RemoveNode(self, index)]
GapHolds(self, index) == self.LowUnit + Index2Units[index] <= self.HighUnit
TakeGap(self, index)  == [at |-> self.LowUnit, self |-> [self EXCEPT !.LowUnit = @ + Index2Units[index]]]
TakeTop(self)         == [at |-> self.HighUnit - 1, self |-> [self EXCEPT !.HighUnit = @ - 1]]

LargerIndexes(self, index) == {i \in Indexes : i > index /\ HasNode(self, i)}

TakeLarger(stamped, self, index) ==
  LET larger == LargerIndexes(self, index)
      i      == CHOOSE x \in larger : \A y \in larger : x <= y
      taken  == TakeNode(self, i)
  IN  [taken EXCEPT !.self = SplitWith(stamped, @, taken.at, i, index)]

CopyToNext(self, from, to, count) ==
  [self EXCEPT !.mem = [u \in Units |-> IF to < u /\ u < to + count THEN @[from + u - to] ELSE @[u]]]

CopyUnits(self, from, to, count) ==
  [self EXCEPT !.mem = [u \in Units |-> IF to <= u /\ u < to + count THEN @[from + u - to] ELSE @[u]]]

(* One unit more: in place when the size already has it, else the first    *)
(* count units are copied to a larger block, the new one.                  *)
ExpandWith(new, stamped, self, at, oldnum, count) ==
  LET oldindex == Units2Index(oldnum)
  IN  IF oldindex = Units2Index(oldnum + 1) THEN [at |-> at, self |-> self]
      ELSE IF new.at = 0 THEN new
      ELSE [new EXCEPT !.self = Insert(stamped, CopyUnits(@, at, new.at, count), at, oldindex)]

(* Fewer units: the whole block is exchanged for a free one of the smaller *)
(* size, if there is one, and cut otherwise.                               *)
ShrinkWith(stamped, self, at, oldnum, newnum, count) ==
  LET oldindex == Units2Index(oldnum)
      newindex == Units2Index(newnum)
      taken    == TakeNode(self, newindex)
  IN  IF oldindex = newindex THEN [at |-> at, self |-> self]
      ELSE IF HasNode(self, newindex)
        THEN [taken EXCEPT !.self = Insert(stamped, CopyUnits(@, at, taken.at, count), at, oldindex)]
      ELSE [at |-> at, self |-> SplitWith(stamped, self, at, oldindex, newindex)]

-----------------------------------------------------------------------------
(* Variants H and I: free blocks next to each other are joined.  A block   *)
(* absorbs the one after it as long as the unit there is stamped.  The     *)
(* unit past the heap is taken not to be.                                  *)
RECURSIVE Absorb(_, _)
Absorb(swept, p) ==
  LET p1 == p + NU(swept.mem[p])
  IN  IF p1 \in Units /\ IsStamp(swept.mem[p1])
        THEN Absorb([gone |-> swept.gone \cup {p1},
                     mem  |-> [swept.mem EXCEPT ![p] = Stamp(NU(@) + NU(swept.mem[p1]))]], p)
        ELSE swept

(* The joined blocks are cut into sizes again.                             *)
Pieces(p, total) ==
  LET whole == (total - 1) \div MaxUnits
      from  == p + whole * MaxUnits
      size  == total - whole * MaxUnits
      i     == Units2Index(size)
      k     == size - Index2Units[i - 1]
  IN  [j \in 1 .. whole |-> <<p + (j - 1) * MaxUnits, LastIndex>>]
      \o IF Index2Units[i] = size THEN <<<<from, i>>>>
         ELSE <<<<from + (size - k), k - 1>>, <<from, i - 1>>>>

AllFree(self) == FoldLeft(LAMBDA seq, i : seq \o self.FreeList[i], <<>>, [i \in 1 .. LastIndex + 1 |-> i - 1])

GapLeftAsItIs(self) == self

(* What the gap begins with is not taken for a stamp left from before.     *)
EndGap(self) ==
  IF self.LowUnit = self.HighUnit THEN self ELSE [self EXCEPT !.mem[self.LowUnit] = Old]

(* The free blocks, in the order they are swept.                           *)
GlueWith(stamped, self, order) ==
  LET sweep(swept, p) == IF p \in swept.gone THEN swept ELSE Absorb(swept, p)
      swept == FoldLeft(sweep, [gone |-> {}, mem |-> self.mem], order)
      cut(s, p) == InsertPieces(stamped, s, Pieces(p, NU(swept.mem[p])))
  IN  FoldLeft(cut, [self EXCEPT !.FreeList = [i \in Indexes |-> <<>>], !.mem = swept.mem],
               SelectSeq(order, LAMBDA p : p \notin swept.gone))

(* When nothing else is left, a block is taken from the end of the text    *)
(* area.                                                                   *)
TakeFromText(self, index) ==
  IF self.UnitsStart - self.pText > Index2Units[index]
    THEN [at |-> self.UnitsStart - Index2Units[index],
          self |-> [self EXCEPT !.UnitsStart = @ - Index2Units[index]]]
    ELSE Refused(self)

AllocInternalWith(stamped, joined, self, index) ==
  LET glued == IF self.GlueCount = 0 THEN joined ELSE self
  IN  IF self.GlueCount = 0 /\ HasNode(glued, index) THEN TakeNode(glued, index)
      ELSE IF LargerIndexes(glued, index) # {} THEN TakeLarger(stamped, glued, index)
      ELSE TakeFromText([glued EXCEPT !.GlueCount = @ - 1], index)
=============================================================================
