----------------------------- MODULE DynamicTrees ----------------------------
(***************************************************************************)
(* The two adaptive Huffman trees of LHA's -lh2- (lha/lh_old.c): that of   *)
(* the characters, which has all its leaves, and that of the positions,    *)
(* which gets a leaf for each further 64 bytes of the window.              *)
(*                                                                         *)
(* Nodes of equal frequency are a block, and the first of them is its      *)
(* edge; a node that counts changes places with the edge of its block.     *)
(* Blocks are numbered from one stock for both trees.  child[n] is the     *)
(* second of two children, or Leaf(c); snode[c] is the node of leaf c; most *)
(* is the last node of the positions, total how many were decoded.         *)
(***************************************************************************)
EXTENDS Integers, Sequences, FiniteSets
LOCAL INSTANCE SequencesExt
LOCAL INSTANCE FiniteSetsExt

CONSTANTS NMax,      \* n_max, the characters
          NChar,     \* N_CHAR, the room for them
          NPos,      \* the most positions
          LimitC,    \* 0x8000 for the characters
          LimitP,    \* 0x8000 for the positions
          MaxCalls   \* bound: the symbols decoded

VARIABLES dyn,       \* both trees
          calls      \* the symbols decoded

dynVars == <<dyn, calls>>

DynamicTreesAssumption ==
  /\ {NMax, NChar, NPos, LimitC, LimitP, MaxCalls} \subseteq Nat \ {0}
  /\ NMax \in 2 .. NChar

TreesizeC == 2 * NChar
Nodes    == 0 .. TreesizeC + 2 * NPos
RootC    == 0
RootP    == TreesizeC
Topmost  == 1000000                      \* 0xffff

Leaf(c)     == -(c + 1)
LeafOf(k)   == -(k + 1)
IsLeaf(t, n) == t.child[n] < 0

SetParent(t, child, n) ==
  IF child < 0 THEN [t EXCEPT !.snode[LeafOf(child)] = n]
  ELSE [t EXCEPT !.parent[child] = n, !.parent[child - 1] = n]

(* A node becomes a block of its own.                                      *)
NewBlock(t, n) == LET b == t.stock[t.avail] IN [t EXCEPT !.block[n] = b, !.edge[b] = n, !.avail = @ + 1]
Release(t, b)  == [t EXCEPT !.avail = @ - 1, !.stock[t.avail - 1] = b]

-----------------------------------------------------------------------------
StartC ==
  LET zero   == [n \in Nodes |-> 0]
      leaves == [freq |-> [n \in Nodes |-> IF n \in NMax - 1 .. 2 * NMax - 2 THEN 1 ELSE 0],
                 child |-> [n \in Nodes |-> IF n \in NMax - 1 .. 2 * NMax - 2 THEN Leaf(2 * NMax - 2 - n) ELSE 0],
                 snode |-> [c \in 0 .. NChar + NPos |-> IF c < NMax THEN 2 * NMax - 2 - c ELSE 0],
                 block |-> [n \in Nodes |-> IF n \in NMax - 1 .. 2 * NMax - 2 THEN 1 ELSE 0],
                 parent |-> zero, stock |-> [n \in Nodes |-> IF n < TreesizeC THEN n ELSE 0],
                 edge |-> [zero EXCEPT ![1] = NMax - 1], avail |-> 2, most |-> RootP, total |-> 0]
      pair(t, j) ==
        LET i == 2 * (j + 1)
            f == t.freq[i] + t.freq[i - 1]
            n == SetParent([t EXCEPT !.freq[j] = f, !.child[j] = i], i, j)
        IN  IF f = t.freq[j + 1] THEN [n EXCEPT !.block[j] = t.block[j + 1], !.edge[t.block[j + 1]] = j]
            ELSE NewBlock(n, j)
  IN  FoldLeft(pair, leaves, Reverse([j \in 1 .. NMax - 1 |-> j - 1]))

StartP(t) == NewBlock([t EXCEPT !.freq[RootP] = 1, !.child[RootP] = Leaf(NChar), !.snode[NChar] = RootP], RootP)

-----------------------------------------------------------------------------
(* The leaves among the nodes are halved and moved to the front, and the   *)
(* blocks of all nodes go back to the stock.                               *)
Gathered(t, start, end) ==
  LET step(acc, i) ==
        LET moved == IF IsLeaf(t, i)
                       THEN [acc.t EXCEPT !.freq[acc.j] = (t.freq[i] + 1) \div 2, !.child[acc.j] = t.child[i]] ELSE acc.t
        IN  [t |-> IF t.edge[t.block[i]] = i THEN Release(moved, t.block[i]) ELSE moved,
             j |-> IF IsLeaf(t, i) THEN acc.j + 1 ELSE acc.j]
  IN  FoldLeft(step, [t |-> t, j |-> start], [k \in 1 .. end - start |-> start + k - 1])

(* Copies the leaves that end at j so that they end at i.                  *)
(* Faulty: the counts move, what they are counts of stays.                 *)
ShiftedCounts(t, i, j, n) ==
  [t EXCEPT !.freq = [x \in Nodes |-> IF x \in i - n + 1 .. i THEN @[x - i + j] ELSE @[x]]]
Shifted(t, i, j, n) ==
  [t EXCEPT !.freq = [x \in Nodes |-> IF x \in i - n + 1 .. i THEN @[x - i + j] ELSE @[x]],
            !.child = [x \in Nodes |-> IF x \in i - n + 1 .. i THEN @[x - i + j] ELSE @[x]]]

(* The nodes are made again from the last pair on: l is the first of the   *)
(* next pair, i where the next node goes, j the last leaf left.  The pair  *)
(* is completed from the leaves if some of it is still missing, then the   *)
(* leaves no lighter than its node go before that.                         *)
UpTo(n, from) == IF n >= from THEN n - from + 1 ELSE 0

RECURSIVE Merged(_, _, _, _, _)
Merged(t, start, i, j, l) ==
  LET missing == UpTo(i, l)
      pair    == Shifted(t, i, j, missing)
      f       == pair.freq[l] + pair.freq[l + 1]
      k       == Min({x \in start .. TreesizeC + 2 * NPos : pair.freq[x] <= f})
      heavier == UpTo(j - missing, k)
      up      == Shifted(pair, i - missing, j - missing, heavier)
      here    == i - missing - heavier
  IN  IF i < start THEN t
      ELSE Merged([up EXCEPT !.freq[here] = f, !.child[here] = l + 1], start, here - 1, j - missing - heavier, l - 2)

Linked(t, start, end) ==
  LET step(acc, i) ==
        LET up == SetParent(acc.t, acc.t.child[i], i)
            g  == up.freq[i]
        IN  IF g = acc.f THEN [acc EXCEPT !.t = [up EXCEPT !.block[i] = up.block[i - 1]]]
            ELSE [t |-> NewBlock(up, i), f |-> g]
  IN  FoldLeft(step, [t |-> t, f |-> 0], [k \in 1 .. end - start |-> start + k - 1]).t

Reconst(t, start, end) ==
  LET leaves == Gathered(t, start, end)
  IN  Linked(Merged(leaves.t, start, end - 1, leaves.j - 1, end - 2), start, end)

-----------------------------------------------------------------------------
(* The node counts and joins the block before it, or starts one.           *)
Joined(t, p) ==
  LET more == [t EXCEPT !.freq[p] = @ + 1]
  IN  IF more.freq[p] = more.freq[p - 1] THEN [more EXCEPT !.block[p] = more.block[p - 1]] ELSE NewBlock(more, p)

(* The edge leaves its block to the next node.                             *)
(* Faulty: the block is not told that its edge has left.                   *)
LeftBehind(t, b) == t
EdgePassed(t, b) == [t EXCEPT !.edge[b] = @ + 1]

Exchanged(t, p, q) ==
  LET r == t.child[p]
      s == t.child[q]
  IN  SetParent(SetParent([t EXCEPT !.child[p] = s, !.child[q] = r], r, q), s, p)

(* swap_inc; the result has the tree and the node to go on with.           *)
SwapInc(t, p) ==
  LET b    == t.block[p]
      q    == t.edge[b]
      more == [t EXCEPT !.freq[p] = @ + 1]
      done == IF q # p THEN Joined(EdgePassed(Exchanged(t, p, q), b), q)
              ELSE IF b = t.block[p + 1] THEN Joined(EdgePassed(t, b), p)
              ELSE IF more.freq[p] = more.freq[p - 1] THEN [Release(more, b) EXCEPT !.block[p] = t.block[p - 1]]
              ELSE more
  IN  [t |-> done, next |-> done.parent[q]]

RECURSIVE Climbed(_, _, _)
Climbed(t, q, root) ==
  IF q = root THEN t ELSE LET up == SwapInc(t, q) IN Climbed(up.t, up.next, root)

UpdateC(t, c) ==
  LET ready == IF t.freq[RootC] = LimitC THEN Reconst(t, 0, 2 * NMax - 1) ELSE t
      more  == [ready EXCEPT !.freq[RootC] = @ + 1]
      first == SwapInc(more, more.snode[c])
  IN  Climbed(first.t, first.next, RootC)

UpdateP(t, p) ==
  LET again == Reconst(t, RootP, t.most + 1)
      ready == IF t.total = LimitP THEN [again EXCEPT !.total = again.freq[RootP], !.freq[RootP] = Topmost] ELSE t
  IN  [Climbed(ready, ready.snode[p + NChar], RootP) EXCEPT !.total = @ + 1]

(* The last leaf gives its place to a node over it and the new leaf.       *)
MakeNewNode(t, p) ==
  LET r == t.most + 1
      q == r + 1
      m == t.most
      first == m = RootP
      down == [t EXCEPT !.child[r] = t.child[m], !.snode[LeafOf(t.child[m])] = r,
                        !.child[q] = Leaf(p + NChar), !.child[m] = q,
                        !.freq[r] = t.freq[m], !.freq[q] = 0, !.block[r] = t.block[m],
                        !.freq[RootP] = IF first THEN Topmost ELSE @,
                        !.edge[t.block[m]] = IF first THEN @ + 1 ELSE @]
      linked == NewBlock([down EXCEPT !.parent[r] = m, !.parent[q] = m], q)
  IN  UpdateP([linked EXCEPT !.snode[p + NChar] = q, !.most = q], p)
-----------------------------------------------------------------------------
Init == dyn = StartP(StartC) /\ calls = 0

Call(t) == calls < MaxCalls /\ dyn' = t /\ calls' = calls + 1

(* A character is decoded and counts.                                      *)
DecodeC == \E c \in 0 .. NMax - 1 : Call(UpdateC(dyn, c))

(* The positions that the bytes put out since have made possible get their *)
(* leaves, then one of all positions is decoded and counts.  The limit is  *)
(* never reached within the first 64 bytes.                                *)
Known(t) == 1 + (t.most - RootP) \div 2
DecodeP ==
  \E n \in 0 .. NPos - Known(dyn) :
    LET grown == FoldLeft(LAMBDA t, k : MakeNewNode(t, Known(t)), dyn, [k \in 1 .. n |-> k]) IN
    /\ grown.most > RootP \/ grown.total < LimitP - 2
    /\ \E p \in 0 .. Known(grown) - 1 : Call(UpdateP(grown, p))

Next == DecodeC \/ DecodeP
Spec == Init /\ [][Next]_dynVars

-----------------------------------------------------------------------------
(* The nodes of a tree in the order of the table; the root of the          *)
(* positions holds no frequency once it has children.                      *)
CharNodes == 0 .. 2 * NMax - 2
PosNodes  == RootP .. dyn.most
Weighed   == CharNodes \cup (IF dyn.most = RootP THEN {RootP} ELSE RootP + 1 .. dyn.most)
SameTree(a, b) == (a < RootP) <=> (b < RootP)

WellLinked(nodes) ==
  \A n \in nodes :
    IF IsLeaf(dyn, n) THEN dyn.snode[LeafOf(dyn.child[n])] = n
    ELSE LET c == dyn.child[n] IN
         /\ {c - 1, c} \subseteq nodes \ 0 .. n
         /\ dyn.parent[c] = n /\ dyn.parent[c - 1] = n
         /\ n # RootP => dyn.freq[n] = dyn.freq[c] + dyn.freq[c - 1]

Ordered(nodes) == \A m, n \in nodes : m < n => dyn.freq[m] >= dyn.freq[n]

BlocksAreRuns ==
  /\ \A a, b \in Weighed : dyn.block[a] = dyn.block[b] <=> SameTree(a, b) /\ dyn.freq[a] = dyn.freq[b]
  /\ \A a \in Weighed : LET e == dyn.edge[dyn.block[a]] IN
       /\ e \in Weighed /\ dyn.block[e] = dyn.block[a]
       /\ \A b \in Weighed : dyn.block[b] = dyn.block[a] => e <= b

StockIsFree ==
  /\ \A n \in dyn.avail .. TreesizeC - 1 : \A a \in Weighed : dyn.stock[n] # dyn.block[a]
  /\ \A m, n \in dyn.avail .. TreesizeC - 1 : dyn.stock[m] = dyn.stock[n] => m = n

(* Both trees stay linked and in the order of their frequencies, the nodes *)
(* of a frequency are one block with its edge in front, and no block of    *)
(* the stock is in use (lha/lh_old.c, -lh2-).                              *)
DynamicTreesAreSound ==
  WellLinked(CharNodes) /\ WellLinked(PosNodes) /\ Ordered(CharNodes) /\ Ordered(PosNodes) /\ BlocksAreRuns /\ StockIsFree
=============================================================================
