------------------------------ MODULE LzahTree ------------------------------
(***************************************************************************)
(* The adaptive Huffman tree of StuffIt method 5 (stuffit/lzah.c).  Nodes  *)
(* have an identity, their slot of storage[], and a position, their slot   *)
(* of nodes[], which is kept ordered by frequency.  parent holds an        *)
(* identity, left and right hold positions: a symbol is decoded down the   *)
(* positions and counted up the identities.                                *)
(***************************************************************************)
EXTENDS Integers, Sequences, FiniteSets
LOCAL INSTANCE SequencesExt

CONSTANTS
  NumLeaves, \* LZAH_NUM_LEAVES: 314
  Limit,     \* the count at which the tree is rebuilt: 0x8000
  MaxSymbols \* for model checking

LzahAssumption == NumLeaves \in Nat \ {0, 1} /\ Limit \in Nat /\ MaxSymbols \in Nat

VARIABLES
  parent, left, right, freq, index, \* the fields of storage[]
  nodes,                            \* positions to identities
  n,                                \* the node decoding or counting is at
  phase,                            \* "decode" or "count"
  symbols,                          \* decoded so far
  rebuilt                           \* whether the tree was rebuilt

links == <<parent, left, right>>
progress == <<symbols, rebuilt>>
vars  == <<links, freq, index, nodes, n, phase, progress>>

Nodes      == 0 .. 2 * NumLeaves - 2
FirstLeaf  == NumLeaves - 1
Root       == 0
None       == -1

(* The leaves under a node of the tree the decoder starts with.            *)
LeavesUnder[i \in Nodes] ==
  IF i >= FirstLeaf THEN 1 ELSE LeavesUnder[2 * i + 1] + LeavesUnder[2 * i + 2]

Init ==
  /\ nodes  = [i \in Nodes |-> i] /\ index = [i \in Nodes |-> i]
  /\ left   = [i \in Nodes |-> IF i < FirstLeaf THEN 2 * i + 1 ELSE None]
  /\ right  = [i \in Nodes |-> IF i < FirstLeaf THEN 2 * i + 2 ELSE None]
  /\ parent = [i \in Nodes |-> IF i = Root THEN None ELSE (i - 1) \div 2]
  /\ freq   = LeavesUnder
  /\ n = Root /\ phase = "decode" /\ symbols = 0 /\ rebuilt = FALSE

IsLeaf(i) == left[i] < 0 /\ right[i] < 0

DecodeBit(bit) ==
  /\ phase = "decode" /\ ~IsLeaf(n)
  /\ symbols < MaxSymbols
  /\ n' = nodes[IF bit = 1 THEN left[n] ELSE right[n]]
  /\ UNCHANGED <<links, freq, index, nodes, phase, progress>>

(* lzah_reconstruct fills nodes[] from the end: the leaves the next pair   *)
(* still needs, the branch over the pair, once the leaves that count no    *)
(* more are in.  The parents it writes are those of the identities that    *)
(* are the pair's positions.                                               *)
Halved == [i \in Nodes |-> IF IsLeaf(i) THEN (freq[i] + 1) \div 2 ELSE freq[i]]
InTurn == [p \in 1 .. 2 * NumLeaves - 1 |-> p]
(* Faulty: in the order of storage[], not of nodes[].                      *)
LeavesOfStorage == FoldLeft(LAMBDA s, p : IF IsLeaf(p - 1) THEN Append(s, p - 1) ELSE s, <<>>, InTurn)

LeavesOfNodes == FoldLeft(LAMBDA s, p : IF IsLeaf(nodes[p - 1]) THEN Append(s, nodes[p - 1]) ELSE s, <<>>, InTurn)

PlaceLeaf(t) ==
  [t EXCEPT !.nodes[t.node] = t.leaves[Len(t.leaves)], !.index[t.leaves[Len(t.leaves)]] = t.node,
            !.node = @ - 1, !.leaves = Front(@)]

RECURSIVE PlaceLighter(_, _)
PlaceLighter(t, weight) ==
  IF t.leaves # <<>> /\ t.freq[Last(t.leaves)] <= weight THEN PlaceLighter(PlaceLeaf(t), weight) ELSE t

RECURSIVE PlaceNeeded(_, _)
PlaceNeeded(t, pair) == IF t.node >= pair THEN PlaceNeeded(PlaceLeaf(t), pair) ELSE t

PlaceBranch(s, k) ==
  LET b == NumLeaves - 1 - k
      pair   == 2 * b + 1
      t      == PlaceNeeded(s, pair)
      weight == t.freq[t.nodes[pair]] + t.freq[t.nodes[pair + 1]]
      u      == PlaceLighter([t EXCEPT !.freq[b] = weight, !.left[b] = pair, !.right[b] = pair + 1,
                                       !.parent[pair] = b, !.parent[pair + 1] = b], weight)
  IN  [u EXCEPT !.nodes[u.node] = b, !.index[b] = u.node, !.node = @ - 1]

Rebuild ==
  LET t == FoldLeft(PlaceBranch,
                    [nodes |-> nodes, index |-> index, freq |-> Halved, left |-> left, right |-> right, parent |-> parent,
                     leaves |-> LeavesOfNodes, node |-> 2 * NumLeaves - 2], [k \in 1 .. NumLeaves - 1 |-> k])
  IN  /\ nodes' = t.nodes /\ index' = t.index /\ freq' = t.freq
      /\ left' = t.left /\ right' = t.right
      /\ parent' = [t.parent EXCEPT ![t.nodes[0]] = None]
      /\ rebuilt' = TRUE

Decoded ==
  /\ phase = "decode" /\ IsLeaf(n)
  /\ phase' = "count" /\ symbols' = symbols + 1
  /\ IF freq[Root] >= Limit THEN Rebuild ELSE UNCHANGED <<links, freq, index, nodes, rebuilt>>
  /\ UNCHANGED n

NeighbourOf(i, w) ==
  IF i > 0 /\ freq[nodes[i - 1]] < w THEN i - 1 ELSE i

(* The first of the positions in front of i, without a gap, whose nodes    *)
(* count less than w.                                                      *)
FrontOf(i, w) ==
  CHOOSE q \in 0 .. i :
    /\ \A j \in q .. i - 1 : freq[nodes[j]] < w
    /\ q = 0 \/ freq[nodes[q - 1]] >= w

ParentOfFirstOnly(a, b) == [parent EXCEPT ![a] = parent[b]]

ParentsAfterSwap(a, b) == [parent EXCEPT ![a] = parent[b], ![b] = parent[a]]

IndexAfterSwap(a, b, p, q) == [index EXCEPT ![a] = q, ![b] = p]

(* a, at position p, changes places with b, at position q.  Which side the *)
(* two child links are on is read before either is written.                *)
Swap(a, b, p, q) ==
  LET pa == parent[a]
      pb == parent[b]
      aIsRight == right[pa] = p
      bIsRight == right[pb] = q
      left1  == IF aIsRight THEN left ELSE [left EXCEPT ![pa] = q]
      right1 == IF aIsRight THEN [right EXCEPT ![pa] = q] ELSE right
  IN  /\ left'  = IF bIsRight THEN left1 ELSE [left1 EXCEPT ![pb] = p]
      /\ right' = IF bIsRight THEN [right1 EXCEPT ![pb] = p] ELSE right1
      /\ parent' = ParentsAfterSwap(a, b)
      /\ nodes'  = [nodes EXCEPT ![p] = b, ![q] = a]
      /\ index'  = IndexAfterSwap(a, b, p, q)

Counted(i) == [freq EXCEPT ![i] = @ + 1]

(* One turn of the counting loop: the root ends it.                        *)
CountRoot ==
  /\ phase = "count" /\ parent[n] = None
  /\ freq' = Counted(n)
  /\ n' = Root /\ phase' = "decode"
  /\ UNCHANGED <<links, index, nodes, progress>>

CountNode ==
  /\ phase = "count" /\ parent[n] # None
  /\ freq' = Counted(n)
  /\ LET p == index[n]
         q == FrontOf(p, freq[n] + 1)
     IN  IF q < p THEN Swap(n, nodes[q], p, q) ELSE UNCHANGED <<links, index, nodes>>
  /\ n' = parent'[n]
  /\ UNCHANGED <<phase, progress>>

Next == (\E bit \in {0, 1} : DecodeBit(bit)) \/ Decoded \/ CountRoot \/ CountNode

Spec == Init /\ [][Next]_vars
-----------------------------------------------------------------------------
Between == phase = "decode" /\ n = Root

(* index and nodes[] stay each other's inverse however nodes are swapped,  *)
(* and between two symbols nodes[] is in order of frequency: a swap to the *)
(* front of a node's equals is enough to keep it, and a rebuild makes it.  *)
PositionsAreOrdered ==
  /\ \A i \in Nodes : nodes[index[i]] = i
  /\ Between => \A i \in Nodes \ {0} : freq[nodes[i - 1]] >= freq[nodes[i]]

(* Between two symbols, a branch counts what the two nodes that name it    *)
(* their parent count: until the first rebuild, the parent links alone are *)
(* a tree that adapts, in the order of the positions.                      *)
ParentsCountTheirChildren ==
  /\ PositionsAreOrdered
  /\ Between /\ ~rebuilt =>
       \A i \in Nodes :
         LET children == {j \in Nodes : parent[j] = i}
         IN  children # {} =>
               \E j, k \in children : j # k /\ children = {j, k} /\ freq[i] = freq[j] + freq[k]

RECURSIVE Depths(_, _)
Depths(i, d) ==
  IF IsLeaf(i) THEN {<<i, d>>}
  ELSE Depths(nodes[left[i]], d + 1) \cup Depths(nodes[right[i]], d + 1)

ShorterIfMoreFrequent == \A x, y \in Depths(Root, 0) : freq[x[1]] > freq[y[1]] => x[2] <= y[2]

(* The code that a rebuild leaves for decoding follows the halved counts   *)
(* and has a word for every symbol.                                        *)
RebuiltCodeFollowsCounts ==
  [][rebuilt' /\ symbols' # symbols /\ freq' # freq =>
       (ShorterIfMoreFrequent /\ Cardinality(Depths(Root, 0)) = NumLeaves)']_vars

(* "LZH with adaptive Huffman tree" (lzah.c:19): between two symbols, no   *)
(* symbol has a longer code than one that occurred less often.             *)
CodeAdapts == Between => ShorterIfMoreFrequent

(* "Walk up the tree" (lzah.c:206): from the node that is being counted,   *)
(* the parents lead to the root, where counting ends.                      *)
RECURSIVE LeadsToRoot(_, _)
LeadsToRoot(i, steps) == parent[i] = None \/ (steps > 0 /\ LeadsToRoot(parent[i], steps - 1))

EveryClimbEnds == phase = "count" => LeadsToRoot(n, 2 * NumLeaves)
=============================================================================
