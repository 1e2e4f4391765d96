----------------------- MODULE AdaptiveHuffmanProofs ------------------------
(***************************************************************************)
(* The theorems on Adaptive Huffman: the tree is linked, summed and        *)
(* sorted after every symbol, and the rebuild at the limit stays within    *)
(* its arrays, for every number of leaves, every limit and every stream    *)
(* of symbols; and all of it counts the symbols as SymbolCounts does.      *)
(*                                                                         *)
(* The climb, which counts a symbol from its leaf to the root, comes       *)
(* first. The tree is summed and sorted between two symbols. On the way up *)
(* one node has been counted and its parent has not, so the sum fails at   *)
(* one branch and nowhere else (SummedBut), and the order fails at the     *)
(* node just counted and nowhere else (SortedBut). The node changes places *)
(* with the first of those that are lighter, which are all lighter by      *)
(* one (SwapPartner): none of them is above it or its child, so that the   *)
(* exchange of the two subtrees leaves children behind their parents and   *)
(* the weights in order.                                                   *)
(*                                                                         *)
(* The rebuild halves the weights, takes the leaves in order and merges    *)
(* them with the branches it makes from the pairs of positions at the end. *)
(* Four facts about the merge carry it: what waits is exactly what has no  *)
(* position yet (CountersInv); positions and nodes placed are each other's *)
(* inverse (Placing); a branch that waits is no lighter than any placed    *)
(* node (Weighing); and what waits with what is no one's child yet weighs  *)
(* what all leaves weigh (Totalling), which is what all symbols weigh.     *)
(* When the last position is filled the tree is a heap of weights over     *)
(* positions, p the child of (p - 1) div 2, and the root weighs what the   *)
(* leaves weigh.                                                           *)
(***************************************************************************)
EXTENDS AdaptiveHuffman, NatLemmas, FiniteSetTheorems

(* The nodes that are leaves.                                              *)
LeafSet == Storage \ Branches

(* A branch has two children and a leaf none.                              *)
Shape ==
  \A s \in Storage :
    IF s \in Branches THEN leftchild[s] \in Storage /\ rightchild[s] \in Storage
                      ELSE leftchild[s] = Null /\ rightchild[s] = Null

(* nodes and index are inverse: every node has one position.               *)
Ordered == \A s \in Storage : nodes[index[s]] = s /\ index[nodes[s]] = s

(* Children and parents agree, children are behind their parent in the     *)
(* order, and every node but the root has a parent.                        *)
Linked ==
  /\ \A b \in Branches :
       /\ leftchild[b] # rightchild[b]
       /\ parent[leftchild[b]] = b /\ index[leftchild[b]] > index[b]
       /\ parent[rightchild[b]] = b /\ index[rightchild[b]] > index[b]
  /\ \A s \in Storage :
       s # Root => parent[s] \in Branches /\ (s = leftchild[parent[s]] \/ s = rightchild[parent[s]])
  /\ parent[Root] = Null

(* Every weight is positive.                                               *)
Positive == \A s \in Storage : freq[s] > 0

(* Every branch weighs what its children weigh, but for u, which has yet   *)
(* to be counted.                                                          *)
SummedBut(u) ==
  \A b \in Branches : freq[leftchild[b]] + freq[rightchild[b]] = IF b = u THEN freq[b] + 1 ELSE freq[b]

(* The weights fall along the order, but for u, which has just been        *)
(* counted.                                                                *)
SortedBut(u) ==
  \A p, q \in Storage : p < q /\ nodes[q] # u => freq[nodes[p]] >= freq[nodes[q]]

(* While the node just counted looks for its place: nothing in front of    *)
(* it is lighter by more than one, and all it has passed is lighter.       *)
Seeking ==
  /\ node # Root
  /\ q_index <= index[node]
  /\ \A p \in Storage : p < index[node] => freq[nodes[p]] >= freq[node] - 1
  /\ \A p \in Storage : q_index <= p /\ p < index[node] => freq[nodes[p]] < freq[node]

(* The weights of the leaves by position, and what those from a position   *)
(* on weigh.                                                               *)
LeafWeights == [p \in Storage |-> IF nodes[p] \in Branches THEN 0 ELSE freq[nodes[p]]]
LeafTotal(from) == SumOver(LeafWeights, NumNodes, from, NumNodes - 1)

(* The weights of the leaves by symbol, and what they weigh.               *)
Tally == [value \in 0 .. Leaves - 1 |-> freq[LeafOf(value)]]
SymbolTotal == SumOver(Tally, Leaves, 0, Leaves - 1)

(* The symbol has been counted at its leaf and not yet at the root.        *)
Counted == pc = "seek" \/ (pc = "climb" /\ node \in Branches)

(* What the grown tree keeps through the climb.                            *)
TreeInv ==
  Grown =>
    /\ Ordered /\ Linked /\ Positive
    /\ SummedBut(Uncounted)
    /\ SortedBut(IF pc = "seek" THEN node ELSE Null)
    /\ freq[Root] <= Limit
    /\ pc \in {"climb", "seek"} => freq[Root] < Limit
    /\ pc = "seek" => Seeking
    /\ LeafTotal(0) = IF Counted THEN freq[Root] + 1 ELSE freq[Root]
    /\ LeafTotal(0) = SymbolTotal

USE LeavesAssumption, LimitAssumption

(* The numbers of the nodes.                                               *)
LEMMA StorageFacts ==
  /\ NumNodes \in Nat /\ NumNodes >= 3
  /\ Storage = 0 .. NumNodes - 1
  /\ Branches \subseteq Storage /\ Storage \subseteq Int
  /\ Null \notin Storage /\ 0 \in Storage /\ Null \notin Branches
  /\ NumNodes = 2 * Leaves - 1
BY DEF NumNodes, Storage, Branches, Null

(* In a linked tree only the root has no parent, and no node is its own.   *)
LEMMA Parents ==
  ASSUME TypeOK, Shape, Ordered, Linked, NEW s \in Storage, s # Root
  PROVE  /\ parent[s] \in Branches /\ parent[s] \in Storage
         /\ index[parent[s]] < index[s] /\ parent[s] # s
<1>1. parent[s] \in Branches /\ parent[s] \in Storage
  BY StorageFacts DEF Linked
<1>2. s = leftchild[parent[s]] \/ s = rightchild[parent[s]]
  BY DEF Linked
<1>3. index[s] > index[parent[s]]
  BY <1>1, <1>2 DEF Linked
<1>4. index[s] \in Int /\ index[parent[s]] \in Int
  BY <1>1, StorageFacts DEF TypeOK
<1> QED
  BY <1>1, <1>3, <1>4

(* The root is a branch, and the first in the order.                       *)
LEMMA RootFacts ==
  ASSUME TypeOK, Shape, Ordered, Linked
  PROVE  Root \in Branches /\ Root \in Storage /\ index[Root] = 0
<1>1. Root \in Storage /\ index[Root] = 0
  BY StorageFacts DEF TypeOK, Ordered, Root
<1>2. 1 \in Storage /\ nodes[1] \in Storage /\ index[nodes[1]] = 1
  <2>1. 1 \in Storage
    BY DEF Storage, NumNodes
  <2> QED
    BY <2>1 DEF TypeOK, Ordered
<1>3. nodes[1] # Root
  BY <1>1, <1>2
<1>4. /\ parent[nodes[1]] \in Branches /\ parent[nodes[1]] \in Storage
      /\ index[parent[nodes[1]]] < index[nodes[1]]
  BY <1>2, <1>3, Parents
<1>5. index[parent[nodes[1]]] = 0
  <2>1. index[parent[nodes[1]]] \in Storage
    BY <1>4 DEF TypeOK
  <2> QED
    BY <1>2, <1>4, <2>1, StorageFacts
<1>6. parent[nodes[1]] = Root
  BY <1>4, <1>5 DEF Ordered, Root
<1> QED
  BY <1>1, <1>4, <1>6

(* A node without children is a leaf.                                      *)
LEMMA LeafIsLeaf ==
  ASSUME Shape, NEW s \in Storage
  PROVE  IsLeaf(s) <=> s \notin Branches
BY StorageFacts DEF Shape, IsLeaf

(* The weights of the leaves are numbers.                                  *)
LEMMA LeafWeightsType == ASSUME TypeOK PROVE LeafWeights \in [0 .. NumNodes - 1 -> Int]
BY StorageFacts, SMTT(30) DEF LeafWeights, TypeOK

(* The leaves are the nodes of the symbols.                                *)
LEMMA LeafOfSymbol ==
  /\ Leaves \in Nat /\ 0 \in 0 .. Leaves /\ Leaves - 1 \in 0 .. Leaves - 1
  /\ \A value \in 0 .. Leaves - 1 : LeafOf(value) \in LeafSet /\ LeafOf(value) \in Storage
  /\ \A s \in LeafSet : NumNodes - 1 - s \in 0 .. Leaves - 1 /\ LeafOf(NumNodes - 1 - s) = s
  /\ \A v, w \in 0 .. Leaves - 1 : LeafOf(v) = LeafOf(w) => v = w
BY DEF LeafOf, LeafSet, Storage, Branches, NumNodes

LEMMA TallyType ==
  ASSUME TypeOK
  PROVE  Tally \in [0 .. Leaves - 1 -> Int] /\ SymbolTotal \in Int
<1>1. Tally \in [0 .. Leaves - 1 -> Int]
  <2>1. \A s \in Storage : freq[s] \in Int
    BY DEF TypeOK
  <2> QED
    BY <2>1, LeafOfSymbol DEF Tally
<1> QED
  BY <1>1, LeafOfSymbol, SumType DEF SymbolTotal

(* What the symbols weigh changes with the weight of a leaf ...            *)
LEMMA SymbolTotalEdited ==
  ASSUME TypeOK, NEW s \in LeafSet, NEW w \in Nat, freq' = [freq EXCEPT ![s] = w]
  PROVE  SymbolTotal' = SymbolTotal + (w - freq[s])
<1> DEFINE v == NumNodes - 1 - s
<1> DEFINE F == Tally
<1> DEFINE G == Tally'
<1>1. v \in 0 .. Leaves - 1 /\ LeafOf(v) = s /\ s \in Storage
  BY LeafOfSymbol DEF LeafSet
<1>2. freq \in [Storage -> Nat] /\ freq' \in [Storage -> Nat]
      /\ freq'[s] = w /\ \A t \in Storage : t # s => freq'[t] = freq[t]
  BY <1>1 DEF TypeOK
<1>3. /\ F \in [0 .. Leaves - 1 -> Int] /\ G \in [0 .. Leaves - 1 -> Int]
      /\ \A k \in 0 .. Leaves - 1 : F[k] = freq[LeafOf(k)] /\ G[k] = freq'[LeafOf(k)]
  <2>1. \A t \in Storage : freq[t] \in Int /\ freq'[t] \in Int
    BY <1>2
  <2> QED
    BY <2>1, LeafOfSymbol DEF Tally, LeafOf
<1> HIDE DEF v, F, G
<1>4. \A k \in 0 .. Leaves - 1 : k # v => LeafOf(k) # s /\ LeafOf(k) \in Storage
  BY <1>1, LeafOfSymbol
<1>5. \A k \in 0 .. Leaves - 1 : k # v => G[k] = F[k]
  BY <1>2, <1>3, <1>4
<1>6. G[v] = w /\ F[v] = freq[s]
  BY <1>1, <1>2, <1>3
<1>7. SumOver(G, Leaves, 0, Leaves - 1) = SumOver(F, Leaves, 0, Leaves - 1) + (G[v] - F[v])
  <2>1. Leaves \in Nat /\ 0 \in 0 .. Leaves /\ Leaves - 1 \in -1 .. Leaves - 1
    BY LeafOfSymbol
  <2>2. /\ v \in 0 .. Leaves - 1
        /\ F \in [0 .. Leaves - 1 -> Int] /\ G \in [0 .. Leaves - 1 -> Int]
        /\ \A k \in 0 .. Leaves - 1 : k # v => G[k] = F[k]
    BY <1>1, <1>3, <1>5
  <2> QED
    BY <2>1, <2>2, SumEdit
<1> QED
  BY <1>6, <1>7 DEF SymbolTotal, F, G

(* ... and with no other.                                                  *)
LEMMA SymbolTotalKept ==
  ASSUME TypeOK, \A s \in LeafSet : freq'[s] = freq[s]
  PROVE  SymbolTotal' = SymbolTotal
<1>1. Tally' = Tally
  BY LeafOfSymbol DEF Tally, LeafOf
<1> QED
  BY <1>1 DEF SymbolTotal

(* The steps that only look: the tree, its node and what was counted stay. *)
LEMMA SameTree ==
  ASSUME TypeOK, UNCHANGED treeVars
  PROVE  /\ Shape' = Shape /\ Ordered' = Ordered /\ Linked' = Linked /\ Positive' = Positive
         /\ LeafTotal(0)' = LeafTotal(0) /\ SymbolTotal' = SymbolTotal /\ Root' = Root /\ freq' = freq
         /\ \A u : SummedBut(u)' = SummedBut(u) /\ SortedBut(u)' = SortedBut(u)
<1>1. /\ parent' = parent /\ leftchild' = leftchild /\ rightchild' = rightchild /\ freq' = freq
      /\ nodes' = nodes /\ index' = index
  BY DEF treeVars
<1>2. LeafWeights' = LeafWeights /\ Root' = Root
  BY <1>1 DEF LeafWeights, Root
<1>3. LeafTotal(0)' = LeafTotal(0) /\ SymbolTotal' = SymbolTotal
  BY <1>1, <1>2 DEF LeafTotal, SymbolTotal, Tally
<1>4. Shape' = Shape /\ Ordered' = Ordered /\ Linked' = Linked /\ Positive' = Positive
  BY <1>1, <1>2 DEF Shape, Ordered, Linked, Positive
<1>5. \A u : SummedBut(u)' = SummedBut(u) /\ SortedBut(u)' = SortedBut(u)
  BY <1>1 DEF SummedBut, SortedBut
<1> QED
  BY <1>1, <1>2, <1>3, <1>4, <1>5

(* Counting the root ends the climb with the tree summed and sorted.       *)
LEMMA CountRootKeeps ==
  ASSUME TypeOK, Shape, TreeInv, CountRoot
  PROVE  TreeInv'
<1>1. /\ pc = "climb" /\ pc' = "ready" /\ node' = 0 /\ parent[node] = Null
      /\ parent' = parent /\ leftchild' = leftchild /\ rightchild' = rightchild
      /\ nodes' = nodes /\ index' = index
      /\ freq' = [freq EXCEPT ![node] = @ + 1]
  BY DEF CountRoot
<1>2. /\ Ordered /\ Linked /\ Positive /\ SummedBut(node) /\ SortedBut(Null)
      /\ freq[Root] < Limit /\ LeafTotal(0) = IF Counted THEN freq[Root] + 1 ELSE freq[Root]
      /\ LeafTotal(0) = SymbolTotal
  BY <1>1 DEF TreeInv, Grown, Uncounted
<1>3. Root \in Branches /\ Root \in Storage /\ index[Root] = 0
  BY <1>2, RootFacts
<1>4. node \in Storage /\ node = Root
  <2>1. node \in Storage
    BY DEF TypeOK
  <2>2. node # Root => parent[node] # Null
    BY <1>2, <2>1, StorageFacts DEF Linked
  <2> QED
    BY <1>1, <2>1, <2>2
<1>5. /\ freq' \in [Storage -> Nat] /\ Root' = Root
      /\ freq'[Root] = freq[Root] + 1
      /\ \A s \in Storage : s # Root => freq'[s] = freq[s]
  <2>1. freq \in [Storage -> Nat]
    BY DEF TypeOK
  <2>2. freq[node] + 1 \in Nat
    BY <1>4, <2>1
  <2>3. freq' \in [Storage -> Nat] /\ DOMAIN freq = Storage
    BY <1>1, <2>1, <2>2
  <2> QED
    BY <1>1, <1>3, <1>4, <2>3 DEF Root
<1>6. Ordered' /\ Linked' /\ Shape'
  BY <1>1, <1>2, <1>5 DEF Ordered, Linked, Root, Shape
<1>7. Positive'
  <2> SUFFICES ASSUME NEW s \in Storage PROVE freq'[s] > 0
    BY DEF Positive
  <2>1. freq[s] \in Nat /\ freq[s] > 0
    BY <1>2 DEF Positive, TypeOK
  <2> QED
    BY <1>5, <2>1
<1>8. SummedBut(Null)'
  <2> SUFFICES ASSUME NEW b \in Branches
               PROVE  freq'[leftchild[b]] + freq'[rightchild[b]] = freq'[b]
    BY <1>1, StorageFacts DEF SummedBut
  <2>1. leftchild[b] \in Storage /\ rightchild[b] \in Storage /\ b \in Storage
    BY StorageFacts DEF Shape
  <2>2. leftchild[b] # Root /\ rightchild[b] # Root
    BY <1>2, StorageFacts DEF Linked
  <2>3. freq[leftchild[b]] + freq[rightchild[b]] = IF b = node THEN freq[b] + 1 ELSE freq[b]
    BY <1>2 DEF SummedBut
  <2> QED
    BY <1>4, <1>5, <2>1, <2>2, <2>3
<1>9. SortedBut(Null)'
  <2> SUFFICES ASSUME NEW p \in Storage, NEW q \in Storage, p < q
               PROVE  freq'[nodes[p]] >= freq'[nodes[q]]
    BY <1>1 DEF SortedBut
  <2>1. /\ nodes[p] \in Storage /\ nodes[q] \in Storage
        /\ index[nodes[p]] = p /\ index[nodes[q]] = q
    BY <1>2 DEF TypeOK, Ordered
  <2>2. nodes[q] # Root
    BY <1>3, <2>1, StorageFacts
  <2>3. freq[nodes[p]] >= freq[nodes[q]]
    BY <1>2, <2>1, StorageFacts DEF SortedBut
  <2>4. freq[nodes[p]] \in Nat /\ freq[nodes[q]] \in Nat
    BY <2>1 DEF TypeOK
  <2>5. freq'[nodes[q]] = freq[nodes[q]]
    BY <1>5, <2>1, <2>2
  <2>6. freq'[nodes[p]] = freq[nodes[p]] \/ freq'[nodes[p]] = freq[nodes[p]] + 1
    BY <1>5, <2>1
  <2> QED
    BY <2>3, <2>4, <2>5, <2>6
<1>10. LeafTotal(0)' = freq'[Root'] /\ LeafTotal(0)' = SymbolTotal'
  <2>1. LeafWeights' = LeafWeights
    BY <1>1, <1>3, <1>5 DEF LeafWeights, TypeOK
  <2>2. LeafTotal(0)' = LeafTotal(0)
    BY <2>1 DEF LeafTotal
  <2>3. Counted
    BY <1>1, <1>3, <1>4 DEF Counted
  <2>4. \A s \in LeafSet : freq'[s] = freq[s]
    BY <1>3, <1>5 DEF LeafSet
  <2>5. SymbolTotal' = SymbolTotal
    BY <2>4, SymbolTotalKept
  <2> QED
    BY <1>2, <1>5, <2>2, <2>3, <2>5
<1>11. freq'[Root'] <= Limit
  BY <1>2, <1>3, <1>5 DEF TypeOK
<1> QED
  BY <1>1, <1>6, <1>7, <1>8, <1>9, <1>10, <1>11 DEF TreeInv, Uncounted, Counted, Grown

(* What the leaves weigh is a number.                                      *)
LEMMA LeafTotalType == ASSUME TypeOK PROVE LeafTotal(0) \in Int
<1>1. /\ NumNodes \in Nat /\ 0 \in 0 .. NumNodes /\ NumNodes - 1 \in -1 .. NumNodes - 1
  BY StorageFacts
<1>2. LeafWeights \in [0 .. NumNodes - 1 -> Int]
  BY LeafWeightsType
<1> QED
  BY <1>1, <1>2, SumType DEF LeafTotal

(* Counting a leaf adds one to what the leaves weigh, counting a branch    *)
(* nothing.                                                                *)
LEMMA LeafTotalOfCounted ==
  ASSUME TypeOK, Ordered, nodes' = nodes, NEW s \in Storage,
         freq' = [freq EXCEPT ![s] = @ + 1]
  PROVE  LeafTotal(0)' = IF s \in Branches THEN LeafTotal(0) ELSE LeafTotal(0) + 1
<1> DEFINE p == index[s]
<1> DEFINE m == NumNodes
<1> DEFINE F == LeafWeights
<1> DEFINE G == LeafWeights'
<1>1. p \in Storage /\ nodes[p] = s /\ \A r \in Storage : nodes[r] = s => r = p
  BY DEF TypeOK, Ordered
<1>2. \A r \in Storage : nodes[r] \in Storage /\ freq[nodes[r]] \in Nat
  BY DEF TypeOK
<1>3. \A t \in Storage : freq'[t] \in Nat /\ freq'[t] = IF t = s THEN freq[t] + 1 ELSE freq[t]
  BY DEF TypeOK
<1>4. \A r \in Storage : G[r] = IF nodes[r] \in Branches THEN 0 ELSE freq'[nodes[r]]
  BY DEF LeafWeights
<1>5. \A r \in Storage : F[r] = IF nodes[r] \in Branches THEN 0 ELSE freq[nodes[r]]
  BY DEF LeafWeights
<1>6. G \in [Storage -> Int] /\ F \in [Storage -> Int]
  BY <1>2, <1>3 DEF LeafWeights
<1> HIDE DEF p, F, G
<1>7. \A r \in Storage : r # p => G[r] = F[r]
  BY <1>1, <1>2, <1>3, <1>4, <1>5
<1>8. G[p] - F[p] = IF s \in Branches THEN 0 ELSE 1
  BY <1>1, <1>2, <1>3, <1>4, <1>5
<1>9. SumOver(G, m, 0, m - 1) = SumOver(F, m, 0, m - 1) + (G[p] - F[p])
  <2>1. Storage = 0 .. m - 1 /\ m \in Nat
    BY StorageFacts
  <2>2. 0 \in 0 .. m /\ m - 1 \in -1 .. m - 1 /\ p \in 0 .. m - 1
    BY <1>1, <2>1
  <2> QED
    BY <1>6, <1>7, <2>1, <2>2, SumEdit
<1>10. LeafTotal(0)' = LeafTotal(0) + (G[p] - F[p])
  BY <1>9 DEF LeafTotal, F, G
<1> QED
  BY <1>8, <1>10, LeafTotalType

(* Counting a node makes its parent the one that is yet to be counted,     *)
(* and the node the one that may be out of order.                          *)
LEMMA CountNodeKeeps ==
  ASSUME TypeOK, Shape, TreeInv, CountNode
  PROVE  TreeInv'
<1>1. /\ pc = "climb" /\ pc' = "seek" /\ node' = node /\ parent[node] # Null
      /\ parent' = parent /\ leftchild' = leftchild /\ rightchild' = rightchild
      /\ nodes' = nodes /\ index' = index /\ q_index' = index[node]
      /\ freq' = [freq EXCEPT ![node] = @ + 1]
  BY DEF CountNode
<1>2. /\ Ordered /\ Linked /\ Positive /\ SummedBut(node) /\ SortedBut(Null)
      /\ freq[Root] < Limit /\ LeafTotal(0) = IF Counted THEN freq[Root] + 1 ELSE freq[Root]
      /\ LeafTotal(0) = SymbolTotal
  BY <1>1 DEF TreeInv, Grown, Uncounted
<1>3. Root \in Branches /\ Root \in Storage /\ index[Root] = 0
  BY <1>2, RootFacts
<1>4. node \in Storage /\ node # Root
  BY <1>1, <1>2 DEF TypeOK, Linked
<1>5. /\ Root' = Root
      /\ \A s \in Storage : freq[s] \in Nat /\ freq'[s] = IF s = node THEN freq[s] + 1 ELSE freq[s]
  BY <1>1 DEF TypeOK, Root
<1>6. /\ parent[node] \in Branches /\ parent[node] \in Storage
      /\ index[parent[node]] < index[node] /\ parent[node] # node
  BY <1>2, <1>4, Parents
<1>7. Ordered' /\ Linked' /\ Shape'
  BY <1>1, <1>2, <1>5 DEF Ordered, Linked, Root, Shape
<1>8. Positive'
  BY <1>2, <1>5 DEF Positive
<1>9. SummedBut(parent[node])'
  <2> SUFFICES ASSUME NEW b \in Branches
               PROVE  freq'[leftchild[b]] + freq'[rightchild[b]] =
                        IF b = parent[node] THEN freq'[b] + 1 ELSE freq'[b]
    BY <1>1 DEF SummedBut
  <2>1. leftchild[b] \in Storage /\ rightchild[b] \in Storage /\ b \in Storage
    BY StorageFacts DEF Shape
  <2>2. leftchild[b] # rightchild[b] /\ parent[leftchild[b]] = b /\ parent[rightchild[b]] = b
    BY <1>2 DEF Linked
  <2>3. freq[leftchild[b]] + freq[rightchild[b]] = IF b = node THEN freq[b] + 1 ELSE freq[b]
    BY <1>2 DEF SummedBut
  <2>4. CASE b = node
    <3>1. leftchild[b] # node /\ rightchild[b] # node
      BY <1>6, <2>2, <2>4
    <3> QED
      BY <1>5, <1>6, <2>1, <2>3, <2>4, <3>1
  <2>5. CASE b = parent[node]
    <3>1. leftchild[b] = node \/ rightchild[b] = node
      BY <1>2, <1>4, <2>5 DEF Linked
    <3> QED
      BY <1>5, <1>6, <2>1, <2>2, <2>3, <2>5, <3>1
  <2>6. CASE b # node /\ b # parent[node]
    <3>1. leftchild[b] # node /\ rightchild[b] # node
      BY <2>2, <2>6
    <3> QED
      BY <1>5, <2>1, <2>3, <2>6, <3>1
  <2> QED
    BY <2>4, <2>5, <2>6
<1>10. \A p, q \in Storage : p < q => freq[nodes[p]] >= freq[nodes[q]]
  <2>1. \A s \in Storage : nodes[s] \in Storage /\ nodes[s] # Null
    BY StorageFacts DEF TypeOK
  <2> QED
    BY <1>2, <2>1 DEF SortedBut
<1>11. \A p \in Storage : nodes[p] \in Storage /\ index[nodes[p]] = p
  BY <1>2 DEF TypeOK, Ordered
<1>12. SortedBut(node)'
  <2> SUFFICES ASSUME NEW p \in Storage, NEW q \in Storage, p < q, nodes[q] # node
               PROVE  freq'[nodes[p]] >= freq'[nodes[q]]
    BY <1>1 DEF SortedBut
  <2>1. freq'[nodes[q]] = freq[nodes[q]] /\ freq[nodes[q]] \in Nat
    BY <1>5, <1>11
  <2>2. freq[nodes[p]] \in Nat /\ freq[nodes[p]] >= freq[nodes[q]]
    BY <1>5, <1>10, <1>11
  <2>3. freq'[nodes[p]] = freq[nodes[p]] \/ freq'[nodes[p]] = freq[nodes[p]] + 1
    BY <1>5, <1>11
  <2> QED
    BY <2>1, <2>2, <2>3
<1>13. Seeking'
  <2>1. index[node] \in Storage /\ nodes[index[node]] = node
    BY <1>2, <1>4 DEF TypeOK, Ordered
  <2>2. ASSUME NEW p \in Storage, p < index[node]
        PROVE  freq'[nodes[p]] >= freq'[node] - 1
    <3>1. nodes[p] # node
      BY <1>11, <2>1, <2>2, StorageFacts
    <3>2. freq[nodes[p]] >= freq[node]
      BY <1>10, <2>1, <2>2
    <3> QED
      BY <1>4, <1>5, <1>11, <3>1, <3>2
  <2>3. ~ \E p \in Storage : index[node] <= p /\ p < index[node]
    BY <2>1, StorageFacts
  <2>4. index[node] <= index[node]
    BY <2>1, StorageFacts
  <2> QED
    BY <1>1, <1>4, <1>5, <2>2, <2>3, <2>4 DEF Seeking
<1>14. LeafTotal(0)' = freq'[Root'] + 1 /\ LeafTotal(0)' = SymbolTotal'
  <2>1. LeafTotal(0)' = IF node \in Branches THEN LeafTotal(0) ELSE LeafTotal(0) + 1
    BY <1>1, <1>2, <1>4, LeafTotalOfCounted
  <2>2. LeafTotal(0) = IF node \in Branches THEN freq[Root] + 1 ELSE freq[Root]
    BY <1>1, <1>2 DEF Counted
  <2>3. SymbolTotal' = IF node \in Branches THEN SymbolTotal ELSE SymbolTotal + 1
    <3>1. CASE node \in Branches
      <4>1. \A s \in LeafSet : freq'[s] = freq[s]
        BY <1>5, <3>1 DEF LeafSet
      <4> QED
        BY <3>1, <4>1, SymbolTotalKept
    <3>2. CASE node \notin Branches
      <4>1. node \in LeafSet /\ freq[node] \in Nat /\ freq[node] + 1 \in Nat
        BY <1>4, <1>5, <3>2 DEF LeafSet
      <4>2. SymbolTotal' = SymbolTotal + ((freq[node] + 1) - freq[node])
        BY <1>1, <4>1, SymbolTotalEdited
      <4> QED
        BY <3>2, <4>1, <4>2, TallyType
    <3> QED
      BY <3>1, <3>2
  <2>4. LeafTotal(0)' = SymbolTotal'
    BY <1>2, <2>1, <2>3
  <2> QED
    BY <1>3, <1>4, <1>5, <2>1, <2>2, <2>4
<1>15. freq'[Root'] < Limit /\ freq'[Root'] <= Limit
  BY <1>2, <1>3, <1>4, <1>5
<1> QED
  BY <1>1, <1>7, <1>8, <1>9, <1>12, <1>13, <1>14, <1>15 DEF TreeInv, Uncounted, Counted, Grown

(* Passing a node that is lighter than the one just counted.               *)
LEMMA SeekKeeps ==
  ASSUME TypeOK, Shape, TreeInv, Seek
  PROVE  TreeInv'
<1>1. /\ pc = "seek" /\ pc' = "seek" /\ node' = node /\ q_index' = q_index - 1
      /\ q_index > 0 /\ freq[nodes[q_index - 1]] < freq[node]
      /\ UNCHANGED treeVars /\ parent' = parent /\ freq' = freq /\ nodes' = nodes /\ index' = index
  BY DEF Seek, LighterInFront, treeVars
<1>2. TreeInv /\ Seeking /\ Grown
  BY <1>1 DEF TreeInv, Grown
<1>3. /\ Root' = Root /\ \A p \in Storage : p \in Int
      /\ q_index \in Int /\ index[node] \in Int
  BY <1>1, StorageFacts DEF TypeOK, Root
<1>4. Seeking'
  <2>1. q_index - 1 <= index[node]
    BY <1>2, <1>3 DEF Seeking
  <2>2. ASSUME NEW p \in Storage, q_index - 1 <= p, p < index[node]
        PROVE  freq[nodes[p]] < freq[node]
    <3>1. p = q_index - 1 \/ q_index <= p
      BY <1>3, <2>2
    <3> QED
      BY <1>1, <1>2, <2>2, <3>1 DEF Seeking
  <2> QED
    BY <1>1, <1>2, <1>3, <2>1, <2>2 DEF Seeking
<1>5. Uncounted' = Uncounted /\ Counted' = Counted /\ Grown'
  BY <1>1 DEF Uncounted, Counted, Grown
<1> QED
  BY <1>1, <1>2, <1>4, <1>5, SameTree DEF TreeInv

(* In front of the counted node, past those that are lighter, none is.     *)
LEMMA NoneLighterInFront ==
  ASSUME TypeOK, Ordered, SortedBut(node), Seeking, ~LighterInFront,
         NEW p \in Storage, p < q_index
  PROVE  freq[nodes[p]] >= freq[node]
<1>1. /\ q_index \in Storage /\ q_index - 1 \in Storage /\ p \in Int /\ q_index \in Int
      /\ p <= q_index - 1 /\ q_index > 0 /\ q_index - 1 \in Int /\ index[node] \in Int
  BY StorageFacts DEF TypeOK
<1>2. /\ nodes[p] \in Storage /\ nodes[q_index - 1] \in Storage /\ node \in Storage
      /\ freq[nodes[p]] \in Nat /\ freq[nodes[q_index - 1]] \in Nat /\ freq[node] \in Nat
  BY <1>1 DEF TypeOK
<1>3. freq[nodes[q_index - 1]] >= freq[node]
  BY <1>1, <1>2 DEF LighterInFront
<1>4. nodes[q_index - 1] # node
  <2>1. index[nodes[q_index - 1]] = q_index - 1
    BY <1>1 DEF Ordered
  <2>2. q_index - 1 < index[node]
    BY <1>1 DEF Seeking
  <2> QED
    BY <1>1, <2>1, <2>2
<1>5. CASE p = q_index - 1
  BY <1>3, <1>5
<1>6. CASE p < q_index - 1
  <2>1. freq[nodes[p]] >= freq[nodes[q_index - 1]]
    BY <1>1, <1>4, <1>6 DEF SortedBut
  <2> QED
    BY <1>2, <1>3, <2>1
<1> QED
  BY <1>1, <1>5, <1>6

(* The node just counted is in order where it is: the climb goes on with   *)
(* its parent.                                                             *)
LEMMA StayInPlaceKeeps ==
  ASSUME TypeOK, Shape, TreeInv, StayInPlace
  PROVE  TreeInv'
<1>1. /\ pc = "seek" /\ pc' = "climb" /\ node' = parent[node] /\ ~LighterInFront
      /\ q_index = index[node] /\ UNCHANGED treeVars
  BY DEF StayInPlace, ClimbOn, treeVars
<1>2. /\ Ordered /\ Linked /\ Positive /\ SummedBut(parent[node]) /\ SortedBut(node)
      /\ freq[Root] < Limit /\ LeafTotal(0) = freq[Root] + 1 /\ LeafTotal(0) = SymbolTotal /\ Seeking
  BY <1>1 DEF TreeInv, Grown, Uncounted, Counted
<1>3. node \in Storage /\ node # Root
  BY <1>2 DEF TypeOK, Seeking
<1>4. parent[node] \in Branches /\ parent[node] \in Storage
  BY <1>2, <1>3, Parents
<1>5. SortedBut(Null)
  <2> SUFFICES ASSUME NEW p \in Storage, NEW q \in Storage, p < q, nodes[q] = node
               PROVE  freq[nodes[p]] >= freq[nodes[q]]
    BY <1>2 DEF SortedBut
  <2>1. index[node] = q
    BY <1>2 DEF Ordered
  <2> QED
    BY <1>1, <1>2, <2>1, NoneLighterInFront
<1>6. freq[Root] \in Int
  BY <1>2, RootFacts DEF TypeOK
<1> QED
  BY <1>1, <1>2, <1>4, <1>5, <1>6, SameTree DEF TreeInv, Uncounted, Counted, Grown

(* The nodes between the one that was counted and the place it goes to are *)
(* all one lighter than it, and so is the one it changes places with: that *)
(* one is neither above it in the tree nor are its children in between.    *)
LEMMA SwapPartner ==
  ASSUME TypeOK, Shape, Ordered, Linked, Positive, SummedBut(parent[node]), SortedBut(node), Seeking,
         q_index < index[node],
         NEW q, q = nodes[q_index]
  PROVE  /\ q \in Storage /\ q # node /\ q # Root /\ index[q] = q_index
         /\ freq[node] = freq[q] + 1
         /\ index[parent[q]] < q_index /\ index[parent[node]] < q_index
         /\ parent[q] \in Branches /\ parent[node] \in Branches
         /\ \A r \in Storage : q_index <= r /\ r < index[node] => freq[nodes[r]] = freq[q]
         /\ q \in Branches => index[leftchild[q]] > index[node] /\ index[rightchild[q]] > index[node]
<1>1. /\ node \in Storage /\ node # Root /\ index[node] \in Storage /\ nodes[index[node]] = node
      /\ q_index \in Storage /\ q \in Storage /\ index[q] = q_index
      /\ q_index \in Int /\ index[node] \in Int /\ q_index <= index[node]
  BY StorageFacts DEF TypeOK, Ordered, Seeking
<1>2. q # node
  BY <1>1
<1>3. freq[q] \in Nat /\ freq[node] \in Nat
  BY <1>1 DEF TypeOK
<1>4. freq[node] = freq[q] + 1
  <2>1. freq[q] >= freq[node] - 1 /\ freq[q] < freq[node]
    BY <1>1 DEF Seeking
  <2> QED
    BY <1>3, <2>1
<1>5. ASSUME NEW r \in Storage, q_index <= r, r < index[node] PROVE freq[nodes[r]] = freq[q]
  <2>1. freq[nodes[r]] >= freq[node] - 1 /\ freq[nodes[r]] < freq[node] /\ freq[nodes[r]] \in Nat
    BY <1>5 DEF Seeking, TypeOK
  <2> QED
    BY <1>3, <1>4, <2>1
<1> DEFINE a == parent[node]
<1>6. a \in Branches /\ a \in Storage /\ index[a] < index[node]
  BY <1>1, Parents
<1>7. freq[a] >= freq[node]
  <2>1. leftchild[a] \in Storage /\ rightchild[a] \in Storage
    BY <1>6 DEF Shape
  <2>2. leftchild[a] = node \/ rightchild[a] = node
    BY <1>1 DEF Linked
  <2>3. freq[leftchild[a]] + freq[rightchild[a]] = freq[a] + 1
    BY <1>6 DEF SummedBut
  <2>4. freq[leftchild[a]] > 0 /\ freq[rightchild[a]] > 0 /\ freq[a] \in Nat
        /\ freq[leftchild[a]] \in Nat /\ freq[rightchild[a]] \in Nat
    BY <1>6, <2>1 DEF Positive, TypeOK
  <2> QED
    BY <2>2, <2>3, <2>4
<1>8. index[a] < q_index
  <2>1. index[a] \in Storage /\ index[a] \in Int /\ nodes[index[a]] = a
    BY <1>6, StorageFacts DEF TypeOK, Ordered
  <2>2. ~(q_index <= index[a])
    BY <1>3, <1>4, <1>5, <1>6, <1>7, <2>1
  <2> QED
    BY <1>1, <2>1, <2>2
<1>9. q # Root
  <2>1. index[Root] = 0
    BY RootFacts
  <2>2. index[a] \in Storage
    BY <1>6 DEF TypeOK
  <2>3. index[a] >= 0 /\ index[a] \in Int
    BY <2>2, StorageFacts
  <2> HIDE DEF a
  <2> QED
    BY <1>1, <1>8, <2>1, <2>3
<1>10. parent[q] \in Branches /\ index[parent[q]] < q_index
  BY <1>1, <1>9, Parents
<1>11. ASSUME q \in Branches,
              NEW x, NEW y, \/ x = leftchild[q] /\ y = rightchild[q]
                            \/ x = rightchild[q] /\ y = leftchild[q]
       PROVE  index[x] > index[node]
  <2>0. q \in Storage /\ leftchild[q] \in Storage /\ rightchild[q] \in Storage
    BY <1>1, <1>11 DEF Shape
  <2>1. x \in Storage /\ y \in Storage /\ index[x] > index[q]
    BY <1>11, <2>0 DEF Linked
  <2>2. q # a
    BY <1>1, <1>8
  <2>3. freq[leftchild[q]] + freq[rightchild[q]] = freq[q]
    BY <1>11, <2>2 DEF SummedBut
  <2>4. freq[x] \in Nat /\ freq[y] \in Nat /\ freq[x] > 0 /\ freq[y] > 0
    BY <2>1 DEF TypeOK, Positive
  <2>5. freq[x] < freq[q]
    BY <1>3, <1>11, <2>3, <2>4
  <2>6. index[x] \in Storage /\ index[x] \in Int /\ nodes[index[x]] = x
    BY <2>1, StorageFacts DEF TypeOK, Ordered
  <2>7. ~(index[x] < index[node])
    BY <1>1, <1>3, <1>5, <2>1, <2>4, <2>5, <2>6
  <2>8. index[x] # index[node]
    BY <1>1, <1>3, <1>4, <2>4, <2>5, <2>6
  <2> QED
    BY <1>1, <2>6, <2>7, <2>8
<1>12. q \in Branches => index[leftchild[q]] > index[node] /\ index[rightchild[q]] > index[node]
  BY <1>11
<1> QED
  BY <1>1, <1>2, <1>4, <1>5, <1>6, <1>8, <1>9, <1>10, <1>12

(* What changes places.                                                    *)
Other(p, q, x) == IF x = p THEN q ELSE IF x = q THEN p ELSE x

(* The swap is an exchange of the two names, but for the children and the  *)
(* weights of the two nodes, which they keep.                              *)
LEMMA SwapExchanges ==
  ASSUME TypeOK, Shape, Ordered, Linked, Swap,
         NEW q, q = nodes[q_index], q \in Storage, q # node, node # Root, q # Root, index[q] = q_index
  PROVE  /\ \A b \in Storage : /\ leftchild'[b] = Other(node, q, leftchild[b])
                               /\ rightchild'[b] = Other(node, q, rightchild[b])
                               /\ parent'[b] = parent[Other(node, q, b)]
                               /\ index'[b] = index[Other(node, q, b)]
                               /\ nodes'[b] = Other(node, q, nodes[b])
         /\ nodes' \in [Storage -> Storage] /\ index' \in [Storage -> Storage]
         /\ parent' \in [Storage -> Link]
         /\ leftchild' \in [Storage -> Link] /\ rightchild' \in [Storage -> Link]
<1> DEFINE p == node
<1> DEFINE a == parent[p]
<1> DEFINE c == parent[q]
<1>1. /\ p \in Storage /\ a \in Branches /\ c \in Branches /\ a \in Storage /\ c \in Storage
      /\ a # Null /\ c # Null
  BY Parents, StorageFacts DEF TypeOK
<1>2. /\ leftchild' = Relink(leftchild, "left", p, q)
      /\ rightchild' = Relink(rightchild, "right", p, q)
      /\ parent' = [parent EXCEPT ![p] = parent[q], ![q] = parent[p]]
      /\ nodes' = [nodes EXCEPT ![index[p]] = q, ![q_index] = p]
      /\ index' = [index EXCEPT ![q] = index[p], ![p] = q_index]
  BY DEF Swap, Reparent, Reorder
<1>3. \A b \in Storage : parent'[b] = parent[Other(p, q, b)] /\ index'[b] = index[Other(p, q, b)]
  BY <1>1, <1>2 DEF TypeOK, Other
<1>4. \A b \in Storage : nodes'[b] = Other(p, q, nodes[b])
  <2>1. index[p] \in Storage /\ q_index \in Storage /\ nodes[index[p]] = p /\ nodes[q_index] = q
    BY <1>1 DEF TypeOK, Ordered
  <2>2. \A b \in Storage : (nodes[b] = p <=> b = index[p]) /\ (nodes[b] = q <=> b = q_index)
    BY <1>1, <2>1 DEF Ordered
  <2>3. nodes \in [Storage -> Storage]
    BY DEF TypeOK
  <2> QED
    BY <1>2, <2>1, <2>2, <2>3 DEF Other
<1>5. /\ (rightchild[a] = p) = ("left" = "right") <=> leftchild[a] = p
      /\ (rightchild[c] = q) = ("left" = "right") <=> leftchild[c] = q
      /\ \A b \in Storage : (leftchild[b] = p => b = a) /\ (leftchild[b] = q => b = c)
      /\ \A b \in Storage : (rightchild[b] = p => b = a) /\ (rightchild[b] = q => b = c)
      /\ (rightchild[a] = p) = ("right" = "right") <=> rightchild[a] = p
      /\ (rightchild[c] = q) = ("right" = "right") <=> rightchild[c] = q
  <2>1. ASSUME NEW s \in Storage, s # Root
        PROVE  /\ (rightchild[parent[s]] = s) = ("left" = "right") <=> leftchild[parent[s]] = s
               /\ (rightchild[parent[s]] = s) = ("right" = "right") <=> rightchild[parent[s]] = s
               /\ \A b \in Storage : (leftchild[b] = s => b = parent[s]) /\ (rightchild[b] = s => b = parent[s])
    <3>1. parent[s] \in Branches /\ (leftchild[parent[s]] = s \/ rightchild[parent[s]] = s)
      BY <2>1 DEF Linked
    <3>2. leftchild[parent[s]] # rightchild[parent[s]]
      BY <3>1 DEF Linked
    <3>3. ASSUME NEW b \in Storage, leftchild[b] = s \/ rightchild[b] = s PROVE b = parent[s]
      <4>1. b \in Branches
        BY <2>1, <3>3, StorageFacts DEF Shape
      <4> QED
        BY <3>3, <4>1 DEF Linked
    <3> QED
      BY <3>1, <3>2, <3>3
  <2> QED
    BY <1>1, <2>1
<1>6. \A b \in Storage : leftchild'[b] = Other(p, q, leftchild[b])
  <2>1. leftchild' = [leftchild EXCEPT ![a] = IF leftchild[a] = p THEN q ELSE @,
                                       ![c] = IF leftchild[c] = q THEN p ELSE @]
    BY <1>1, <1>2, <1>5 DEF Relink
  <2> QED
    BY <1>1, <1>5, <2>1 DEF Other, TypeOK
<1>7. \A b \in Storage : rightchild'[b] = Other(p, q, rightchild[b])
  <2>1. rightchild' = [rightchild EXCEPT ![a] = IF rightchild[a] = p THEN q ELSE @,
                                         ![c] = IF rightchild[c] = q THEN p ELSE @]
    BY <1>1, <1>2, <1>5 DEF Relink
  <2> QED
    BY <1>1, <1>5, <2>1 DEF Other, TypeOK
<1>8. /\ DOMAIN nodes' = Storage /\ DOMAIN index' = Storage /\ DOMAIN parent' = Storage
      /\ DOMAIN leftchild' = Storage /\ DOMAIN rightchild' = Storage
  BY <1>2 DEF TypeOK, Relink
<1>9. /\ nodes' \in [Storage -> Storage] /\ index' \in [Storage -> Storage]
      /\ parent' \in [Storage -> Link]
  BY <1>1, <1>2 DEF TypeOK, Link
<1>10. leftchild' \in [Storage -> Link] /\ rightchild' \in [Storage -> Link]
  <2>1. p \in Link /\ q \in Link
    BY <1>1 DEF Link
  <2>2. leftchild \in [Storage -> Link] /\ rightchild \in [Storage -> Link]
    BY DEF TypeOK
  <2>3. \A child \in [Storage -> Link], side \in {"left", "right"} :
          Relink(child, side, p, q) \in [Storage -> Link]
    BY <2>1 DEF Relink
  <2> QED
    BY <1>2, <2>2, <2>3
<1> QED
  BY <1>3, <1>4, <1>6, <1>7, <1>9, <1>10

(* The counted node and the first of those lighter by one change places,   *)
(* their subtrees with them: the tree is linked, summed and sorted again.  *)
LEMMA SwapKeeps ==
  ASSUME TypeOK, Shape, TreeInv, Swap
  PROVE  TreeInv' /\ Shape'
<1> DEFINE p == node
<1> DEFINE q == nodes[q_index]
<1> DEFINE T(x) == Other(p, q, x)
<1>1. /\ pc = "seek" /\ pc' = "climb" /\ node' = parent[q] /\ ~LighterInFront
      /\ q_index < index[p] /\ freq' = freq
  BY DEF Swap, ClimbOn
<1>2. /\ Ordered /\ Linked /\ Positive /\ SummedBut(parent[p]) /\ SortedBut(p)
      /\ freq[Root] < Limit /\ freq[Root] <= Limit /\ LeafTotal(0) = freq[Root] + 1
      /\ LeafTotal(0) = SymbolTotal /\ Seeking
  BY <1>1 DEF TreeInv, Grown, Uncounted, Counted
<1>3. /\ q \in Storage /\ q # p /\ q # Root /\ index[q] = q_index
      /\ freq[p] = freq[q] + 1
      /\ parent[q] \in Branches /\ parent[p] \in Branches
      /\ \A r \in Storage : q_index <= r /\ r < index[p] => freq[nodes[r]] = freq[q]
      /\ q \in Branches => index[leftchild[q]] > index[p] /\ index[rightchild[q]] > index[p]
  BY <1>1, <1>2, SwapPartner
<1>4. p \in Storage /\ p # Root
  BY <1>2 DEF TypeOK, Seeking
<1>5. /\ \A b \in Storage : /\ leftchild'[b] = T(leftchild[b])
                             /\ rightchild'[b] = T(rightchild[b])
                             /\ parent'[b] = parent[T(b)]
                             /\ index'[b] = index[T(b)]
                             /\ nodes'[b] = T(nodes[b])
  BY <1>2, <1>3, <1>4, SwapExchanges
<1>6. /\ \A x \in Storage : T(x) \in Storage /\ T(T(x)) = x
      /\ \A x : x # p /\ x # q => T(x) = x
      /\ T(p) = q /\ T(q) = p
  BY <1>3, <1>4 DEF Other
<1>7. Root' = Root /\ Root \in Storage /\ Root \in Branches
  <2>1. Root' = T(Root)
    BY <1>5, StorageFacts DEF Root
  <2> QED
    BY <1>2, <1>3, <1>4, <1>6, <2>1, RootFacts
<1>8. \A s \in Storage : nodes[s] \in Storage /\ index[s] \in Storage /\ freq[s] \in Nat
  BY DEF TypeOK
<1>9. \A b \in Branches : b \in Storage /\ leftchild[b] \in Storage /\ rightchild[b] \in Storage
  BY StorageFacts DEF Shape
<1> HIDE DEF T, p, q
<1>10. Ordered'
  <2> SUFFICES ASSUME NEW s \in Storage PROVE nodes'[index'[s]] = s /\ index'[nodes'[s]] = s
    BY DEF Ordered
  <2>1. nodes'[index'[s]] = T(nodes[index[T(s)]])
    BY <1>5, <1>6, <1>8
  <2>2. index'[nodes'[s]] = index[T(T(nodes[s]))]
    BY <1>5, <1>6, <1>8
  <2> QED
    BY <1>2, <1>6, <1>8, <2>1, <2>2 DEF Ordered
<1>11. ASSUME NEW b \in Branches, NEW x \in Storage, x = leftchild[b] \/ x = rightchild[b]
       PROVE  parent'[T(x)] = b /\ index'[T(x)] > index'[b]
  <2>1. parent'[T(x)] = parent[x] /\ index'[T(x)] = index[x] /\ index'[b] = index[T(b)]
    BY <1>5, <1>6, <1>9
  <2>2. parent[x] = b /\ index[x] > index[b]
    BY <1>2, <1>11 DEF Linked
  <2>3. index[x] \in Int /\ index[b] \in Int /\ index[T(b)] \in Int /\ index[p] \in Int /\ index[q] \in Int
    BY <1>3, <1>4, <1>6, <1>8, <1>9, StorageFacts
  <2>4. index[x] > index[T(b)]
    <3>1. CASE b = p
      BY <1>1, <1>3, <1>6, <2>2, <2>3, <3>1
    <3>2. CASE b = q
      BY <1>3, <1>6, <1>11, <3>2
    <3>3. CASE b # p /\ b # q
      BY <1>6, <2>2, <3>3
    <3> QED
      BY <3>1, <3>2, <3>3
  <2> QED
    BY <2>1, <2>2, <2>4
<1>12. Linked'
  <2>1. ASSUME NEW b \in Branches
        PROVE  /\ leftchild'[b] # rightchild'[b]
               /\ parent'[leftchild'[b]] = b /\ index'[leftchild'[b]] > index'[b]
               /\ parent'[rightchild'[b]] = b /\ index'[rightchild'[b]] > index'[b]
    <3>1. leftchild'[b] = T(leftchild[b]) /\ rightchild'[b] = T(rightchild[b])
      BY <1>5, <1>9
    <3>2. leftchild[b] # rightchild[b]
      BY <1>2 DEF Linked
    <3>3. T(leftchild[b]) # T(rightchild[b])
      BY <1>6, <1>9, <3>2
    <3> QED
      BY <1>9, <1>11, <3>1, <3>3
  <2>2. ASSUME NEW s \in Storage, s # Root
        PROVE  /\ parent'[s] \in Branches
               /\ s = leftchild'[parent'[s]] \/ s = rightchild'[parent'[s]]
    <3>1. T(s) \in Storage /\ T(s) # Root /\ parent'[s] = parent[T(s)]
      <4>1. T(s) \in Storage /\ parent'[s] = parent[T(s)]
        BY <1>5, <1>6
      <4>2. T(s) # Root
        BY <1>3, <1>4, <1>6, <2>2
      <4> QED
        BY <4>1, <4>2
    <3>2. /\ parent[T(s)] \in Branches
          /\ T(s) = leftchild[parent[T(s)]] \/ T(s) = rightchild[parent[T(s)]]
      BY <1>2, <3>1 DEF Linked
    <3>3. /\ leftchild'[parent'[s]] = T(leftchild[parent[T(s)]])
          /\ rightchild'[parent'[s]] = T(rightchild[parent[T(s)]])
      BY <1>5, <1>9, <3>1, <3>2
    <3> QED
      BY <1>6, <3>1, <3>2, <3>3
  <2>3. parent'[Root'] = Null
    <3>1. T(Root) = Root /\ parent[Root] = Null
      BY <1>2, <1>3, <1>4, <1>6 DEF Linked
    <3> QED
      BY <1>5, <1>7, <3>1
  <2> QED
    BY <1>7, <2>1, <2>2, <2>3 DEF Linked
<1>13. Shape'
  <2>1. T(Null) = Null
    BY <1>3, <1>4, <1>6, StorageFacts
  <2>2. ASSUME NEW s \in Storage
        PROVE  IF s \in Branches THEN leftchild'[s] \in Storage /\ rightchild'[s] \in Storage
                                  ELSE leftchild'[s] = Null /\ rightchild'[s] = Null
    <3>1. leftchild'[s] = T(leftchild[s]) /\ rightchild'[s] = T(rightchild[s])
      BY <1>5
    <3>2. CASE s \in Branches
      BY <1>6, <1>9, <3>1, <3>2
    <3>3. CASE s \notin Branches
      <4>1. leftchild[s] = Null /\ rightchild[s] = Null
        BY <3>3 DEF Shape
      <4> QED
        BY <2>1, <3>1, <3>3, <4>1
    <3> QED
      BY <3>2, <3>3
  <2> QED
    BY <2>2 DEF Shape
<1>14. Positive'
  BY <1>1, <1>2 DEF Positive
<1>15. SummedBut(Uncounted)'
  <2> SUFFICES ASSUME NEW b \in Branches
               PROVE  freq[leftchild'[b]] + freq[rightchild'[b]] =
                        IF b = parent[q] THEN freq[b] + 1 ELSE freq[b]
    BY <1>1 DEF SummedBut, Uncounted
  <2> DEFINE x == leftchild[b]
  <2> DEFINE y == rightchild[b]
  <2>1. leftchild'[b] = T(x) /\ rightchild'[b] = T(y) /\ x \in Storage /\ y \in Storage /\ x # y
    BY <1>2, <1>5, <1>9 DEF Linked
  <2>2. freq[x] + freq[y] = IF b = parent[p] THEN freq[b] + 1 ELSE freq[b]
    BY <1>2 DEF SummedBut
  <2>3. \A s \in {p, q} : (s = x \/ s = y) <=> b = parent[s]
    <3>1. parent[x] = b /\ parent[y] = b
      BY <1>2 DEF Linked
    <3>2. \A s \in {p, q} : s = leftchild[parent[s]] \/ s = rightchild[parent[s]]
      BY <1>2, <1>3, <1>4 DEF Linked
    <3> QED
      BY <3>1, <3>2
  <2>4. freq[x] \in Nat /\ freq[y] \in Nat /\ freq[b] \in Nat /\ freq[p] \in Nat /\ freq[q] \in Nat
    BY <1>3, <1>4, <1>8, <1>9, <2>1
  <2> HIDE DEF x, y
  <2>5. \A s \in {x, y} : freq[T(s)] = IF s = p THEN freq[s] - 1 ELSE IF s = q THEN freq[s] + 1 ELSE freq[s]
    BY <1>3, <1>6, <2>4
  <2> QED
    BY <1>3, <2>1, <2>2, <2>3, <2>4, <2>5
<1> DEFINE W(r) == freq[nodes[r]]
<1>16. /\ q_index \in Storage /\ index[p] \in Storage /\ nodes[q_index] = q /\ nodes[index[p]] = p
       /\ \A r \in Storage : (nodes[r] = p => r = index[p]) /\ (nodes[r] = q => r = q_index)
  <2>1. nodes[q_index] = q
    BY DEF q
  <2>2. q_index \in Storage /\ index[p] \in Storage
    BY <1>4 DEF TypeOK
  <2> QED
    BY <1>2, <1>3, <1>4, <2>1, <2>2 DEF Ordered
<1>17. \A r \in Storage : /\ nodes'[r] = T(nodes[r])
                           /\ freq[nodes'[r]] = IF r = q_index THEN W(q_index) + 1
                                                ELSE IF r = index[p] THEN W(index[p]) - 1 ELSE W(r)
  <2>1. freq[p] \in Nat /\ freq[q] \in Nat
    BY <1>3, <1>4, <1>8
  <2> QED
    BY <1>3, <1>5, <1>6, <1>16, <2>1
<1>18. SortedBut(Null)'
  <2> SUFFICES ASSUME NEW t \in Storage, NEW r \in Storage, t < r
               PROVE  freq[nodes'[t]] >= freq[nodes'[r]]
    BY <1>1 DEF SortedBut
  <2>1. /\ W(t) \in Nat /\ W(r) \in Nat /\ W(q_index) \in Nat /\ W(index[p]) = W(q_index) + 1
        /\ t \in Nat /\ r \in Nat /\ q_index \in Nat /\ index[p] \in Nat
    BY <1>3, <1>8, <1>16, StorageFacts DEF Storage
  <2>2. \A u, v \in Storage : u < v /\ v # index[p] => W(u) >= W(v)
    BY <1>2, <1>16 DEF SortedBut
  <2>3. \A u \in Storage : u < q_index => W(u) >= W(q_index) + 1
    <3> SUFFICES ASSUME NEW u \in Storage, u < q_index PROVE W(u) >= freq[p]
      BY <1>3, <1>16
    <3> QED
      BY <1>1, <1>2, NoneLighterInFront DEF p
  <2>4. \A u \in Storage : q_index <= u /\ u < index[p] => W(u) = W(q_index)
    BY <1>3, <1>16
  <2> HIDE DEF W
  <2>5. CASE r = q_index
    BY <1>1, <1>16, <1>17, <2>1, <2>3, <2>5
  <2>6. CASE r = index[p]
    BY <1>1, <1>16, <1>17, <2>1, <2>3, <2>4, <2>6
  <2>7. CASE r # q_index /\ r # index[p]
    BY <1>1, <1>16, <1>17, <2>1, <2>2, <2>7
  <2> QED
    BY <2>5, <2>6, <2>7
<1>19. SymbolTotal' = SymbolTotal
  BY <1>1, SymbolTotalKept
<1>20. LeafTotal(0)' = LeafTotal(0)
  <2> DEFINE F == LeafWeights
  <2> DEFINE G == LeafWeights'
  <2>1. \A r \in Storage : G[r] = IF T(nodes[r]) \in Branches THEN 0 ELSE freq[T(nodes[r])]
    BY <1>1, <1>5 DEF LeafWeights
  <2>2. \A r \in Storage : F[r] = IF nodes[r] \in Branches THEN 0 ELSE freq[nodes[r]]
    BY DEF LeafWeights
  <2>3. F \in [0 .. NumNodes - 1 -> Int]
    BY LeafWeightsType
  <2>4. G \in [0 .. NumNodes - 1 -> Int]
    <3>1. \A r \in Storage : nodes'[r] \in Storage /\ freq[nodes'[r]] \in Int
      BY <1>5, <1>6, <1>8
    <3> QED
      BY <1>1, <3>1, StorageFacts DEF LeafWeights
  <2> HIDE DEF F, G
  <2>5. G[q_index] = F[index[p]] /\ G[index[p]] = F[q_index] /\ q_index # index[p]
    <3>1. q_index # index[p]
      BY <1>3, <1>16
    <3> QED
      BY <1>6, <1>16, <2>1, <2>2, <3>1
  <2>6. \A r \in Storage : r # q_index /\ r # index[p] => G[r] = F[r]
    BY <1>6, <1>16, <2>1, <2>2
  <2>7. SumOver(G, NumNodes, 0, NumNodes - 1) = SumOver(F, NumNodes, 0, NumNodes - 1)
    <3>1. /\ NumNodes \in Nat /\ 0 \in 0 .. NumNodes /\ NumNodes - 1 \in -1 .. NumNodes - 1
          /\ q_index \in 0 .. NumNodes - 1 /\ index[p] \in 0 .. NumNodes - 1
          /\ Storage = 0 .. NumNodes - 1
      BY <1>16, StorageFacts
    <3> QED
      BY <2>3, <2>4, <2>5, <2>6, <3>1, SumExchange
  <2> QED
    BY <2>7 DEF LeafTotal, F, G
<1> QED
  <2>1. parent[q] \in Branches /\ Counted' /\ Grown'
    BY <1>1, <1>3 DEF Counted, Grown, q
  <2> QED
    BY <1>1, <1>2, <1>7, <1>10, <1>12, <1>13, <1>14, <1>15, <1>18, <1>19, <1>20, <2>1 DEF TreeInv

-----------------------------------------------------------------------------
(* In one of the loops that merge leaves and branches.                     *)
Rebuilding == pc \in {"outer", "pair", "merge"}

(* The types of the counters of the rebuild.                               *)
Counters ==
  /\ leaf_index \in -1 .. Leaves - 1
  /\ branch_index \in -1 .. Leaves - 2
  /\ node_index \in Int
  /\ pair_index \in Int

(* The counting argument: each turn takes a leaf or a branch for each      *)
(* position, so that what is left to place is what is left to fill.        *)
CountersInv ==
  /\ pc \in {"outer", "pair", "merge"} => Counters
  /\ pc \in {"outer", "pair"} =>
       /\ node_index = leaf_index + branch_index + 1
       /\ pair_index = 2 * branch_index + 1
       /\ leaf_index <= branch_index + 1
  /\ pc = "outer" => branch_index >= 0 \/ leaf_index = -1
  /\ pc = "pair" => branch_index >= 0
  /\ pc = "merge" =>
       /\ node_index = leaf_index + branch_index + 2
       /\ pair_index = 2 * branch_index + 3
       /\ leaf_index <= branch_index
       /\ branch = branch_index + 1
       /\ branch \in Branches

(* What the locals are outside the loops, and which node is being counted. *)
NodeInv ==
  /\ pc = "stopped" => FALSE
  /\ pc = "collect" \/ Rebuilding => node \in LeafSet
  /\ Grown => i = 0 /\ n = 0

(* The positions the merge has filled.                                     *)
Filled == node_index + 1 .. NumNodes - 1

(* The nodes it has filled them with.                                      *)
Placed ==
  {leaves[k] : k \in leaf_index + 1 .. Leaves - 1}
    \cup {b \in Branches : b > branch_index /\ (pc = "merge" => b # branch)}

(* The leaves were all taken, each once, in the order of their weights.    *)
Collected ==
  /\ \A k \in 0 .. Leaves - 1 : leaves[k] \in LeafSet
  /\ \A k, l \in 0 .. Leaves - 1 : k < l => leaves[k] # leaves[l] /\ freq[leaves[k]] >= freq[leaves[l]]
  /\ \A s \in LeafSet : freq[s] > 0 /\ \E k \in 0 .. Leaves - 1 : leaves[k] = s

(* The filled positions and the placed nodes are each other's inverse.     *)
Placing ==
  /\ \A p \in Filled : nodes[p] \in Placed /\ index[nodes[p]] = p
  /\ \A s \in Placed : index[s] \in Filled /\ nodes[index[s]] = s

(* Branch b has the pair of positions 2b + 1 and 2b + 2 as its children.   *)
Made(b) ==
  /\ leftchild[b] = nodes[2 * b + 1] /\ parent[nodes[2 * b + 1]] = b
  /\ rightchild[b] = nodes[2 * b + 2] /\ parent[nodes[2 * b + 2]] = b
  /\ freq[b] = freq[nodes[2 * b + 1]] + freq[nodes[2 * b + 2]]
  /\ freq[b] > 0

(* The branches down to the current one are made, and those placed are in  *)
(* front of their pairs.                                                   *)
Making ==
  \A b \in Branches : b > branch_index =>
    /\ node_index < 2 * b + 1
    /\ Made(b)
    /\ (pc = "merge" => b # branch) => index[b] < 2 * b + 1

(* The filled positions are in order, and no node that waits weighs less   *)
(* than one that is placed.                                                *)
Weighing ==
  /\ \A p, q \in Filled : p < q => freq[nodes[p]] >= freq[nodes[q]]
  /\ \A k \in 0 .. leaf_index, p \in Filled : freq[leaves[k]] >= freq[nodes[p]]
  /\ pc = "merge" => \A p \in Filled : freq[nodes[p]] <= freq[branch]
  /\ pc # "merge" =>
       \A p \in Filled : p < pair_index =>
         freq[nodes[p]] <= freq[nodes[pair_index]] + freq[nodes[pair_index + 1]]

(* Weights by position, weights of the leaves in the order taken, what of  *)
(* these waits, and what all leaves weigh.                                 *)
Weights == [p \in Storage |-> freq[nodes[p]]]
Taken == [k \in 0 .. Leaves - 1 |-> freq[leaves[k]]]
TakenTotal(to) == SumOver(Taken, Leaves, 0, to)
AllTotal == TakenTotal(leaf_index) + LeafTotal(node_index + 1)

(* While a branch is made and not placed: what it weighs beyond its pair,  *)
(* which is nothing.                                                       *)
Lone ==
  IF pc = "merge" THEN freq[branch] - (freq[nodes[pair_index]] + freq[nodes[pair_index + 1]]) ELSE 0

(* The nodes that wait and those that are no one's children yet weigh      *)
(* what all leaves weigh.                                                  *)
Totalling ==
  /\ 2 * AllTotal <= Limit + Leaves
  /\ AllTotal = SymbolTotal
  /\ TakenTotal(leaf_index) + SumOver(Weights, NumNodes, node_index + 1, pair_index + 1) + Lone = AllTotal

(* What the merge keeps.                                                   *)
RebuildInv == Rebuilding => Collected /\ Placing /\ Making /\ Weighing /\ Totalling

(* What the first loop keeps: positions behind i hold the leaves that      *)
(* were taken, none heavier than the next.                                 *)
CollectInv ==
  pc = "collect" =>
    /\ Ordered
    /\ n <= Leaves
    /\ \A k \in 0 .. n - 1 : leaves[k] \in LeafSet /\ index[leaves[k]] < i
    /\ \A k, l \in 0 .. n - 1 : k < l => leaves[k] # leaves[l] /\ freq[leaves[k]] >= freq[leaves[l]]
    /\ \A s \in LeafSet : index[s] < i => \E k \in 0 .. n - 1 : leaves[k] = s
    /\ \A k \in 0 .. n - 1, s \in LeafSet : index[s] >= i => freq[leaves[k]] >= Halve(freq[s])
    /\ \A s, t \in LeafSet : i <= index[s] /\ index[s] < index[t] => freq[s] >= freq[t]
    /\ \A s \in LeafSet : freq[s] > 0
    /\ 2 * TakenTotal(n - 1) + LeafTotal(i) <= Limit + n
    /\ TakenTotal(n - 1) + LeafTotal(i) = SymbolTotal

USE LeavesAssumption, LimitAssumption

(* How many leaves and branches there are.                                 *)
LEMMA LeafFacts ==
  /\ LeafSet = Leaves - 1 .. NumNodes - 1 /\ LeafSet \subseteq Storage
  /\ \A s \in Storage : s \in LeafSet <=> s \notin Branches
  /\ Branches = 0 .. Leaves - 2
BY DEF LeafSet, Storage, Branches, NumNodes

(* The weights are numbers.                                                *)
LEMMA WeightsType ==
  ASSUME TypeOK
  PROVE  Weights \in [0 .. NumNodes - 1 -> Int] /\ Taken \in [0 .. Leaves - 1 -> Int]
<1>1. \A p \in Storage : freq[nodes[p]] \in Int
  BY DEF TypeOK
<1>2. \A k \in 0 .. Leaves - 1 : freq[leaves[k]] \in Int
  BY DEF TypeOK
<1> QED
  BY <1>1, <1>2, StorageFacts DEF Weights, Taken

(* The sums the totals are made of are numbers.                            *)
LEMMA SumTypes ==
  ASSUME TypeOK, NEW a \in 0 .. NumNodes, NEW b \in -1 .. NumNodes - 1, NEW t \in -1 .. Leaves - 1
  PROVE  /\ SumOver(LeafWeights, NumNodes, a, b) \in Int
         /\ SumOver(Weights, NumNodes, a, b) \in Int
         /\ SumOver(Taken, Leaves, 0, t) \in Int
<1>1. NumNodes \in Nat /\ Leaves \in Nat /\ 0 \in 0 .. Leaves
  BY StorageFacts
<1> QED
  BY <1>1, LeafWeightsType, WeightsType, SumType

(* What has a place is a node.                                             *)
LEMMA PlacedType ==
  ASSUME TypeOK, leaf_index >= -1
  PROVE  Placed \subseteq Storage
<1>1. \A k \in leaf_index + 1 .. Leaves - 1 : leaves[k] \in Storage
  <2>1. \A k \in 0 .. Leaves - 1 : leaves[k] \in Storage
    BY DEF TypeOK
  <2> QED
    BY <2>1 DEF TypeOK
<1> QED
  BY <1>1, StorageFacts DEF Placed

(* A node goes to the last position that is not filled.                    *)
LEMMA PlaceNext ==
  ASSUME TypeOK, Placing, node_index \in 0 .. NumNodes - 1,
         NEW x \in Storage, x \notin Placed,
         nodes' = [nodes EXCEPT ![node_index] = x],
         index' = [index EXCEPT ![x] = node_index],
         node_index' = node_index - 1,
         Placed' = Placed \cup {x}
  PROVE  /\ Placing'
         /\ node_index \in Filled' /\ nodes'[node_index] = x /\ index'[x] = node_index
         /\ \A p \in Filled' : p = node_index \/ (p \in Filled /\ p > node_index /\ nodes'[p] = nodes[p])
         /\ \A p \in Filled : p \in Filled' /\ p > node_index /\ nodes'[p] = nodes[p] /\ nodes[p] # x
         /\ \A s \in Storage : s # x => index'[s] = index[s]
<1>0. Placed \subseteq Storage
  BY PlacedType, SMTT(30) DEF TypeOK
<1>1. /\ Filled' = node_index .. NumNodes - 1 /\ Filled = node_index + 1 .. NumNodes - 1
      /\ Filled \subseteq Storage /\ Filled' \subseteq Storage /\ node_index \in Storage
      /\ node_index \in Int /\ NumNodes \in Int
      /\ Filled' = Filled \cup {node_index} /\ node_index \notin Filled
  BY StorageFacts DEF Filled
<1>2. nodes'[node_index] = x /\ \A p \in Storage : p # node_index => nodes'[p] = nodes[p]
  BY <1>1 DEF TypeOK
<1>3. index'[x] = node_index /\ \A s \in Storage : s # x => index'[s] = index[s]
  BY <1>1 DEF TypeOK
<1>4. \A p \in Filled : p \in Filled' /\ p > node_index /\ nodes'[p] = nodes[p] /\ nodes[p] # x
  BY <1>1, <1>2 DEF Placing
<1>5. \A p \in Filled' : p = node_index \/ (p \in Filled /\ p > node_index /\ nodes'[p] = nodes[p])
  BY <1>1, <1>4
<1>6. ASSUME NEW p \in Filled' PROVE nodes'[p] \in Placed' /\ index'[nodes'[p]] = p
  <2>1. CASE p = node_index
    BY <1>2, <1>3, <2>1
  <2>2. CASE p \in Filled
    <3>1. nodes'[p] = nodes[p] /\ nodes[p] # x /\ nodes[p] \in Storage
      BY <1>1, <1>4, <2>2 DEF TypeOK
    <3>2. nodes[p] \in Placed /\ index[nodes[p]] = p
      BY <2>2 DEF Placing
    <3> QED
      BY <1>3, <3>1, <3>2
  <2> QED
    BY <1>5, <2>1, <2>2
<1>7. ASSUME NEW s \in Placed' PROVE index'[s] \in Filled' /\ nodes'[index'[s]] = s
  <2>1. CASE s = x
    BY <1>1, <1>2, <1>3, <2>1
  <2>2. CASE s # x
    <3>1. index[s] \in Filled /\ nodes[index[s]] = s
      BY <1>7, <2>2 DEF Placing
    <3> QED
      BY <1>0, <1>3, <1>4, <2>2, <3>1
  <2> QED
    BY <2>1, <2>2
<1>8. Placing'
  BY <1>6, <1>7 DEF Placing
<1> QED
  BY <1>1, <1>2, <1>3, <1>4, <1>5, <1>8

(* The positions of the pair under a branch that is made are filled.       *)
LEMMA PairIsFilled ==
  ASSUME TypeOK, Making, NEW b \in Branches, b > branch_index
  PROVE  /\ 2 * b + 1 \in Filled /\ 2 * b + 2 \in Filled
         /\ 2 * b + 1 \in Storage /\ 2 * b + 2 \in Storage
         /\ nodes[2 * b + 1] \in Storage /\ nodes[2 * b + 2] \in Storage
<1>0. node_index \in -1 .. NumNodes - 1
  BY DEF TypeOK
<1>1. b \in Int /\ 0 <= b /\ b <= Leaves - 2 /\ node_index < 2 * b + 1 /\ node_index \in Int /\ node_index >= -1
  BY <1>0, StorageFacts DEF Making, Branches
<1>2. /\ 2 * b + 1 \in Filled /\ 2 * b + 2 \in Filled
      /\ 2 * b + 1 \in Storage /\ 2 * b + 2 \in Storage
  BY <1>1 DEF Filled, Storage, NumNodes
<1> QED
  BY <1>2 DEF TypeOK

(* The counters in the inner loops, while a position is still open.        *)
LEMMA CounterFacts ==
  ASSUME TypeOK, CountersInv, pc \in {"pair", "merge"}
  PROVE  /\ leaf_index \in -1 .. Leaves - 1 /\ branch_index \in -1 .. Leaves - 2
         /\ node_index \in -1 .. NumNodes - 1
         /\ leaf_index >= 0 \/ pc = "merge" => node_index \in 0 .. NumNodes - 1 /\ node_index \in Storage
         /\ pair_index \in Int /\ pair_index + 1 \in 0 .. NumNodes - 1 /\ node_index <= pair_index + 1
         /\ pc = "merge" => /\ branch \in Branches /\ pair_index = 2 * branch + 1 /\ node_index < pair_index
                            /\ branch = branch_index + 1
         /\ pc = "pair" => branch_index \in Branches /\ pair_index = 2 * branch_index + 1
<1>1. /\ leaf_index \in -1 .. Leaves - 1 /\ branch_index \in -1 .. Leaves - 2
      /\ node_index \in -1 .. NumNodes - 1 /\ pair_index \in Int
  BY DEF TypeOK, CountersInv, Counters
<1>2. CASE pc = "pair"
  <2>1. /\ node_index = leaf_index + branch_index + 1
        /\ pair_index = 2 * branch_index + 1
        /\ leaf_index <= branch_index + 1 /\ branch_index >= 0
    BY <1>2 DEF CountersInv
  <2> QED
    BY <1>1, <1>2, <2>1 DEF Branches, Storage, NumNodes
<1>3. CASE pc = "merge"
  <2>1. /\ node_index = leaf_index + branch_index + 2
        /\ pair_index = 2 * branch_index + 3
        /\ leaf_index <= branch_index
        /\ branch = branch_index + 1
        /\ branch \in Branches
    BY <1>3 DEF CountersInv
  <2>2. branch \in 0 .. Leaves - 2
    BY <2>1 DEF Branches
  <2> QED
    BY <1>1, <1>3, <2>1, <2>2 DEF Storage, NumNodes
<1> QED
  BY <1>2, <1>3

(* What a node put in front of the filled positions adds to the sums.      *)
LEMMA PlaceSums ==
  ASSUME TypeOK, NEW x \in Storage, NEW at \in 0 .. NumNodes - 1,
         nodes' \in [Storage -> Storage], freq' = freq, nodes'[at] = x,
         \A p \in at + 1 .. NumNodes - 1 : nodes'[p] = nodes[p]
  PROVE  /\ SumOver(LeafWeights', NumNodes, at, NumNodes - 1) =
              (IF x \in Branches THEN 0 ELSE freq[x]) + SumOver(LeafWeights, NumNodes, at + 1, NumNodes - 1)
         /\ \A to \in at .. NumNodes - 1 :
              SumOver(Weights', NumNodes, at, to) = freq[x] + SumOver(Weights, NumNodes, at + 1, to)
<1>1. /\ Storage = 0 .. NumNodes - 1 /\ at \in Storage /\ NumNodes \in Nat
      /\ \A p \in at + 1 .. NumNodes - 1 : p \in Storage
  BY StorageFacts
<1> DEFINE F == LeafWeights
<1> DEFINE G == LeafWeights'
<1> DEFINE V == Weights
<1> DEFINE W == Weights'
<1>2. \A p \in Storage : freq[nodes[p]] \in Int /\ freq[nodes'[p]] \in Int
  BY DEF TypeOK
<1>3. /\ F \in [0 .. NumNodes - 1 -> Int] /\ G \in [0 .. NumNodes - 1 -> Int]
      /\ V \in [0 .. NumNodes - 1 -> Int] /\ W \in [0 .. NumNodes - 1 -> Int]
  BY <1>1, <1>2 DEF LeafWeights, Weights
<1>4. /\ G[at] = IF x \in Branches THEN 0 ELSE freq[x]
      /\ W[at] = freq[x]
      /\ \A p \in at + 1 .. NumNodes - 1 : F[p] = G[p] /\ V[p] = W[p]
  BY <1>1 DEF LeafWeights, Weights
<1> HIDE DEF F, G, V, W
<1>6. ASSUME NEW to \in at .. NumNodes - 1
      PROVE  /\ SumOver(G, NumNodes, at, to) = G[at] + SumOver(F, NumNodes, at + 1, to)
             /\ SumOver(W, NumNodes, at, to) = W[at] + SumOver(V, NumNodes, at + 1, to)
  <2>1. at + 1 \in 0 .. NumNodes /\ to \in -1 .. NumNodes - 1 /\ at + 1 <= to + 1
    BY <1>1
  <2>2. \A p \in at + 1 .. to : F[p] = G[p] /\ V[p] = W[p]
    <3>1. \A p \in at + 1 .. to : p \in at + 1 .. NumNodes - 1
      BY <1>1
    <3> QED
      BY <1>4, <3>1
  <2>3. SumOver(F, NumNodes, at + 1, to) = SumOver(G, NumNodes, at + 1, to)
    BY <1>1, <1>3, <2>1, <2>2, SumSame
  <2>4. SumOver(V, NumNodes, at + 1, to) = SumOver(W, NumNodes, at + 1, to)
    BY <1>1, <1>3, <2>1, <2>2, SumSame
  <2>5. at \in 0 .. NumNodes - 1
    BY <1>1
  <2>6. SumOver(G, NumNodes, at, to) = G[at] + SumOver(G, NumNodes, at + 1, to)
    BY <1>1, <1>3, <2>1, <2>5, SumFirst, Zenon
  <2>7. SumOver(W, NumNodes, at, to) = W[at] + SumOver(W, NumNodes, at + 1, to)
    BY <1>1, <1>3, <2>1, <2>5, SumFirst, Zenon
  <2> QED
    BY <2>3, <2>4, <2>6, <2>7
<1>7. NumNodes - 1 \in at .. NumNodes - 1
  BY <1>1
<1> QED
  BY <1>4, <1>6, <1>7 DEF F, G, V, W

(* The merge places the next leaf: it is not heavier than the branch that  *)
(* waits.                                                                  *)
LEMMA PlaceLeafKeeps ==
  ASSUME TypeOK, CountersInv, RebuildInv, PlaceLeaf,
         pc \in {"pair", "merge"}, leaf_index >= 0,
         pc = "pair" => node_index >= pair_index,
         pc = "merge" => freq[leaves[leaf_index]] <= freq[branch]
  PROVE  RebuildInv'
<1> DEFINE L == leaves[leaf_index]
<1>1. /\ nodes' = [nodes EXCEPT ![node_index] = L]
      /\ index' = [index EXCEPT ![L] = node_index]
      /\ node_index' = node_index - 1 /\ leaf_index' = leaf_index - 1
      /\ parent' = parent /\ leftchild' = leftchild /\ rightchild' = rightchild /\ freq' = freq
      /\ pc' = pc /\ branch_index' = branch_index /\ pair_index' = pair_index /\ branch' = branch
      /\ leaves' = leaves
  BY DEF PlaceLeaf, collectVars
<1>2. Rebuilding /\ Collected /\ Placing /\ Making /\ Weighing /\ Totalling
  BY DEF Rebuilding, RebuildInv
<1>3. /\ leaf_index \in 0 .. Leaves - 1 /\ branch_index \in -1 .. Leaves - 2
      /\ node_index \in 0 .. NumNodes - 1 /\ node_index \in Storage
      /\ pair_index \in Int /\ pair_index + 1 \in 0 .. NumNodes - 1 /\ node_index <= pair_index + 1
      /\ pc = "merge" => /\ branch \in Branches /\ pair_index = 2 * branch + 1 /\ node_index < pair_index
                         /\ branch > branch_index
      /\ pc = "pair" => node_index >= pair_index
  BY CounterFacts
<1>4. L \in Storage /\ L \in LeafSet /\ L \notin Branches
  BY <1>2, <1>3, LeafFacts DEF Collected
<1>5. L \notin Placed
  <2>1. \A k \in leaf_index + 1 .. Leaves - 1 : leaves[k] # L
    BY <1>2, <1>3 DEF Collected
  <2> QED
    BY <1>4, <2>1 DEF Placed
<1>6. Placed' = Placed \cup {L}
  <2>1. leaf_index' + 1 .. Leaves - 1 = (leaf_index + 1 .. Leaves - 1) \cup {leaf_index}
    BY <1>1, <1>3
  <2> QED
    BY <1>1, <2>1 DEF Placed
<1> HIDE DEF L
<1>7. /\ Placing'
      /\ node_index \in Filled' /\ nodes'[node_index] = L /\ index'[L] = node_index
      /\ \A p \in Filled' : p = node_index \/ (p \in Filled /\ p > node_index /\ nodes'[p] = nodes[p])
      /\ \A p \in Filled : p \in Filled' /\ p > node_index /\ nodes'[p] = nodes[p] /\ nodes[p] # L
      /\ \A s \in Storage : s # L => index'[s] = index[s]
  BY <1>1, <1>2, <1>3, <1>4, <1>5, <1>6, PlaceNext
<1>8. Collected'
  BY <1>1, <1>2 DEF Collected
<1>9. Making'
  <2> SUFFICES ASSUME NEW b \in Branches, b > branch_index
               PROVE  /\ node_index - 1 < 2 * b + 1
                      /\ Made(b)'
                      /\ (pc = "merge" => b # branch) => index'[b] < 2 * b + 1
    BY <1>1 DEF Making
  <2>1. /\ node_index < 2 * b + 1 /\ Made(b)
        /\ (pc = "merge" => b # branch) => index[b] < 2 * b + 1
    BY <1>2 DEF Making
  <2>2. 2 * b + 1 \in Filled /\ 2 * b + 2 \in Filled
    BY <1>2, PairIsFilled
  <2>3. nodes'[2 * b + 1] = nodes[2 * b + 1] /\ nodes'[2 * b + 2] = nodes[2 * b + 2]
    BY <1>7, <2>2
  <2>4. Made(b)'
    BY <1>1, <2>1, <2>3 DEF Made
  <2>5. index'[b] = index[b]
    BY <1>4, <1>7, StorageFacts
  <2>6. node_index - 1 < 2 * b + 1
    BY <1>3, <2>1, LeafFacts
  <2> QED
    BY <2>1, <2>4, <2>5, <2>6
<1>10. \A p \in Filled : freq[nodes[p]] \in Nat /\ freq[L] \in Nat /\ freq[L] >= freq[nodes[p]]
  <2>1. Filled \subseteq Storage
    BY <1>3 DEF Filled, Storage
  <2> QED
    <3>1. freq[L] \in Nat /\ \A p \in Filled : freq[nodes[p]] \in Nat
      BY <1>4, <2>1 DEF TypeOK
    <3>2. leaf_index \in 0 .. leaf_index
      BY <1>3
    <3> QED
      BY <1>2, <3>1, <3>2 DEF Weighing, L
<1>11. Weighing'
  <2>1. ASSUME NEW p \in Filled', NEW q \in Filled', p < q PROVE freq[nodes'[p]] >= freq[nodes'[q]]
    <3>0. Filled \subseteq Int /\ node_index \in Int
      BY <1>3 DEF Filled
    <3>1. q \in Filled /\ nodes'[q] = nodes[q]
      <4>0. Filled' = {node_index} \cup Filled
        BY <1>7
      <4>1. p >= node_index /\ p \in Int /\ q \in Int
        <5>1. \A x \in Filled : x \in Int /\ x > node_index
          BY <1>3 DEF Filled
        <5>2. p \in {node_index} \cup Filled /\ q \in {node_index} \cup Filled
          BY <2>1, <4>0
        <5>3. node_index >= node_index
          BY <3>0
        <5>4. CASE p = node_index
          BY <3>0, <5>1, <5>2, <5>3, <5>4
        <5>5. CASE p \in Filled
          <6>1. p \in Int /\ p > node_index
            BY <5>1, <5>5
          <6> QED
            BY <3>0, <5>1, <5>2, <6>1
        <5> QED
          BY <5>2, <5>4, <5>5
      <4>2. q # node_index
        BY <2>1, <3>0, <4>1
      <4> QED
        BY <1>7, <4>2
    <3>2. CASE p = node_index
      BY <1>7, <1>10, <3>1, <3>2
    <3>3. CASE p \in Filled /\ nodes'[p] = nodes[p]
      BY <1>2, <2>1, <3>1, <3>3 DEF Weighing
    <3> QED
      BY <1>7, <3>2, <3>3
  <2>2. ASSUME NEW k \in 0 .. leaf_index - 1, NEW p \in Filled' PROVE freq[leaves[k]] >= freq[nodes'[p]]
    <3>1. CASE p = node_index
      <4>1. k < leaf_index /\ k \in 0 .. Leaves - 1
        BY <1>3
      <4> QED
        BY <1>2, <1>3, <1>7, <3>1, <4>1 DEF Collected, L
    <3>2. CASE p \in Filled /\ nodes'[p] = nodes[p]
      <4>1. k \in 0 .. leaf_index
        BY <1>3
      <4> QED
        BY <1>2, <3>2, <4>1 DEF Weighing
    <3> QED
      BY <1>7, <3>1, <3>2
  <2>3. ASSUME pc = "merge", NEW p \in Filled' PROVE freq[nodes'[p]] <= freq[branch]
    BY <1>2, <1>7, <2>3 DEF Weighing, L
  <2>4. ASSUME pc # "merge", NEW p \in Filled', p < pair_index PROVE FALSE
    BY <1>1, <1>3, <2>4 DEF Filled
  <2> QED
    BY <1>1, <2>1, <2>2, <2>3, <2>4 DEF Weighing
<1>12. Totalling'
  <2> DEFINE m == NumNodes
  <2> DEFINE lw == SumOver(LeafWeights, m, node_index + 1, m - 1)
  <2> DEFINE ww == SumOver(Weights, m, node_index + 1, pair_index + 1)
  <2> DEFINE tk == SumOver(Taken, Leaves, 0, leaf_index - 1)
  <2>1. nodes' \in [Storage -> Storage] /\ \A p \in node_index + 1 .. NumNodes - 1 : nodes'[p] = nodes[p]
    BY <1>1, <1>4, <1>7 DEF TypeOK, Filled
  <2>2. SumOver(LeafWeights', m, node_index, m - 1) = freq[L] + lw
    BY <1>1, <1>3, <1>4, <1>7, <2>1, PlaceSums
  <2>3. SumOver(Weights', m, node_index, pair_index + 1) = freq[L] + ww
    <3>1. pair_index + 1 \in node_index .. m - 1
      BY <1>3
    <3> QED
      BY <1>1, <1>3, <1>4, <1>7, <2>1, <3>1, PlaceSums
  <2>4. SumOver(Taken, Leaves, 0, leaf_index) = tk + freq[L]
    <3>1. Leaves \in Nat /\ 0 \in 0 .. Leaves /\ Taken \in [0 .. Leaves - 1 -> Int]
      BY WeightsType
    <3>2. Taken[leaf_index] = freq[L]
      BY <1>3 DEF Taken, L
    <3> QED
      BY <1>3, <3>1, <3>2, SumLast
  <2>5. Taken' = Taken
    BY <1>1 DEF Taken
  <2>6. Lone' = Lone /\ Lone \in Int
    <3>1. CASE pc = "pair"
      BY <1>1, <3>1 DEF Lone
    <3>2. CASE pc = "merge"
      <4>1. branch \in Branches /\ branch > branch_index /\ pair_index = 2 * branch + 1
        BY <1>3, <3>2
      <4>2. /\ nodes[pair_index] \in Storage /\ nodes[pair_index + 1] \in Storage
            /\ nodes'[pair_index] = nodes[pair_index] /\ nodes'[pair_index + 1] = nodes[pair_index + 1]
        <5>1. pair_index + 1 = 2 * branch + 2
          BY <4>1, LeafFacts
        <5> QED
          BY <1>2, <1>7, <4>1, <5>1, PairIsFilled
      <4>3. freq[branch] \in Int /\ freq[nodes[pair_index]] \in Int /\ freq[nodes[pair_index + 1]] \in Int
        <5>1. \A s \in Storage : freq[s] \in Int
          BY DEF TypeOK
        <5> QED
          BY <4>1, <4>2, <5>1, StorageFacts
      <4> QED
        BY <1>1, <4>2, <4>3 DEF Lone
    <3> QED
      BY <3>1, <3>2
  <2>7. tk \in Int /\ lw \in Int /\ ww \in Int /\ freq[L] \in Int
    <3>1. /\ node_index + 1 \in 0 .. NumNodes /\ NumNodes - 1 \in -1 .. NumNodes - 1
          /\ pair_index + 1 \in -1 .. NumNodes - 1 /\ leaf_index - 1 \in -1 .. Leaves - 1
      BY <1>3, StorageFacts
    <3>2. freq[L] \in Int
      BY <1>4 DEF TypeOK
    <3> QED
      BY <3>1, <3>2, SumTypes
  <2>8. /\ AllTotal = tk + freq[L] + lw
        /\ AllTotal' = tk + (freq[L] + lw)
        /\ TakenTotal(leaf_index) = tk + freq[L]
        /\ TakenTotal(leaf_index)' = tk
        /\ SumOver(Weights, NumNodes, node_index + 1, pair_index + 1)' = freq[L] + ww
    <3>1. node_index' + 1 = node_index /\ leaf_index' = leaf_index - 1 /\ pair_index' = pair_index
      BY <1>1, <1>3
    <3> QED
      BY <2>2, <2>3, <2>4, <2>5, <2>7, <3>1 DEF AllTotal, TakenTotal, LeafTotal
  <2>9. SymbolTotal' = SymbolTotal
    BY <1>1, SymbolTotalKept
  <2>10. AllTotal' = AllTotal
    BY <2>7, <2>8
  <2>11. AllTotal' = SymbolTotal' /\ 2 * AllTotal' <= Limit + Leaves
    BY <1>2, <2>9, <2>10 DEF Totalling
  <2>12. TakenTotal(leaf_index)' + SumOver(Weights, NumNodes, node_index + 1, pair_index + 1)' + Lone' = AllTotal'
    <3>1. (tk + freq[L]) + ww + Lone = tk + freq[L] + lw
      BY <1>2, <2>8 DEF Totalling
    <3> HIDE DEF tk, lw, ww
    <3> QED
      BY <2>6, <2>7, <2>8, <3>1
  <2> QED
    BY <2>11, <2>12 DEF Totalling
<1> QED
  BY <1>1, <1>2, <1>7, <1>8, <1>9, <1>11, <1>12 DEF RebuildInv

(* The merge places the branch: every leaf that waits is at least as       *)
(* heavy.                                                                  *)
LEMMA PlaceBranchKeeps ==
  ASSUME TypeOK, CountersInv, RebuildInv, PlaceBranch
  PROVE  RebuildInv'
<1>1. /\ nodes' = [nodes EXCEPT ![node_index] = branch]
      /\ index' = [index EXCEPT ![branch] = node_index]
      /\ node_index' = node_index - 1 /\ leaf_index' = leaf_index
      /\ parent' = parent /\ leftchild' = leftchild /\ rightchild' = rightchild /\ freq' = freq
      /\ pc = "merge" /\ pc' = "outer" /\ branch_index' = branch_index
      /\ pair_index' = pair_index - 2 /\ branch' = branch /\ leaves' = leaves
      /\ ~LighterLeafNext
  BY DEF PlaceBranch, collectVars
<1>2. Collected /\ Placing /\ Making /\ Weighing /\ Totalling
  BY <1>1 DEF Rebuilding, RebuildInv
<1>3. /\ leaf_index \in -1 .. Leaves - 1 /\ branch_index \in -1 .. Leaves - 2
      /\ node_index \in 0 .. NumNodes - 1 /\ node_index \in Storage
      /\ pair_index \in Int /\ pair_index + 1 \in 0 .. NumNodes - 1
      /\ branch \in Branches /\ pair_index = 2 * branch + 1 /\ node_index < pair_index
      /\ branch = branch_index + 1 /\ branch > branch_index
  <2>1. /\ leaf_index \in -1 .. Leaves - 1 /\ branch_index \in -1 .. Leaves - 2
        /\ node_index \in 0 .. NumNodes - 1 /\ node_index \in Storage
        /\ pair_index \in Int /\ pair_index + 1 \in 0 .. NumNodes - 1
        /\ branch \in Branches /\ pair_index = 2 * branch + 1 /\ node_index < pair_index
        /\ branch = branch_index + 1
    BY <1>1, CounterFacts
  <2> QED
    BY <2>1
<1>4. branch \in Storage /\ branch \in Int
  BY <1>3, StorageFacts
<1>5. branch \notin Placed
  <2>1. \A k \in leaf_index + 1 .. Leaves - 1 : leaves[k] # branch
    <3>1. \A k \in leaf_index + 1 .. Leaves - 1 : k \in 0 .. Leaves - 1
      BY <1>3
    <3> QED
      BY <1>2, <1>3, <3>1, LeafFacts DEF Collected, LeafSet
  <2> QED
    BY <1>1, <2>1 DEF Placed
<1>6. Placed' = Placed \cup {branch}
  <2>1. {b \in Branches : b > branch_index} = {b \in Branches : b > branch_index /\ b # branch} \cup {branch}
    BY <1>3
  <2> QED
    BY <1>1, <2>1 DEF Placed
<1>7. /\ Placing'
      /\ node_index \in Filled' /\ nodes'[node_index] = branch /\ index'[branch] = node_index
      /\ \A p \in Filled' : p = node_index \/ (p \in Filled /\ p > node_index /\ nodes'[p] = nodes[p])
      /\ \A p \in Filled : p \in Filled' /\ p > node_index /\ nodes'[p] = nodes[p] /\ nodes[p] # branch
      /\ \A s \in Storage : s # branch => index'[s] = index[s]
  BY <1>1, <1>2, <1>3, <1>4, <1>5, <1>6, PlaceNext
<1>8. Collected'
  BY <1>1, <1>2 DEF Collected
<1>9. Making'
  <2> SUFFICES ASSUME NEW b \in Branches, b > branch_index
               PROVE  node_index - 1 < 2 * b + 1 /\ Made(b)' /\ index'[b] < 2 * b + 1
    BY <1>1 DEF Making
  <2>1. /\ node_index < 2 * b + 1 /\ Made(b)
        /\ b # branch => index[b] < 2 * b + 1
    BY <1>2 DEF Making
  <2>2. 2 * b + 1 \in Filled /\ 2 * b + 2 \in Filled
    BY <1>2, PairIsFilled
  <2>3. nodes'[2 * b + 1] = nodes[2 * b + 1] /\ nodes'[2 * b + 2] = nodes[2 * b + 2]
    BY <1>7, <2>2
  <2>4. Made(b)'
    BY <1>1, <2>1, <2>3 DEF Made
  <2>5. index'[b] = IF b = branch THEN node_index ELSE index[b]
    BY <1>7, StorageFacts
  <2>6. node_index - 1 < 2 * b + 1
    BY <1>3, <2>1, LeafFacts
  <2> QED
    BY <2>1, <2>4, <2>5, <2>6
<1>10. /\ \A p \in Filled : freq[nodes[p]] \in Nat /\ freq[nodes[p]] <= freq[branch]
       /\ freq[branch] \in Nat /\ Filled \subseteq Int /\ Filled' \subseteq Int
  <2>1. Filled \subseteq Storage /\ Filled \subseteq Int /\ Filled' \subseteq Int
    BY <1>1, <1>3, StorageFacts DEF Filled, Storage
  <2>2. freq[branch] \in Nat /\ \A p \in Filled : freq[nodes[p]] \in Nat
    BY <1>4, <2>1 DEF TypeOK
  <2> QED
    BY <1>1, <1>2, <2>1, <2>2 DEF Weighing
<1>11. \A p, q \in Filled' : p < q => freq[nodes'[p]] >= freq[nodes'[q]]
  <2> SUFFICES ASSUME NEW p \in Filled', NEW q \in Filled', p < q PROVE freq[nodes'[p]] >= freq[nodes'[q]]
    OBVIOUS
  <2>1. q \in Filled /\ nodes'[q] = nodes[q]
    <3>1. p >= node_index /\ p \in Int /\ q \in Int
      BY <1>3, <1>7, <1>10
    <3>2. q # node_index
      BY <1>3, <3>1
    <3> QED
      BY <1>7, <3>2
  <2>2. CASE p = node_index
    BY <1>7, <1>10, <2>1, <2>2
  <2>3. CASE p \in Filled /\ nodes'[p] = nodes[p]
    BY <1>2, <2>1, <2>3 DEF Weighing
  <2> QED
    BY <1>7, <2>2, <2>3
<1>12. ASSUME NEW k \in 0 .. leaf_index, NEW p \in Filled' PROVE freq[leaves[k]] >= freq[nodes'[p]]
  <2>1. CASE p = node_index
    <3>1. /\ leaf_index >= 0 /\ leaf_index \in 0 .. Leaves - 1 /\ k \in 0 .. Leaves - 1
          /\ k = leaf_index \/ k < leaf_index
      BY <1>3
    <3>2. leaves[k] \in Storage /\ leaves[leaf_index] \in Storage
      BY <1>2, <3>1, LeafFacts DEF Collected
    <3>3. freq[leaves[k]] \in Nat /\ freq[leaves[leaf_index]] \in Nat
      BY <3>2 DEF TypeOK
    <3>4. freq[leaves[k]] >= freq[leaves[leaf_index]]
      BY <1>2, <3>1, <3>3 DEF Collected
    <3>5. freq[leaves[leaf_index]] > freq[branch]
      BY <1>1, <1>10, <3>1, <3>3 DEF LighterLeafNext
    <3> QED
      BY <1>7, <1>10, <2>1, <3>3, <3>4, <3>5
  <2>2. CASE p \in Filled /\ nodes'[p] = nodes[p]
    BY <1>2, <2>2 DEF Weighing
  <2> QED
    BY <1>7, <2>1, <2>2
<1>13. freq[branch] = freq[nodes[pair_index]] + freq[nodes[pair_index + 1]]
  <2>1. Made(branch) /\ pair_index + 1 = 2 * branch + 2
    BY <1>2, <1>3, <1>4 DEF Making
  <2> QED
    BY <1>3, <2>1 DEF Made
<1>14. ASSUME NEW p \in Filled', p < pair_index - 2
       PROVE  freq[nodes'[p]] <= freq[nodes'[pair_index - 2]] + freq[nodes'[pair_index - 1]]
  <2>1. /\ pair_index \in Filled /\ pair_index + 1 \in Filled
    <3>1. pair_index + 1 = 2 * branch + 2
      BY <1>3, <1>4
    <3> QED
      BY <1>2, <1>3, <3>1, PairIsFilled
  <2>2. pair_index - 2 \in Filled' /\ pair_index - 1 \in Filled' /\ pair_index \in Filled' /\ pair_index + 1 \in Filled'
    <3>1. Filled' = node_index .. NumNodes - 1
      BY <1>1, <1>3 DEF Filled
    <3> QED
      BY <1>3, <1>14, <3>1, StorageFacts
  <2>3. /\ freq[nodes'[pair_index - 2]] >= freq[nodes'[pair_index]]
        /\ freq[nodes'[pair_index - 1]] >= freq[nodes'[pair_index + 1]]
    <3>1. pair_index - 2 < pair_index /\ pair_index - 1 < pair_index + 1
      BY <1>3
    <3> QED
      BY <1>11, <2>2, <3>1
  <2>4. nodes'[pair_index] = nodes[pair_index] /\ nodes'[pair_index + 1] = nodes[pair_index + 1]
    BY <1>7, <2>1
  <2>5. freq[nodes'[p]] <= freq[branch]
    BY <1>7, <1>10
  <2>6. \A r \in Filled' : freq[nodes'[r]] \in Nat
    BY <1>7, <1>10
  <2> QED
    BY <1>10, <1>13, <2>2, <2>3, <2>4, <2>5, <2>6
<1>15. Weighing'
  <2>1. pair_index' + 1 = pair_index - 1
    BY <1>1, <1>3
  <2> QED
    BY <1>1, <1>11, <1>12, <1>14, <2>1 DEF Weighing
<1>16. Totalling'
  <2> DEFINE m == NumNodes
  <2> DEFINE lw == SumOver(LeafWeights, m, node_index + 1, m - 1)
  <2> DEFINE ww == SumOver(Weights, m, node_index + 1, pair_index - 1)
  <2> DEFINE tk == SumOver(Taken, Leaves, 0, leaf_index)
  <2> DEFINE wl == freq[nodes[pair_index]]
  <2> DEFINE wr == freq[nodes[pair_index + 1]]
  <2>1. nodes' \in [Storage -> Storage] /\ \A p \in node_index + 1 .. NumNodes - 1 : nodes'[p] = nodes[p]
    BY <1>1, <1>4, <1>7 DEF TypeOK, Filled
  <2>2. SumOver(LeafWeights', m, node_index, m - 1) = 0 + lw
    BY <1>1, <1>3, <1>4, <1>7, <2>1, PlaceSums
  <2>3. SumOver(Weights', m, node_index, pair_index - 1) = freq[branch] + ww
    <3>1. pair_index - 1 \in node_index .. m - 1
      BY <1>3, StorageFacts
    <3> QED
      BY <1>1, <1>3, <1>4, <1>7, <2>1, <3>1, PlaceSums
  <2>4. SumOver(Weights, m, node_index + 1, pair_index + 1) = ww + wl + wr
    <3>1. /\ m \in Nat /\ Weights \in [0 .. m - 1 -> Int] /\ node_index + 1 \in 0 .. m
          /\ pair_index + 1 \in 0 .. m - 1 /\ pair_index \in 0 .. m - 1
          /\ (pair_index + 1) - 1 = pair_index
      BY <1>3, WeightsType, StorageFacts
    <3>2. SumOver(Weights, m, node_index + 1, pair_index + 1) =
            SumOver(Weights, m, node_index + 1, (pair_index + 1) - 1) + Weights[pair_index + 1]
      BY <3>1, SumLast
    <3>3. SumOver(Weights, m, node_index + 1, pair_index) =
            SumOver(Weights, m, node_index + 1, pair_index - 1) + Weights[pair_index]
      BY <3>1, SumLast
    <3>4. Weights[pair_index] = wl /\ Weights[pair_index + 1] = wr
      BY <3>1, StorageFacts DEF Weights
    <3> QED
      BY <3>1, <3>2, <3>3, <3>4
  <2>5. Taken' = Taken
    BY <1>1 DEF Taken
  <2>6. Lone' = 0 /\ Lone = freq[branch] - (wl + wr)
    BY <1>1 DEF Lone
  <2>7. tk \in Int /\ lw \in Int /\ ww \in Int
    <3>1. /\ node_index + 1 \in 0 .. NumNodes /\ NumNodes - 1 \in -1 .. NumNodes - 1
          /\ pair_index - 1 \in -1 .. NumNodes - 1
      BY <1>3, StorageFacts
    <3> QED
      BY <1>3, <3>1, SumTypes
  <2>8. /\ AllTotal = tk + lw
        /\ AllTotal' = tk + (0 + lw)
        /\ TakenTotal(leaf_index) = tk
        /\ TakenTotal(leaf_index)' = tk
        /\ SumOver(Weights, NumNodes, node_index + 1, pair_index + 1)' = freq[branch] + ww
    <3>1. node_index' + 1 = node_index /\ leaf_index' = leaf_index /\ pair_index' + 1 = pair_index - 1
      BY <1>1, <1>3
    <3> QED
      BY <2>2, <2>3, <2>5, <3>1 DEF AllTotal, TakenTotal, LeafTotal
  <2>9. wl \in Int /\ wr \in Int
    <3>1. pair_index + 1 = 2 * branch + 2
      BY <1>3, <1>4
    <3>2. nodes[pair_index] \in Storage /\ nodes[pair_index + 1] \in Storage
      BY <1>2, <1>3, <3>1, PairIsFilled
    <3> QED
      BY <3>2 DEF TypeOK
  <2>10. /\ 2 * AllTotal <= Limit + Leaves
         /\ TakenTotal(leaf_index) + SumOver(Weights, NumNodes, node_index + 1, pair_index + 1) + Lone = AllTotal
    BY <1>2 DEF Totalling
  <2> HIDE DEF tk, lw, ww, wl, wr
  <2>11. tk + (freq[branch] + ww) + 0 = tk + (0 + lw)
    BY <1>10, <1>13, <2>4, <2>6, <2>7, <2>8, <2>9, <2>10 DEF wl, wr
  <2>12. AllTotal' = AllTotal
    BY <2>7, <2>8
  <2>13. SymbolTotal' = SymbolTotal /\ AllTotal = SymbolTotal
    BY <1>1, <1>2, SymbolTotalKept DEF Totalling
  <2> QED
    BY <2>6, <2>8, <2>10, <2>11, <2>12, <2>13 DEF Totalling
<1> QED
  BY <1>1, <1>2, <1>7, <1>8, <1>9, <1>15, <1>16 DEF RebuildInv

(* The next pair of positions gets a parent: it weighs what they weigh,    *)
(* so no less than any made before it.                                     *)
LEMMA MakeBranchKeeps ==
  ASSUME TypeOK, CountersInv, RebuildInv, MakeBranch
  PROVE  RebuildInv'
<1> DEFINE b == branch_index
<1> DEFINE l == nodes[pair_index]
<1> DEFINE r == nodes[pair_index + 1]
<1>1. /\ pc = "pair" /\ pc' = "merge" /\ node_index < pair_index
      /\ branch' = b /\ branch_index' = b - 1
      /\ leftchild' = [leftchild EXCEPT ![b] = l]
      /\ rightchild' = [rightchild EXCEPT ![b] = r]
      /\ parent' = [parent EXCEPT ![l] = b, ![r] = b]
      /\ freq' = [freq EXCEPT ![b] = freq[l] + freq[r]]
      /\ nodes' = nodes /\ index' = index /\ leaves' = leaves
      /\ leaf_index' = leaf_index /\ node_index' = node_index /\ pair_index' = pair_index
  BY DEF MakeBranch, collectVars
<1>2. Collected /\ Placing /\ Making /\ Weighing /\ Totalling
  BY <1>1 DEF Rebuilding, RebuildInv
<1>3. /\ leaf_index \in -1 .. Leaves - 1 /\ b \in Branches /\ b \in 0 .. Leaves - 2 /\ b \in Storage
      /\ node_index \in -1 .. NumNodes - 1 /\ pair_index = 2 * b + 1
      /\ pair_index + 1 \in 0 .. NumNodes - 1
  <2>1. /\ leaf_index \in -1 .. Leaves - 1 /\ b \in Branches
        /\ node_index \in -1 .. NumNodes - 1 /\ pair_index = 2 * b + 1
        /\ pair_index + 1 \in 0 .. NumNodes - 1
    BY <1>1, CounterFacts
  <2> QED
    BY <2>1, LeafFacts, StorageFacts
<1> HIDE DEF b
<1>4. /\ pair_index \in Filled /\ pair_index + 1 \in Filled /\ Filled \subseteq Storage /\ Filled' = Filled
      /\ pair_index + 1 = 2 * b + 2 /\ pair_index \in Int
  <2>1. Filled' = Filled
    BY <1>1 DEF Filled
  <2> QED
    BY <1>1, <1>3, <2>1, StorageFacts DEF Filled
<1>5. Placed' = Placed /\ b \notin Placed /\ \A c \in Branches : c > b - 1 /\ c # b <=> c > b
  <2>1. \A c \in Branches : c > b - 1 /\ c # b <=> c > b
    BY <1>3, LeafFacts
  <2>2. \A k \in leaf_index + 1 .. Leaves - 1 : leaves[k] # b
    <3>1. \A k \in leaf_index + 1 .. Leaves - 1 : k \in 0 .. Leaves - 1
      BY <1>3
    <3> QED
      BY <1>2, <1>3, <3>1, LeafFacts DEF Collected, LeafSet
  <2>3. Placed' = Placed
    BY <1>1, <2>1 DEF Placed, b
  <2>4. b \notin Placed
    BY <1>1, <1>3, <2>2 DEF Placed, b
  <2> QED
    BY <2>1, <2>3, <2>4
<1>6. Placing'
  BY <1>1, <1>2, <1>4, <1>5 DEF Placing
<1>7. /\ l \in Placed /\ r \in Placed /\ l \in Storage /\ r \in Storage /\ l # r /\ l # b /\ r # b
      /\ \A p \in Filled : nodes[p] \in Storage /\ nodes[p] # b
      /\ \A p \in Filled : nodes[p] \in {l, r} => p \in {pair_index, pair_index + 1}
  <2>1. \A p \in Filled : nodes[p] \in Storage /\ nodes[p] # b
    BY <1>2, <1>4, <1>5 DEF Placing, TypeOK
  <2>2. index[l] = pair_index /\ index[r] = pair_index + 1 /\ l \in Placed /\ r \in Placed
    BY <1>2, <1>4 DEF Placing
  <2>3. \A p \in Filled : nodes[p] \in {l, r} => p \in {pair_index, pair_index + 1}
    BY <1>2, <2>2 DEF Placing
  <2>4. l # r
    BY <1>4, <2>2
  <2> QED
    BY <1>4, <2>1, <2>2, <2>3, <2>4
<1> HIDE DEF l, r
<1>8. /\ freq'[b] = freq[l] + freq[r] /\ \A s \in Storage : s # b => freq'[s] = freq[s]
      /\ leftchild'[b] = l /\ rightchild'[b] = r
      /\ \A s \in Storage : s # b => leftchild'[s] = leftchild[s] /\ rightchild'[s] = rightchild[s]
      /\ parent'[l] = b /\ parent'[r] = b
      /\ \A s \in Storage : s # l /\ s # r => parent'[s] = parent[s]
  BY <1>1, <1>3, <1>7 DEF TypeOK
<1>9. Collected'
  <2>1. \A s \in LeafSet : freq'[s] = freq[s]
    BY <1>3, <1>8, LeafFacts
  <2> QED
    BY <1>1, <1>2, <2>1 DEF Collected
<1>10. /\ \A p \in Filled : freq[nodes[p]] \in Nat /\ freq[nodes[p]] > 0 /\ freq'[nodes[p]] = freq[nodes[p]]
       /\ freq[l] \in Nat /\ freq[r] \in Nat /\ freq[l] > 0 /\ freq[r] > 0
  <2>1. ASSUME NEW s \in Placed PROVE freq[s] > 0
    <3>1. CASE s \in Branches
      <4>1. s > b
        <5>1. \A k \in leaf_index + 1 .. Leaves - 1 : leaves[k] # s
          <6>1. \A k \in leaf_index + 1 .. Leaves - 1 : k \in 0 .. Leaves - 1
            BY <1>3
          <6> QED
            BY <1>2, <3>1, <6>1, LeafFacts DEF Collected, LeafSet
        <5> QED
          BY <1>1, <2>1, <5>1 DEF Placed, b
      <4> QED
        BY <1>2, <3>1, <4>1 DEF Making, Made, b
    <3>2. CASE s \notin Branches
      <4>1. s \in LeafSet
        <5>1. Placed \subseteq Storage
          BY <1>3, PlacedType
        <5> QED
          BY <2>1, <3>2, <5>1, LeafFacts
      <4> QED
        BY <1>2, <4>1 DEF Collected
    <3> QED
      BY <3>1, <3>2
  <2>2. \A p \in Filled : nodes[p] \in Placed
    BY <1>2 DEF Placing
  <2>3. \A s \in Storage : freq[s] \in Nat
    BY DEF TypeOK
  <2> QED
    BY <1>7, <1>8, <2>1, <2>2, <2>3
<1>11. Making'
  <2> SUFFICES ASSUME NEW c \in Branches, c > b - 1
               PROVE  /\ node_index < 2 * c + 1
                      /\ Made(c)'
                      /\ c # b => index[c] < 2 * c + 1
    BY <1>1 DEF Making
  <2>1. CASE c = b
    <3>1. nodes[2 * b + 1] = l /\ nodes[2 * b + 2] = r
      BY <1>3, <1>4 DEF l, r
    <3>2. freq'[b] = freq'[l] + freq'[r] /\ freq'[b] > 0
      BY <1>7, <1>8, <1>10
    <3>3. Made(c)'
      BY <1>1, <1>8, <2>1, <3>1, <3>2 DEF Made
    <3> QED
      BY <1>1, <1>3, <2>1, <3>3
  <2>2. CASE c # b
    <3>1. c > b
      BY <1>5, <2>2
    <3>2. node_index < 2 * c + 1 /\ Made(c) /\ index[c] < 2 * c + 1
      BY <1>1, <1>2, <3>1 DEF Making, b
    <3>3. 2 * c + 1 \in Filled /\ 2 * c + 2 \in Filled
      BY <1>2, <3>1, PairIsFilled DEF b
    <3>4. nodes[2 * c + 1] \notin {l, r} /\ nodes[2 * c + 2] \notin {l, r}
      BY <1>3, <1>4, <1>7, <3>1, <3>3, LeafFacts
    <3>5. freq'[c] = freq[c] /\ leftchild'[c] = leftchild[c] /\ rightchild'[c] = rightchild[c]
      BY <1>8, <2>2, StorageFacts
    <3>6. /\ parent'[nodes[2 * c + 1]] = parent[nodes[2 * c + 1]]
          /\ parent'[nodes[2 * c + 2]] = parent[nodes[2 * c + 2]]
      BY <1>7, <1>8, <3>3, <3>4
    <3>7. /\ freq'[nodes[2 * c + 1]] = freq[nodes[2 * c + 1]]
          /\ freq'[nodes[2 * c + 2]] = freq[nodes[2 * c + 2]]
      BY <1>10, <3>3
    <3>8. Made(c)'
      BY <1>1, <3>2, <3>5, <3>6, <3>7 DEF Made
    <3> QED
      BY <3>2, <3>8
  <2> QED
    BY <2>1, <2>2
<1>12. Weighing'
  <2>1. ASSUME NEW p \in Filled, NEW q \in Filled, p < q PROVE freq'[nodes[p]] >= freq'[nodes[q]]
    BY <1>2, <1>10, <2>1 DEF Weighing
  <2>2. ASSUME NEW k \in 0 .. leaf_index, NEW p \in Filled PROVE freq'[leaves[k]] >= freq'[nodes[p]]
    <3>1. leaves[k] \in Storage /\ leaves[k] # b
      <4>1. k \in 0 .. Leaves - 1
        BY <1>3
      <4> QED
        BY <1>2, <1>3, <4>1, LeafFacts DEF Collected, LeafSet
    <3> QED
      BY <1>2, <1>8, <1>10, <3>1 DEF Weighing
  <2>3. ASSUME NEW p \in Filled PROVE freq'[nodes[p]] <= freq'[b]
    <3>1. CASE p < pair_index
      <4>1. freq[nodes[p]] <= freq[l] + freq[r]
        BY <1>1, <1>2, <3>1 DEF Weighing, l, r
      <4> QED
        BY <1>8, <1>10, <4>1
    <3>2. CASE p = pair_index
      BY <1>8, <1>10, <3>2 DEF l
    <3>3. CASE p > pair_index
      <4>1. freq[l] >= freq[nodes[p]]
        BY <1>2, <1>4, <3>3 DEF Weighing, l
      <4> QED
        BY <1>8, <1>10, <4>1
    <3>4. p \in Int
      BY <1>4, StorageFacts
    <3> QED
      BY <1>4, <3>1, <3>2, <3>3, <3>4
  <2> QED
    BY <1>1, <1>4, <2>1, <2>2, <2>3 DEF Weighing
<1>13. Totalling'
  <2> DEFINE m == NumNodes
  <2>1. /\ m \in Nat /\ m - 1 \in -1 .. m - 1 /\ node_index + 1 \in 0 .. m /\ node_index + 1 <= (m - 1) + 1
        /\ pair_index + 1 \in -1 .. m - 1 /\ node_index + 1 <= (pair_index + 1) + 1
        /\ Storage = 0 .. m - 1 /\ node_index \in Int /\ pair_index \in Int
        /\ \A p \in node_index + 1 .. m - 1 : p \in Filled
        /\ \A p \in node_index + 1 .. pair_index + 1 : p \in Filled
    BY <1>1, <1>3, StorageFacts DEF Filled
  <2>2. \A p \in Storage : freq'[nodes[p]] \in Int /\ freq[nodes[p]] \in Int
    <3>1. \A s \in Storage : freq[s] \in Nat /\ freq'[s] \in Nat
      <4>1. \A s \in Storage : freq[s] \in Nat
        BY DEF TypeOK
      <4> QED
        BY <1>8, <1>10, <4>1
    <3> QED
      BY <3>1 DEF TypeOK
  <2>3. /\ LeafWeights \in [0 .. m - 1 -> Int] /\ LeafWeights' \in [0 .. m - 1 -> Int]
        /\ Weights \in [0 .. m - 1 -> Int] /\ Weights' \in [0 .. m - 1 -> Int]
    BY <1>1, <2>1, <2>2 DEF LeafWeights, Weights
  <2>4. \A p \in Filled : LeafWeights'[p] = LeafWeights[p] /\ Weights'[p] = Weights[p]
    BY <1>1, <1>4, <1>10 DEF LeafWeights, Weights
  <2>5. SumOver(LeafWeights', m, node_index + 1, m - 1) = SumOver(LeafWeights, m, node_index + 1, m - 1)
    BY <2>1, <2>3, <2>4, SumSame
  <2>6. SumOver(Weights', m, node_index + 1, pair_index + 1) = SumOver(Weights, m, node_index + 1, pair_index + 1)
    BY <2>1, <2>3, <2>4, SumSame
  <2>7. Taken' = Taken
    <3>1. \A k \in 0 .. Leaves - 1 : freq'[leaves[k]] = freq[leaves[k]]
      BY <1>2, <1>3, <1>8, LeafFacts DEF Collected
    <3> QED
      BY <1>1, <3>1 DEF Taken
  <2>8. Lone' = 0 /\ Lone = 0
    <3>1. freq'[b] = freq'[l] + freq'[r] /\ freq'[b] \in Int
      BY <1>7, <1>8, <1>10
    <3>2. Lone' = freq'[b] - (freq'[l] + freq'[r])
      BY <1>1 DEF Lone, l, r
    <3> QED
      BY <1>1, <3>1, <3>2 DEF Lone
  <2>9. SymbolTotal' = SymbolTotal
    <3>1. \A s \in LeafSet : freq'[s] = freq[s]
      BY <1>3, <1>8, LeafFacts
    <3> QED
      BY <3>1, SymbolTotalKept
  <2> QED
    BY <1>1, <1>2, <2>5, <2>6, <2>7, <2>8, <2>9 DEF Totalling, AllTotal, TakenTotal, LeafTotal
<1> QED
  BY <1>1, <1>2, <1>6, <1>9, <1>11, <1>12, <1>13 DEF RebuildInv

(* The inner loop ends: the next pair is in front.                         *)
LEMMA NextPairKeeps ==
  ASSUME TypeOK, RebuildInv, NextPair
  PROVE  RebuildInv'
<1>1. /\ pc = "outer" /\ pc' = "pair" /\ UNCHANGED treeVars
      /\ parent' = parent /\ leftchild' = leftchild /\ rightchild' = rightchild /\ freq' = freq
      /\ nodes' = nodes /\ index' = index /\ leaves' = leaves
      /\ leaf_index' = leaf_index /\ branch_index' = branch_index /\ node_index' = node_index
      /\ pair_index' = pair_index /\ branch' = branch
  BY DEF NextPair, treeVars, collectVars, rebuildVars
<1>2. Collected /\ Placing /\ Making /\ Weighing /\ Totalling
  BY <1>1 DEF Rebuilding, RebuildInv
<1>3. Placed' = Placed /\ Filled' = Filled
  BY <1>1 DEF Placed, Filled
<1>4. Collected' /\ Placing' /\ Making' /\ Weighing'
  BY <1>1, <1>2, <1>3 DEF Collected, Placing, Making, Made, Weighing
<1>5. /\ LeafWeights' = LeafWeights /\ Weights' = Weights /\ Taken' = Taken
      /\ Lone' = 0 /\ Lone = 0
  BY <1>1 DEF LeafWeights, Weights, Taken, Lone
<1>6. Totalling'
  <2>1. SymbolTotal' = SymbolTotal
    BY <1>1, SymbolTotalKept
  <2> QED
    BY <1>1, <1>2, <1>5, <2>1 DEF Totalling, AllTotal, TakenTotal, LeafTotal
<1> QED
  BY <1>4, <1>6 DEF RebuildInv

(* The loop ends with a whole tree: position p of the new order is a child *)
(* of branch (p - 1) div 2.                                                *)
LEMMA EndRebuildKeeps ==
  ASSUME TypeOK, Shape, CountersInv, NodeInv, RebuildInv, EndRebuild
  PROVE  TreeInv'
<1>1. /\ pc = "outer" /\ pc' = "climb" /\ node_index < 0 /\ node' = node
      /\ parent' = [parent EXCEPT ![Root] = Null]
      /\ leftchild' = leftchild /\ rightchild' = rightchild /\ freq' = freq
      /\ nodes' = nodes /\ index' = index
  BY DEF EndRebuild
<1>2. Collected /\ Placing /\ Making /\ Weighing /\ Totalling
  BY <1>1 DEF Rebuilding, RebuildInv
<1>3. node_index = -1 /\ leaf_index = -1 /\ branch_index = -1 /\ pair_index = -1
  <2>1. /\ leaf_index \in -1 .. Leaves - 1 /\ branch_index \in -1 .. Leaves - 2
        /\ node_index = leaf_index + branch_index + 1
        /\ pair_index = 2 * branch_index + 1
        /\ branch_index >= 0 \/ leaf_index = -1
    BY <1>1 DEF CountersInv, Counters
  <2> QED
    BY <1>1, <2>1
<1>4. Filled = Storage
  BY <1>3 DEF Filled, Storage
<1>5. Storage \subseteq Placed
  <2> SUFFICES ASSUME NEW s \in Storage PROVE s \in Placed
    OBVIOUS
  <2>1. CASE s \in Branches
    <3>1. s > branch_index
      BY <1>3, <2>1, LeafFacts
    <3> QED
      BY <1>1, <2>1, <3>1 DEF Placed
  <2>2. CASE s \notin Branches
    <3>1. s \in LeafSet
      BY <2>2, LeafFacts
    <3>2. PICK k \in 0 .. Leaves - 1 : leaves[k] = s
      BY <1>2, <3>1 DEF Collected
    <3>3. k \in leaf_index + 1 .. Leaves - 1
      BY <1>3
    <3> QED
      BY <3>2, <3>3 DEF Placed
  <2> QED
    BY <2>1, <2>2
<1>6. Ordered /\ Ordered'
  BY <1>1, <1>2, <1>4, <1>5 DEF Placing, Ordered
<1>7. Root \in Storage /\ index[Root] = 0 /\ Root' = Root
  BY <1>1, <1>6, StorageFacts DEF TypeOK, Ordered, Root
<1>8. ASSUME NEW b \in Branches
      PROVE  /\ Made(b) /\ index[b] < 2 * b + 1
             /\ index[leftchild[b]] = 2 * b + 1 /\ index[rightchild[b]] = 2 * b + 2
             /\ leftchild[b] \in Storage /\ rightchild[b] \in Storage
             /\ b \in Nat
  <2>1. b > branch_index /\ b \in Nat
    BY <1>3, LeafFacts
  <2>2. Made(b) /\ index[b] < 2 * b + 1
    BY <1>1, <1>2, <2>1 DEF Making
  <2>3. 2 * b + 1 \in Storage /\ 2 * b + 2 \in Storage
    BY <1>2, <2>1, PairIsFilled
  <2>4. leftchild[b] = nodes[2 * b + 1] /\ rightchild[b] = nodes[2 * b + 2]
    BY <2>2 DEF Made
  <2>5. leftchild[b] \in Storage /\ rightchild[b] \in Storage
    BY DEF Shape, Branches, Storage, NumNodes
  <2> QED
    BY <1>6, <2>1, <2>2, <2>3, <2>4, <2>5 DEF Ordered
<1>9. /\ parent'[Root] = Null
      /\ \A s \in Storage : s # Root => parent'[s] = parent[s]
  BY <1>1, <1>7 DEF TypeOK
<1>10. Linked'
  <2>1. ASSUME NEW b \in Branches, NEW c, c = leftchild[b] \/ c = rightchild[b]
        PROVE  parent'[c] = b /\ index[c] > index[b]
    <3>1. c \in Storage /\ c # Root /\ index[b] < 2 * b + 1 /\ index[c] >= 2 * b + 1
      BY <1>7, <1>8, <2>1
    <3>2. parent[c] = b
      BY <1>8, <2>1 DEF Made
    <3>3. index[b] \in Int /\ index[c] \in Int /\ b \in Int
      <4>1. index[b] \in Storage /\ index[c] \in Storage
        BY <2>1, <3>1, StorageFacts DEF TypeOK
      <4> QED
        BY <1>8, <4>1, StorageFacts
    <3> QED
      BY <1>9, <3>1, <3>2, <3>3
  <2>2. ASSUME NEW b \in Branches PROVE leftchild[b] # rightchild[b]
    BY <1>8
  <2>3. ASSUME NEW s \in Storage, s # Root
        PROVE  parent'[s] \in Branches /\ (s = leftchild[parent'[s]] \/ s = rightchild[parent'[s]])
    <3> DEFINE p == index[s]
    <3> DEFINE b == (p - 1) \div 2
    <3>1. p \in 1 .. NumNodes - 1 /\ nodes[p] = s
      <4>1. p \in Storage /\ nodes[p] = s
        BY <1>6 DEF TypeOK, Ordered
      <4>2. p # 0
        BY <2>3, <4>1 DEF Root
      <4> QED
        BY <4>1, <4>2 DEF Storage
    <3> HIDE DEF p
    <3>2. b \in Branches /\ (p = 2 * b + 1 \/ p = 2 * b + 2)
      BY <3>1 DEF Branches, NumNodes
    <3> HIDE DEF b
    <3>3. s = leftchild[b] \/ s = rightchild[b]
      BY <1>8, <3>1, <3>2 DEF Made
    <3> QED
      BY <2>1, <3>2, <3>3
  <2> QED
    BY <1>1, <1>7, <1>9, <2>1, <2>2, <2>3 DEF Linked
<1>11. Positive'
  <2>1. ASSUME NEW s \in Storage PROVE freq[s] > 0
    <3>1. CASE s \in Branches
      BY <1>8, <3>1 DEF Made
    <3>2. CASE s \notin Branches
      BY <1>2, <3>2, LeafFacts DEF Collected
    <3> QED
      BY <3>1, <3>2
  <2> QED
    BY <1>1, <2>1 DEF Positive
<1>12. node \in LeafSet /\ node \in Storage /\ node \notin Branches
  BY <1>1, LeafFacts DEF NodeInv, Rebuilding
<1>13. SummedBut(Uncounted)'
  <2>1. \A b \in Branches : freq[leftchild[b]] + freq[rightchild[b]] = freq[b] /\ b # node
    BY <1>8, <1>12 DEF Made
  <2> QED
    BY <1>1, <2>1 DEF SummedBut, Uncounted
<1>14. SortedBut(Null)'
  BY <1>1, <1>2, <1>4 DEF Weighing, SortedBut
<1>15. LeafTotal(0)' = freq[Root] /\ freq[Root] < Limit /\ LeafTotal(0)' = SymbolTotal'
  <2>1. LeafWeights' = LeafWeights
    BY <1>1 DEF LeafWeights
  <2>2. LeafTotal(0)' = LeafTotal(0)
    BY <2>1 DEF LeafTotal
  <2>3. TakenTotal(-1) = 0
    <3>1. Leaves \in Nat /\ 0 \in 0 .. Leaves /\ 0 - 1 = -1
      OBVIOUS
    <3> QED
      BY <3>1, SumEmpty, WeightsType DEF TakenTotal
  <2>4. SumOver(Weights, NumNodes, 0, 0) = freq[Root]
    <3>1. NumNodes \in Nat /\ 0 \in 0 .. NumNodes - 1 /\ 0 \in 0 .. NumNodes /\ 0 - 1 = -1
      BY StorageFacts
    <3>2. SumOver(Weights, NumNodes, 0, 0) = SumOver(Weights, NumNodes, 0, 0 - 1) + Weights[0]
      BY <3>1, WeightsType, SumLast
    <3>3. SumOver(Weights, NumNodes, 0, 0 - 1) = 0
      BY <3>1, WeightsType, SumEmpty
    <3>4. Weights[0] = freq[Root] /\ freq[Root] \in Int
      BY <1>7, StorageFacts DEF Weights, TypeOK, Root
    <3> QED
      BY <3>2, <3>3, <3>4
  <2>5. Lone = 0
    BY <1>1 DEF Lone
  <2>6. LeafTotal(0) \in Int /\ freq[Root] \in Int
    BY <1>7, LeafTotalType DEF TypeOK
  <2>7. AllTotal = LeafTotal(0)
    <3>1. node_index + 1 = 0
      BY <1>3
    <3> QED
      BY <1>3, <2>3, <2>6, <3>1 DEF AllTotal
  <2>8. freq[Root] = LeafTotal(0) /\ 2 * LeafTotal(0) <= Limit + Leaves
    <3>1. node_index + 1 = 0 /\ pair_index + 1 = 0
      BY <1>3
    <3> QED
      BY <1>2, <1>3, <2>3, <2>4, <2>5, <2>6, <2>7, <3>1 DEF Totalling
  <2>9. SymbolTotal' = SymbolTotal /\ AllTotal = SymbolTotal
    BY <1>1, <1>2, SymbolTotalKept DEF Totalling
  <2> QED
    BY <2>2, <2>6, <2>7, <2>8, <2>9
<1>16. freq[Root] <= Limit
  BY <1>7, <1>15 DEF TypeOK
<1> QED
  BY <1>1, <1>6, <1>7, <1>10, <1>11, <1>12, <1>13, <1>14, <1>15, <1>16 DEF TreeInv, Counted

(* No more leaves can be taken than there are, and all of them are no less. *)
LEMMA DistinctLeaves ==
  ASSUME NEW k \in Nat, NEW f \in [0 .. k - 1 -> LeafSet],
         \A a, b \in 0 .. k - 1 : a < b => f[a] # f[b]
  PROVE  k <= Leaves
<1>1. IsFiniteSet(LeafSet) /\ Cardinality(LeafSet) = Leaves
  <2>1. Leaves - 1 \in Int /\ NumNodes - 1 \in Int /\ Leaves - 1 <= NumNodes - 1
        /\ (NumNodes - 1) - (Leaves - 1) + 1 = Leaves
    BY DEF NumNodes
  <2> QED
    BY <2>1, FS_Interval, LeafFacts
<1>2. Cardinality(0 .. k - 1) = k
  <2>1. 0 \in Int /\ k - 1 \in Int
    OBVIOUS
  <2> QED
    BY <2>1, FS_Interval
<1>3. f \in Injection(0 .. k - 1, LeafSet)
  <2>1. \A a, b \in 0 .. k - 1 : a # b => f[a] # f[b]
    <3> SUFFICES ASSUME NEW a \in 0 .. k - 1, NEW b \in 0 .. k - 1, a # b PROVE f[a] # f[b]
      OBVIOUS
    <3>1. a < b \/ b < a
      OBVIOUS
    <3> QED
      BY <3>1
  <2> QED
    BY <2>1 DEF Injection, IsInjective
<1> QED
  BY <1>1, <1>2, <1>3, FS_Injection

(* When as many leaves were taken as there are, every leaf was.            *)
LEMMA EveryLeaf ==
  ASSUME NEW k \in Nat, NEW f \in [0 .. k - 1 -> LeafSet],
         \A s \in LeafSet : \E a \in 0 .. k - 1 : f[a] = s
  PROVE  Leaves <= k
<1>1. Cardinality(LeafSet) = Leaves
  <2>1. Leaves - 1 \in Int /\ NumNodes - 1 \in Int /\ Leaves - 1 <= NumNodes - 1
        /\ (NumNodes - 1) - (Leaves - 1) + 1 = Leaves
    BY DEF NumNodes
  <2> QED
    BY <2>1, FS_Interval, LeafFacts
<1>2. IsFiniteSet(0 .. k - 1) /\ Cardinality(0 .. k - 1) = k
  <2>1. 0 \in Int /\ k - 1 \in Int
    OBVIOUS
  <2> QED
    BY <2>1, FS_Interval
<1>3. f \in Surjection(0 .. k - 1, LeafSet)
  BY DEF Surjection
<1> QED
  BY <1>1, <1>2, <1>3, FS_Surjection

(* The merge begins with every leaf waiting and no position filled.        *)
LEMMA BeginRebuildKeeps ==
  ASSUME TypeOK, CollectInv, BeginRebuild
  PROVE  RebuildInv'
<1>1. /\ pc = "collect" /\ pc' = "outer" /\ i = NumNodes
      /\ leaf_index' = Leaves - 1 /\ branch_index' = Leaves - 2
      /\ node_index' = NumNodes - 1 /\ pair_index' = NumNodes - 2
      /\ freq' = freq /\ nodes' = nodes /\ leaves' = leaves /\ index' = index
  BY DEF BeginRebuild, treeVars, collectVars
<1>2. /\ Ordered
      /\ n <= Leaves
      /\ \A k \in 0 .. n - 1 : leaves[k] \in LeafSet /\ index[leaves[k]] < i
      /\ \A k, l \in 0 .. n - 1 : k < l => leaves[k] # leaves[l] /\ freq[leaves[k]] >= freq[leaves[l]]
      /\ \A s \in LeafSet : index[s] < i => \E k \in 0 .. n - 1 : leaves[k] = s
      /\ \A s \in LeafSet : freq[s] > 0
      /\ 2 * TakenTotal(n - 1) + LeafTotal(i) <= Limit + n
      /\ TakenTotal(n - 1) + LeafTotal(i) = SymbolTotal
  BY <1>1 DEF CollectInv
<1>3. \A s \in LeafSet : \E k \in 0 .. n - 1 : leaves[k] = s
  <2>1. \A s \in LeafSet : index[s] < i
    <3>1. \A s \in LeafSet : index[s] \in Storage
      BY LeafFacts DEF TypeOK
    <3> QED
      BY <1>1, <3>1, StorageFacts
  <2> QED
    BY <1>2, <2>1
<1>4. n = Leaves
  <2>1. n \in Nat /\ [k \in 0 .. n - 1 |-> leaves[k]] \in [0 .. n - 1 -> LeafSet]
    BY <1>2 DEF TypeOK
  <2>2. Leaves <= n
    <3> DEFINE f == [k \in 0 .. n - 1 |-> leaves[k]]
    <3>1. \A s \in LeafSet : \E a \in 0 .. n - 1 : f[a] = s
      BY <1>3
    <3> HIDE DEF f
    <3>2. n \in Nat /\ f \in [0 .. n - 1 -> LeafSet]
      BY <2>1 DEF f
    <3> QED
      BY <3>1, <3>2, EveryLeaf
  <2> QED
    BY <1>2, <2>1, <2>2
<1>5. Collected'
  BY <1>1, <1>2, <1>3, <1>4 DEF Collected
<1>6. Filled' = {} /\ Placed' = {}
  <2>1. Filled' = {}
    BY <1>1, StorageFacts DEF Filled
  <2>2. \A b \in Branches : ~(b > Leaves - 2)
    BY LeafFacts
  <2>3. leaf_index' + 1 .. Leaves - 1 = {}
    BY <1>1
  <2> QED
    BY <1>1, <2>1, <2>2, <2>3 DEF Placed
<1>7. Placing' /\ Making' /\ Weighing'
  <2>1. Placing'
    BY <1>6 DEF Placing
  <2>2. Making'
    <3>1. \A b \in Branches : ~(b > Leaves - 2)
      BY LeafFacts
    <3> QED
      BY <1>1, <3>1 DEF Making
  <2>3. Weighing'
    BY <1>6 DEF Weighing
  <2> QED
    BY <2>1, <2>2, <2>3
<1>8. Totalling'
  <2>1. Taken' = Taken /\ LeafWeights' = LeafWeights /\ Weights' = Weights /\ Lone' = 0
    BY <1>1 DEF Taken, LeafWeights, Weights, Lone
  <2>2. node_index' + 1 = NumNodes /\ pair_index' + 1 = NumNodes - 1
    BY <1>1, StorageFacts
  <2>3. /\ NumNodes \in Nat /\ NumNodes \in 0 .. NumNodes
    BY StorageFacts
  <2>4. /\ SumOver(LeafWeights, NumNodes, NumNodes, NumNodes - 1) = 0
        /\ SumOver(Weights, NumNodes, NumNodes, NumNodes - 1) = 0
    BY <2>3, LeafWeightsType, WeightsType, SumEmpty
  <2>5. 2 * TakenTotal(Leaves - 1) + 0 <= Limit + Leaves /\ TakenTotal(Leaves - 1) + 0 = SymbolTotal
    BY <1>1, <1>2, <1>4, <2>4 DEF LeafTotal
  <2>6. TakenTotal(Leaves - 1) \in Int
    <3>1. 0 \in 0 .. NumNodes /\ -1 \in -1 .. NumNodes - 1 /\ Leaves - 1 \in -1 .. Leaves - 1
      BY StorageFacts
    <3> QED
      BY <3>1, SumTypes DEF TakenTotal
  <2>7. AllTotal' = TakenTotal(Leaves - 1) + 0 /\ TakenTotal(leaf_index)' = TakenTotal(Leaves - 1)
    BY <1>1, <2>1, <2>2, <2>4 DEF AllTotal, TakenTotal, LeafTotal
  <2>8. SumOver(Weights, NumNodes, node_index + 1, pair_index + 1)' = 0
    BY <2>1, <2>2, <2>4
  <2>9. SymbolTotal' = SymbolTotal
    BY <1>1, SymbolTotalKept
  <2> QED
    BY <2>1, <2>5, <2>6, <2>7, <2>8, <2>9 DEF Totalling
<1> QED
  BY <1>5, <1>7, <1>8 DEF RebuildInv

(* Half of a weight, rounded up, is positive and keeps the order.          *)
LEMMA HalveFacts ==
  ASSUME NEW w \in Nat
  PROVE  /\ Halve(w) \in Nat /\ 2 * Halve(w) <= w + 1 /\ (w > 0 => Halve(w) > 0)
         /\ \A v \in Nat : v <= w => Halve(v) <= Halve(w)
BY DEF Halve

(* The next position holds a branch: nothing is taken.                     *)
LEMMA CollectBranchKeeps ==
  ASSUME TypeOK, Shape, CollectInv, Collect, nodes[i] \in Branches
  PROVE  CollectInv'
<1>1. /\ pc = "collect" /\ pc' = "collect" /\ i' = i + 1 /\ i < NumNodes
      /\ freq' = freq /\ leaves' = leaves /\ n' = n /\ nodes' = nodes /\ index' = index
  BY LeafIsLeaf, StorageFacts DEF Collect
<1>2. /\ Ordered
      /\ n <= Leaves
      /\ \A k \in 0 .. n - 1 : leaves[k] \in LeafSet /\ index[leaves[k]] < i
      /\ \A k, l \in 0 .. n - 1 : k < l => leaves[k] # leaves[l] /\ freq[leaves[k]] >= freq[leaves[l]]
      /\ \A s \in LeafSet : index[s] < i => \E k \in 0 .. n - 1 : leaves[k] = s
      /\ \A k \in 0 .. n - 1, s \in LeafSet : index[s] >= i => freq[leaves[k]] >= Halve(freq[s])
      /\ \A s, t \in LeafSet : i <= index[s] /\ index[s] < index[t] => freq[s] >= freq[t]
      /\ \A s \in LeafSet : freq[s] > 0
      /\ 2 * TakenTotal(n - 1) + LeafTotal(i) <= Limit + n
      /\ TakenTotal(n - 1) + LeafTotal(i) = SymbolTotal
  BY <1>1 DEF CollectInv
<1>3. i \in 0 .. NumNodes - 1 /\ i \in Storage /\ i \in Nat
  <2>1. i \in 0 .. NumNodes
    BY DEF TypeOK
  <2> QED
    BY <1>1, <2>1, StorageFacts
<1>4. \A s \in LeafSet : index[s] \in Int /\ index[s] # i
  <2>1. \A s \in LeafSet : index[s] \in Storage /\ nodes[index[s]] = s
    BY <1>2, LeafFacts DEF TypeOK, Ordered
  <2> QED
    BY <2>1, StorageFacts DEF LeafSet
<1>5. \A s \in LeafSet : (index[s] < i + 1 <=> index[s] < i) /\ (index[s] >= i + 1 <=> index[s] >= i) /\ (i + 1 <= index[s] <=> i <= index[s])
  BY <1>3, <1>4
<1>6. LeafTotal(i) = LeafTotal(i + 1)
  <2>1. LeafWeights[i] = 0
    BY <1>3 DEF LeafWeights
  <2>2. NumNodes \in Nat /\ NumNodes - 1 \in -1 .. NumNodes - 1 /\ i + 1 \in 0 .. NumNodes
    BY <1>3, StorageFacts
  <2>3. SumOver(LeafWeights, NumNodes, i, NumNodes - 1) = LeafWeights[i] + SumOver(LeafWeights, NumNodes, i + 1, NumNodes - 1)
    BY <1>3, <2>2, LeafWeightsType, SumFirst
  <2>4. SumOver(LeafWeights, NumNodes, i + 1, NumNodes - 1) \in Int
    BY <2>2, LeafWeightsType, SumType
  <2> QED
    BY <2>1, <2>3, <2>4 DEF LeafTotal
<1>7. LeafWeights' = LeafWeights /\ Taken' = Taken
  BY <1>1 DEF LeafWeights, Taken
<1>8. /\ 2 * TakenTotal(n - 1)' + LeafTotal(i)' <= Limit + n'
      /\ TakenTotal(n - 1)' + LeafTotal(i)' = SymbolTotal'
  <2>1. SymbolTotal' = SymbolTotal
    BY <1>1, SymbolTotalKept
  <2> QED
    BY <1>1, <1>2, <1>6, <1>7, <2>1 DEF TakenTotal, LeafTotal
<1>9. \A k \in 0 .. n - 1 : index[leaves[k]] < i + 1
  BY <1>2, <1>5
<1> QED
  BY <1>1, <1>2, <1>5, <1>8, <1>9 DEF CollectInv, Ordered

(* The next position holds a leaf: it is taken, at half its weight.        *)
LEMMA CollectLeafKeeps ==
  ASSUME TypeOK, Shape, CollectInv, Collect, nodes[i] \notin Branches
  PROVE  CollectInv'
<1> DEFINE s == nodes[i]
<1>1. i \in 0 .. NumNodes - 1 /\ i \in Storage /\ i \in Nat /\ s \in Storage /\ s \in LeafSet
  <2>1. i \in 0 .. NumNodes /\ i < NumNodes
    BY DEF TypeOK, Collect
  <2>2. i \in Storage /\ i \in 0 .. NumNodes - 1 /\ i \in Nat
    BY <2>1, StorageFacts
  <2>3. s \in Storage
    BY <2>2 DEF TypeOK
  <2> QED
    BY <2>2, <2>3, LeafFacts
<1>2. /\ pc = "collect" /\ pc' = "collect" /\ i' = i + 1 /\ n' = n + 1
      /\ freq' = [freq EXCEPT ![s] = Halve(@)] /\ leaves' = [leaves EXCEPT ![n] = s]
      /\ nodes' = nodes /\ index' = index
  BY <1>1, LeafIsLeaf DEF Collect
<1>3. /\ Ordered
      /\ n <= Leaves
      /\ \A k \in 0 .. n - 1 : leaves[k] \in LeafSet /\ index[leaves[k]] < i
      /\ \A k, l \in 0 .. n - 1 : k < l => leaves[k] # leaves[l] /\ freq[leaves[k]] >= freq[leaves[l]]
      /\ \A t \in LeafSet : index[t] < i => \E k \in 0 .. n - 1 : leaves[k] = t
      /\ \A k \in 0 .. n - 1, t \in LeafSet : index[t] >= i => freq[leaves[k]] >= Halve(freq[t])
      /\ \A t, u \in LeafSet : i <= index[t] /\ index[t] < index[u] => freq[t] >= freq[u]
      /\ \A t \in LeafSet : freq[t] > 0
      /\ 2 * TakenTotal(n - 1) + LeafTotal(i) <= Limit + n
      /\ TakenTotal(n - 1) + LeafTotal(i) = SymbolTotal
  BY <1>2 DEF CollectInv
<1> HIDE DEF s
<1>4. index[s] = i /\ \A t \in LeafSet : index[t] \in Int /\ (index[t] = i => t = s)
  <2>1. \A t \in LeafSet : index[t] \in Storage /\ nodes[index[t]] = t
    BY <1>3, LeafFacts DEF TypeOK, Ordered
  <2>2. index[s] = i
    BY <1>1, <1>3 DEF Ordered, s
  <2> QED
    BY <2>1, <2>2, StorageFacts DEF s
<1>5. \A t \in LeafSet : freq[t] \in Nat
  BY LeafFacts DEF TypeOK
<1>6. n \in Nat /\ n <= Leaves - 1
  <2> DEFINE f == [k \in 0 .. (n + 1) - 1 |-> IF k = n THEN s ELSE leaves[k]]
  <2>1. n \in Nat /\ n + 1 \in Nat
    BY DEF TypeOK
  <2>2. \A k \in 0 .. (n + 1) - 1 : k = n \/ k \in 0 .. n - 1
    BY <2>1
  <2>3. f \in [0 .. (n + 1) - 1 -> LeafSet]
    BY <1>1, <1>3, <2>2
  <2>4. ASSUME NEW a \in 0 .. (n + 1) - 1, NEW b \in 0 .. (n + 1) - 1, a < b PROVE f[a] # f[b]
    <3>1. a \in 0 .. n - 1 /\ f[a] = leaves[a] /\ index[leaves[a]] < i
      BY <1>3, <2>1, <2>4
    <3>2. CASE b = n
      BY <1>1, <1>4, <2>1, <3>1, <3>2
    <3>3. CASE b \in 0 .. n - 1
      BY <1>3, <2>1, <2>4, <3>1, <3>3
    <3> QED
      BY <2>2, <3>2, <3>3
  <2> HIDE DEF f
  <2>5. n + 1 <= Leaves
    BY <2>1, <2>3, <2>4, DistinctLeaves
  <2> QED
    BY <2>1, <2>5
<1>7. /\ leaves'[n] = s /\ \A k \in 0 .. n - 1 : leaves'[k] = leaves[k] /\ leaves[k] # s /\ k \in 0 .. Leaves - 1
      /\ \A k \in 0 .. (n + 1) - 1 : k = n \/ k \in 0 .. n - 1
      /\ n \in 0 .. (n + 1) - 1 /\ \A k \in 0 .. n - 1 : k \in 0 .. (n + 1) - 1 /\ k < n
  <2>1. leaves'[n] = s /\ \A k \in 0 .. Leaves - 1 : k # n => leaves'[k] = leaves[k]
    BY <1>2, <1>6 DEF TypeOK
  <2>2. \A k \in 0 .. n - 1 : leaves[k] # s
    BY <1>1, <1>3, <1>4
  <2>3. \A k \in 0 .. n - 1 : k \in 0 .. Leaves - 1 /\ k # n
    BY <1>6
  <2> QED
    BY <1>6, <2>1, <2>2, <2>3
<1>8. /\ freq'[s] = Halve(freq[s]) /\ \A t \in Storage : t # s => freq'[t] = freq[t]
      /\ \A t \in LeafSet : t # s => freq'[t] = freq[t]
  <2>1. freq'[s] = Halve(freq[s]) /\ \A t \in Storage : t # s => freq'[t] = freq[t]
    BY <1>1, <1>2 DEF TypeOK
  <2> QED
    BY <2>1, LeafFacts
<1>9. Ordered' /\ n + 1 <= Leaves
  BY <1>2, <1>3, <1>6 DEF Ordered
<1>10. \A k \in 0 .. (n + 1) - 1 : leaves'[k] \in LeafSet /\ index[leaves'[k]] < i + 1
  <2>1. index[s] < i + 1
    BY <1>1, <1>4
  <2>2. ASSUME NEW k \in 0 .. n - 1 PROVE index[leaves[k]] < i + 1
    <3>1. leaves[k] \in LeafSet /\ index[leaves[k]] < i
      BY <1>3
    <3>2. index[leaves[k]] \in Int
      BY <1>4, <3>1
    <3> QED
      BY <1>1, <3>1, <3>2
  <2> QED
    BY <1>1, <1>3, <1>7, <2>1, <2>2
<1>11. ASSUME NEW k \in 0 .. (n + 1) - 1, NEW l \in 0 .. (n + 1) - 1, k < l
       PROVE  leaves'[k] # leaves'[l] /\ freq'[leaves'[k]] >= freq'[leaves'[l]]
  <2>1. k \in 0 .. n - 1
    BY <1>6, <1>11
  <2>2. leaves'[k] = leaves[k] /\ leaves[k] # s /\ freq'[leaves[k]] = freq[leaves[k]]
    BY <1>3, <1>7, <1>8, <2>1
  <2>3. CASE l = n
    BY <1>1, <1>3, <1>4, <1>7, <1>8, <2>1, <2>2, <2>3
  <2>4. CASE l \in 0 .. n - 1
    <3>1. leaves'[l] = leaves[l] /\ freq'[leaves[l]] = freq[leaves[l]]
      BY <1>3, <1>7, <1>8, <2>4
    <3> QED
      BY <1>3, <1>11, <2>1, <2>2, <2>4, <3>1
  <2> QED
    BY <1>7, <2>3, <2>4
<1>12. ASSUME NEW t \in LeafSet, index[t] < i + 1 PROVE \E k \in 0 .. (n + 1) - 1 : leaves'[k] = t
  <2>1. CASE t = s
    BY <1>7, <2>1
  <2>2. CASE t # s
    <3>1. index[t] < i
      BY <1>1, <1>4, <1>12, <2>2
    <3> QED
      BY <1>3, <1>7, <3>1
  <2> QED
    BY <2>1, <2>2
<1>13. ASSUME NEW k \in 0 .. (n + 1) - 1, NEW t \in LeafSet, index[t] >= i + 1
       PROVE  freq'[leaves'[k]] >= Halve(freq'[t])
  <2>0. index[t] \in Int /\ index[t] >= i /\ index[t] # i
    BY <1>1, <1>4, <1>13
  <2>1. t # s /\ freq'[t] = freq[t] /\ index[t] >= i
    BY <1>4, <1>8, <2>0
  <2>2. CASE k = n
    <3>1. freq[s] >= freq[t]
      BY <1>1, <1>3, <1>4, <1>13
    <3>2. Halve(freq[s]) >= Halve(freq[t])
      BY <1>1, <1>5, <3>1, HalveFacts
    <3> QED
      BY <1>7, <1>8, <2>1, <2>2, <3>2
  <2>3. CASE k \in 0 .. n - 1
    BY <1>3, <1>7, <1>8, <2>1, <2>3
  <2> QED
    BY <1>7, <2>2, <2>3
<1>14. ASSUME NEW t \in LeafSet, NEW u \in LeafSet, i + 1 <= index[t], index[t] < index[u]
       PROVE  freq'[t] >= freq'[u]
  <2>1. t # s /\ u # s /\ i <= index[t]
    BY <1>1, <1>4, <1>14
  <2> QED
    BY <1>3, <1>8, <1>14, <2>1
<1>15. \A t \in LeafSet : freq'[t] > 0
  <2>1. Halve(freq[s]) > 0
    BY <1>1, <1>3, <1>5, HalveFacts
  <2> QED
    BY <1>3, <1>8, <2>1
<1>16. /\ 2 * TakenTotal(n - 1)' + LeafTotal(i)' <= Limit + n'
       /\ TakenTotal(n - 1)' + LeafTotal(i)' = SymbolTotal'
  <2> DEFINE m == NumNodes
  <2> DEFINE tk == SumOver(Taken, Leaves, 0, n - 1)
  <2> DEFINE lw == SumOver(LeafWeights, m, i + 1, m - 1)
  <2>1. /\ m \in Nat /\ m - 1 \in -1 .. m - 1 /\ i + 1 \in 0 .. m /\ i + 1 <= (m - 1) + 1
        /\ Leaves \in Nat /\ n \in 0 .. Leaves - 1 /\ 0 \in 0 .. Leaves /\ n - 1 \in -1 .. Leaves - 1 /\ 0 <= (n - 1) + 1
        /\ Storage = 0 .. m - 1
    BY <1>1, <1>6, StorageFacts
  <2>2. freq[s] \in Nat /\ Halve(freq[s]) \in Nat /\ 2 * Halve(freq[s]) <= freq[s] + 1
    BY <1>1, <1>5, HalveFacts
  <2>3. /\ \A t \in Storage : freq[t] \in Int /\ freq'[t] \in Int
        /\ \A k \in 0 .. Leaves - 1 : leaves[k] \in Storage /\ leaves'[k] \in Storage
    <3>1. \A t \in Storage : freq[t] \in Int
      BY DEF TypeOK
    <3>2. \A t \in Storage : freq'[t] \in Int
      BY <1>8, <2>2, <3>1
    <3>3. \A k \in 0 .. Leaves - 1 : leaves[k] \in Storage /\ leaves'[k] \in Storage
      BY <1>1, <1>2 DEF TypeOK
    <3> QED
      BY <3>1, <3>2, <3>3
  <2>4. /\ LeafWeights \in [0 .. m - 1 -> Int] /\ LeafWeights' \in [0 .. m - 1 -> Int]
        /\ Taken \in [0 .. Leaves - 1 -> Int] /\ Taken' \in [0 .. Leaves - 1 -> Int]
    <3>1. \A p \in Storage : nodes[p] \in Storage
      BY DEF TypeOK
    <3> QED
      BY <1>2, <2>1, <2>3, <3>1 DEF LeafWeights, Taken
  <2>5. /\ Taken'[n] = Halve(freq[s])
        /\ \A k \in 0 .. n - 1 : Taken'[k] = Taken[k]
    BY <1>3, <1>7, <1>8, <2>1 DEF Taken
  <2>6. /\ LeafWeights[i] = freq[s]
        /\ \A p \in i + 1 .. m - 1 : LeafWeights'[p] = LeafWeights[p]
    <3>1. LeafWeights[i] = freq[s]
      BY <1>1, LeafFacts DEF LeafWeights, s
    <3>2. ASSUME NEW p \in i + 1 .. m - 1 PROVE LeafWeights'[p] = LeafWeights[p]
      <4>1. p \in Storage /\ p # i
        BY <1>1, <2>1
      <4>2. nodes[p] \in Storage /\ nodes[p] # s
        BY <1>3, <1>4, <4>1 DEF TypeOK, Ordered
      <4>3. freq'[nodes[p]] = freq[nodes[p]]
        BY <1>8, <4>2
      <4> QED
        BY <1>2, <4>1, <4>3 DEF LeafWeights
    <3> QED
      BY <3>1, <3>2
  <2>7. SumOver(Taken', Leaves, 0, n) = tk + Halve(freq[s])
    <3>1. SumOver(Taken', Leaves, 0, n) = SumOver(Taken', Leaves, 0, n - 1) + Taken'[n]
      BY <2>1, <2>4, SumLast
    <3>2. /\ Leaves \in Nat /\ 0 \in 0 .. Leaves /\ n - 1 \in -1 .. Leaves - 1
          /\ 0 <= (n - 1) + 1
      BY <2>1
    <3>3. SumOver(Taken', Leaves, 0, n - 1) = SumOver(Taken, Leaves, 0, n - 1)
      BY <2>4, <2>5, <3>2, SumSame, Zenon
    <3> QED
      BY <2>5, <3>1, <3>3
  <2>8. SumOver(LeafWeights, m, i, m - 1) = freq[s] + lw
    <3>1. SumOver(LeafWeights, m, i, m - 1) = LeafWeights[i] + SumOver(LeafWeights, m, i + 1, m - 1)
      BY <1>1, <2>1, <2>4, SumFirst
    <3> QED
      BY <2>6, <3>1
  <2>9. SumOver(LeafWeights', m, i + 1, m - 1) = lw
    <3>1. m \in Nat /\ i + 1 \in 0 .. m /\ m - 1 \in -1 .. m - 1 /\ i + 1 <= (m - 1) + 1
      BY <2>1
    <3>2. \A p \in i + 1 .. m - 1 : LeafWeights'[p] = LeafWeights[p]
      BY <2>6
    <3> DEFINE F == LeafWeights'
    <3> DEFINE G == LeafWeights
    <3> DEFINE a == i + 1
    <3> DEFINE e == m - 1
    <3>3. /\ F \in [0 .. m - 1 -> Int] /\ G \in [0 .. m - 1 -> Int]
          /\ m \in Nat /\ a \in 0 .. m /\ e \in -1 .. m - 1 /\ a <= e + 1
          /\ \A p \in a .. e : F[p] = G[p]
      BY <2>4, <3>1, <3>2
    <3> HIDE DEF F, G, a, e, m
    <3>4. SumOver(F, m, a, e) = SumOver(G, m, a, e)
      BY <3>3, SumSame
    <3> QED
      BY <3>4 DEF F, G, a, e, m
  <2>10. tk \in Int /\ lw \in Int
    BY <2>1, <2>4, SumType
  <2>11. TakenTotal(n - 1)' = tk + Halve(freq[s]) /\ LeafTotal(i)' = lw
    <3>1. n' - 1 = n /\ i' = i + 1
      BY <1>2, <1>6
    <3> QED
      BY <2>7, <2>9, <3>1 DEF TakenTotal, LeafTotal
  <2>12. 2 * tk + (freq[s] + lw) <= Limit + n /\ tk + (freq[s] + lw) = SymbolTotal
    BY <1>3, <2>8 DEF TakenTotal, LeafTotal
  <2>13. SymbolTotal' = SymbolTotal + (Halve(freq[s]) - freq[s])
    BY <1>1, <1>2, <2>2, SymbolTotalEdited
  <2> HIDE DEF tk, lw
  <2> QED
    BY <1>2, <1>6, <2>2, <2>10, <2>11, <2>12, <2>13
<1> QED
  BY <1>2, <1>9, <1>10, <1>11, <1>12, <1>13, <1>14, <1>15, <1>16 DEF CollectInv

(* At the limit the update turns to the rebuild: nothing is taken yet.     *)
LEMMA BeginUpdateKeeps ==
  ASSUME TypeOK, Shape, NodeInv, TreeInv, BeginUpdate
  PROVE  TreeInv' /\ CollectInv'
<1>1. /\ pc = "walk" /\ IsLeaf(node) /\ UNCHANGED treeVars /\ node' = node /\ q_index' = q_index
      /\ pc' = IF AtLimit THEN "collect" ELSE "climb"
      /\ index' = index /\ nodes' = nodes /\ freq' = freq /\ leaves' = leaves /\ i' = i /\ n' = n
  BY DEF BeginUpdate, treeVars, collectVars
<1>2. /\ Ordered /\ Linked /\ Positive /\ SummedBut(Null) /\ SortedBut(Null)
      /\ freq[Root] <= Limit /\ LeafTotal(0) = freq[Root] /\ LeafTotal(0) = SymbolTotal
  BY <1>1 DEF TreeInv, Grown, Uncounted, Counted
<1>3. node \in Storage /\ node \notin Branches
  BY <1>1, LeafIsLeaf DEF TypeOK
<1>4. freq[Root] \in Nat
  BY <1>2, RootFacts DEF TypeOK
<1>5. CASE ~AtLimit
  <2>1. pc' = "climb" /\ freq[Root] < Limit
    BY <1>1, <1>2, <1>4, <1>5 DEF AtLimit
  <2>2. SummedBut(node)
    <3>1. \A b \in Branches : b # node /\ b # Null
      BY <1>3, StorageFacts
    <3> QED
      BY <1>2, <3>1 DEF SummedBut
  <2>3. TreeInv'
    BY <1>1, <1>2, <1>3, <2>1, <2>2, SameTree DEF TreeInv, Uncounted, Counted
  <2> QED
    BY <2>1, <2>3 DEF CollectInv
<1>6. CASE AtLimit
  <2>1. pc' = "collect" /\ i = 0 /\ n = 0
    BY <1>1, <1>6 DEF NodeInv, Grown
  <2>2. 0 .. 0 - 1 = {} /\ n - 1 = -1 /\ n <= Leaves
    BY <2>1
  <2>3. \A s \in LeafSet : index[s] \in Storage /\ nodes[index[s]] = s /\ s # Null /\ ~(index[s] < 0)
    <3>1. \A s \in LeafSet : index[s] \in Storage /\ nodes[index[s]] = s /\ s # Null
      <4>1. LeafSet \subseteq Storage /\ Null \notin Storage
        BY LeafFacts, StorageFacts
      <4>2. \A s \in Storage : index[s] \in Storage /\ nodes[index[s]] = s
        BY <1>2 DEF TypeOK, Ordered
      <4> QED
        BY <4>1, <4>2
    <3> QED
      BY <3>1, StorageFacts
  <2>4. \A s, t \in LeafSet : index[s] < index[t] => freq[s] >= freq[t]
    BY <1>2, <2>3 DEF SortedBut
  <2>5. 2 * TakenTotal(-1) + LeafTotal(0) <= Limit + 0 /\ TakenTotal(-1) + LeafTotal(0) = SymbolTotal
    <3>1. Leaves \in Nat /\ 0 \in 0 .. Leaves /\ 0 - 1 = -1
      OBVIOUS
    <3>2. TakenTotal(-1) = 0
      BY <3>1, SumEmpty, WeightsType DEF TakenTotal
    <3> QED
      BY <1>2, <1>4, <3>2
  <2>6. TakenTotal(-1)' = TakenTotal(-1) /\ LeafTotal(0)' = LeafTotal(0) /\ SymbolTotal' = SymbolTotal
    <3>1. Taken' = Taken /\ LeafWeights' = LeafWeights
      BY <1>1 DEF Taken, LeafWeights
    <3> QED
      BY <1>1, <3>1, SymbolTotalKept DEF TakenTotal, LeafTotal
  <2>7. \A s \in LeafSet : freq[s] > 0
    BY <1>2, LeafFacts DEF Positive
  <2>8. /\ 2 * TakenTotal(n - 1)' + LeafTotal(i)' <= Limit + n'
        /\ TakenTotal(n - 1)' + LeafTotal(i)' = SymbolTotal'
    <3>1. n' - 1 = -1 /\ i' = 0 /\ n' = 0
      BY <1>1, <2>1
    <3> QED
      BY <2>5, <2>6, <3>1 DEF TakenTotal, LeafTotal
  <2>9. Ordered'
    BY <1>1, <1>2 DEF Ordered
  <2>10. CollectInv'
    BY <1>1, <2>1, <2>2, <2>3, <2>4, <2>7, <2>8, <2>9 DEF CollectInv
  <2> QED
    BY <2>1, <2>10 DEF TreeInv, Grown
<1> QED
  BY <1>5, <1>6

(* The steps of the walk.                                                  *)
LEMMA BeginSymbolKeeps ==
  ASSUME TypeOK, TreeInv, BeginSymbol
  PROVE  TreeInv'
<1>1. /\ pc = "ready" /\ pc' = "walk" /\ UNCHANGED treeVars
  BY DEF BeginSymbol
<1> QED
  BY <1>1, SameTree DEF TreeInv, Grown, Uncounted, Counted

(* The walk follows a link.                                                *)
LEMMA WalkBitKeeps ==
  ASSUME TypeOK, Shape, TreeInv, NEW bit \in {0, 1}, WalkBit(bit)
  PROVE  TreeInv' /\ pc' = "walk" /\ node' \in Storage
<1>1. pc = "walk" /\ UNCHANGED treeVars /\ node \in Branches
  BY LeafIsLeaf DEF WalkBit, TypeOK
<1>2. leftchild[node] \in Storage /\ rightchild[node] \in Storage
  BY <1>1, StorageFacts DEF Shape
<1>3. pc' = "walk" /\ node' \in Storage
  BY <1>1, <1>2, StorageFacts DEF WalkBit
<1> QED
  BY <1>1, <1>3, SameTree DEF TreeInv, Grown, Uncounted, Counted

(* In a heap of weights none is lighter than one behind it: the children   *)
(* of a branch are in front of those of the branch behind it.              *)
LEMMA HeapIsSorted ==
  ASSUME NEW f \in HeapWeights, NEW p \in Storage, NEW q \in Storage, p < q
  PROVE  f[p] >= f[q]
<1>1. /\ f \in [Storage -> 1 .. Leaves]
      /\ \A s \in Storage : f[s] = IF s \in Branches THEN f[2 * s + 1] + f[2 * s + 2] ELSE 1
  BY DEF HeapWeights
<1>2. \A s \in Storage : f[s] \in Nat /\ f[s] >= 1
  BY <1>1
<1> DEFINE m == NumNodes
<1> DEFINE Down == {d \in 0 .. m - 2 : f[m - 2 - d] < f[m - 1 - d]}
<1>3. Down = {}
  <2> SUFFICES ASSUME Down # {} PROVE FALSE
    OBVIOUS
  <2>1. Down \in SUBSET Nat
    OBVIOUS
  <2>2. PICK d \in Down : \A e \in Down : d <= e
    BY <2>1, LeastElement
  <2> DEFINE s == m - 2 - d
  <2>3. s \in Storage /\ s + 1 \in Storage /\ f[s] < f[s + 1] /\ s \in Nat /\ s + 1 = m - 1 - d /\ d = m - 2 - s
    BY <2>2, StorageFacts
  <2>4. \A t \in s + 1 .. m - 2 : f[t] >= f[t + 1]
    <3> SUFFICES ASSUME NEW t \in s + 1 .. m - 2 PROVE f[t] >= f[t + 1]
      OBVIOUS
    <3>1. t \in Storage /\ t + 1 \in Storage /\ f[t] \in Nat /\ f[t + 1] \in Nat
      <4>1. t \in Storage /\ t + 1 \in Storage
        BY <2>3, StorageFacts
      <4> QED
        BY <1>2, <4>1
    <3>2. m - 2 - t \in 0 .. m - 2 /\ m - 2 - t < d /\ m - 2 - (m - 2 - t) = t /\ m - 1 - (m - 2 - t) = t + 1
      BY <2>2, <2>3, StorageFacts
    <3>3. m - 2 - t \notin Down
      <4> HIDE DEF Down
      <4> QED
        BY <2>1, <2>2, <3>2
    <3> QED
      BY <3>1, <3>2, <3>3
  <2> HIDE DEF s, Down
  <2>5. s + 1 \in Branches
    <3>1. f[s] \in Nat /\ f[s] >= 1 /\ f[s + 1] \in Nat
      BY <1>2, <2>3
    <3> QED
      BY <1>1, <2>3, <3>1
  <2>6. /\ s \in Branches /\ s + 1 <= Leaves - 2
        /\ 2 * s + 1 \in s + 1 .. m - 2 /\ 2 * s + 2 \in s + 1 .. m - 2 /\ 2 * s + 3 \in s + 1 .. m - 2
        /\ 2 * (s + 1) + 1 = 2 * s + 3 /\ 2 * (s + 1) + 2 = 2 * s + 4
        /\ (2 * s + 1) + 1 = 2 * s + 2 /\ (2 * s + 2) + 1 = 2 * s + 3 /\ (2 * s + 3) + 1 = 2 * s + 4
        /\ 2 * s + 1 \in Storage /\ 2 * s + 2 \in Storage /\ 2 * s + 3 \in Storage /\ 2 * s + 4 \in Storage
    BY <2>3, <2>5 DEF Branches, Storage, NumNodes
  <2>7. f[2 * s + 1] >= f[2 * s + 2] /\ f[2 * s + 2] >= f[2 * s + 3] /\ f[2 * s + 3] >= f[2 * s + 4]
    BY <2>4, <2>6
  <2>8. f[s] = f[2 * s + 1] + f[2 * s + 2] /\ f[s + 1] = f[2 * s + 3] + f[2 * s + 4]
    BY <1>1, <2>3, <2>5, <2>6
  <2>9. f[2 * s + 1] \in Nat /\ f[2 * s + 2] \in Nat /\ f[2 * s + 3] \in Nat /\ f[2 * s + 4] \in Nat
    BY <1>2, <2>6
  <2> QED
    BY <2>3, <2>7, <2>8, <2>9
<1>4. \A s \in 0 .. m - 2 : f[s] >= f[s + 1]
  <2> SUFFICES ASSUME NEW s \in 0 .. m - 2 PROVE f[s] >= f[s + 1]
    OBVIOUS
  <2>1. s \in Storage /\ s + 1 \in Storage /\ m - 2 - s \in 0 .. m - 2
        /\ m - 2 - (m - 2 - s) = s /\ m - 1 - (m - 2 - s) = s + 1
    BY StorageFacts
  <2>2. f[s] \in Nat /\ f[s + 1] \in Nat
    BY <1>2, <2>1
  <2>3. ~(f[m - 2 - (m - 2 - s)] < f[m - 1 - (m - 2 - s)])
    BY <1>3, <2>1
  <2> QED
    BY <2>1, <2>2, <2>3
<1> HIDE DEF Down
<1> DEFINE S == {t \in p .. m - 1 : f[p] >= f[t]}
<1>5. p \in 0 .. m - 1 /\ q \in p .. m - 1 /\ p \in Int /\ m - 1 \in Int
  BY StorageFacts
<1>6. p \in S
  BY <1>2, <1>5
<1>7. ASSUME NEW t \in p .. (m - 1) - 1, t \in S PROVE t + 1 \in S
  <2>1. t \in 0 .. m - 2 /\ t \in Storage /\ t + 1 \in Storage /\ t + 1 \in p .. m - 1
    BY <1>5, StorageFacts
  <2>2. f[p] \in Nat /\ f[t] \in Nat /\ f[t + 1] \in Nat
    BY <1>2, <2>1
  <2>3. f[t] >= f[t + 1] /\ f[p] >= f[t]
    BY <1>4, <1>7, <2>1
  <2> QED
    BY <2>1, <2>2, <2>3
<1>8. q \in S
  <2> HIDE DEF S
  <2>1. \A t \in p .. m - 1 : t \in S
    BY <1>5, <1>6, <1>7, Upwards
  <2> QED
    BY <1>5, <2>1
<1> QED
  BY <1>8

(* The root of a heap weighs as much as the leaves: from the last branch   *)
(* up, a branch takes the place of its children in positions b to 2b.      *)
LEMMA HeapTotal ==
  ASSUME NEW f \in HeapWeights
  PROVE  f[0] = SumOver(f, NumNodes, Leaves - 1, NumNodes - 1)
<1> DEFINE m == NumNodes
<1> DEFINE total == SumOver(f, m, Leaves - 1, m - 1)
<1>1. /\ f \in [0 .. m - 1 -> Int] /\ m \in Nat /\ m = 2 * Leaves - 1
      /\ \A b \in 0 .. Leaves - 2 : f[b] = f[2 * b + 1] + f[2 * b + 2]
  <2>1. /\ f \in [Storage -> 1 .. Leaves]
        /\ \A s \in Storage : f[s] = IF s \in Branches THEN f[2 * s + 1] + f[2 * s + 2] ELSE 1
    BY DEF HeapWeights
  <2> QED
    BY <2>1, StorageFacts, LeafFacts, SMTT(30)
<1> DEFINE S == {d \in 0 .. Leaves - 1 : SumOver(f, m, Leaves - 1 - d, 2 * (Leaves - 1 - d)) = total}
<1>2. 0 \in S
  <2>1. Leaves - 1 - 0 = Leaves - 1 /\ 2 * (Leaves - 1 - 0) = m - 1
    BY <1>1
  <2> QED
    BY <2>1
<1>3. ASSUME NEW d \in 0 .. (Leaves - 1) - 1, d \in S PROVE d + 1 \in S
  <2> DEFINE b == Leaves - 2 - d
  <2>1. /\ b \in 0 .. Leaves - 2 /\ Leaves - 1 - d = b + 1 /\ Leaves - 1 - (d + 1) = b
        /\ 2 * (b + 1) = 2 * b + 2 /\ (2 * b + 2) - 1 = 2 * b + 1 /\ (2 * b + 1) - 1 = 2 * b
        /\ b \in 0 .. m - 1 /\ 2 * b \in -1 .. m - 1 /\ b + 1 \in 0 .. m
        /\ 2 * b + 1 \in 0 .. m - 1 /\ 2 * b + 2 \in 0 .. m - 1
        /\ d + 1 \in 0 .. Leaves - 1
    BY <1>1
  <2> HIDE DEF b
  <2>2. SumOver(f, m, b, 2 * b) = f[b] + SumOver(f, m, b + 1, 2 * b)
    BY <1>1, <2>1, SumFirst
  <2>3. SumOver(f, m, b + 1, 2 * b + 2) = SumOver(f, m, b + 1, (2 * b + 2) - 1) + f[2 * b + 2]
    BY <1>1, <2>1, SumLast
  <2>4. SumOver(f, m, b + 1, 2 * b + 1) = SumOver(f, m, b + 1, (2 * b + 1) - 1) + f[2 * b + 1]
    BY <1>1, <2>1, SumLast
  <2>5. SumOver(f, m, b + 1, 2 * b) \in Int /\ f[2 * b + 1] \in Int /\ f[2 * b + 2] \in Int
    BY <1>1, <2>1, SumType
  <2>6. f[b] = f[2 * b + 1] + f[2 * b + 2]
    BY <1>1, <2>1
  <2>7. SumOver(f, m, b, 2 * b) = SumOver(f, m, b + 1, 2 * b + 2)
    BY <2>1, <2>2, <2>3, <2>4, <2>5, <2>6
  <2>8. SumOver(f, m, b + 1, 2 * (b + 1)) = total
    BY <1>3, <2>1
  <2> HIDE DEF total
  <2>9. SumOver(f, m, b, 2 * b) = total
    BY <2>1, <2>7, <2>8
  <2> QED
    BY <2>1, <2>9
<1>4. Leaves - 1 \in S
  <2> HIDE DEF S
  <2>1. 0 \in Int /\ Leaves - 1 \in Int /\ Leaves - 1 \in 0 .. Leaves - 1
    OBVIOUS
  <2>2. \A d \in 0 .. Leaves - 1 : d \in S
    BY <1>2, <1>3, <2>1, Upwards
  <2> QED
    BY <2>1, <2>2
<1>5. SumOver(f, m, 0, 0) = total
  <2>1. Leaves - 1 - (Leaves - 1) = 0 /\ 2 * 0 = 0
    OBVIOUS
  <2> HIDE DEF total
  <2> QED
    BY <1>4, <2>1
<1>6. SumOver(f, m, 0, 0) = f[0]
  <2>1. 0 \in 0 .. m - 1 /\ 0 \in 0 .. m /\ 0 - 1 = -1 /\ f[0] \in Int
    BY <1>1
  <2>2. SumOver(f, m, 0, 0) = SumOver(f, m, 0, 0 - 1) + f[0]
    BY <1>1, <2>1, SumLast
  <2>3. SumOver(f, m, 0, 0 - 1) = 0
    BY <1>1, <2>1, SumEmpty
  <2> QED
    BY <2>1, <2>2, <2>3
<1> QED
  BY <1>5, <1>6

(* The first tree is a heap of weights: each branch has the two next       *)
(* positions as its children.                                              *)
LEMMA InitTree ==
  ASSUME Init
  PROVE  TypeOK /\ Shape /\ TreeInv
<1>1. /\ parent     = [s \in Storage |-> IF s = 0 THEN Null ELSE (s - 1) \div 2]
      /\ leftchild  = [s \in Storage |-> IF s \in Branches THEN 2 * s + 1 ELSE Null]
      /\ rightchild = [s \in Storage |-> IF s \in Branches THEN 2 * s + 2 ELSE Null]
      /\ freq \in HeapWeights
      /\ nodes      = [p \in Storage |-> p]
      /\ index      = [s \in Storage |-> s]
      /\ pc = "ready" /\ node = 0 /\ q_index = 0
      /\ leaves = NoLeaves /\ i = 0 /\ n = 0
      /\ leaf_index = 0 /\ branch_index = 0 /\ node_index = 0
      /\ pair_index = 0 /\ branch = 0
  BY DEF Init
<1>2. /\ Storage = 0 .. NumNodes - 1 /\ NumNodes = 2 * Leaves - 1 /\ Branches = 0 .. Leaves - 2
      /\ NumNodes \in Nat /\ 0 \in Storage
  BY StorageFacts, LeafFacts
<1>3. ASSUME NEW b \in Branches
      PROVE  /\ b \in Storage /\ 2 * b + 1 \in Storage /\ 2 * b + 2 \in Storage
             /\ leftchild[b] = 2 * b + 1 /\ rightchild[b] = 2 * b + 2
             /\ parent[2 * b + 1] = b /\ parent[2 * b + 2] = b
  <2>1. b \in Storage /\ 2 * b + 1 \in Storage /\ 2 * b + 2 \in Storage /\ b \in Nat
    BY <1>2
  <2>2. ((2 * b + 1) - 1) \div 2 = b /\ ((2 * b + 2) - 1) \div 2 = b /\ 2 * b + 1 # 0 /\ 2 * b + 2 # 0
    BY <2>1
  <2> QED
    BY <1>1, <2>1, <2>2
<1>4. ASSUME NEW s \in Storage, s # 0
      PROVE  /\ parent[s] \in Branches /\ parent[s] = (s - 1) \div 2
             /\ s = 2 * parent[s] + 1 \/ s = 2 * parent[s] + 2
  <2>1. (s - 1) \div 2 \in Branches /\ (s = 2 * ((s - 1) \div 2) + 1 \/ s = 2 * ((s - 1) \div 2) + 2)
    BY <1>2, <1>4
  <2> QED
    BY <1>1, <1>4, <2>1
<1>5. /\ freq \in [Storage -> 1 .. Leaves]
      /\ \A s \in Storage : freq[s] = IF s \in Branches THEN freq[2 * s + 1] + freq[2 * s + 2] ELSE 1
      /\ \A s \in Storage : freq[s] \in Nat /\ freq[s] > 0
  BY <1>1 DEF HeapWeights
<1>6. TypeOK
  <2>1. /\ parent \in [Storage -> Link] /\ leftchild \in [Storage -> Link] /\ rightchild \in [Storage -> Link]
    <3>1. \A s \in Storage : (IF s = 0 THEN Null ELSE (s - 1) \div 2) \in Link
      <4>1. \A s \in Storage : s # 0 => parent[s] \in Branches /\ parent[s] = (s - 1) \div 2
        BY <1>4
      <4> QED
        BY <4>1, StorageFacts DEF Link
    <3>2. \A b \in Branches : 2 * b + 1 \in Link /\ 2 * b + 2 \in Link
      BY <1>3 DEF Link
    <3>3. Null \in Link
      BY DEF Link
    <3> QED
      BY <1>1, <3>1, <3>2, <3>3
  <2>2. freq \in [Storage -> Nat]
    BY <1>5
  <2>3. nodes \in [Storage -> Storage] /\ index \in [Storage -> Storage]
    BY <1>1
  <2>4. node \in Storage /\ q_index \in Storage /\ branch \in Storage
    BY <1>1, <1>2
  <2>5. leaves \in [0 .. Leaves - 1 -> Storage] /\ i \in 0 .. NumNodes /\ n \in Nat
    BY <1>1, <1>2 DEF NoLeaves
  <2>6. /\ leaf_index \in -1 .. Leaves - 1 /\ branch_index \in -1 .. Leaves - 2
        /\ node_index \in -1 .. NumNodes - 1 /\ pair_index \in -1 .. NumNodes - 2
    BY <1>1, <1>2
  <2> QED
    BY <1>1, <2>1, <2>2, <2>3, <2>4, <2>5, <2>6 DEF TypeOK
<1>7. Shape
  BY <1>1, <1>3 DEF Shape
<1>8. Root = 0 /\ Root \in Storage
  BY <1>1, <1>2 DEF Root
<1>9. Ordered
  BY <1>1 DEF Ordered
<1>10. Linked
  <2>1. \A b \in Branches : /\ leftchild[b] # rightchild[b]
                            /\ parent[leftchild[b]] = b /\ index[leftchild[b]] > index[b]
                            /\ parent[rightchild[b]] = b /\ index[rightchild[b]] > index[b]
    <3> SUFFICES ASSUME NEW b \in Branches
                 PROVE  /\ leftchild[b] # rightchild[b]
                        /\ parent[leftchild[b]] = b /\ index[leftchild[b]] > index[b]
                        /\ parent[rightchild[b]] = b /\ index[rightchild[b]] > index[b]
      OBVIOUS
    <3>1. index[b] = b /\ index[2 * b + 1] = 2 * b + 1 /\ index[2 * b + 2] = 2 * b + 2
      BY <1>1, <1>3
    <3>2. 2 * b + 1 > b /\ 2 * b + 2 > b /\ 2 * b + 1 # 2 * b + 2
      BY <1>2
    <3> QED
      BY <1>3, <3>1, <3>2
  <2>2. \A s \in Storage : s # 0 => parent[s] \in Branches /\ (s = leftchild[parent[s]] \/ s = rightchild[parent[s]])
    BY <1>3, <1>4
  <2>3. parent[0] = Null
    BY <1>1, <1>2
  <2> QED
    BY <1>8, <2>1, <2>2, <2>3 DEF Linked
<1>11. Positive
  BY <1>5 DEF Positive
<1>12. SummedBut(Null)
  <2>1. \A b \in Branches : freq[leftchild[b]] + freq[rightchild[b]] = freq[b] /\ b # Null
    BY <1>3, <1>5, StorageFacts
  <2> QED
    BY <2>1 DEF SummedBut
<1>13. SortedBut(Null)
  <2>1. \A p \in Storage : nodes[p] = p
    BY <1>1
  <2> QED
    BY <1>1, <2>1, HeapIsSorted DEF SortedBut
<1>14. freq[Root] <= Limit
  BY <1>5, <1>8
<1>15. LeafTotal(0) = freq[Root] /\ LeafTotal(0) = SymbolTotal
  <2> DEFINE m == NumNodes
  <2>1. /\ m \in Nat /\ 0 \in 0 .. m /\ m - 1 \in -1 .. m - 1 /\ Leaves - 1 \in 0 .. m
        /\ (Leaves - 1) - 1 \in -1 .. m - 1 /\ 0 <= ((Leaves - 1) - 1) + 1 /\ Leaves - 1 <= (m - 1) + 1
    BY <1>2
  <2>2. LeafWeights \in [0 .. m - 1 -> Int] /\ freq \in [0 .. m - 1 -> Int]
    <3>1. freq \in [0 .. m - 1 -> Int]
      BY <1>2, <1>5
    <3> QED
      BY <1>6, <3>1, LeafWeightsType
  <2>3. SumOver(LeafWeights, m, 0, m - 1) = SumOver(LeafWeights, m, 0, (Leaves - 1) - 1) + SumOver(LeafWeights, m, Leaves - 1, m - 1)
    BY <2>1, <2>2, SumSplit
  <2>4. SumOver(LeafWeights, m, 0, (Leaves - 1) - 1) = 0
    <3>1. \A k \in 0 .. (Leaves - 1) - 1 : LeafWeights[k] = 0
      BY <1>1, <1>2 DEF LeafWeights
    <3> DEFINE e == (Leaves - 1) - 1
    <3>2. e \in -1 .. m - 1 /\ 0 <= e + 1 /\ 0 \in Int /\ \A k \in 0 .. e : LeafWeights[k] = 0
      BY <2>1, <3>1
    <3> HIDE DEF e
    <3>3. SumOver(LeafWeights, m, 0, e) = 0 * (e + 1 - 0)
      BY <2>1, <2>2, <3>2, SumZero
    <3>4. 0 * (e + 1 - 0) = 0
      BY <3>2
    <3> QED
      BY <3>3, <3>4 DEF e
  <2>5. SumOver(LeafWeights, m, Leaves - 1, m - 1) = SumOver(freq, m, Leaves - 1, m - 1)
    <3>1. \A k \in Leaves - 1 .. m - 1 : LeafWeights[k] = freq[k]
      BY <1>1, <1>2 DEF LeafWeights
    <3> QED
      BY <2>1, <2>2, <3>1, SumSame
  <2>6. SumOver(freq, m, Leaves - 1, m - 1) = freq[0]
    BY <1>1, HeapTotal
  <2>7. freq[0] \in Int
    BY <1>2, <1>5
  <2>8. SumOver(freq, m, Leaves - 1, m - 1) = Leaves
    <3>1. \A k \in Leaves - 1 .. m - 1 : freq[k] = 1
      BY <1>2, <1>5
    <3> DEFINE a == Leaves - 1
    <3> DEFINE e == m - 1
    <3>2. /\ a \in 0 .. m /\ e \in -1 .. m - 1 /\ a <= e + 1 /\ 1 \in Int
          /\ \A k \in a .. e : freq[k] = 1
      BY <2>1, <3>1
    <3> HIDE DEF a, e
    <3>3. SumOver(freq, m, a, e) = 1 * (e + 1 - a)
      BY <2>1, <2>2, <3>2, SumZero
    <3>4. 1 * (e + 1 - a) = Leaves
      BY <1>2 DEF a, e
    <3> QED
      BY <3>3, <3>4 DEF a, e
  <2>9. SymbolTotal = Leaves
    <3>1. \A k \in 0 .. Leaves - 1 : Tally[k] = 1
      BY <1>2, <1>5, LeafOfSymbol, LeafFacts DEF Tally
    <3>2. Tally \in [0 .. Leaves - 1 -> Int]
      BY <1>6, TallyType
    <3> DEFINE e == Leaves - 1
    <3>3. /\ Leaves \in Nat /\ 0 \in 0 .. Leaves /\ e \in -1 .. Leaves - 1 /\ 0 <= e + 1 /\ 1 \in Int
          /\ \A k \in 0 .. e : Tally[k] = 1
      BY <3>1, LeafOfSymbol
    <3> HIDE DEF e
    <3>4. SumOver(Tally, Leaves, 0, e) = 1 * (e + 1 - 0)
      BY <3>2, <3>3, SumZero
    <3>5. 1 * (e + 1 - 0) = Leaves
      BY LeafOfSymbol DEF e
    <3> QED
      BY <3>4, <3>5 DEF SymbolTotal, e
  <2> QED
    BY <1>8, <2>3, <2>4, <2>5, <2>6, <2>7, <2>8, <2>9 DEF LeafTotal
<1>16. TreeInv
  BY <1>1, <1>9, <1>10, <1>11, <1>12, <1>13, <1>14, <1>15 DEF TreeInv, Uncounted, Counted
<1> QED
  BY <1>6, <1>7, <1>16

(* The inductive invariant of Adaptive Huffman.                            *)
IInv ==
  TypeOK /\ Shape /\ CountersInv /\ NodeInv /\ TreeInv /\ CollectInv /\ RebuildInv

(* Every step keeps the counting argument.                                 *)
LEMMA CountersInductive ==
  ASSUME CountersInv, [Next]_vars
  PROVE  CountersInv'
<1>1. CASE BeginSymbol
  BY <1>1 DEF BeginSymbol, CountersInv
<1>2. ASSUME NEW bit \in {0, 1}, WalkBit(bit) PROVE CountersInv'
  BY <1>2 DEF WalkBit, CountersInv
<1>3. CASE BeginUpdate
  BY <1>3 DEF BeginUpdate, CountersInv
<1>4. CASE Collect
  BY <1>4 DEF Collect, CountersInv
<1>5. CASE BeginRebuild
  BY <1>5 DEF BeginRebuild, CountersInv, Counters, NumNodes
<1>6. CASE NextPair
  BY <1>6 DEF NextPair, CountersInv, Counters, rebuildVars
<1>7. CASE PlacePairLeaf
  BY <1>7 DEF PlacePairLeaf, PlaceLeaf, CountersInv, Counters
<1>8. CASE MakeBranch
  BY <1>8 DEF MakeBranch, CountersInv, Counters, Branches
<1>9. CASE PlaceLighterLeaf
  BY <1>9 DEF PlaceLighterLeaf, PlaceLeaf, LighterLeafNext, CountersInv, Counters
<1>10. CASE PlaceBranch
  BY <1>10 DEF PlaceBranch, CountersInv, Counters
<1>11. CASE EndRebuild
  BY <1>11 DEF EndRebuild, CountersInv
<1>12. CASE Climb
  BY <1>12 DEF Climb, CountRoot, CountNode, Seek, StayInPlace, Swap, ClimbOn, CountersInv
<1>13. CASE UNCHANGED vars
  BY <1>13 DEF vars, rebuildVars, CountersInv, Counters
<1>14. QED
  BY <1>1, <1>2, <1>3, <1>4, <1>5, <1>6, <1>7, <1>8, <1>9, <1>10, <1>11, <1>12, <1>13
  DEF Next, Step, Rebuild

(* Every step keeps what the walk knows of its node.                       *)
LEMMA NodeInductive ==
  ASSUME IInv, [Next]_vars
  PROVE  NodeInv'
<1>1. NodeInv /\ TypeOK
  BY DEF IInv
<1>2. CASE BeginSymbol
  BY <1>1, <1>2 DEF BeginSymbol, NodeInv, Rebuilding, Grown, collectVars
<1>3. ASSUME NEW bit \in {0, 1}, WalkBit(bit) PROVE NodeInv'
  <2>1. pc = "walk" /\ pc' = "walk" /\ i' = i /\ n' = n
    BY <1>3, WalkBitKeeps DEF WalkBit, IInv, collectVars
  <2> QED
    BY <1>1, <2>1 DEF NodeInv, Rebuilding, Grown
<1>4. CASE BeginUpdate
  <2>1. node \in LeafSet
    BY <1>1, <1>4, LeafIsLeaf, LeafFacts DEF BeginUpdate, TypeOK, IInv
  <2> QED
    BY <1>1, <1>4, <2>1 DEF BeginUpdate, NodeInv, Rebuilding, Grown, collectVars
<1>5. CASE Collect
  BY <1>1, <1>5 DEF Collect, NodeInv, Rebuilding, Grown
<1>6. CASE BeginRebuild
  BY <1>1, <1>6 DEF BeginRebuild, NodeInv, Rebuilding, Grown
<1>7. CASE NextPair
  BY <1>1, <1>7 DEF NextPair, NodeInv, Rebuilding, Grown
<1>8. CASE PlacePairLeaf
  BY <1>1, <1>8 DEF PlacePairLeaf, PlaceLeaf, NodeInv, Rebuilding, Grown
<1>9. CASE MakeBranch
  BY <1>1, <1>9 DEF MakeBranch, NodeInv, Rebuilding, Grown
<1>10. CASE PlaceLighterLeaf
  BY <1>1, <1>10 DEF PlaceLighterLeaf, PlaceLeaf, NodeInv, Rebuilding, Grown
<1>11. CASE PlaceBranch
  BY <1>1, <1>11 DEF PlaceBranch, NodeInv, Rebuilding, Grown
<1>12. CASE EndRebuild
  BY <1>1, <1>12 DEF EndRebuild, DropLocals, NodeInv, Rebuilding, Grown
<1>13. CASE Climb
  <2>1. Grown /\ Grown' /\ i' = i /\ n' = n
    BY <1>13 DEF Climb, CountRoot, CountNode, Seek, StayInPlace, Swap, ClimbOn, Grown, collectVars
  <2> QED
    BY <1>1, <2>1 DEF NodeInv, Rebuilding, Grown
<1>14. CASE UNCHANGED vars
  BY <1>1, <1>14 DEF vars, collectVars, NodeInv, Rebuilding, Grown
<1> QED
  BY <1>2, <1>3, <1>4, <1>5, <1>6, <1>7, <1>8, <1>9, <1>10, <1>11, <1>12, <1>13, <1>14
  DEF Next, Step, Rebuild

(* No step makes a branch a leaf or a leaf a branch.                       *)
LEMMA ShapeInductive ==
  ASSUME IInv, [Next]_vars
  PROVE  Shape'
<1>1. TypeOK /\ Shape /\ TreeInv /\ CountersInv
  BY DEF IInv
<1>2. CASE Swap
  BY <1>1, <1>2, SwapKeeps
<1>3. CASE MakeBranch
  <2>1. /\ branch_index \in Branches /\ pair_index = 2 * branch_index + 1 /\ pair_index + 1 \in 0 .. NumNodes - 1
    BY <1>1, <1>3, CounterFacts DEF MakeBranch
  <2>2. pair_index \in Storage /\ pair_index + 1 \in Storage
    BY <2>1, LeafFacts, StorageFacts
  <2>3. nodes[pair_index] \in Storage /\ nodes[pair_index + 1] \in Storage
    BY <1>1, <2>2 DEF TypeOK
  <2>4. /\ \A s \in Storage : leftchild'[s] = IF s = branch_index THEN nodes[pair_index] ELSE leftchild[s]
        /\ \A s \in Storage : rightchild'[s] = IF s = branch_index THEN nodes[pair_index + 1] ELSE rightchild[s]
    BY <1>1, <1>3 DEF MakeBranch, TypeOK
  <2> QED
    BY <1>1, <2>1, <2>3, <2>4 DEF Shape
<1>4. CASE leftchild' = leftchild /\ rightchild' = rightchild
  BY <1>1, <1>4 DEF Shape
<1> QED
  BY <1>2, <1>3, <1>4
  DEF Next, Step, Rebuild, Climb, BeginSymbol, WalkBit, BeginUpdate, Collect, BeginRebuild, NextPair,
      PlacePairLeaf, PlaceLighterLeaf, PlaceLeaf, PlaceBranch, EndRebuild, CountRoot, CountNode, Seek,
      StayInPlace, vars, treeVars

(* Every step keeps the tree: the climb's steps by the lemmas on the       *)
(* climb, the last step of the merge by the heap it built.                 *)
LEMMA TreeInductive ==
  ASSUME IInv, [Next]_vars
  PROVE  TreeInv' /\ CollectInv' /\ RebuildInv'
<1>1. TypeOK /\ Shape /\ CountersInv /\ NodeInv /\ TreeInv /\ CollectInv /\ RebuildInv
  BY DEF IInv
<1>2. CASE BeginSymbol
  BY <1>1, <1>2, BeginSymbolKeeps DEF BeginSymbol, CollectInv, RebuildInv, Rebuilding
<1>3. ASSUME NEW bit \in {0, 1}, WalkBit(bit) PROVE TreeInv' /\ CollectInv' /\ RebuildInv'
  BY <1>1, <1>3, WalkBitKeeps DEF CollectInv, RebuildInv, Rebuilding
<1>4. CASE BeginUpdate
  <2>1. ~Rebuilding'
    BY <1>4 DEF BeginUpdate, Rebuilding
  <2> QED
    BY <1>1, <1>4, <2>1, BeginUpdateKeeps DEF RebuildInv
<1>5. CASE Collect
  <2>1. CollectInv'
    BY <1>1, <1>5, CollectBranchKeeps, CollectLeafKeeps
  <2>2. ~Grown' /\ ~Rebuilding'
    BY <1>5 DEF Collect, Grown, Rebuilding
  <2> QED
    BY <2>1, <2>2 DEF TreeInv, RebuildInv
<1>6. CASE BeginRebuild
  <2>1. pc' = "outer"
    BY <1>6 DEF BeginRebuild
  <2> QED
    BY <1>1, <1>6, <2>1, BeginRebuildKeeps DEF TreeInv, Grown, CollectInv
<1>7. CASE NextPair
  <2>1. pc' = "pair"
    BY <1>7 DEF NextPair
  <2> QED
    BY <1>1, <1>7, <2>1, NextPairKeeps DEF TreeInv, Grown, CollectInv
<1>8. CASE PlacePairLeaf
  <2>1. /\ pc = "pair" /\ pc' = "pair" /\ node_index >= pair_index /\ PlaceLeaf
    BY <1>8 DEF PlacePairLeaf, PlaceLeaf
  <2>2. leaf_index >= 0
    BY <1>1, <2>1 DEF CountersInv, Counters
  <2> QED
    BY <1>1, <2>1, <2>2, PlaceLeafKeeps DEF TreeInv, Grown, CollectInv
<1>9. CASE MakeBranch
  <2>1. pc' = "merge"
    BY <1>9 DEF MakeBranch
  <2> QED
    BY <1>1, <1>9, <2>1, MakeBranchKeeps DEF TreeInv, Grown, CollectInv
<1>10. CASE PlaceLighterLeaf
  <2>1. /\ pc = "merge" /\ pc' = "merge" /\ PlaceLeaf
        /\ leaf_index >= 0 /\ freq[leaves[leaf_index]] <= freq[branch]
    BY <1>10 DEF PlaceLighterLeaf, LighterLeafNext, PlaceLeaf
  <2> QED
    BY <1>1, <2>1, PlaceLeafKeeps DEF TreeInv, Grown, CollectInv
<1>11. CASE PlaceBranch
  <2>1. pc' = "outer"
    BY <1>11 DEF PlaceBranch
  <2> QED
    BY <1>1, <1>11, <2>1, PlaceBranchKeeps DEF TreeInv, Grown, CollectInv
<1>12. CASE EndRebuild
  <2>1. pc' = "climb"
    BY <1>12 DEF EndRebuild
  <2> QED
    BY <1>1, <1>12, <2>1, EndRebuildKeeps DEF RebuildInv, Rebuilding, CollectInv
<1>13. CASE Climb
  <2>1. Grown'
    BY <1>13 DEF Climb, CountRoot, CountNode, Seek, StayInPlace, Swap, ClimbOn, Grown
  <2>2. TreeInv'
    BY <1>1, <1>13, CountRootKeeps, CountNodeKeeps, SeekKeeps, StayInPlaceKeeps, SwapKeeps DEF Climb
  <2> QED
    BY <2>1, <2>2 DEF Grown, RebuildInv, Rebuilding, CollectInv
<1>14. CASE UNCHANGED vars
  <2>1. /\ UNCHANGED treeVars /\ pc' = pc /\ node' = node /\ q_index' = q_index
        /\ parent' = parent /\ leftchild' = leftchild /\ rightchild' = rightchild /\ freq' = freq
        /\ nodes' = nodes /\ index' = index /\ leaves' = leaves /\ i' = i /\ n' = n
        /\ leaf_index' = leaf_index /\ branch_index' = branch_index /\ node_index' = node_index
        /\ pair_index' = pair_index /\ branch' = branch
    BY <1>14 DEF vars, treeVars, collectVars, rebuildVars
  <2>2. TreeInv'
    BY <1>1, <2>1, SameTree DEF TreeInv, Grown, Uncounted, Counted, Seeking
  <2>3. /\ LeafWeights' = LeafWeights /\ Weights' = Weights /\ Taken' = Taken /\ Lone' = Lone
        /\ Filled' = Filled /\ Placed' = Placed /\ SymbolTotal' = SymbolTotal
    BY <2>1 DEF LeafWeights, Weights, Taken, Lone, Filled, Placed, SymbolTotal, Tally
  <2>4. CollectInv'
    BY <1>1, <2>1, <2>3 DEF CollectInv, Ordered, TakenTotal, LeafTotal
  <2>5. /\ Collected' = Collected /\ Placing' = Placing /\ Making' = Making /\ Weighing' = Weighing
    BY <2>1, <2>3 DEF Collected, Placing, Making, Made, Weighing
  <2>6. Totalling' = Totalling
    BY <2>1, <2>3 DEF Totalling, AllTotal, TakenTotal, LeafTotal
  <2>7. RebuildInv'
    BY <1>1, <2>1, <2>5, <2>6 DEF RebuildInv, Rebuilding
  <2> QED
    BY <2>2, <2>4, <2>7
<1> QED
  BY <1>2, <1>3, <1>4, <1>5, <1>6, <1>7, <1>8, <1>9, <1>10, <1>11, <1>12, <1>13, <1>14
  DEF Next, Step, Rebuild

(* Every step keeps the types.                                             *)
LEMMA TypeInductive ==
  ASSUME IInv, [Next]_vars
  PROVE  TypeOK'
<1>1. TypeOK /\ Shape /\ CountersInv /\ NodeInv /\ TreeInv /\ CollectInv /\ RebuildInv
  BY DEF IInv
<1>2. /\ Storage = 0 .. NumNodes - 1 /\ NumNodes = 2 * Leaves - 1 /\ NumNodes \in Nat /\ 0 \in Storage
      /\ Branches \subseteq Storage
  BY StorageFacts
<1>3. CASE BeginSymbol
  <2>1. Root \in Storage
    BY <1>1, <1>2 DEF TypeOK, Root
  <2> QED
    BY <1>1, <1>3, <2>1 DEF BeginSymbol, TypeOK, treeVars, collectVars, rebuildVars
<1>4. ASSUME NEW bit \in {0, 1}, WalkBit(bit) PROVE TypeOK'
  <2>1. pc' = "walk" /\ node' \in Storage
    BY <1>1, <1>4, WalkBitKeeps
  <2> QED
    BY <1>1, <1>4, <2>1 DEF WalkBit, TypeOK, treeVars, collectVars, rebuildVars
<1>5. CASE BeginUpdate
  BY <1>1, <1>5 DEF BeginUpdate, TypeOK, treeVars, collectVars, rebuildVars
<1>6. CASE Collect
  <2>1. /\ freq' \in [Storage -> Nat] /\ leaves' \in [0 .. Leaves - 1 -> Storage]
        /\ n' \in Nat /\ i' \in 0 .. NumNodes
    <3>1. i \in 0 .. NumNodes /\ i < NumNodes /\ i \in Storage
      BY <1>1, <1>2, <1>6 DEF Collect, TypeOK
    <3>2. nodes[i] \in Storage
      BY <1>1, <3>1 DEF TypeOK
    <3>3. freq[nodes[i]] \in Nat /\ Halve(freq[nodes[i]]) \in Nat
      BY <1>1, <3>2, HalveFacts DEF TypeOK
    <3>4. freq' \in [Storage -> Nat]
      BY <1>1, <1>6, <3>2, <3>3 DEF Collect, TypeOK
    <3>5. leaves' \in [0 .. Leaves - 1 -> Storage]
      BY <1>1, <1>6, <3>2 DEF Collect, TypeOK
    <3>6. n' \in Nat
      BY <1>1, <1>6, SMTT(30) DEF Collect, TypeOK
    <3>7. i' \in 0 .. NumNodes
      BY <1>2, <1>6, <3>1 DEF Collect
    <3> QED
      BY <3>4, <3>5, <3>6, <3>7
  <2> QED
    BY <1>1, <1>6, <2>1 DEF Collect, TypeOK, rebuildVars
<1>7. CASE BeginRebuild
  <2>1. /\ leaf_index' \in -1 .. Leaves - 1 /\ branch_index' \in -1 .. Leaves - 2
        /\ node_index' \in -1 .. NumNodes - 1 /\ pair_index' \in -1 .. NumNodes - 2
    BY <1>2, <1>7 DEF BeginRebuild
  <2> QED
    BY <1>1, <1>7, <2>1 DEF BeginRebuild, TypeOK, treeVars, collectVars
<1>8. CASE NextPair
  BY <1>1, <1>8 DEF NextPair, TypeOK, treeVars, collectVars, rebuildVars
<1>9. ASSUME PlaceLeaf, pc \in {"pair", "merge"}, leaf_index >= 0 PROVE TypeOK'
  <2>1. leaf_index \in 0 .. Leaves - 1 /\ node_index \in 0 .. NumNodes - 1 /\ node_index \in Storage
    BY <1>1, <1>9, CounterFacts
  <2>2. leaves[leaf_index] \in Storage
    BY <1>1, <2>1 DEF TypeOK
  <2>3. node_index' \in -1 .. NumNodes - 1 /\ leaf_index' \in -1 .. Leaves - 1
    BY <1>2, <1>9, <2>1 DEF PlaceLeaf
  <2>4. nodes' \in [Storage -> Storage] /\ index' \in [Storage -> Storage]
    BY <1>1, <1>9, <2>1, <2>2 DEF PlaceLeaf, TypeOK
  <2> QED
    BY <1>1, <1>9, <2>3, <2>4 DEF PlaceLeaf, TypeOK, collectVars
<1>10. CASE PlacePairLeaf
  <2>1. /\ pc = "pair" /\ node_index >= pair_index /\ PlaceLeaf
    BY <1>10 DEF PlacePairLeaf
  <2>2. leaf_index >= 0
    BY <1>1, <2>1 DEF CountersInv, Counters
  <2> QED
    BY <1>9, <2>1, <2>2
<1>11. CASE PlaceLighterLeaf
  BY <1>9, <1>11 DEF PlaceLighterLeaf, LighterLeafNext
<1>12. CASE MakeBranch
  <2>1. /\ branch_index \in Branches /\ branch_index \in Storage
        /\ pair_index = 2 * branch_index + 1 /\ pair_index + 1 \in 0 .. NumNodes - 1
    BY <1>1, <1>2, <1>12, CounterFacts DEF MakeBranch
  <2>2. pair_index \in Storage /\ pair_index + 1 \in Storage /\ branch_index - 1 \in -1 .. Leaves - 2
    BY <1>2, <2>1, LeafFacts
  <2>3. nodes[pair_index] \in Storage /\ nodes[pair_index + 1] \in Storage
    BY <1>1, <2>2 DEF TypeOK
  <2>4. freq[nodes[pair_index]] + freq[nodes[pair_index + 1]] \in Nat
    <3>1. \A s \in Storage : freq[s] \in Nat
      BY <1>1 DEF TypeOK
    <3>2. freq[nodes[pair_index]] \in Nat /\ freq[nodes[pair_index + 1]] \in Nat
      BY <2>3, <3>1
    <3> QED
      BY <3>2
  <2>5. /\ parent' \in [Storage -> Link] /\ leftchild' \in [Storage -> Link] /\ rightchild' \in [Storage -> Link]
        /\ freq' \in [Storage -> Nat]
    BY <1>1, <1>12, <2>1, <2>3, <2>4 DEF MakeBranch, TypeOK, Link
  <2> QED
    BY <1>1, <1>12, <2>1, <2>2, <2>5 DEF MakeBranch, TypeOK, collectVars
<1>13. CASE PlaceBranch
  <2>1. /\ node_index \in 0 .. NumNodes - 1 /\ node_index \in Storage
        /\ branch \in Storage /\ pair_index = 2 * branch + 1 /\ pair_index + 1 \in 0 .. NumNodes - 1 /\ branch \in Nat
    <3>1. pc = "merge"
      BY <1>13 DEF PlaceBranch
    <3>2. /\ node_index \in 0 .. NumNodes - 1 /\ node_index \in Storage
          /\ branch \in Branches /\ pair_index = 2 * branch + 1 /\ pair_index + 1 \in 0 .. NumNodes - 1
      BY <1>1, <3>1, CounterFacts
    <3> QED
      BY <1>2, <3>2
  <2>2. node_index' \in -1 .. NumNodes - 1 /\ pair_index' \in -1 .. NumNodes - 2
    BY <1>2, <1>13, <2>1 DEF PlaceBranch
  <2>3. nodes' \in [Storage -> Storage] /\ index' \in [Storage -> Storage]
    BY <1>1, <1>13, <2>1 DEF PlaceBranch, TypeOK
  <2> QED
    BY <1>1, <1>13, <2>2, <2>3 DEF PlaceBranch, TypeOK, collectVars
<1>14. CASE EndRebuild
  <2>1. parent' \in [Storage -> Link]
    BY <1>1, <1>14 DEF EndRebuild, TypeOK, Link
  <2>2. /\ leaves' \in [0 .. Leaves - 1 -> Storage] /\ i' \in 0 .. NumNodes /\ n' \in Nat
        /\ leaf_index' \in -1 .. Leaves - 1 /\ branch_index' \in -1 .. Leaves - 2
        /\ node_index' \in -1 .. NumNodes - 1 /\ pair_index' \in -1 .. NumNodes - 2 /\ branch' \in Storage
    BY <1>2, <1>14 DEF EndRebuild, DropLocals, NoLeaves
  <2> QED
    BY <1>1, <1>14, <2>1, <2>2 DEF EndRebuild, TypeOK
<1>15. CASE CountRoot
  <2>1. freq' \in [Storage -> Nat]
    BY <1>1, <1>15 DEF CountRoot, TypeOK
  <2> QED
    BY <1>1, <1>2, <1>15, <2>1 DEF CountRoot, TypeOK, collectVars, rebuildVars
<1>16. CASE CountNode
  <2>1. freq' \in [Storage -> Nat] /\ index[node] \in Storage
    BY <1>1, <1>16 DEF CountNode, TypeOK
  <2> QED
    BY <1>1, <1>16, <2>1 DEF CountNode, TypeOK, collectVars, rebuildVars
<1>17. CASE Seek
  <2>1. q_index - 1 \in Storage
    BY <1>1, <1>2, <1>17 DEF Seek, LighterInFront, TypeOK
  <2> QED
    BY <1>1, <1>17, <2>1 DEF Seek, TypeOK, treeVars, collectVars, rebuildVars
<1>18. CASE StayInPlace
  <2>1. parent[node] \in Storage
    <3>1. pc = "seek"
      BY <1>18 DEF StayInPlace
    <3>2. Ordered /\ Linked /\ node # Root /\ node \in Storage
      BY <1>1, <3>1 DEF TreeInv, Grown, Seeking, TypeOK
    <3> QED
      BY <1>1, <3>2, Parents
  <2> QED
    BY <1>1, <1>2, <1>18, <2>1 DEF StayInPlace, ClimbOn, TypeOK, collectVars, rebuildVars
<1>19. CASE Swap
  <2> DEFINE q == nodes[q_index]
  <2>1. /\ pc = "seek" /\ q_index < index[node] /\ node' = parent[q] /\ pc' = "climb" /\ q_index' = 0 /\ freq' = freq
    BY <1>19 DEF Swap, ClimbOn
  <2>2. /\ Ordered /\ Linked /\ Positive /\ SummedBut(parent[node]) /\ SortedBut(node) /\ Seeking
    BY <1>1, <2>1 DEF TreeInv, Grown, Uncounted
  <2>3. /\ q \in Storage /\ q # node /\ q # Root /\ index[q] = q_index /\ parent[q] \in Branches
    BY <1>1, <2>1, <2>2, SwapPartner
  <2>4. /\ nodes' \in [Storage -> Storage] /\ index' \in [Storage -> Storage]
        /\ parent' \in [Storage -> Link]
        /\ leftchild' \in [Storage -> Link] /\ rightchild' \in [Storage -> Link]
    <3>1. node # Root
      BY <2>2 DEF Seeking
    <3> QED
      BY <1>1, <1>19, <2>2, <2>3, <3>1, SwapExchanges
  <2>5. parent[q] \in Storage
    BY <1>2, <2>3
  <2> QED
    BY <1>1, <1>2, <1>19, <2>1, <2>4, <2>5 DEF Swap, ClimbOn, TypeOK, collectVars, rebuildVars
<1>20. CASE UNCHANGED vars
  BY <1>1, <1>20 DEF TypeOK, vars, treeVars, collectVars, rebuildVars
<1> QED
  BY <1>3, <1>4, <1>5, <1>6, <1>7, <1>8, <1>10, <1>11, <1>12, <1>13, <1>14, <1>15, <1>16, <1>17, <1>18, <1>19, <1>20
  DEF Next, Step, Rebuild, Climb

(* IInv holds initially and every step keeps it.                           *)
LEMMA Inductive == Spec => []IInv
<1>1. Init => IInv
  <2> SUFFICES ASSUME Init PROVE IInv
    OBVIOUS
  <2>1. TypeOK /\ Shape /\ TreeInv
    BY InitTree
  <2>2. CountersInv /\ NodeInv /\ CollectInv /\ RebuildInv
    BY DEF Init, CountersInv, NodeInv, CollectInv, RebuildInv, Rebuilding, Grown
  <2> QED
    BY <2>1, <2>2 DEF IInv
<1>2. IInv /\ [Next]_vars => IInv'
  <2> SUFFICES ASSUME IInv, [Next]_vars PROVE IInv'
    OBVIOUS
  <2>1. CountersInv'
    BY CountersInductive DEF IInv
  <2> QED
    BY <2>1, TypeInductive, ShapeInductive, NodeInductive, TreeInductive DEF IInv
<1> QED
  BY <1>1, <1>2, PTL DEF Spec

(* Every variable keeps its type, for every number of leaves and every     *)
(* limit.                                                                  *)
THEOREM TypeCorrect == Spec => []TypeOK
<1>1. IInv => TypeOK
  BY DEF IInv
<1> QED
  BY <1>1, Inductive, PTL

(* RebuildInBounds for every number of leaves, every limit and every       *)
(* distribution of weights: the four counters of the rebuild stay within   *)
(* the arrays they index.                                                  *)
THEOREM RebuildCorrect == Spec => []RebuildInBounds
<1>1. IInv => RebuildInBounds
  BY DEF IInv, CountersInv, Counters, RebuildInBounds, NumNodes
<1> QED
  BY <1>1, Inductive, PTL

(* TreeIsLinked for every number of leaves and every limit: after each     *)
(* symbol, through the swaps and the rebuild, parents and children agree   *)
(* and every node has one position.                                        *)
THEOREM TreeCorrect == Spec => []TreeIsLinked
<1>1. IInv => TreeIsLinked
  <2> SUFFICES ASSUME IInv PROVE TreeIsLinked
    OBVIOUS
  <2>1. TypeOK /\ Shape /\ TreeInv /\ CollectInv
    BY DEF IInv
  <2>2. CollectFillsLeaves
    <3> SUFFICES ASSUME pc = "collect" PROVE n <= Leaves /\ (i = NumNodes => n = Leaves)
      BY DEF CollectFillsLeaves
    <3>1. n <= Leaves /\ n \in Nat
      BY <2>1 DEF CollectInv, TypeOK
    <3>2. ASSUME i = NumNodes PROVE Leaves <= n
      <4> DEFINE f == [k \in 0 .. n - 1 |-> leaves[k]]
      <4>1. /\ \A k \in 0 .. n - 1 : leaves[k] \in LeafSet
            /\ \A s \in LeafSet : index[s] < i => \E k \in 0 .. n - 1 : leaves[k] = s
        BY <2>1 DEF CollectInv
      <4>2. \A s \in LeafSet : index[s] < i
        <5>1. \A s \in LeafSet : index[s] \in Storage
          BY <2>1, LeafFacts DEF TypeOK
        <5> QED
          BY <3>2, <5>1, StorageFacts
      <4>3. f \in [0 .. n - 1 -> LeafSet] /\ \A s \in LeafSet : \E a \in 0 .. n - 1 : f[a] = s
        BY <4>1, <4>2
      <4> HIDE DEF f
      <4> QED
        BY <3>1, <4>3, EveryLeaf
    <3> QED
      BY <3>1, <3>2
  <2>3. ASSUME Grown
        PROVE  /\ \A s \in Storage : nodes[index[s]] = s
               /\ \A b \in Branches :
                    /\ leftchild[b] # rightchild[b]
                    /\ \A c \in {leftchild[b], rightchild[b]} :
                         c \in Storage /\ parent[c] = b /\ index[c] > index[b]
               /\ \A s \in Storage \ {Root} : s \in {leftchild[parent[s]], rightchild[parent[s]]}
               /\ parent[Root] = Null
    <3>1. Ordered /\ Linked
      BY <2>1, <2>3 DEF TreeInv
    <3>2. \A b \in Branches : leftchild[b] \in Storage /\ rightchild[b] \in Storage
      BY <2>1, StorageFacts DEF Shape
    <3> QED
      BY <3>1, <3>2 DEF Ordered, Linked
  <2> QED
    BY <2>2, <2>3 DEF TreeIsLinked
<1> QED
  BY <1>1, Inductive, PTL

(* WeightsAreConsistent for every number of leaves and every limit: after  *)
(* each symbol every branch weighs what its children weigh and the         *)
(* weights fall along the order.                                           *)
THEOREM WeightsCorrect == Spec => []WeightsAreConsistent
<1>1. IInv => WeightsAreConsistent
  <2> SUFFICES ASSUME IInv, Grown
               PROVE  /\ \A b \in Branches :
                           freq[leftchild[b]] + freq[rightchild[b]] =
                             IF b = Uncounted THEN freq[b] + 1 ELSE freq[b]
                      /\ \A p \in 1 .. NumNodes - 1 :
                           freq[nodes[p - 1]] >= freq[nodes[p]] \/ (pc = "seek" /\ nodes[p] = node)
                      /\ \A s \in Storage : freq[s] > 0
                      /\ freq[Root] <= Limit
    BY DEF WeightsAreConsistent
  <2>1. /\ TypeOK /\ Positive /\ SummedBut(Uncounted) /\ SortedBut(IF pc = "seek" THEN node ELSE Null)
        /\ freq[Root] <= Limit
    BY DEF IInv, TreeInv
  <2>2. ASSUME NEW p \in 1 .. NumNodes - 1, ~(pc = "seek" /\ nodes[p] = node)
        PROVE  freq[nodes[p - 1]] >= freq[nodes[p]]
    <3>1. p \in Storage /\ p - 1 \in Storage /\ p - 1 < p
      BY StorageFacts
    <3>2. nodes[p] # IF pc = "seek" THEN node ELSE Null
      BY <2>1, <2>2, <3>1, StorageFacts DEF TypeOK
    <3> QED
      BY <2>1, <3>1, <3>2 DEF SortedBut
  <2> QED
    BY <2>1, <2>2 DEF SummedBut, Positive
<1> QED
  BY <1>1, Inductive, PTL
(* The recursion of the abstract model's total has a solution and only     *)
(* one: the sums the other lemmas use.                                     *)
LEMMA TotalIsSum ==
  ASSUME SymbolCount \in [0 .. Leaves - 1 -> Int]
  PROVE  Counts!Total = SumOver(SymbolCount, Leaves, 0, Leaves - 1)
<1> DEFINE c == SymbolCount
<1> DEFINE g == Sums(c, Leaves)
<1> DEFINE F == Counts!FirstTotal
<1>1. Leaves \in Nat /\ Leaves \in 0 .. Leaves /\ 0 \in 0 .. Leaves
  BY LeafOfSymbol
<1>2. g \in [0 .. Leaves -> Int] /\ g[0] = 0 /\ \A k \in 0 .. Leaves - 1 : g[k + 1] = g[k] + c[k]
  BY <1>1, SumsExist
<1>3. g = [k \in 0 .. Leaves |-> IF k = 0 THEN 0 ELSE g[k - 1] + c[k - 1]]
  <2> HIDE DEF g, c
  <2>1. ASSUME NEW k \in 0 .. Leaves PROVE g[k] = IF k = 0 THEN 0 ELSE g[k - 1] + c[k - 1]
    <3>1. CASE k = 0
      BY <1>2, <3>1
    <3>2. CASE k # 0
      <4>1. k - 1 \in 0 .. Leaves - 1 /\ (k - 1) + 1 = k
        BY <1>1, <3>2
      <4>2. g[(k - 1) + 1] = g[k - 1] + c[k - 1]
        BY <1>2, <4>1
      <4> QED
        BY <3>2, <4>1, <4>2
    <3> QED
      BY <3>1, <3>2
  <2> QED
    BY <1>2, <2>1
<1>4. F = [k \in 0 .. Leaves |-> IF k = 0 THEN 0 ELSE F[k - 1] + c[k - 1]]
  <2> DEFINE Fits(h) == h = [k \in 0 .. Leaves |-> IF k = 0 THEN 0 ELSE h[k - 1] + c[k - 1]]
  <2>1. Fits(g)
    BY <1>3
  <2>2. F = CHOOSE h : Fits(h)
    BY DEF Counts!FirstTotal
  <2>3. Fits(CHOOSE h : Fits(h))
    <3> HIDE DEF Fits, g
    <3> QED
      BY <2>1
  <2>4. Fits(F)
    <3> HIDE DEF Fits, F
    <3> QED
      BY <2>2, <2>3
  <2> HIDE DEF F, c
  <2> QED
    BY <2>4
<1>5. \A k \in 0 .. Leaves : F[k] = g[k]
  <2> DEFINE S == {k \in 0 .. Leaves : F[k] = g[k]}
  <2> HIDE DEF F, g, c
  <2>1. 0 \in S
    BY <1>1, <1>2, <1>4
  <2>2. ASSUME NEW k \in 0 .. Leaves - 1, k \in S PROVE k + 1 \in S
    <3>1. k + 1 \in 0 .. Leaves /\ k + 1 # 0 /\ (k + 1) - 1 = k
      BY <1>1
    <3>2. F[k + 1] = F[k] + c[k]
      BY <1>4, <3>1
    <3> QED
      BY <1>2, <2>2, <3>1, <3>2
  <2> HIDE DEF S
  <2>3. 0 \in Int /\ Leaves \in Int /\ (0 <= Leaves => 0 \in S)
        /\ \A k \in 0 .. Leaves - 1 : k \in S => k + 1 \in S
    BY <1>1, <2>1, <2>2
  <2>4. \A k \in 0 .. Leaves : k \in S
    BY <2>3, Upwards
  <2> QED
    BY <2>4 DEF S
<1>6. Counts!Total = F[Leaves]
  BY DEF Counts!Total
<1>7. SumOver(c, Leaves, 0, Leaves - 1) = g[(Leaves - 1) + 1] - g[0]
  BY DEF SumOver
<1>8. (Leaves - 1) + 1 = Leaves /\ g[Leaves] \in Int
  BY <1>1, <1>2
<1>9. F[Leaves] = g[Leaves]
  BY <1>1, <1>5
<1>10. g[(Leaves - 1) + 1] - g[0] = g[Leaves]
  <2> HIDE DEF g
  <2> QED
    BY <1>2, <1>8
<1> HIDE DEF F, g
<1> QED
  BY <1>6, <1>7, <1>9, <1>10

(* Between updates the counts are the weights of the leaves, and their     *)
(* total is the weight of the root, once the root is counted.              *)
LEMMA CountsAreWeights ==
  ASSUME IInv, pc # "collect"
  PROVE  /\ SymbolCount = Tally
         /\ Grown /\ ~Counted => Counts!Total = freq[Root]
<1>1. SymbolCount = Tally
  BY DEF SymbolCount, CountOf, Tally
<1>2. TypeOK /\ TreeInv
  BY DEF IInv
<1>3. Counts!Total = SymbolTotal
  <2>1. SymbolCount \in [0 .. Leaves - 1 -> Int]
    BY <1>1, <1>2, TallyType
  <2> QED
    BY <1>1, <2>1, TotalIsSum DEF SymbolTotal
<1>4. ASSUME Grown, ~Counted PROVE SymbolTotal = freq[Root]
  BY <1>2, <1>4 DEF TreeInv
<1> QED
  BY <1>1, <1>3, <1>4

(* A step outside the first loop that leaves the leaves' weights alone     *)
(* leaves the counts alone.                                                *)
LEMMA CountsKept ==
  ASSUME pc # "collect", pc' # "collect", \A s \in LeafSet : freq'[s] = freq[s]
  PROVE  SymbolCount' = SymbolCount
BY LeafOfSymbol DEF SymbolCount, CountOf, LeafOf

(* Counting a leaf counts its symbol and no other; counting a branch       *)
(* counts nothing.                                                         *)
LEMMA CountedIsCounted ==
  ASSUME IInv, pc = "climb", pc' # "collect", freq' = [freq EXCEPT ![node] = @ + 1]
  PROVE  [Counts!AbsNext]_SymbolCount
<1>1. TypeOK /\ TreeInv /\ Grown /\ pc # "collect"
  BY DEF IInv, Grown
<1>2. /\ node \in Storage /\ freq \in [Storage -> Nat]
      /\ freq'[node] = freq[node] + 1 /\ \A s \in Storage : s # node => freq'[s] = freq[s]
  BY <1>1 DEF TypeOK
<1>3. CASE node \in Branches
  <2>1. \A s \in LeafSet : freq'[s] = freq[s]
    BY <1>2, <1>3, LeafFacts DEF LeafSet
  <2> QED
    BY <1>1, <2>1, CountsKept
<1>4. CASE node \notin Branches
  <2> DEFINE v == NumNodes - 1 - node
  <2>1. node \in LeafSet
    BY <1>2, <1>4, LeafFacts
  <2>2. v \in 0 .. Leaves - 1 /\ LeafOf(v) = node
    BY <2>1, LeafOfSymbol
  <2> HIDE DEF v
  <2>3. Counts!Total < Limit
    <3>1. ~Counted
      BY <1>4 DEF Counted
    <3>2. freq[Root] < Limit
      BY <1>1 DEF TreeInv
    <3> QED
      BY <1>1, <3>1, <3>2, CountsAreWeights
  <2>4. SymbolCount = [value \in 0 .. Leaves - 1 |-> freq[LeafOf(value)]]
    BY <1>1 DEF SymbolCount, CountOf
  <2>5. SymbolCount' = [value \in 0 .. Leaves - 1 |-> freq'[LeafOf(value)]]
    BY DEF SymbolCount, CountOf, LeafOf
  <2>6. \A k \in 0 .. Leaves - 1 : freq'[LeafOf(k)] = IF k = v THEN freq[LeafOf(k)] + 1 ELSE freq[LeafOf(k)]
    BY <1>2, <2>2, LeafOfSymbol
  <2>7. SymbolCount' = [SymbolCount EXCEPT ![v] = @ + 1]
    BY <2>2, <2>4, <2>5, <2>6
  <2>8. Counts!CountUp(v)
    BY <2>3, <2>7 DEF Counts!CountUp
  <2> QED
    BY <2>2, <2>8 DEF Counts!AbsNext, Counts!Symbol
<1> QED
  BY <1>3, <1>4

(* Every symbol's leaf has a position.                                     *)
LEMMA LeafPositions ==
  ASSUME TypeOK
  PROVE  \A value \in 0 .. Leaves - 1 : index[LeafOf(value)] >= 0 /\ index[LeafOf(value)] < NumNodes
<1>1. \A s \in Storage : index[s] \in 0 .. NumNodes - 1
  BY StorageFacts DEF TypeOK
<1>2. \A p \in 0 .. NumNodes - 1 : p >= 0 /\ p < NumNodes
  BY StorageFacts
<1> QED
  BY <1>1, <1>2, LeafOfSymbol

(* An update that finds the root at the limit halves all counts at once:   *)
(* what the first loop has not reached counts as halved already.           *)
LEMMA LimitRescales ==
  ASSUME IInv, BeginUpdate
  PROVE  [Counts!AbsNext]_SymbolCount
<1>1. TypeOK /\ NodeInv /\ pc = "walk" /\ Grown /\ i = 0 /\ ~Counted
  BY DEF IInv, NodeInv, BeginUpdate, Grown, Counted
<1>2. freq' = freq /\ index' = index /\ i' = i /\ pc' = IF AtLimit THEN "collect" ELSE "climb"
  BY DEF BeginUpdate, treeVars, collectVars
<1>3. CASE ~AtLimit
  BY <1>1, <1>2, <1>3, CountsKept
<1>4. CASE AtLimit
  <2>1. Counts!Total = Limit
    BY <1>1, <1>4, CountsAreWeights DEF AtLimit
  <2>2. SymbolCount = [value \in 0 .. Leaves - 1 |-> freq[LeafOf(value)]]
    BY <1>1 DEF SymbolCount, CountOf
  <2>3. \A value \in 0 .. Leaves - 1 : index[LeafOf(value)] >= 0
    BY <1>1, LeafPositions
  <2>4. SymbolCount' = [value \in 0 .. Leaves - 1 |-> (freq[LeafOf(value)] + 1) \div 2]
    BY <1>1, <1>2, <1>4, <2>3 DEF SymbolCount, CountOf, LeafOf
  <2>5. SymbolCount' = [value \in 0 .. Leaves - 1 |-> Counts!Halve(SymbolCount[value])]
    BY <2>2, <2>4 DEF Counts!Halve
  <2>6. Counts!Rescale
    BY <2>1, <2>5 DEF Counts!Rescale, Counts!Symbol
  <2> QED
    BY <2>6 DEF Counts!AbsNext
<1> QED
  BY <1>3, <1>4

(* The first loop halves what was counted as halved.                       *)
LEMMA CollectKeepsCounts ==
  ASSUME IInv, Collect
  PROVE  SymbolCount' = SymbolCount
<1>1. TypeOK /\ Shape /\ Ordered
  BY DEF IInv, CollectInv, Collect
<1>2. i \in Storage /\ nodes[i] \in Storage /\ index[nodes[i]] = i /\ i \in Int
  <2>1. i \in 0 .. NumNodes /\ i < NumNodes
    BY <1>1 DEF Collect, TypeOK
  <2>2. i \in Storage /\ i \in Int
    BY <2>1, StorageFacts
  <2> QED
    BY <1>1, <2>2 DEF TypeOK, Ordered
<1>3. pc = "collect" /\ pc' = "collect" /\ index' = index /\ i' = i + 1
  BY DEF Collect
<1>4. ASSUME NEW s \in LeafSet PROVE CountOf(s)' = CountOf(s)
  <2>1. s \in Storage /\ index[s] \in Int /\ nodes[index[s]] = s
    BY <1>1, LeafFacts, StorageFacts DEF TypeOK, Ordered
  <2>2. CASE s = nodes[i]
    <3>1. IsLeaf(nodes[i])
      BY <1>1, <1>2, <1>4, <2>2, LeafIsLeaf, LeafFacts
    <3>2. freq' = [freq EXCEPT ![s] = Halve(@)] /\ freq \in [Storage -> Nat]
      BY <1>1, <2>2, <3>1 DEF Collect, TypeOK
    <3>3. freq'[s] = (freq[s] + 1) \div 2
      BY <2>1, <3>2 DEF Halve
    <3>4. index[s] >= i /\ ~(index[s] >= i + 1)
      BY <1>2, <2>2
    <3> QED
      BY <1>3, <3>3, <3>4 DEF CountOf
  <2>3. CASE s # nodes[i]
    <3>1. freq'[s] = freq[s]
      BY <1>1, <1>2, <2>1, <2>3 DEF Collect, TypeOK
    <3>2. index[s] # i
      BY <2>1, <2>3
    <3>3. index[s] >= i + 1 <=> index[s] >= i
      BY <1>2, <2>1, <3>2
    <3> QED
      BY <1>3, <3>1, <3>3 DEF CountOf
  <2> QED
    BY <2>2, <2>3
<1>5. \A value \in 0 .. Leaves - 1 : CountOf(LeafOf(value))' = CountOf(LeafOf(value))
  BY <1>4, LeafOfSymbol DEF LeafOf
<1> QED
  BY <1>5 DEF SymbolCount

(* When the loop is over nothing counts as halved but what is.             *)
LEMMA RebuildKeepsCounts ==
  ASSUME IInv, BeginRebuild
  PROVE  SymbolCount' = SymbolCount
<1>1. TypeOK
  BY DEF IInv
<1>2. pc = "collect" /\ i = NumNodes /\ pc' = "outer" /\ freq' = freq
  BY DEF BeginRebuild, treeVars
<1>3. \A value \in 0 .. Leaves - 1 : ~(index[LeafOf(value)] >= i)
  <2>1. \A value \in 0 .. Leaves - 1 : index[LeafOf(value)] \in Storage
    BY <1>1, LeafOfSymbol DEF TypeOK
  <2> QED
    BY <1>1, <1>2, <2>1, LeafPositions, StorageFacts
<1>4. \A value \in 0 .. Leaves - 1 : CountOf(LeafOf(value))' = CountOf(LeafOf(value))
  BY <1>2, <1>3 DEF CountOf, LeafOf
<1> QED
  BY <1>4 DEF SymbolCount

(* ImplementsCounts for every number of leaves and every limit: whatever   *)
(* the swaps and the rebuild do in between, the leaves are counted one at  *)
(* a time and halved all together, exactly when their total is the limit.  *)
THEOREM CountsCorrect == Spec => ImplementsCounts
<1>1. Init => Counts!AbsInit
  <2> SUFFICES ASSUME Init PROVE Counts!AbsInit
    OBVIOUS
  <2>1. \A value \in 0 .. Leaves - 1 : freq[LeafOf(value)] = 1
    BY LeafOfSymbol, LeafFacts DEF Init, HeapWeights
  <2>2. SymbolCount = [value \in 0 .. Leaves - 1 |-> freq[LeafOf(value)]]
    BY DEF Init, SymbolCount, CountOf
  <2> QED
    BY <2>1, <2>2 DEF Counts!AbsInit, Counts!Symbol
<1>2. IInv /\ [Next]_vars => [Counts!AbsNext]_SymbolCount
  <2> SUFFICES ASSUME IInv, [Next]_vars PROVE [Counts!AbsNext]_SymbolCount
    OBVIOUS
  <2>1. CASE BeginSymbol
    BY <2>1, CountsKept DEF BeginSymbol, treeVars
  <2>2. ASSUME NEW bit \in {0, 1}, WalkBit(bit) PROVE SymbolCount' = SymbolCount
    BY <2>2, CountsKept DEF WalkBit, treeVars
  <2>3. CASE BeginUpdate
    BY <2>3, LimitRescales
  <2>4. CASE Collect
    BY <2>4, CollectKeepsCounts
  <2>5. CASE BeginRebuild
    BY <2>5, RebuildKeepsCounts
  <2>6. CASE NextPair
    BY <2>6, CountsKept DEF NextPair, treeVars
  <2>7. CASE PlacePairLeaf \/ PlaceLighterLeaf
    BY <2>7, CountsKept DEF PlacePairLeaf, PlaceLighterLeaf, PlaceLeaf
  <2>8. CASE MakeBranch
    <3>1. branch_index \in Branches /\ pc = "pair" /\ pc' = "merge"
      BY <2>8 DEF MakeBranch, IInv, CountersInv, Counters, Branches
    <3>2. \A s \in LeafSet : freq'[s] = freq[s]
      BY <2>8, <3>1, LeafFacts DEF MakeBranch, IInv, TypeOK
    <3> QED
      BY <3>1, <3>2, CountsKept
  <2>9. CASE PlaceBranch
    BY <2>9, CountsKept DEF PlaceBranch
  <2>10. CASE EndRebuild
    BY <2>10, CountsKept DEF EndRebuild
  <2>11. CASE CountRoot
    BY <2>11, CountedIsCounted DEF CountRoot
  <2>12. CASE CountNode
    BY <2>12, CountedIsCounted DEF CountNode
  <2>13. CASE Seek \/ StayInPlace \/ Swap
    BY <2>13, CountsKept DEF Seek, StayInPlace, Swap, ClimbOn, treeVars
  <2>14. CASE UNCHANGED vars
    BY <2>14 DEF vars, treeVars, collectVars, SymbolCount, CountOf
  <2> QED
    BY <2>1, <2>2, <2>3, <2>4, <2>5, <2>6, <2>7, <2>8, <2>9, <2>10, <2>11, <2>12, <2>13, <2>14
    DEF Next, Step, Rebuild, Climb
<1> QED
  BY <1>1, <1>2, Inductive, PTL DEF Spec, ImplementsCounts, Counts!AbsSpec
=============================================================================
