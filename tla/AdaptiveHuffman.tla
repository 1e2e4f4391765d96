-------------------------- MODULE AdaptiveHuffman --------------------------
(***************************************************************************)
(* The adaptive Huffman tree of LHA -lh1- (lha/lh1.c) and of Apple's LZH   *)
(* (apple_lzh.c), which are the same code: decode a symbol by walking down *)
(* from the root, then count it on every node of the way up, moving each   *)
(* node in front of those that are now lighter; when the root has reached  *)
(* the limit, halve the leaves and rebuild the branches first.             *)
(*                                                                         *)
(* A node is its place in storage[], where the branches come first; nodes  *)
(* is the array of pointers sorted by weight, root first.  Each iteration  *)
(* of a loop is a step: the order in which the loops touch the tree is     *)
(* what keeps it a tree.                                                   *)
(***************************************************************************)
EXTENDS Integers

CONSTANTS
  Leaves, \* LH1_NUM_LEAVES: 314
  Limit   \* the root's weight at which the tree is rebuilt: 0x8000

ASSUME LeavesAssumption == Leaves \in Nat /\ Leaves >= 2
ASSUME LimitAssumption  == Limit \in Nat /\ Limit > Leaves

VARIABLES
  parent, leftchild, rightchild, freq, \* the fields of each node in storage[]
  nodes,  \* position -> node
  index,  \* node -> position
  pc,     \* the loop that is running
  node,   \* the node the walk, or the update, has reached
  q_index,                               \* local of rearrange
  leaves, i, n,                          \* locals of reconstruct, collecting
  leaf_index, branch_index, node_index, pair_index, branch \* and rebuilding

treeVars    == <<parent, leftchild, rightchild, freq, nodes, index>>
collectVars == <<leaves, i, n>>
rebuildVars == <<leaf_index, branch_index, node_index, pair_index, branch>>
vars        == <<treeVars, pc, node, q_index, collectVars, rebuildVars>>

NumNodes == 2 * Leaves - 1
Storage  == 0 .. NumNodes - 1
Branches == 0 .. Leaves - 2       \* storage[] of the branches
LeafOf(value) == NumNodes - 1 - value
Null     == -1

IsLeaf(s) == leftchild[s] = Null /\ rightchild[s] = Null
Root      == nodes[0]

NoLeaves == [k \in 0 .. Leaves - 1 |-> 0]

(* The locals of lh1_reconstruct go out of scope.                          *)
DropLocals ==
  /\ leaves' = NoLeaves /\ i' = 0 /\ n' = 0
  /\ leaf_index' = 0 /\ branch_index' = 0 /\ node_index' = 0
  /\ pair_index' = 0 /\ branch' = 0

-----------------------------------------------------------------------------
(* lh1_init_tree builds a heap: the leaves last, branch b over 2b+1, 2b+2, *)
(* and from the last branch up gives each the weight of its children.      *)
HeapWeights ==
  {f \in [Storage -> 1 .. Leaves] :
     \A s \in Storage : f[s] = IF s \in Branches THEN f[2 * s + 1] + f[2 * s + 2] ELSE 1}

Init ==
  /\ parent     = [s \in Storage |-> IF s = 0 THEN Null ELSE (s - 1) \div 2]
  /\ leftchild  = [s \in Storage |-> IF s \in Branches THEN 2 * s + 1 ELSE Null]
  /\ rightchild = [s \in Storage |-> IF s \in Branches THEN 2 * s + 2 ELSE Null]
  /\ freq \in HeapWeights
  /\ nodes      = [p \in Storage |-> p]
  /\ index      = [s \in Storage |-> s]
  /\ pc = "ready" /\ node = 0 /\ q_index = 0
  /\ leaves = NoLeaves /\ i = 0 /\ n = 0
  /\ leaf_index = 0 /\ branch_index = 0 /\ node_index = 0
  /\ pair_index = 0 /\ branch = 0

(* The decoder starts at the root ...                                      *)
BeginSymbol ==
  /\ pc = "ready"
  /\ pc' = "walk"
  /\ node' = Root
  /\ UNCHANGED <<treeVars, q_index, collectVars, rebuildVars>>

(* ... and goes left on a one, right on a zero, until it is at a leaf.     *)
(* A missing child would end the whole decoder.                            *)
WalkBit(bit) ==
  LET next == IF bit = 1 THEN leftchild[node] ELSE rightchild[node]
  IN  /\ pc = "walk"
      /\ ~IsLeaf(node)
      /\ IF next = Null THEN pc' = "stopped" /\ UNCHANGED node
                        ELSE node' = next /\ UNCHANGED pc
      /\ UNCHANGED <<treeVars, q_index, collectVars, rebuildVars>>

(* tree->nodes[0]->freq == 0x8000                                          *)
AtLimit == freq[Root] = Limit

BeginUpdate ==
  /\ pc = "walk"
  /\ IsLeaf(node)
  /\ pc' = IF AtLimit THEN "collect" ELSE "climb"
  /\ UNCHANGED <<treeVars, node, q_index, collectVars, rebuildVars>>

-----------------------------------------------------------------------------
(* lh1_reconstruct: collect the leaves in order, halving their weights ... *)
HalveRoundingDown(w) == w \div 2

Halve(w) == (w + 1) \div 2

Collect ==
  /\ pc = "collect"
  /\ i < NumNodes
  /\ i' = i + 1
  /\ IF IsLeaf(nodes[i])
       THEN /\ freq' = [freq EXCEPT ![nodes[i]] = Halve(@)]
            /\ leaves' = [leaves EXCEPT ![n] = nodes[i]]
            /\ n' = n + 1
       ELSE UNCHANGED <<freq, leaves, n>>
  /\ UNCHANGED <<parent, leftchild, rightchild, nodes, index, pc, node, q_index, rebuildVars>>

BeginRebuildShort ==
  /\ pc = "collect"
  /\ i = NumNodes
  /\ leaf_index' = Leaves - 2
  /\ branch_index' = Leaves - 2
  /\ node_index' = NumNodes - 1
  /\ pair_index' = NumNodes - 2
  /\ pc' = "outer"
  /\ UNCHANGED <<treeVars, node, q_index, collectVars, branch>>

BeginRebuild ==
  /\ pc = "collect"
  /\ i = NumNodes
  /\ leaf_index' = Leaves - 1
  /\ branch_index' = Leaves - 2
  /\ node_index' = NumNodes - 1
  /\ pair_index' = NumNodes - 2
  /\ pc' = "outer"
  /\ UNCHANGED <<treeVars, node, q_index, collectVars, branch>>

(* ... then fill the positions from the last one down: first the leaves    *)
(* that the next pair still needs, then a branch over the pair, but after  *)
(* the leaves that weigh no more than the branch.                          *)
NextPair ==
  /\ pc = "outer"
  /\ node_index >= 0
  /\ pc' = "pair"
  /\ UNCHANGED <<treeVars, node, q_index, collectVars, rebuildVars>>

PlaceLeaf ==
  /\ nodes' = [nodes EXCEPT ![node_index] = leaves[leaf_index]]
  /\ index' = [index EXCEPT ![leaves[leaf_index]] = node_index]
  /\ node_index' = node_index - 1
  /\ leaf_index' = leaf_index - 1
  /\ UNCHANGED <<parent, leftchild, rightchild, freq, pc, node, q_index, collectVars,
                 branch_index, pair_index, branch>>

PlacePairLeaf ==
  /\ pc = "pair"
  /\ node_index >= pair_index
  /\ PlaceLeaf

MakeBranch ==
  LET l == nodes[pair_index]
      r == nodes[pair_index + 1]
  IN  /\ pc = "pair"
      /\ node_index < pair_index
      /\ branch' = branch_index
      /\ branch_index' = branch_index - 1
      /\ leftchild' = [leftchild EXCEPT ![branch_index] = l]
      /\ rightchild' = [rightchild EXCEPT ![branch_index] = r]
      /\ parent' = [parent EXCEPT ![l] = branch_index, ![r] = branch_index]
      /\ freq' = [freq EXCEPT ![branch_index] = freq[l] + freq[r]]
      /\ pc' = "merge"
      /\ UNCHANGED <<nodes, index, node, q_index, collectVars, leaf_index, node_index, pair_index>>

LighterLeafNextReversed == leaf_index >= 0 /\ freq[leaves[leaf_index]] > freq[branch]

LighterLeafNext == leaf_index >= 0 /\ freq[leaves[leaf_index]] <= freq[branch]

PlaceLighterLeaf ==
  /\ pc = "merge"
  /\ LighterLeafNext
  /\ PlaceLeaf

PlaceBranch ==
  /\ pc = "merge"
  /\ ~LighterLeafNext
  /\ nodes' = [nodes EXCEPT ![node_index] = branch]
  /\ index' = [index EXCEPT ![branch] = node_index]
  /\ node_index' = node_index - 1
  /\ pair_index' = pair_index - 2
  /\ pc' = "outer"
  /\ UNCHANGED <<parent, leftchild, rightchild, freq, node, q_index, collectVars,
                 leaf_index, branch_index, branch>>

(* The loop is over; the update that asked for the rebuild goes on.        *)
EndRebuild ==
  /\ pc = "outer"
  /\ node_index < 0
  /\ parent' = [parent EXCEPT ![Root] = Null]
  /\ pc' = "climb"
  /\ DropLocals
  /\ UNCHANGED <<leftchild, rightchild, freq, nodes, index, node, q_index>>

-----------------------------------------------------------------------------
(* lh1_update: count the node; the root ends the climb, any other node is  *)
(* moved by lh1_rearrange before its parent is counted.                    *)
CountRoot ==
  /\ pc = "climb"
  /\ parent[node] = Null
  /\ freq' = [freq EXCEPT ![node] = @ + 1]
  /\ pc' = "ready"
  /\ node' = 0
  /\ UNCHANGED <<parent, leftchild, rightchild, nodes, index, q_index, collectVars, rebuildVars>>

CountNode ==
  /\ pc = "climb"
  /\ parent[node] # Null
  /\ freq' = [freq EXCEPT ![node] = @ + 1]
  /\ pc' = "seek"
  /\ q_index' = index[node]
  /\ UNCHANGED <<parent, leftchild, rightchild, nodes, index, node, collectVars, rebuildVars>>

LighterNextDoor == q_index = index[node] /\ freq[nodes[q_index - 1]] < freq[node]

(* The node in front of q_index is lighter than the one that was counted.  *)
LighterInFront == q_index > 0 /\ freq[nodes[q_index - 1]] < freq[node]

SeekWithoutMoving ==
  /\ pc = "seek"
  /\ LighterInFront
  /\ UNCHANGED vars

Seek ==
  /\ pc = "seek"
  /\ LighterInFront
  /\ q_index' = q_index - 1
  /\ UNCHANGED <<treeVars, pc, node, collectVars, rebuildVars>>

ClimbOn ==
  /\ pc' = "climb"
  /\ q_index' = 0
  /\ UNCHANGED <<freq, collectVars, rebuildVars>>

(* Nothing lighter in front: q_index >= p_index returns at once.           *)
StayInPlace ==
  /\ pc = "seek"
  /\ ~LighterInFront
  /\ q_index = index[node]
  /\ node' = parent[node]
  /\ ClimbOn
  /\ UNCHANGED <<parent, leftchild, rightchild, nodes, index>>

(* p->parent->rightchild = q, or leftchild; which side each was on is read *)
(* before anything is written, and a parent that is NULL is left out.      *)
Relink(child, side, p, q) ==
  LET pOn == parent[p] # Null /\ (rightchild[parent[p]] = p) = (side = "right")
      qOn == parent[q] # Null /\ (rightchild[parent[q]] = q) = (side = "right")
  IN  [child EXCEPT ![parent[p]] = IF pOn THEN q ELSE @,
                    ![parent[q]] = IF qOn THEN p ELSE @]

ReparentNeither(p, q) == UNCHANGED parent

Reparent(p, q) == parent' = [parent EXCEPT ![p] = parent[q], ![q] = parent[p]]

ReorderLosingNode(p, q) ==
  /\ nodes' = [nodes EXCEPT ![q_index] = p]
  /\ index' = [index EXCEPT ![q] = index[p], ![p] = q_index]

Reorder(p, q) ==
  /\ nodes' = [nodes EXCEPT ![index[p]] = q, ![q_index] = p]
  /\ index' = [index EXCEPT ![q] = index[p], ![p] = q_index]

Swap ==
  LET p == node
      q == nodes[q_index]
  IN  /\ pc = "seek"
      /\ ~LighterInFront
      /\ q_index < index[p]
      /\ leftchild' = Relink(leftchild, "left", p, q)
      /\ rightchild' = Relink(rightchild, "right", p, q)
      /\ Reparent(p, q)
      /\ Reorder(p, q)
      /\ node' = parent[q]
      /\ ClimbOn

-----------------------------------------------------------------------------
Rebuild ==
  \/ Collect \/ BeginRebuild \/ NextPair \/ PlacePairLeaf \/ MakeBranch
  \/ PlaceLighterLeaf \/ PlaceBranch \/ EndRebuild

Climb == CountRoot \/ CountNode \/ Seek \/ StayInPlace \/ Swap

(* Everything the decoder does on its own once it has begun a symbol: the  *)
(* bits come from a buffer that never makes it wait (zeros after its end). *)
Step == (\E bit \in {0, 1} : WalkBit(bit)) \/ BeginUpdate \/ Rebuild \/ Climb

Next == BeginSymbol \/ Step

Spec == Init /\ [][Next]_vars

(* One thread runs the loops to their end; when the next symbol is begun   *)
(* is the caller's business.                                               *)
FairSpec == Spec /\ WF_vars(Step)

-----------------------------------------------------------------------------
Link == Storage \cup {Null}

(* The types of the tree and of the locals; nodes and links are places of  *)
(* storage[] in every loop, the ones in the middle of a rebuild included.  *)
TypeOK ==
  /\ parent \in [Storage -> Link]
  /\ leftchild \in [Storage -> Link] /\ rightchild \in [Storage -> Link]
  /\ freq \in [Storage -> Nat]
  /\ nodes \in [Storage -> Storage] /\ index \in [Storage -> Storage]
  /\ pc \in {"ready", "walk", "stopped", "collect", "outer", "pair", "merge", "climb", "seek"}
  /\ node \in Storage
  /\ q_index \in Storage
  /\ leaves \in [0 .. Leaves - 1 -> Storage] /\ i \in 0 .. NumNodes /\ n \in Nat
  /\ leaf_index \in -1 .. Leaves - 1 /\ branch_index \in -1 .. Leaves - 2
  /\ node_index \in -1 .. NumNodes - 1 /\ pair_index \in -1 .. NumNodes - 2
  /\ branch \in Storage

(* The rebuild collects exactly as many leaves as leaves[] holds, and none *)
(* is stored past its end: no leaf is lost or doubled by the swaps.        *)
CollectFillsLeaves ==
  pc = "collect" => n <= Leaves /\ (i = NumNodes => n = Leaves)

(* The rebuild never reads leaves[] before its beginning nor nodes[] that  *)
(* it has not filled, never writes before nodes[0], and has a branch left  *)
(* for every pair: its four counters run out together.                     *)
RebuildInBounds ==
  /\ pc = "pair" =>
       /\ branch_index >= 0
       /\ 0 <= pair_index /\ pair_index + 1 < NumNodes
       /\ node_index >= pair_index => leaf_index >= 0
  /\ pc = "merge" => node_index >= 0
  /\ pc = "outer" => (node_index < 0) = (leaf_index < 0 /\ branch_index < 0)

(* The tree is one: nodes and index are each other's inverse, the children *)
(* of a branch know it as their parent and are its only children, they are *)
(* behind it in the order, and only the first node has no parent; no leaf  *)
(* is lost before the rebuild collects them.                               *)
Grown == pc \in {"ready", "walk", "climb", "seek"}

TreeIsLinked ==
  /\ CollectFillsLeaves
  /\ Grown =>
       /\ \A s \in Storage : nodes[index[s]] = s
       /\ \A b \in Branches :
            /\ leftchild[b] # rightchild[b]
            /\ \A c \in {leftchild[b], rightchild[b]} :
                 c \in Storage /\ parent[c] = b /\ index[c] > index[b]
       /\ \A s \in Storage \ {Root} : s \in {leftchild[parent[s]], rightchild[parent[s]]}
       /\ parent[Root] = Null

(* The weights are what the decoder steers by: every branch weighs as much *)
(* as its children, except that the climb has counted the child and not    *)
(* yet the branch; and no node is in front of a heavier one, except that   *)
(* the counted node is still on its way to its place.  The root never      *)
(* steps over the limit, which is tested with ==.                          *)
Uncounted ==
  IF pc = "climb" THEN node ELSE IF pc = "seek" THEN parent[node] ELSE Null

WeightsAreConsistent ==
  Grown =>
    /\ \A b \in Branches :
         freq[leftchild[b]] + freq[rightchild[b]] =
           IF b = Uncounted THEN freq[b] + 1 ELSE freq[b]
    /\ \A p \in 1 .. NumNodes - 1 :
         freq[nodes[p - 1]] >= freq[nodes[p]] \/ (pc = "seek" /\ nodes[p] = node)
    /\ \A s \in Storage : freq[s] > 0
    /\ freq[Root] <= Limit

(* The leaves count the symbols as the abstract model does, whatever the   *)
(* rebuild and the swaps do in between: the root's weight, which decides   *)
(* when to halve, is the total of the counts.                              *)
CountOf(s) ==
  IF pc = "collect" /\ index[s] >= i THEN (freq[s] + 1) \div 2 ELSE freq[s]

SymbolCount == [value \in 0 .. Leaves - 1 |-> CountOf(LeafOf(value))]

Counts == INSTANCE SymbolCounts WITH Symbols <- Leaves, count <- SymbolCount
ImplementsCounts == Counts!AbsSpec

(* Every symbol begun is decoded and counted: the walk reaches a leaf, the *)
(* rebuild and the climb come to an end.                                   *)
EverySymbolEnds == (pc = "walk") ~> (pc = "ready")
=============================================================================
