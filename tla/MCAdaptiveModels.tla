-------------------------- MODULE MCAdaptiveModels --------------------------
(***************************************************************************)
(* The adaptive models of the library, of which one moves while the others *)
(* are new: the Huffman trees and the contexts of PPMd.  AdaptiveHuffman   *)
(* has four leaves and a limit a little above twice their number, so that  *)
(* its tree is rebuilt again and again from every shape it can take.       *)
(***************************************************************************)
EXTENDS AdaptiveHuffman, FiniteSets

(* Huffman's construction itself: what the branches of the best tree for   *)
(* the given leaves weigh together.  w maps each subtree left to a weight. *)
RECURSIVE BestCost(_)
BestCost(w) ==
  IF Cardinality(DOMAIN w) = 1 THEN 0
  ELSE LET a == CHOOSE x \in DOMAIN w : \A y \in DOMAIN w : w[x] <= w[y]
           rest == DOMAIN w \ {a}
           b == CHOOSE x \in rest : \A y \in rest : w[x] <= w[y]
       IN  w[a] + w[b] +
             BestCost([x \in rest |-> IF x = b THEN w[a] + w[b] ELSE w[x]])

RECURSIVE WeightOf(_)
WeightOf(S) ==
  IF S = {} THEN 0 ELSE LET s == CHOOSE x \in S : TRUE IN freq[s] + WeightOf(S \ {s})

(* Between two symbols the tree is a best code for the counts: no other    *)
(* prefix code would have coded the symbols seen so far in fewer bits.     *)
CodeIsOptimal ==
  pc = "ready" =>
    WeightOf(Branches) = BestCost([s \in Storage \ Branches |-> freq[s]])

-----------------------------------------------------------------------------

CONSTANTS LzahLimit, LzahSymbols

VARIABLES parentId, left, right, count, place, order, at, phase, symbols, rebuilt

lzahVars == <<parentId, left, right, count, place, order, at, phase, symbols, rebuilt>>

Lzah == INSTANCE LzahTree WITH
  NumLeaves <- Leaves, Limit <- LzahLimit, MaxSymbols <- LzahSymbols,
  parent <- parentId, freq <- count, index <- place, nodes <- order, n <- at

ASSUME Lzah!LzahAssumption

TreesInit == Init /\ Lzah!Init

TreesNext ==
  \/ symbols = 0 /\ phase = "decode" /\ at = 0 /\ Next /\ UNCHANGED lzahVars
  \/ pc = "ready" /\ freq \in HeapWeights /\ Lzah!Next /\ UNCHANGED vars

ParentsCountTheirChildren == Lzah!ParentsCountTheirChildren
RebuiltCodeFollowsCounts  == Lzah!RebuiltCodeFollowsCounts

-----------------------------------------------------------------------------

CONSTANTS Symbols, MaxFreq, BinLimit, Escapes, InitEscs, HeapUnits, MaxOrder, TextMax, OBound, ScaleSum,
          Starts, MaxBytes,
          NMax, NChar, NPos, LimitC, LimitP, MaxCalls

VARIABLES start, model, dyn, calls

Ppmd == INSTANCE MCPpmdModels
Lh2  == INSTANCE DynamicTrees

ASSUME Lh2!DynamicTreesAssumption

MCStarts == {<<"G", 0>>, <<"G", 1>>, <<"H", 0>>, <<"I", 0>>, <<"I", 1>>, <<"I", 2>>}

NewTrees  == Init /\ Lzah!Init
NewModels == start = <<"H", 0>> /\ Ppmd!Init

modelsVars == <<vars, lzahVars, start, model, dyn, calls>>

ModelsInit == TreesInit /\ Ppmd!Init /\ Lh2!Init
ModelsNext ==
  \/ calls = 0 /\ NewModels /\ TreesNext /\ UNCHANGED <<start, model, dyn, calls>>
  \/ calls = 0 /\ NewTrees /\ Ppmd!Next /\ UNCHANGED <<vars, lzahVars, dyn, calls>>
  \/ NewModels /\ NewTrees /\ Lh2!Next /\ UNCHANGED <<vars, lzahVars, start, model>>

ModelsSpec == /\ ModelsInit /\ [][ModelsNext]_modelsVars
              /\ WF_vars(Step /\ UNCHANGED <<lzahVars, start, model, dyn, calls>>)

ContextsStaySound       == Ppmd!ContextsStaySound
SuccessorsFollowTheText == Ppmd!SuccessorsFollowTheText
DynamicTreesAreSound    == Lh2!DynamicTreesAreSound
=============================================================================
