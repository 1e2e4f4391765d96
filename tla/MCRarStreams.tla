---------------------------- MODULE MCRarStreams -----------------------------
(***************************************************************************)
(* The window of the RAR decoders and the two that run filters over it,    *)
(* of which one moves while the others are new.  The ring of LzssWindow    *)
(* has four bytes, so that streams of up to MaxStream bytes wrap it and    *)
(* matches overlap themselves, reach the prefill and reach the edge.       *)
(***************************************************************************)
EXTENDS LzssWindow, Rar30Filters, Rar50Stream

CONSTANTS b0, b1, b2

MCByte == {b0, b1, b2}
MCPrefill == [i \in 0 .. 3 |-> b0]

ASSUME Rar30Assumption
ASSUME Rar50Assumption

NewWindow == position = 0 /\ copy = Idle
NewThirty == decoded = 0 /\ phase = "decode" /\ filter_stack = <<>> /\ num_filtercodes = 0
NewFive   == phase50 = "start"

StreamsInit == Init /\ FiltersInit /\ FiveInit
StreamsNext ==
  \/ NewThirty /\ NewFive /\ Next /\ UNCHANGED <<filtersVars, fiveVars>>
  \/ NewWindow /\ NewFive /\ FiltersNext /\ UNCHANGED <<vars, fiveVars>>
  \/ NewWindow /\ NewThirty /\ FiveNext /\ UNCHANGED <<vars, filtersVars>>

StreamsSpec == /\ StreamsInit /\ [][StreamsNext]_<<vars, filtersVars, fiveVars>>
               /\ WF_filtersVars(NewWindow /\ NewFive /\ Output /\ UNCHANGED <<vars, fiveVars>>)
               /\ WF_fiveVars(NewWindow /\ NewThirty /\ FiveNext /\ UNCHANGED <<vars, filtersVars>>)

(* Each of the two alone.                                                  *)
ThirtyAlone == StreamsInit /\ [][FiltersNext /\ UNCHANGED <<vars, fiveVars>>]_filtersVars
FiveAlone   == StreamsInit /\ [][FiveNext /\ UNCHANGED <<vars, filtersVars>>]_fiveVars

(* The RAR 5 loop ends in the runs where it is the one that moves.         *)
FiveEnds == [](NewWindow /\ NewThirty) => EndsIfWellDeclared
=============================================================================
