--------------------------- MODULE MCLzwDecoders ---------------------------
(***************************************************************************)
(* The library's three LZW decoders, of which one moves while the others   *)
(* are new: Zoo's resumable one, ARC's with its groups of codes, and the   *)
(* one of ZIP's shrink with its partial clears.                            *)
(*                                                                         *)
(* Zoo: two literals, codes of two bits that grow to three with the first  *)
(* entry, a table of eight that is full with the fourth; bytes of two      *)
(* bits, so that codes straddle bytes, and as many in ARC's, so that a     *)
(* group has two codes.  ARC and shrink: see the constants of the .cfg.    *)
(***************************************************************************)
EXTENDS ZooLzd, ZipShrink, ArcLzw

MCChunks     == {1, 3}
MCOutLens    == {2}
MCArcOutLens == {3, 40}
TwoStreams   == <<6, 1>>
\* the first breaks off at a code that is none
BigBuffer      == {40}
DamagedStreams == <<2, 2>>

LzwInit == Init /\ ArcInit /\ ShrinkInit

ZooIsNew    == enc = NewEncoder(0)
ArcIsNew    == arcPc = "encode" /\ arcEnc = NewArcEncoder /\ stream = 0
ShrinkIsNew == phase = "first" /\ bits = <<>>

LzwNext ==
  \/ ArcIsNew /\ ShrinkIsNew /\ Next /\ UNCHANGED <<arcVars, shrinkVars>>
  \/ ZooIsNew /\ ShrinkIsNew /\ ArcNext /\ UNCHANGED <<vars, shrinkVars>>
  \/ ZooIsNew /\ ArcIsNew /\ ShrinkNext /\ UNCHANGED <<vars, arcVars>>

(* Zoo's LZD_Drain runs to its return; its caller calls while it may.      *)
Alone(A) == ArcIsNew /\ ShrinkIsNew /\ A /\ UNCHANGED <<arcVars, shrinkVars>>
LzwSpec ==
  /\ LzwInit /\ [][LzwNext]_<<vars, arcVars, shrinkVars>>
  /\ WF_vars(Alone(Loop)) /\ WF_vars(Alone(CallFeed)) /\ WF_vars(Alone(CallDrain))
=============================================================================
