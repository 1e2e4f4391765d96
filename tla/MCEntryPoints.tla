--------------------------- MODULE MCEntryPoints ---------------------------
(***************************************************************************)
(* The library's entry points, the LHA window that the codecs behind some  *)
(* of them share, and the decoders that are functions of their input, of   *)
(* which one moves while the others are new.  The window: a ring of four   *)
(* bytes with a prefill that tells its slots apart, and an output buffer   *)
(* that a match can overrun by two bytes.                                  *)
(***************************************************************************)
EXTENDS LhaLzss, LibraryCalls, MCTransforms

CONSTANTS byte0, byte1, byte2

MCByte == {byte0, byte1, byte2}
MCPrefill == [i \in 0 .. 3 |-> <<byte0, byte1, byte2, byte1>>[i + 1]]
MCOffsets == 1 .. 5
MCHeader  == <<-1, -2>>
MCSource  == <<1, 0, 2>>

WindowIsNew == position = 0 /\ copy = Idle

EntryInit == Init /\ LibraryInit /\ TransformsInit
EntryNext ==
  \/ CallsAreNew /\ TransformsAreNew /\ Next /\ UNCHANGED <<callVars, transformsVars>>
  \/ WindowIsNew /\ TransformsAreNew /\ LibraryNext /\ UNCHANGED <<vars, transformsVars>>
  \/ WindowIsNew /\ CallsAreNew /\ TransformsNext /\ UNCHANGED <<vars, callVars>>

EntrySpec ==
  /\ EntryInit /\ [][EntryNext]_<<vars, callVars, transformsVars>>
  /\ WF_callVars(WindowIsNew /\ TransformsAreNew /\ CallLoop /\ UNCHANGED <<vars, transformsVars>>)
=============================================================================
