------------------------------ MODULE LzwText ------------------------------
(***************************************************************************)
(* What an LZW decoder of Zoo's method 1 promises: the codes that were     *)
(* sent, in order, each stand for a string, and the text is the strings    *)
(* one after the other.  No bits, no buffers, no stack, no calls.          *)
(***************************************************************************)
EXTENDS Integers, Sequences

CONSTANTS
  Literals, \* codes 0 .. Literals - 1 stand for themselves
  MaxCode,  \* the largest code
  Codes     \* what may be sent

VARIABLES
  queue,    \* codes sent and not yet decoded
  entries,  \* the strings of the codes after CLEAR and EOF, in order
  prev,     \* the string of the code before this one; empty after a CLEAR
  text      \* the decoded text

absVars == <<queue, entries, prev, text>>

Clear     == Literals
Eof       == Literals + 1
FirstFree == Literals + 2
NextFree  == FirstFree + Len(entries)

StringOf(c) ==
  CASE c < Literals -> <<c>>
    [] FirstFree <= c /\ c < NextFree -> entries[c - FirstFree + 1]
    [] OTHER -> Append(prev, Head(prev))  \* the entry being made right now

AbsInit == queue = <<>> /\ entries = <<>> /\ prev = <<>> /\ text = <<>>

AbsSend(c) ==
  /\ queue' = Append(queue, c)
  /\ UNCHANGED <<entries, prev, text>>

AbsClear ==
  /\ queue # <<>> /\ Head(queue) = Clear
  /\ queue' = Tail(queue)
  /\ entries' = <<>> /\ prev' = <<>>
  /\ UNCHANGED text

AbsEof ==
  /\ queue # <<>> /\ Head(queue) = Eof
  /\ queue' = Tail(queue)
  /\ UNCHANGED <<entries, prev, text>>

AbsDecode ==
  /\ queue # <<>> /\ Head(queue) \notin {Clear, Eof}
  /\ LET s == StringOf(Head(queue))
     IN  /\ text' = text \o s
         /\ prev' = s
         /\ entries' = IF prev # <<>> /\ NextFree <= MaxCode
                         THEN Append(entries, Append(prev, Head(s)))
                         ELSE entries
  /\ queue' = Tail(queue)

AbsNext == AbsClear \/ AbsEof \/ AbsDecode \/ \E c \in Codes : AbsSend(c)

AbsSpec == AbsInit /\ [][AbsNext]_absVars
=============================================================================
