----------------------------- MODULE LzHistory -----------------------------
(***************************************************************************)
(* What an LZ77 sliding window promises, with no window in it: the decoder *)
(* appends bytes to an unbounded stream, each one either a literal or a    *)
(* copy of the byte a fixed distance back.  The modules LzssWindow and     *)
(* LhaLzss, which keep only the last Size bytes in a ring, implement it.   *)
(***************************************************************************)
EXTENDS Integers, Sequences

CONSTANTS
  Byte,     \* the values of one byte of data
  Size,     \* bytes the window reaches back
  Prefill,  \* what the decoder puts in the window before the first byte
  Offsets,  \* the offsets a match may carry
  MaxMatch, \* the longest match
  MaxStream \* bound on the stream, for model checking

VARIABLES
  stream,   \* every byte decoded so far
  match     \* the match being copied: its offset and the bytes still to copy

absVars == <<stream, match>>

NoMatch == [offset |-> 0, left |-> 0]

(* Position p of the stream; below zero, the prefilled window.             *)
ByteAt(p) == IF p >= 0 THEN stream[p + 1] ELSE Prefill[p % Size]

(* A window of Size bytes reaches back exactly 1 .. Size: an offset taken  *)
(* through the index mask means the distance it is congruent to.           *)
Distance(offset) == IF offset % Size = 0 THEN Size ELSE offset % Size

AbsInit == stream = <<>> /\ match = NoMatch

AbsLiteral(b) ==
  /\ match.left = 0
  /\ Len(stream) < MaxStream
  /\ stream' = Append(stream, b)
  /\ UNCHANGED match

AbsBeginMatch(offset, length) ==
  /\ match.left = 0
  /\ Len(stream) + length <= MaxStream
  /\ match' = [offset |-> offset, left |-> length]
  /\ UNCHANGED stream

AbsCopyByte ==
  /\ match.left > 0
  /\ stream' = Append(stream, ByteAt(Len(stream) - Distance(match.offset)))
  /\ match' = [match EXCEPT !.left = @ - 1]

AbsNext ==
  \/ \E b \in Byte : AbsLiteral(b)
  \/ \E offset \in Offsets, length \in 1 .. MaxMatch : AbsBeginMatch(offset, length)
  \/ AbsCopyByte

AbsSpec == AbsInit /\ [][AbsNext]_absVars
=============================================================================
