------------------------------- MODULE LhaLzss -------------------------------
(***************************************************************************)
(* The sliding window of the LHA, LArc, PMarc and Apple LZH decoders       *)
(* (lha/lzss.h, lha/lzss.c).  It differs from the RAR window in three      *)
(* ways: it also writes the caller's output buffer, which it may fill in   *)
(* the middle of a match; a match computes its place in the ring once and  *)
(* moves position only when its loop is over; and its decoders fill the    *)
(* window with a pattern of their own before the first byte.               *)
(*                                                                         *)
(* The decoders' loop asks for a token while out_pos < expected, and       *)
(* expected is the out_size the window was created with.                   *)
(***************************************************************************)
EXTENDS Integers, Sequences

CONSTANTS Byte, Size, Prefill, Offsets, MaxMatch,
          OutSize \* capacity of the caller's buffer

ASSUME SizeAssumption    == Size \in Nat \ {0}
ASSUME PrefillAssumption == Prefill \in [0 .. Size - 1 -> Byte]
ASSUME OffsetsAssumption == Offsets \subseteq Nat
ASSUME BoundsAssumption  == MaxMatch \in Nat /\ OutSize \in Nat

VARIABLES
  window,   \* the ring
  position, \* bytes emitted by the operations that have returned
  out_buf,  \* what the caller's buffer holds
  out_pos,  \* bytes written to it
  copy,     \* the match whose loop is running: offset, length, iterations done
  hist      \* history variable: every byte emitted

vars == <<window, position, out_buf, out_pos, copy, hist>>

Idle == [offset |-> 0, length |-> 0, i |-> 0]

SlotWithMaskTooSmall(index) == index % (Size - 1)

(* An index into the ring: & self->mask, Size being a power of two.        *)
Slot(index) == index % Size

-----------------------------------------------------------------------------
(* lha_lzss_init, and the prefill its callers do before decoding.          *)
Init ==
  /\ window = Prefill
  /\ position = 0
  /\ out_buf = <<>>
  /\ out_pos = 0
  /\ copy = Idle
  /\ hist = <<>>

(* if(self->out_pos < self->out_size) self->out_buf[self->out_pos++] = b   *)
OutputUnclipped(byte) ==
  /\ out_buf' = Append(out_buf, byte)
  /\ out_pos' = out_pos + 1

Output(byte) ==
  IF out_pos < OutSize
    THEN out_buf' = Append(out_buf, byte) /\ out_pos' = out_pos + 1
    ELSE UNCHANGED <<out_buf, out_pos>>

EmitLiteral(byte) ==
  /\ copy.length = 0
  /\ out_pos < OutSize
  /\ window' = [window EXCEPT ![Slot(position)] = byte]
  /\ position' = position + 1
  /\ Output(byte)
  /\ hist' = Append(hist, byte)
  /\ UNCHANGED copy

BeginMatch(offset, length) ==
  /\ copy.length = 0
  /\ out_pos < OutSize
  /\ copy' = [offset |-> offset, length |-> length, i |-> 0]
  /\ UNCHANGED <<window, position, out_buf, out_pos, hist>>

(* One iteration of lha_lzss_emit_match; the last one also executes the    *)
(* position += length that follows the loop.                               *)
CopyByteMovingOnce ==
  LET windowoffs == Slot(position)
      byte       == window[Slot(windowoffs + copy.i - copy.offset)]
      done       == copy.i + 1
  IN  /\ copy.length > 0
      /\ window' = [window EXCEPT ![Slot(windowoffs + copy.i)] = byte]
      /\ Output(byte)
      /\ hist' = Append(hist, byte)
      /\ IF done = copy.length
           THEN position' = position + done - 1 /\ copy' = [Idle EXCEPT !.offset = copy.offset]
           ELSE copy' = [copy EXCEPT !.i = done] /\ UNCHANGED position

CopyByteFromSnapshot ==
  LET windowoffs == Slot(position)
      byte       == window[Slot(windowoffs - copy.offset)]
      done       == copy.i + 1
  IN  /\ copy.length > 0
      /\ window' = [window EXCEPT ![Slot(windowoffs + copy.i)] = byte]
      /\ Output(byte)
      /\ hist' = Append(hist, byte)
      /\ IF done = copy.length
           THEN position' = position + copy.length /\ copy' = [Idle EXCEPT !.offset = copy.offset]
           ELSE copy' = [copy EXCEPT !.i = done] /\ UNCHANGED position

CopyByte ==
  LET windowoffs == Slot(position)
      byte       == window[Slot(windowoffs + copy.i - copy.offset)]
      done       == copy.i + 1
  IN  /\ copy.length > 0
      /\ window' = [window EXCEPT ![Slot(windowoffs + copy.i)] = byte]
      /\ Output(byte)
      /\ hist' = Append(hist, byte)
      /\ IF done = copy.length
           THEN position' = position + copy.length /\ copy' = [Idle EXCEPT !.offset = copy.offset]
           ELSE copy' = [copy EXCEPT !.i = done] /\ UNCHANGED position

Next ==
  \/ \E byte \in Byte : EmitLiteral(byte)
  \/ \E offset \in Offsets, length \in 1 .. MaxMatch : BeginMatch(offset, length)
  \/ CopyByte

Spec == Init /\ [][Next]_vars

-----------------------------------------------------------------------------
(* The types of the variables; the position lags the stream by exactly the *)
(* iterations of the loop that is running.                                 *)
TypeOK ==
  /\ window \in [0 .. Size - 1 -> Byte]
  /\ position \in Nat
  /\ copy \in [offset : Offsets \cup {0}, length : 0 .. MaxMatch, i : 0 .. MaxMatch]
  /\ copy.i < copy.length \/ (copy.i = 0 /\ copy.length = 0)
  /\ hist \in Seq(Byte)
  /\ position + copy.i = Len(hist)

HistAt(p) == IF p >= 0 THEN hist[p + 1] ELSE Prefill[p % Size]

(* The ring is the tail of the stream at every iteration, with position    *)
(* still where the match began.                                            *)
WindowIsTail ==
  \A p \in Len(hist) - Size .. Len(hist) - 1 : window[Slot(p)] = HistAt(p)

(* The caller's buffer is the stream cut at its capacity, byte for byte,   *)
(* also when a match runs past the end of the buffer.                      *)
OutputIsStreamPrefix ==
  /\ out_pos = Len(out_buf)
  /\ out_pos = (IF Len(hist) <= OutSize THEN Len(hist) ELSE OutSize)
  /\ \A n \in 1 .. out_pos : out_buf[n] = hist[n]

(* The same promise as the RAR window's: no more bytes than the longest    *)
(* match are ever produced past the caller's capacity.                     *)
History == INSTANCE LzHistory WITH
  stream    <- hist,
  match     <- [offset |-> copy.offset, left |-> copy.length - copy.i],
  MaxStream <- OutSize + MaxMatch
ImplementsHistory == History!AbsSpec
=============================================================================
