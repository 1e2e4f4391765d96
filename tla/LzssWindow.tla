----------------------------- MODULE LzssWindow -----------------------------
(***************************************************************************)
(* The sliding window of the RAR decoders (rar/lzss.h, rar/lzss.c): a ring *)
(* of Size bytes indexed by position & mask, and the number of bytes       *)
(* emitted since the start.  Size is a power of two (rar_lzss_init refuses *)
(* any other), so that & mask is % Size.                                   *)
(*                                                                         *)
(* emit_match copies byte by byte, so that a match may read what it wrote  *)
(* a moment ago; each iteration of its loop is a step here.                *)
(***************************************************************************)
EXTENDS Integers, Sequences

CONSTANTS Byte, Size, Prefill, Offsets, MaxMatch, MaxStream

ASSUME SizeAssumption    == Size \in Nat \ {0}
ASSUME PrefillAssumption == Prefill \in [0 .. Size - 1 -> Byte]
ASSUME OffsetsAssumption == Offsets \subseteq Nat
ASSUME BoundsAssumption  == MaxMatch \in Nat /\ MaxStream \in Nat

VARIABLES
  window,   \* the ring
  position, \* total bytes emitted
  copy,     \* the match whose loop is running: offset, iterations left
  hist      \* history variable: every byte emitted, which the code forgets

vars == <<window, position, copy, hist>>

Idle == [offset |-> 0, left |-> 0]

SlotWithMaskTooSmall(pos) == pos % (Size - 1)

(* lzss->window[(size_t)pos & lzss->mask]                                  *)
Slot(pos) == pos % Size

-----------------------------------------------------------------------------
Init ==
  /\ window = Prefill
  /\ position = 0
  /\ copy = Idle
  /\ hist = <<>>

StoreWithoutAdvance(byte) ==
  /\ window' = [window EXCEPT ![Slot(position)] = byte]
  /\ position' = position
  /\ hist' = Append(hist, byte)

Store(byte) ==
  /\ window' = [window EXCEPT ![Slot(position)] = byte]
  /\ position' = position + 1
  /\ hist' = Append(hist, byte)

EmitLiteral(byte) ==
  /\ copy.left = 0
  /\ position < MaxStream
  /\ Store(byte)
  /\ UNCHANGED copy

BeginMatch(offset, length) ==
  /\ copy.left = 0
  /\ position + length <= MaxStream
  /\ copy' = [offset |-> offset, left |-> length]
  /\ UNCHANGED <<window, position, hist>>

CopyByteOneTooFar ==
  /\ copy.left > 0
  /\ Store(window[Slot(position - copy.offset - 1)])
  /\ copy' = [copy EXCEPT !.left = @ - 1]

CopyByte ==
  /\ copy.left > 0
  /\ Store(window[Slot(position - copy.offset)])
  /\ copy' = [copy EXCEPT !.left = @ - 1]

Next ==
  \/ \E byte \in Byte : EmitLiteral(byte)
  \/ \E offset \in Offsets, length \in 1 .. MaxMatch : BeginMatch(offset, length)
  \/ CopyByte

Spec == Init /\ [][Next]_vars

-----------------------------------------------------------------------------
CopyBytesWithoutRestart(win, start, len) ==
  LET first == Size - Slot(start)
  IN  [i \in 0 .. len - 1 |->
         IF Slot(start) + len <= Size THEN win[Slot(start) + i]
         ELSE IF i < first THEN win[Slot(start) + i] ELSE win[i]]

(* rar_lzss_copy_bytes: what the two memcpy calls put at dest[0 .. len-1].  *)
(* The second one starts over at window[0]; an index past the ring's end   *)
(* is not a byte of the window, and the caller must never ask for it.      *)
CopyBytes(win, start, len) ==
  LET first == Size - Slot(start)
  IN  [i \in 0 .. len - 1 |->
         IF Slot(start) + len <= Size THEN win[Slot(start) + i]
         ELSE IF i < first THEN win[Slot(start) + i] ELSE win[i - first]]

-----------------------------------------------------------------------------
(* The types of the window's variables, and the position counting exactly  *)
(* the bytes that were emitted.                                            *)
TypeOK ==
  /\ window \in [0 .. Size - 1 -> Byte]
  /\ position \in Nat
  /\ copy \in [offset : Offsets \cup {0}, left : 0 .. MaxMatch]
  /\ hist \in Seq(Byte)
  /\ position = Len(hist)

(* Position p of the whole stream, the prefill before its beginning.       *)
HistAt(p) == IF p >= 0 THEN hist[p + 1] ELSE Prefill[p % Size]

(* The ring is the tail of the stream: each of the last Size positions,    *)
(* those before the first byte included, is found in its slot.             *)
WindowIsTail ==
  \A p \in position - Size .. position - 1 : window[Slot(p)] = HistAt(p)

(* A range that the window still holds whole is copied out exactly as it   *)
(* was emitted, wrapped or not: what rar30 and rar50 rely on to produce    *)
(* their output and to feed their filters.                                 *)
CopyOutIsExact ==
  \A start \in 0 .. position - 1 : \A len \in 1 .. position - start :
    start >= position - Size =>
      \A i \in 0 .. len - 1 : CopyBytes(window, start, len)[i] = HistAt(start + i)

(* The ring implements the unbounded history: every byte a match copies    *)
(* is the byte of the stream at the match's distance.                      *)
History == INSTANCE LzHistory WITH stream <- hist, match <- copy
ImplementsHistory == History!AbsSpec
=============================================================================
