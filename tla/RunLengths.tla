----------------------------- MODULE RunLengths ------------------------------
(***************************************************************************)
(* The decoders that only repeat what they have: ARC's packing and         *)
(* squeezing (arc/pack.c, arc/squeeze.c), StuffIt's method 1               *)
(* (stuffit/rle90.c), the second half of Compact Pro (cpt/cpt.c), ZIP's    *)
(* reducing (zip/reduce.c), Apple's ADC (adc.c) and DART RLE (apple_rle.c).*)
(* Each takes a whole stream and the capacity of the destination.          *)
(***************************************************************************)
EXTENDS Integers, Sequences
LOCAL INSTANCE SequencesExt
LOCAL INSTANCE FiniteSetsExt

CONSTANTS
  Escape,      \* DLE (0x90), REDUCE_DLE (0x90), CPT_RLE_ESCAPE (0x81)
  Second,      \* the 0x82 that follows CPT_RLE_ESCAPE in front of a count
  EndOfFile,   \* SPEOF (256)
  ChunkLimit   \* DART_CHUNK (20960)

Repeat(b, n) == [k \in 1 .. n |-> b]
(* Faulty: a run that does not fit is left out.                            *)
FitAllOrNone(out, more, cap) == IF Len(out) + Len(more) <= cap THEN out \o more ELSE out

Fit(out, more, cap) == out \o SubSeq(more, 1, Min({Len(more), cap - Len(out)}))

-----------------------------------------------------------------------------
(* ARC: a count of n stands for n - 1 more; 0 for the escape itself, which *)
(* is not remembered.                                                      *)
ArcUnpack(src, cap) ==
  LET step(acc, b) ==
        IF Len(acc.out) >= cap THEN acc
        ELSE IF acc.inrep /\ b > 0
          THEN [acc EXCEPT !.inrep = FALSE, !.out = Fit(@, Repeat(acc.lastc, b - 1), cap)]
        ELSE IF acc.inrep THEN [acc EXCEPT !.inrep = FALSE, !.out = Append(@, Escape)]
        ELSE IF b = Escape THEN [acc EXCEPT !.inrep = TRUE]
        ELSE [acc EXCEPT !.lastc = b, !.out = Append(@, b)]
  IN  FoldLeft(step, [out |-> <<>>, inrep |-> FALSE, lastc |-> 0], src).out

(* The squeezed stream is a walk through the tree, a node being its two    *)
(* children and -(value + 1) a leaf, into a buffer of twice the capacity.  *)
ArcUnsqueeze(nodes, bits, cap) ==
  LET step(acc, bit) ==
        LET i == nodes[acc.node + 1][bit + 1]
        IN  IF acc.done \/ Len(acc.out) >= 2 * cap THEN [acc EXCEPT !.done = TRUE]
            ELSE IF i >= 0 THEN [acc EXCEPT !.node = i]
            ELSE IF -(i + 1) = EndOfFile THEN [acc EXCEPT !.done = TRUE]
            ELSE [acc EXCEPT !.node = 0, !.out = Append(@, -(i + 1))]
  IN  ArcUnpack(FoldLeft(step, [node |-> 0, out |-> <<>>, done |-> FALSE], bits).out, cap)

(* StuffIt: a count of n stands for n - 2 more, and the escape is          *)
(* remembered.                                                             *)
Rle90Decode(src, cap) ==
  LET step(acc, b) ==
        IF acc.failed \/ (Len(acc.out) >= cap /\ ~acc.escaped) THEN acc
        ELSE IF acc.escaped /\ b = 0
          THEN [acc EXCEPT !.escaped = FALSE, !.last = Escape, !.out = Append(@, Escape)]
        ELSE IF acc.escaped /\ b = 1 THEN [acc EXCEPT !.failed = TRUE]
        ELSE IF acc.escaped THEN [acc EXCEPT !.escaped = FALSE, !.out = Fit(@, Repeat(acc.last, b - 2), cap)]
        ELSE IF b = Escape THEN [acc EXCEPT !.escaped = TRUE]
        ELSE [acc EXCEPT !.last = b, !.out = Append(@, b)]
      end == FoldLeft(step, [out |-> <<>>, escaped |-> FALSE, last |-> 0, failed |-> FALSE], src)
  IN  IF end.failed \/ end.escaped THEN <<-1>> ELSE end.out

-----------------------------------------------------------------------------
(* Compact Pro: two escapes in a row are one, and the second still counts. *)
RECURSIVE CptRle(_, _, _)
CptRle(src, s, cap) ==
  LET put(b)   == Append(s.out, b)
      in       == IF s.half THEN s.pos ELSE s.pos + 1   \* bytes read with this one
      byte     == IF s.half THEN Escape ELSE src[s.pos + 1]
      lacks(n) == in + n > Len(src)
  IN  IF Len(s.out) >= cap THEN s.out
      ELSE IF s.repeat > 0 THEN CptRle(src, [s EXCEPT !.repeat = @ - 1, !.out = put(s.saved)], cap)
      ELSE IF lacks(0) THEN s.out
      ELSE IF byte # Escape
        THEN CptRle(src, [s EXCEPT !.pos = in, !.half = FALSE, !.saved = byte, !.out = put(byte)], cap)
      ELSE IF lacks(1) THEN s.out
      ELSE IF src[in + 1] = Escape
        THEN CptRle(src, [s EXCEPT !.pos = in + 1, !.half = TRUE, !.saved = Escape, !.out = put(Escape)], cap)
      ELSE IF src[in + 1] # Second
        THEN CptRle(src, [pos |-> in + 1, half |-> FALSE, repeat |-> 1, saved |-> src[in + 1], out |-> put(Escape)], cap)
      ELSE IF lacks(2) THEN s.out
      ELSE IF src[in + 2] = 0
        THEN CptRle(src, [pos |-> in + 2, half |-> FALSE, repeat |-> 1, saved |-> Second, out |-> put(Escape)], cap)
      ELSE CptRle(src, [s EXCEPT !.pos = in + 2, !.half = FALSE, !.repeat = src[in + 2] - 2, !.out = put(s.saved)], cap)

CptRleDecode(src, cap) ==
  CptRle(src, [pos |-> 0, half |-> FALSE, repeat |-> 0, saved |-> 0, out |-> <<>>], cap)

-----------------------------------------------------------------------------
(* ZIP: each byte comes as a place among the followers of the last one or  *)
(* as itself; the bytes are then literals and copies.                      *)
BValue(n) == IF n > 16 THEN 5 ELSE IF n > 8 THEN 4 ELSE IF n > 4 THEN 3
             ELSE IF n > 2 THEN 2 ELSE IF n > 0 THEN 1 ELSE 0

(* Faulty: copies what was there when the copy began.                      *)
CopyAtOnce(out, dist, n, cap) ==
  out \o [k \in 1 .. Min({n, cap - Len(out)}) |-> IF Len(out) - dist + k \in DOMAIN out THEN out[Len(out) - dist + k] ELSE 0]

CopyFrom(out, dist, n, cap) ==
  FoldLeft(LAMBDA o, k : IF Len(o) >= cap THEN o
                         ELSE Append(o, IF dist > Len(o) THEN 0 ELSE o[Len(o) - dist + 1]),
           out, Repeat(0, n))

ReduceState(acc, c, lenbits, cap) ==
  LET mask == 2^lenbits - 1
      dist == (acc.v \div 2^lenbits) * 256 + c + 1
  IN  CASE acc.state = 0 /\ c # Escape -> [acc EXCEPT !.out = Append(@, c)]
        [] acc.state = 0 /\ c = Escape -> [acc EXCEPT !.state = 1]
        [] acc.state = 1 /\ c = 0      -> [acc EXCEPT !.state = 0, !.out = Append(@, Escape)]
        [] acc.state = 1 /\ c # 0      -> [acc EXCEPT !.v = c, !.len = c % 2^lenbits,
                                                      !.state = IF c % 2^lenbits = mask THEN 2 ELSE 3]
        [] acc.state = 2 -> [acc EXCEPT !.len = @ + c, !.state = 3]
        [] acc.state = 3 -> [acc EXCEPT !.out = CopyFrom(@, dist, acc.len + 3, cap), !.state = 0]

ReduceExpand(codes, followers, lenbits, cap) ==
  LET step(acc, code) ==
        LET set == followers[acc.last]
            bad == set # <<>> /\ code.follows /\ code.value >= Len(set)
            c   == IF set # <<>> /\ code.follows THEN set[code.value + 1] ELSE code.value
        IN  IF Len(acc.out) >= cap \/ acc.failed THEN acc
            ELSE IF bad THEN [acc EXCEPT !.failed = TRUE]
            ELSE [ReduceState(acc, c, lenbits, cap) EXCEPT !.last = c]
  IN  FoldLeft(step, [out |-> <<>>, last |-> 0, state |-> 0, v |-> 0, len |-> 0, failed |-> FALSE], codes)

-----------------------------------------------------------------------------
(* ADC: a chunk that does not fit ends the stream; offset 0 is the last    *)
(* byte again.                                                             *)
AdcDecode(chunks, cap) ==
  LET step(acc, chunk) ==
        LET size == IF chunk.plain THEN Len(chunk.bytes) ELSE chunk.size
        IN  IF acc.finished \/ Len(acc.out) + size > cap THEN [acc EXCEPT !.finished = TRUE]
            ELSE IF chunk.plain THEN [acc EXCEPT !.out = @ \o chunk.bytes]
            ELSE IF chunk.offset = 0 THEN [acc EXCEPT !.out = @ \o Repeat(Last(@), size)]
            ELSE [acc EXCEPT !.out = CopyFrom(@, chunk.offset + 1, size, cap)]
  IN  FoldLeft(step, [out |-> <<>>, finished |-> FALSE], chunks).out

-----------------------------------------------------------------------------
(* DART RLE works in pairs of bytes: a unit is n pairs as they are, or     *)
(* (-n, pair) for n times the same; other numbers are skipped.  What is    *)
(* left of a unit stays in the statics for the next call.  A number is one *)
(* element of src here; beyond says that the source was read past its end. *)
AppleStatics == [count |-> 0, nextA |-> TRUE, A |-> 0, B |-> 0, repeatMode |-> FALSE]

(* Faulty: no look at chunks of no pairs at all.                           *)
NoUnitUnlessLarge(s) == s >= ChunkLimit \/ s <= -ChunkLimit

NoUnit(s) == s = 0 \/ s >= ChunkLimit \/ s <= -ChunkLimit

RECURSIVE AppleRle(_, _, _, _)
AppleRle(src, st, acc, cap) ==
  LET put(b, used) == [pos |-> acc.pos + used, out |-> Append(acc.out, b)]
      stop(beyond) == [out |-> acc.out, statics |-> st, beyond |-> beyond]
      at(k) == src[acc.pos + k]
  IN  IF acc.pos > Len(src) \/ Len(acc.out) > cap THEN stop(FALSE)
      ELSE IF st.count > 0 /\ st.repeatMode
        THEN AppleRle(src, [st EXCEPT !.count = @ - 1, !.nextA = ~@], put(IF st.nextA THEN st.A ELSE st.B, 0), cap)
      ELSE IF acc.pos = Len(src) THEN stop(st.count > 0)
      ELSE IF st.count > 0 THEN AppleRle(src, [st EXCEPT !.count = @ - 1], put(at(1), 1), cap)
      ELSE IF NoUnit(at(1)) /\ acc.pos + 1 = Len(src) THEN stop(TRUE)
      ELSE IF NoUnit(at(1)) THEN AppleRle(src, st, [acc EXCEPT !.pos = @ + 1], cap)
      ELSE IF at(1) < 0
        THEN AppleRle(src, [count |-> -at(1) * 2 - 1, nextA |-> FALSE, A |-> at(2), B |-> at(3), repeatMode |-> TRUE],
                      put(at(2), 3), cap)
      ELSE AppleRle(src, [st EXCEPT !.count = at(1) * 2 - 1, !.repeatMode = FALSE], put(at(2), 2), cap)

AppleCall(src, st, cap) == AppleRle(src, st, [pos |-> 0, out |-> <<>>], cap)
=============================================================================
