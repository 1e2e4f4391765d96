------------------------------- MODULE ArcLzw -------------------------------
(***************************************************************************)
(* The LZW decoder of ARC's squash and dynamic crunch (arc/lzw.c).  Codes  *)
(* are read in groups of as many bytes as a code has bits; a change of     *)
(* width or a CLEAR abandons the rest of the group.  The reader's state is *)
(* in static variables, which outlive the stream: some are set again at    *)
(* the start of the next one, size and buf are not.                        *)
(*                                                                         *)
(* The encoder is the environment: the groups and widths of `compress',    *)
(* whose decoder this is.  Streams are decoded one after the other.        *)
(***************************************************************************)
EXTENDS BitStrings

CONSTANTS
  ArcLiterals, \* 256
  INIT_BITS,   \* 9
  Bits,        \* 12 for crunch, 13 for squash
  ArcByteBits, \* 8
  ArcOutLens,  \* sizes of the caller's buffer
  Recent,      \* the encoder uses its newest entries only, for model checking
  ArcCodes,    \* codes of each stream, for model checking
  Damaged,     \* whether streams may hold a code that is none
  Junk         \* what uninitialised memory may hold

ASSUME ArcAssumption ==
  /\ {ArcLiterals, INIT_BITS, Bits, ArcByteBits} \subseteq Nat \ {0}
  /\ INIT_BITS < Bits /\ ArcLiterals + 1 < 2 ^ INIT_BITS
  \* so that what is left of a group in its last byte is never a code
  /\ ArcByteBits <= INIT_BITS
  /\ ArcOutLens \subseteq Nat /\ Recent \in Nat /\ ArcCodes \in Seq(Nat) /\ Damaged \in BOOLEAN
  /\ Junk \subseteq Nat

ARC_CLEAR == ArcLiterals
FIRST == ArcLiterals + 1
max_maxcode == 2 ^ Bits
MaxcodeOf(n) == IF n = Bits THEN max_maxcode ELSE 2 ^ n - 1

VARIABLES
  arcEnc,  \* the encoder: free entry, width, bits of the group it fills and of those before, codes sent
  stream,  \* streams before this one
  reader,  \* statics of getcode: n_bits, maxcode, clear_flg, offset, size, buf, rest
  free_ent, prefix, suffix, \* the dictionary
  finchar, oldcode,         \* locals of arc_decompress_lzw
  arcLen, arcOut,           \* the caller's buffer
  arcPc

arcDict == <<free_ent, prefix, suffix>>
arcVars == <<arcEnc, stream, reader, arcDict, finchar, oldcode, arcLen, arcOut, arcPc>>

PadTo(bits, k) == bits \o [b \in 1 .. k - Len(bits) |-> 0]
Lesser(a, b) == IF a < b THEN a ELSE b

-----------------------------------------------------------------------------
NewArcEncoder ==
  [free |-> FIRST, n_bits |-> INIT_BITS, group |-> <<>>, file |-> <<>>, codes |-> <<>>,
   damaged |-> FALSE]

(* The entry made with the code before is the decoder's KwKwK.             *)
CodesNext(e) ==
  IF e.free = FIRST THEN 0 .. ArcLiterals - 1
  ELSE (0 .. ArcLiterals - 1) \cup {ARC_CLEAR}
       \cup {c \in FIRST .. e.free - 1 : c >= e.free - Recent}
       \cup (IF Damaged THEN e.free .. 2 ^ e.n_bits - 1 ELSE {})

GroupBits(e) == e.n_bits * ArcByteBits

WidensAfter(e, c) == c # ARC_CLEAR /\ e.free > MaxcodeOf(e.n_bits)

GroupEndsAfter(e, c) ==
  c = ARC_CLEAR \/ WidensAfter(e, c) \/ Len(e.group) + e.n_bits = GroupBits(e)

AfterSend(e, c) ==
  LET group == e.group \o BitsOf(c, e.n_bits)
  IN  [free    |-> IF c = ARC_CLEAR THEN FIRST ELSE Lesser(e.free + 1, max_maxcode),
       n_bits  |-> IF c = ARC_CLEAR THEN INIT_BITS
                   ELSE IF WidensAfter(e, c) THEN e.n_bits + 1 ELSE e.n_bits,
       group   |-> IF GroupEndsAfter(e, c) THEN <<>> ELSE group,
       file    |-> IF GroupEndsAfter(e, c) THEN e.file \o PadTo(group, GroupBits(e)) ELSE e.file,
       codes   |-> Append(e.codes, c),
       damaged |-> c >= e.free]

ArcSend(c) ==
  /\ arcPc = "encode" /\ Len(arcEnc.codes) < ArcCodes[stream + 1] /\ ~arcEnc.damaged
  /\ c \in CodesNext(arcEnc)
  /\ arcEnc' = AfterSend(arcEnc, c)
  /\ UNCHANGED <<stream, reader, arcDict, finchar, oldcode, arcLen, arcOut, arcPc>>

WholeBytes(bits) == PadTo(bits, ((Len(bits) + ArcByteBits - 1) \div ArcByteBits) * ArcByteBits)

(* The stream, its last group cut after its last byte.                     *)
Wire(e) == e.file \o WholeBytes(e.group)

-----------------------------------------------------------------------------
(* malloc leaves whatever was there above the literals.                    *)
EmptyTable(junk) == [c \in 0 .. max_maxcode - 1 |-> IF c < ArcLiterals THEN 0 ELSE junk]
Alphabet(junk)   == [c \in 0 .. max_maxcode - 1 |-> IF c < ArcLiterals THEN c ELSE junk]

ArcInit ==
  /\ arcEnc = NewArcEncoder /\ stream = 0
  /\ reader = [n_bits |-> 0, maxcode |-> 0, clear_flg |-> FALSE, offset |-> 0, size |-> 0,
               buf |-> PadTo(<<>>, Bits * ArcByteBits), rest |-> <<>>]
  /\ free_ent = 0 /\ prefix = EmptyTable(0) /\ suffix = Alphabet(0)
  /\ finchar = 0 /\ oldcode = 0
  /\ arcLen = 0 /\ arcOut = <<>>
  /\ arcPc = "encode"

(* The call: what it sets, and what it leaves of the stream before.        *)
ResetReader(bits) ==
  [reader EXCEPT !.n_bits = INIT_BITS, !.maxcode = MaxcodeOf(INIT_BITS), !.clear_flg = FALSE,
                 !.offset = 0, !.rest = bits]

Call(len, junk) ==
  /\ arcPc = "encode"
  /\ reader' = ResetReader(Wire(arcEnc))
  /\ free_ent' = FIRST /\ prefix' = EmptyTable(junk) /\ suffix' = Alphabet(junk)
  /\ arcLen' = len /\ arcOut' = <<>>
  /\ arcPc' = IF reader'.rest = <<>> THEN "done" ELSE "first"
  /\ UNCHANGED <<arcEnc, stream, finchar, oldcode>>

WidthFor(r, free) ==
  IF r.clear_flg THEN INIT_BITS ELSE IF free > r.maxcode THEN r.n_bits + 1 ELSE r.n_bits

MustRefillAtEnd(r, free) == r.clear_flg \/ r.offset >= r.size

MustRefill(r, free) == r.clear_flg \/ r.offset >= r.size \/ free > r.maxcode

(* A group of n bytes, or of what is left, over the one before.            *)
Refill(r, free) ==
  LET n     == WidthFor(r, free)
      bytes == Lesser(n, Len(r.rest) \div ArcByteBits)
      bits  == bytes * ArcByteBits
  IN  [n_bits |-> n, maxcode |-> IF n = r.n_bits /\ ~r.clear_flg THEN r.maxcode ELSE MaxcodeOf(n),
       clear_flg |-> FALSE,
       offset |-> IF bytes = 0 THEN r.offset ELSE 0,
       size   |-> IF bytes = 0 THEN 0 ELSE bits - (n - 1),
       buf    |-> [b \in DOMAIN r.buf |-> IF b <= bits THEN r.rest[b] ELSE r.buf[b]],
       rest   |-> SubSeq(r.rest, bits + 1, Len(r.rest))]

(* What getcode returns, and leaves in its statics.                        *)
getcode(r, free) ==
  LET full == IF MustRefill(r, free) THEN Refill(r, free) ELSE r
  IN  IF MustRefill(r, free) /\ r.rest = <<>>
        THEN [code |-> -1, reader |-> full]
        ELSE [code |-> ValueOf(SubSeq(full.buf, full.offset + 1, full.offset + full.n_bits)),
              reader |-> [full EXCEPT !.offset = @ + full.n_bits]]

(* The string of a code, as the stack delivers it: no longer than the      *)
(* table, unless what memory held makes a chain run in a circle, or out of *)
(* the table.                                                              *)
ArcString(c) ==
  LET string[k \in 0 .. max_maxcode] ==
        [d \in DOMAIN prefix |->
           IF d < ArcLiterals \/ k = 0 \/ prefix[d] \notin DOMAIN prefix THEN <<d>>
           ELSE Append(string[k - 1][prefix[d]], suffix[d])]
  IN  string[max_maxcode][c]

Clip(bytes) == SubSeq(bytes, 1, Lesser(Len(bytes), arcLen))

ArcFirstCode ==
  /\ arcPc = "first"
  /\ LET got == getcode(reader, free_ent)
     IN  /\ reader' = got.reader
         /\ oldcode' = got.code
         /\ finchar' = got.code % ArcLiterals  \* an int, but stored in bytes only
         /\ arcOut' = Clip(<<finchar'>>)
  /\ arcPc' = "loop"
  /\ UNCHANGED <<arcEnc, stream, arcDict, arcLen>>

(* One too low: the literal after a CLEAR makes an entry, of the old code  *)
(* before it, that is the CLEAR code's and so never used.                  *)
FreeAfterClear == FIRST - 1

AddEntry(free, first) ==
  IF free < max_maxcode
    THEN /\ prefix' = [prefix EXCEPT ![free] = oldcode]
         /\ suffix' = [suffix EXCEPT ![free] = first]
         /\ free_ent' = free + 1
    ELSE /\ free_ent' = free
         /\ UNCHANGED <<prefix, suffix>>

Handle(got, free) ==
  /\ reader' = got.reader
  /\ IF got.code = -1 \/ got.code > free
       THEN /\ arcPc' = "done" /\ free_ent' = free
            /\ UNCHANGED <<prefix, suffix, finchar, oldcode, arcOut>>
       ELSE LET string == IF got.code = free THEN Append(ArcString(oldcode), finchar)
                          ELSE ArcString(got.code)
            IN  /\ arcOut' = Clip(arcOut \o string)
                /\ finchar' = Head(string)
                /\ AddEntry(free, Head(string))
                /\ oldcode' = got.code
                /\ UNCHANGED arcPc

NextCode ==
  /\ arcPc = "loop"
  /\ LET got == getcode(reader, free_ent)
     IN  IF got.code = ARC_CLEAR
           THEN Handle(getcode([got.reader EXCEPT !.clear_flg = TRUE], FreeAfterClear),
                       FreeAfterClear)
           ELSE Handle(got, free_ent)
  /\ UNCHANGED <<arcEnc, stream, arcLen>>

(* The next stream.                                                        *)
Another ==
  /\ arcPc = "done" /\ stream + 1 < Len(ArcCodes)
  /\ stream' = stream + 1 /\ arcEnc' = NewArcEncoder
  /\ arcLen' = 0 /\ arcOut' = <<>> /\ arcPc' = "encode"
  /\ UNCHANGED <<reader, arcDict, finchar, oldcode>>

ArcNext ==
  \/ \E c \in 0 .. max_maxcode - 1 : ArcSend(c)
  \/ \E len \in ArcOutLens, junk \in Junk : Call(len, junk)
  \/ ArcFirstCode \/ NextCode \/ Another

ArcSpec == ArcInit /\ [][ArcNext]_arcVars
-----------------------------------------------------------------------------
(* The text of a sequence of codes, from strings alone.                    *)
NewText == [text |-> <<>>, prev |-> <<>>, entries |-> <<>>]

StringIn(t, c) ==
  IF c < ArcLiterals THEN <<c>>
  ELSE IF c - FIRST < Len(t.entries) THEN t.entries[c - FIRST + 1]
  ELSE Append(t.prev, Head(t.prev))

AfterRead(t, c) ==
  IF c = ARC_CLEAR THEN [NewText EXCEPT !.text = t.text]
  ELSE [text    |-> t.text \o StringIn(t, c),
        prev    |-> StringIn(t, c),
        entries |-> IF t.prev = <<>> \/ FIRST + Len(t.entries) >= max_maxcode THEN t.entries
                    ELSE Append(t.entries, Append(t.prev, Head(StringIn(t, c))))]

ArcText(codes) ==
  LET upto[k \in 0 .. Len(codes)] == IF k = 0 THEN NewText ELSE AfterRead(upto[k - 1], codes[k])
  IN  upto[Len(codes)].text

(* An undamaged stream is decoded to the text of its codes, cut to the     *)
(* caller's buffer: the decoder leaves a group where the encoder does,     *)
(* changes width with it, and knows nothing of the streams before.         *)
OutputIsText == arcPc = "done" /\ ~arcEnc.damaged => arcOut = Clip(ArcText(arcEnc.codes))
=============================================================================
