---------------------------- MODULE ArcLzwProofs ----------------------------
(***************************************************************************)
(* ARC's decoder delivers the text of the codes, for every width of code,  *)
(* every buffer, any number of streams and whatever memory held: the proof *)
(* of OutputIsText for streams that are not damaged.                       *)
(*                                                                         *)
(* An encoder has gone through one state for each code it sent, and what   *)
(* the codes mean through one text (Sent): each code stands in the stream  *)
(* behind what its state had sent (CodeAt).  The decoder is where one of   *)
(* these states sent its code: its reader holds the group this state was   *)
(* filling and stands behind that code (ReaderAt), and its tables hold the *)
(* strings of the text up to there (TableHolds, LastRead).                 *)
(***************************************************************************)
EXTENDS ArcLzw, NatLemmas

-----------------------------------------------------------------------------
Characters == 0 .. ArcLiterals - 1
AllCodes   == 0 .. max_maxcode - 1
Bit        == {0, 1}

States ==
  [free : FIRST .. max_maxcode, n_bits : INIT_BITS .. Bits, group : Seq(Bit), file : Seq(Bit),
   codes : Seq(AllCodes), damaged : {FALSE}]

Texts ==
  [text : Seq(Characters), prev : Seq(Characters), entries : Seq(Seq(Characters) \ {<<>>})]

Readers ==
  [n_bits : Nat, maxcode : Nat, clear_flg : BOOLEAN, offset : Nat, size : Int,
   buf : [1 .. Bits * ArcByteBits -> Bit], rest : Seq(Bit)]

(* A group that is not full, behind whole bytes; the entries fit the width.*)
Framed(e) ==
  /\ \E j \in 0 .. ArcByteBits - 1 : Len(e.group) = j * e.n_bits
  /\ \E b \in Nat : Len(e.file) = b * ArcByteBits
  /\ e.free <= MaxcodeOf(e.n_bits) + 1

(* The encoder is one entry ahead of who has read what it sent.            *)
InStep(e, t) ==
  /\ t.prev = <<>> => e.free = FIRST /\ t.entries = <<>>
  /\ t.prev # <<>> => e.free = Lesser(FIRST + Len(t.entries) + 1, max_maxcode)
  /\ FIRST + Len(t.entries) <= max_maxcode

Raw(e)   == e.file \o e.group
Place(e) == Len(e.file) + Len(e.group)

(* The code c stands in the stream where e sent it.                        *)
CodeAt(bits, e, c) ==
  /\ Place(e) + e.n_bits <= Len(bits)
  /\ \A i \in 1 .. e.n_bits : bits[Place(e) + i] = BitsOf(c, e.n_bits)[i]

Sent(e, es, ts) ==
  LET n == Len(e.codes)
  IN  /\ e \in States /\ es \in [0 .. n -> States] /\ ts \in [0 .. n -> Texts]
      /\ es[0] = NewArcEncoder /\ ts[0] = NewText /\ es[n] = e
      /\ \A k \in 0 .. n : Framed(es[k]) /\ InStep(es[k], ts[k])
      /\ \A k \in 0 .. n - 1 :
           /\ e.codes[k + 1] \in CodesNext(es[k]) /\ CodeAt(Raw(e), es[k], e.codes[k + 1])
           /\ es[k + 1] = AfterSend(es[k], e.codes[k + 1])
           /\ ts[k + 1] = AfterRead(ts[k], e.codes[k + 1])

-----------------------------------------------------------------------------
(* Bits of the stream that the group of e has: fewer at the end.           *)
InGroup(wire, e) == Lesser(GroupBits(e), Len(wire) - Len(e.file))

ReaderAt(r, wire, e) ==
  /\ r.n_bits = e.n_bits /\ r.maxcode = MaxcodeOf(e.n_bits)
  /\ r.offset = Len(e.group) + e.n_bits
  /\ r.size = InGroup(wire, e) - (e.n_bits - 1)
  /\ \A b \in 1 .. InGroup(wire, e) : r.buf[b] = wire[Len(e.file) + b]
  /\ r.rest = SubSeq(wire, Len(e.file) + InGroup(wire, e) + 1, Len(wire))

NewReader(r, wire) ==
  /\ r.n_bits = INIT_BITS /\ r.maxcode = MaxcodeOf(INIT_BITS) /\ r.clear_flg = FALSE
  /\ r.offset = 0 /\ r.size = 0 /\ r.rest = wire

KnownString(t, c) == IF c < ArcLiterals THEN <<c>> ELSE t.entries[c - FIRST + 1]
NewEntry(t) == FIRST + Len(t.entries)
InUse(t) == Characters \cup (FIRST .. NewEntry(t) - 1)

(* The chains of the entries in use end, and are their strings.            *)
TableHolds(t) ==
  /\ prefix \in [AllCodes -> Nat] /\ suffix \in [AllCodes -> Nat]
  /\ free_ent = NewEntry(t) /\ free_ent <= max_maxcode
  /\ \A c \in FIRST .. NewEntry(t) - 1 :
       /\ prefix[c] \in InUse(t) /\ prefix[c] < c
       /\ KnownString(t, c) = Append(KnownString(t, prefix[c]), suffix[c])

LastRead(t) ==
  oldcode \in InUse(t) /\ t.prev = KnownString(t, oldcode) /\ finchar = Head(t.prev)

-----------------------------------------------------------------------------
Encoding == arcPc = "encode" /\ reader.size = 0 /\ \E es, ts : Sent(arcEnc, es, ts)

BeforeFirst ==
  /\ arcPc = "first" /\ arcEnc.codes # <<>>
  /\ NewReader(reader, Wire(arcEnc)) /\ TableHolds(NewText)
  /\ \E es, ts : Sent(arcEnc, es, ts)

After(es, ts, k) ==
  /\ arcEnc.codes[k] # ARC_CLEAR
  /\ ReaderAt(reader, Wire(arcEnc), es[k - 1]) /\ reader.clear_flg = FALSE
  /\ TableHolds(ts[k]) /\ LastRead(ts[k]) /\ arcOut = Clip(ts[k].text)

Between ==
  /\ arcPc = "loop"
  /\ \E es, ts : Sent(arcEnc, es, ts) /\ \E k \in 1 .. Len(arcEnc.codes) : After(es, ts, k)

Ended == arcPc = "done" /\ reader.size = 0 /\ arcOut = Clip(ArcText(arcEnc.codes))

ArcInv == reader \in Readers /\ arcLen \in Nat /\ (Encoding \/ BeforeFirst \/ Between \/ Ended)

-----------------------------------------------------------------------------
(* The special codes and the literals fit in every width.                  *)
LEMMA ArcSizes ==
  /\ ArcLiterals \in Nat \ {0} /\ INIT_BITS \in Nat \ {0} /\ Bits \in Nat \ {0} /\ ArcByteBits \in Nat \ {0}
  /\ INIT_BITS < Bits /\ ArcByteBits <= INIT_BITS
  /\ FIRST = ArcLiterals + 1 /\ ARC_CLEAR = ArcLiterals
  /\ max_maxcode \in Nat /\ FIRST < max_maxcode
  /\ \A n \in INIT_BITS .. Bits :
       /\ n \in Nat \ {0} /\ 2 ^ n \in Nat /\ FIRST < 2 ^ n /\ 2 ^ n <= max_maxcode
       /\ MaxcodeOf(n) \in Nat /\ FIRST <= MaxcodeOf(n) /\ MaxcodeOf(n) <= max_maxcode
       /\ n # Bits => n + 1 \in INIT_BITS .. Bits /\ MaxcodeOf(n) = 2 ^ n - 1 /\ 2 ^ (n + 1) = 2 * 2 ^ n
       /\ n = Bits => MaxcodeOf(n) = max_maxcode /\ 2 ^ n = max_maxcode
<1>1. /\ ArcLiterals \in Nat \ {0} /\ INIT_BITS \in Nat \ {0} /\ Bits \in Nat \ {0} /\ ArcByteBits \in Nat \ {0}
      /\ INIT_BITS < Bits /\ ArcByteBits <= INIT_BITS /\ ArcLiterals + 1 < 2 ^ INIT_BITS
  BY ArcAssumption
<1>2. FIRST = ArcLiterals + 1 /\ ARC_CLEAR = ArcLiterals /\ max_maxcode = 2 ^ Bits
  BY DEF FIRST, ARC_CLEAR, max_maxcode
<1>3. ASSUME NEW n \in INIT_BITS .. Bits
      PROVE  /\ n \in Nat \ {0} /\ 2 ^ n \in Nat /\ FIRST < 2 ^ n /\ 2 ^ n <= max_maxcode
             /\ 2 ^ (n + 1) = 2 * 2 ^ n
  <2>1. n \in Nat \ {0} /\ INIT_BITS <= n /\ n <= Bits
    BY <1>1
  <2>2. 2 ^ n \in Nat /\ 2 ^ INIT_BITS \in Nat /\ 2 ^ Bits \in Nat
    BY <1>1, <2>1, PowerType
  <2>3. 2 ^ INIT_BITS <= 2 ^ n /\ 2 ^ n <= 2 ^ Bits
    BY <1>1, <2>1, PowerRises
  <2>4. 2 ^ (n + 1) = 2 * 2 ^ n
    BY <2>1, PowerStep
  <2> QED
    BY <1>1, <1>2, <2>1, <2>2, <2>3, <2>4
<1>4. max_maxcode \in Nat /\ FIRST < max_maxcode
  <2>1. Bits \in INIT_BITS .. Bits
    BY <1>1
  <2> QED
    BY <1>2, <1>3, <2>1
<1>5. ASSUME NEW n \in INIT_BITS .. Bits
      PROVE  /\ MaxcodeOf(n) \in Nat /\ FIRST <= MaxcodeOf(n) /\ MaxcodeOf(n) <= max_maxcode
             /\ n # Bits => n + 1 \in INIT_BITS .. Bits /\ MaxcodeOf(n) = 2 ^ n - 1
             /\ n = Bits => MaxcodeOf(n) = max_maxcode /\ 2 ^ n = max_maxcode
  <2>1. CASE n = Bits
    BY <1>2, <1>4, <2>1 DEF MaxcodeOf
  <2>2. CASE n # Bits
    <3>1. MaxcodeOf(n) = 2 ^ n - 1 /\ n + 1 \in INIT_BITS .. Bits
      BY <1>1, <2>2 DEF MaxcodeOf
    <3> QED
      BY <1>1, <1>2, <1>3, <1>4, <2>2, <3>1
  <2> QED
    BY <2>1, <2>2
<1> QED
  BY <1>1, <1>2, <1>3, <1>4, <1>5

(* Padding appends zeros.                                                  *)
LEMMA PadToIs ==
  ASSUME NEW bits \in Seq(Bit), NEW k \in Nat
  PROVE  /\ PadTo(bits, k) \in Seq(Bit)
         /\ Len(PadTo(bits, k)) = IF k > Len(bits) THEN k ELSE Len(bits)
         /\ \A i \in 1 .. Len(bits) : PadTo(bits, k)[i] = bits[i]
<1> DEFINE zeros == [b \in 1 .. k - Len(bits) |-> 0]
           n == k - Len(bits)
<1>1. Len(bits) \in Nat /\ n \in Int
  BY LenProperties
<1>2. zeros = [b \in 1 .. n |-> zeros[b]] /\ \A b \in 1 .. n : zeros[b] \in Bit
  BY DEF Bit
<1> HIDE DEF zeros
<1>3. zeros \in Seq(Bit) /\ Len(zeros) = IF n < 0 THEN 0 ELSE n
  BY <1>1, <1>2, IsSeq
<1>4. /\ bits \o zeros \in Seq(Bit) /\ Len(bits \o zeros) = Len(bits) + Len(zeros)
      /\ \A i \in 1 .. Len(bits) + Len(zeros) : (bits \o zeros)[i] = IF i <= Len(bits) THEN bits[i] ELSE zeros[i - Len(bits)]
  BY <1>3, ConcatProperties
<1>5. PadTo(bits, k) = bits \o zeros
  BY DEF PadTo, zeros
<1> QED
  BY <1>1, <1>3, <1>4, <1>5

(* A number of bytes is the bytes of no more than it has, rounded up.      *)
LEMMA RoundedUp ==
  ASSUME NEW n \in Nat, NEW s \in Nat \ {0}
  PROVE  LET q == (n + s - 1) \div s
         IN  /\ q \in Nat /\ q * s \in Nat /\ n <= q * s /\ q * s < n + s
             /\ \A w \in Nat : n <= w * s => q * s <= w * s
<1> DEFINE a == n + s - 1
           q == a \div s
<1>1. a \in Nat
  OBVIOUS
<1>2. q \in Int /\ a = s * q + (a % s) /\ a % s \in 0 .. s - 1
  BY <1>1, DivMod, ModRange
<1> HIDE DEF q
<1>3. s * q <= a /\ a < s * q + s
  BY <1>1, <1>2
<1>4. q \in Nat
  <2>1. SUFFICES ASSUME q <= -1 PROVE FALSE
    BY <1>2
  <2>2. s * q <= -s
    BY <1>2, <2>1
  <2> QED
    BY <1>1, <1>2, <1>3, <2>2
<1>5. s * q = q * s /\ s * q \in Nat
  BY <1>4
<1>6. ASSUME NEW w \in Nat, n <= w * s PROVE q * s <= w * s
  <2>1. SUFFICES ASSUME q >= w + 1 PROVE FALSE
    <3>1. q <= w => q * s <= w * s
      BY <1>4
    <3> QED
      BY <1>4, <3>1
  <2>2. q * s >= (w + 1) * s /\ (w + 1) * s = w * s + s /\ w * s \in Nat
    BY <1>4, <2>1
  <2> QED
    BY <1>3, <1>5, <1>6, <2>2 DEF a
<1>7. n <= q * s /\ q * s < n + s
  BY <1>3, <1>5 DEF a
<1> QED
  BY <1>4, <1>5, <1>6, <1>7 DEF q, a

(* A group that is cut off is whole bytes, and no more than all of it.     *)
LEMMA WholeBytesIs ==
  ASSUME NEW bits \in Seq(Bit)
  PROVE  /\ WholeBytes(bits) \in Seq(Bit) /\ Len(WholeBytes(bits)) \in Nat
         /\ Len(bits) <= Len(WholeBytes(bits)) /\ Len(WholeBytes(bits)) < Len(bits) + ArcByteBits
         /\ \E b \in Nat : Len(WholeBytes(bits)) = b * ArcByteBits
         /\ \A w \in Nat : Len(bits) <= w * ArcByteBits => Len(WholeBytes(bits)) <= w * ArcByteBits
         /\ \A i \in 1 .. Len(bits) : WholeBytes(bits)[i] = bits[i]
<1> DEFINE n == Len(bits)
           q == (n + ArcByteBits - 1) \div ArcByteBits
           k == q * ArcByteBits
<1>1. n \in Nat /\ ArcByteBits \in Nat \ {0}
  BY LenProperties, ArcSizes
<1>2. /\ q \in Nat /\ k \in Nat /\ n <= k /\ k < n + ArcByteBits
      /\ \A w \in Nat : n <= w * ArcByteBits => k <= w * ArcByteBits
  BY <1>1, RoundedUp
<1>3. WholeBytes(bits) = PadTo(bits, k)
  BY DEF WholeBytes
<1>4. k = q * ArcByteBits
  OBVIOUS
<1> HIDE DEF q, k
<1>5. /\ PadTo(bits, k) \in Seq(Bit) /\ Len(PadTo(bits, k)) = IF k > n THEN k ELSE n
      /\ \A i \in 1 .. n : PadTo(bits, k)[i] = bits[i]
  BY <1>2, PadToIs
<1>6. Len(PadTo(bits, k)) = k
  BY <1>1, <1>2, <1>5
<1> QED
  BY <1>1, <1>2, <1>3, <1>4, <1>5, <1>6

-----------------------------------------------------------------------------
(* The encoder.                                                            *)
LEMMA StateParts ==
  ASSUME NEW e \in States
  PROVE  /\ e.free \in FIRST .. max_maxcode /\ e.free \in Nat /\ e.n_bits \in INIT_BITS .. Bits
         /\ e.n_bits \in Nat \ {0} /\ e.group \in Seq(Bit) /\ e.file \in Seq(Bit)
         /\ Len(e.group) \in Nat /\ Len(e.file) \in Nat /\ e.codes \in Seq(AllCodes)
         /\ GroupBits(e) \in Nat /\ GroupBits(e) = e.n_bits * ArcByteBits
<1>1. /\ e.free \in FIRST .. max_maxcode /\ e.n_bits \in INIT_BITS .. Bits
      /\ e.group \in Seq(Bit) /\ e.file \in Seq(Bit) /\ e.codes \in Seq(AllCodes)
  BY DEF States
<1>2. Len(e.group) \in Nat /\ Len(e.file) \in Nat
  BY <1>1, LenProperties
<1>3. e.free \in Nat /\ e.n_bits \in Nat \ {0}
  <2>1. FIRST \in Nat /\ max_maxcode \in Nat /\ INIT_BITS \in Nat \ {0} /\ Bits \in Nat
    BY ArcSizes
  <2>2. \A x \in FIRST .. max_maxcode : x \in Nat
    BY <2>1
  <2>3. \A x \in INIT_BITS .. Bits : x \in Nat \ {0}
    BY <2>1
  <2> QED
    BY <1>1, <2>2, <2>3
<1>4. e.n_bits * ArcByteBits \in Nat
  BY <1>3, ArcSizes
<1> QED
  BY <1>1, <1>2, <1>3, <1>4 DEF GroupBits

(* A product of naturals that is one less in one factor is less.           *)
LEMMA OneTimesMore ==
  ASSUME NEW j \in Nat, NEW k \in Nat, NEW n \in Nat
  PROVE  /\ (j + 1) * n = j * n + n /\ n * k = k * n /\ j * n \in Nat
         /\ j < k => j * n + n <= k * n
         /\ n # 0 /\ j * n + n # k * n => j + 1 # k
<1>1. (j + 1) * n = j * n + n /\ n * k = k * n /\ j * n \in Nat
  OBVIOUS
<1>2. ASSUME j < k PROVE j * n + n <= k * n
  <2>1. j + 1 <= k
    BY <1>2
  <2>2. (j + 1) * n <= k * n
    BY <2>1
  <2> QED
    BY <1>1, <2>2
<1> QED
  BY <1>1, <1>2

LEMMA Room ==
  ASSUME NEW e \in States, Framed(e)
  PROVE  Len(e.group) + e.n_bits <= GroupBits(e)
<1>1. PICK j \in 0 .. ArcByteBits - 1 : Len(e.group) = j * e.n_bits
  BY DEF Framed
<1>2. j \in Nat /\ ArcByteBits \in Nat /\ e.n_bits \in Nat /\ j < ArcByteBits
  BY <1>1, ArcSizes, StateParts
<1>3. j * e.n_bits + e.n_bits <= ArcByteBits * e.n_bits /\ e.n_bits * ArcByteBits = ArcByteBits * e.n_bits
  BY <1>2, OneTimesMore
<1> QED
  BY <1>1, <1>3, StateParts

(* What may be sent is a code, and fits in the width; the first is a       *)
(* literal.                                                                *)
LEMMA CodeFits ==
  ASSUME ~Damaged, NEW e \in States, Framed(e), NEW c \in CodesNext(e)
  PROVE  /\ c \in Nat /\ c \in AllCodes /\ c < e.free /\ c < 2 ^ e.n_bits
         /\ c # ARC_CLEAR /\ c \notin Characters => c \in FIRST .. e.free - 1
         /\ e.free = FIRST => c \in Characters /\ c # ARC_CLEAR
<1>1. /\ e.free \in FIRST .. max_maxcode /\ e.n_bits \in INIT_BITS .. Bits /\ e.free <= MaxcodeOf(e.n_bits) + 1
      /\ e.free \in Nat
  BY StateParts DEF Framed
<1>2. c \in Characters \/ c = ARC_CLEAR \/ c \in FIRST .. e.free - 1
  BY DEF CodesNext, Characters
<1>3. e.free = FIRST => c \in Characters
  BY DEF CodesNext, Characters
<1>4. /\ max_maxcode \in Nat /\ FIRST \in Nat /\ ARC_CLEAR \in Nat /\ ARC_CLEAR < FIRST /\ FIRST < max_maxcode
      /\ FIRST < 2 ^ e.n_bits /\ 2 ^ e.n_bits \in Nat /\ \A x \in Characters : x \in Nat /\ x < ARC_CLEAR
      /\ e.free <= 2 ^ e.n_bits
  <2>1. e.free <= 2 ^ e.n_bits
    <3>1. CASE e.n_bits = Bits
      BY <1>1, <3>1, ArcSizes
    <3>2. CASE e.n_bits # Bits
      BY <1>1, <3>2, ArcSizes
    <3> QED
      BY <3>1, <3>2
  <2> QED
    BY <1>1, <2>1, ArcSizes DEF Characters
<1>5. c \in Nat /\ c < e.free
  BY <1>1, <1>2, <1>4
<1>6. c \in AllCodes
  BY <1>1, <1>4, <1>5 DEF AllCodes
<1> QED
  BY <1>1, <1>2, <1>3, <1>4, <1>5, <1>6

(* A code leaves the group it is in open, or ends it.                      *)
LEMMA SendParts ==
  ASSUME ~Damaged, NEW e \in States, Framed(e), NEW c \in CodesNext(e)
  PROVE  /\ AfterSend(e, c) \in States /\ AfterSend(e, c).codes = Append(e.codes, c)
         /\ ~GroupEndsAfter(e, c) =>
              /\ AfterSend(e, c).file = e.file /\ AfterSend(e, c).n_bits = e.n_bits
              /\ AfterSend(e, c).group = e.group \o BitsOf(c, e.n_bits)
              /\ Len(AfterSend(e, c).group) = Len(e.group) + e.n_bits
         /\ GroupEndsAfter(e, c) =>
              /\ AfterSend(e, c).group = <<>>
              /\ AfterSend(e, c).file = e.file \o PadTo(e.group \o BitsOf(c, e.n_bits), GroupBits(e))
              /\ Len(AfterSend(e, c).file) = Len(e.file) + GroupBits(e)
<1> DEFINE new   == BitsOf(c, e.n_bits)
           group == e.group \o new
           full  == PadTo(group, GroupBits(e))
           free2 == IF c = ARC_CLEAR THEN FIRST ELSE Lesser(e.free + 1, max_maxcode)
           n2    == IF c = ARC_CLEAR THEN INIT_BITS
                    ELSE IF WidensAfter(e, c) THEN e.n_bits + 1 ELSE e.n_bits
           group2 == IF GroupEndsAfter(e, c) THEN <<>> ELSE group
           file2  == IF GroupEndsAfter(e, c) THEN e.file \o full ELSE e.file
           codes2 == Append(e.codes, c)
           e2     == AfterSend(e, c)
<1>1. /\ e.free \in FIRST .. max_maxcode /\ e.free \in Nat /\ e.n_bits \in INIT_BITS .. Bits
      /\ e.n_bits \in Nat \ {0} /\ e.group \in Seq(Bit) /\ e.file \in Seq(Bit)
      /\ Len(e.group) \in Nat /\ Len(e.file) \in Nat /\ e.codes \in Seq(AllCodes) /\ GroupBits(e) \in Nat
  BY StateParts
<1>2. c \in Nat /\ c \in AllCodes /\ c < e.free
  BY CodeFits
<1>3. new \in Seq(Bit) /\ Len(new) = e.n_bits
  <2>1. BitsOf(c, e.n_bits) \in Seq({0, 1}) /\ Len(BitsOf(c, e.n_bits)) = e.n_bits
    BY <1>1, <1>2, BitsType
  <2> QED
    BY <2>1 DEF Bit
<1> HIDE DEF new
<1>4. group \in Seq(Bit) /\ Len(group) = Len(e.group) + e.n_bits
  <2> DEFINE old == e.group
  <2>1. old \in Seq(Bit) /\ new \in Seq(Bit) /\ Len(new) = e.n_bits
    BY <1>1, <1>3
  <2> HIDE DEF old
  <2>2. old \o new \in Seq(Bit) /\ Len(old \o new) = Len(old) + Len(new)
    BY <2>1, ConcatProperties
  <2> QED
    BY <2>1, <2>2 DEF old
<1>5. Len(group) <= GroupBits(e)
  BY <1>4, Room
<1> HIDE DEF group
<1>6. full \in Seq(Bit) /\ Len(full) = GroupBits(e)
  <2>1. /\ PadTo(group, GroupBits(e)) \in Seq(Bit)
        /\ Len(PadTo(group, GroupBits(e))) = IF GroupBits(e) > Len(group) THEN GroupBits(e) ELSE Len(group)
    BY <1>1, <1>4, PadToIs
  <2>2. Len(group) \in Nat
    BY <1>1, <1>4
  <2> QED
    BY <1>1, <1>5, <2>1, <2>2
<1> HIDE DEF full
<1>7. e.file \o full \in Seq(Bit) /\ Len(e.file \o full) = Len(e.file) + GroupBits(e)
  <2> DEFINE old == e.file
  <2>1. old \in Seq(Bit) /\ full \in Seq(Bit) /\ Len(full) = GroupBits(e)
    BY <1>1, <1>6
  <2> HIDE DEF old
  <2>2. old \o full \in Seq(Bit) /\ Len(old \o full) = Len(old) + Len(full)
    BY <2>1, ConcatProperties
  <2> QED
    BY <2>1, <2>2 DEF old
<1>8. free2 \in FIRST .. max_maxcode
  <2>1. FIRST \in Nat /\ max_maxcode \in Nat /\ FIRST <= max_maxcode
    BY ArcSizes
  <2>2. Lesser(e.free + 1, max_maxcode) \in FIRST .. max_maxcode
    BY <1>1, <2>1 DEF Lesser
  <2> QED
    BY <2>1, <2>2
<1>9. n2 \in INIT_BITS .. Bits
  <2>1. CASE c = ARC_CLEAR
    BY <2>1, ArcSizes
  <2>2. CASE c # ARC_CLEAR /\ ~WidensAfter(e, c)
    BY <1>1, <2>2
  <2>3. CASE c # ARC_CLEAR /\ WidensAfter(e, c)
    <3>1. e.free > MaxcodeOf(e.n_bits)
      BY <2>3 DEF WidensAfter
    <3>2. e.n_bits # Bits
      BY <1>1, <3>1, ArcSizes
    <3> QED
      BY <1>1, <2>3, <3>2, ArcSizes
  <2> QED
    BY <2>1, <2>2, <2>3
<1>10. group2 \in Seq(Bit) /\ file2 \in Seq(Bit)
  BY <1>1, <1>4, <1>7, EmptySeq
<1>11. codes2 \in Seq(AllCodes)
  BY <1>1, <1>2, AppendProperties
<1>12. (c >= e.free) = FALSE
  BY <1>1, <1>2
<1>13. e2 = [free |-> free2, n_bits |-> n2, group |-> group2, file |-> file2, codes |-> codes2, damaged |-> FALSE]
  BY <1>12 DEF AfterSend, new, group, full
<1> HIDE DEF e2, free2, n2, group2, file2, codes2
<1>14. e2 \in States
  BY <1>8, <1>9, <1>10, <1>11, <1>13 DEF States
<1>15. e2.group = group2 /\ e2.file = file2 /\ e2.codes = codes2 /\ e2.n_bits = n2
  BY <1>13
<1>16. ~GroupEndsAfter(e, c) => n2 = e.n_bits
  BY DEF n2, GroupEndsAfter
<1>17. ~GroupEndsAfter(e, c) =>
              /\ e2.file = e.file /\ e2.n_bits = e.n_bits
              /\ e2.group = group /\ Len(e2.group) = Len(e.group) + e.n_bits
  BY <1>4, <1>15, <1>16 DEF file2, group2
<1>18. GroupEndsAfter(e, c) =>
              /\ e2.group = <<>> /\ e2.file = e.file \o full
              /\ Len(e2.file) = Len(e.file) + GroupBits(e)
  BY <1>7, <1>15 DEF file2, group2
<1> QED
  BY <1>14, <1>15, <1>17, <1>18 DEF e2, codes2, group, full, new

(* What is sent keeps the frame, and stays ahead of the text by one.       *)
LEMMA SendFramed ==
  ASSUME ~Damaged, NEW e \in States, Framed(e), NEW c \in CodesNext(e)
  PROVE  Framed(AfterSend(e, c))
<1> DEFINE e2 == AfterSend(e, c)
<1>1. /\ e2 \in States
      /\ ~GroupEndsAfter(e, c) =>
           e2.file = e.file /\ e2.n_bits = e.n_bits /\ Len(e2.group) = Len(e.group) + e.n_bits
      /\ GroupEndsAfter(e, c) => e2.group = <<>> /\ Len(e2.file) = Len(e.file) + GroupBits(e)
  BY SendParts
<1>2. PICK j \in 0 .. ArcByteBits - 1 : Len(e.group) = j * e.n_bits
  BY DEF Framed
<1>3. PICK b \in Nat : Len(e.file) = b * ArcByteBits
  BY DEF Framed
<1>4. /\ e.n_bits \in Nat \ {0} /\ ArcByteBits \in Nat \ {0} /\ j \in Nat /\ j < ArcByteBits
      /\ e.n_bits \in INIT_BITS .. Bits /\ e.free \in FIRST .. max_maxcode /\ e.free \in Nat
      /\ GroupBits(e) = e.n_bits * ArcByteBits
  BY <1>2, StateParts, ArcSizes
<1>5. /\ (j + 1) * e.n_bits = j * e.n_bits + e.n_bits /\ e.n_bits * ArcByteBits = ArcByteBits * e.n_bits
      /\ j * e.n_bits + e.n_bits # ArcByteBits * e.n_bits => j + 1 # ArcByteBits
  BY <1>4, OneTimesMore
<1>6. e2.free = IF c = ARC_CLEAR THEN FIRST ELSE Lesser(e.free + 1, max_maxcode)
  BY DEF AfterSend
<1>7. e2.n_bits = IF c = ARC_CLEAR THEN INIT_BITS ELSE IF WidensAfter(e, c) THEN e.n_bits + 1 ELSE e.n_bits
  BY DEF AfterSend
<1>8. e2.n_bits \in Nat
  BY <1>1, StateParts
<1> HIDE DEF e2
<1>9. \E i \in 0 .. ArcByteBits - 1 : Len(e2.group) = i * e2.n_bits
  <2>1. CASE GroupEndsAfter(e, c)
    <3>1. Len(e2.group) = 0 * e2.n_bits
      BY <1>1, <1>8, <2>1, EmptySeq
    <3>2. 0 \in 0 .. ArcByteBits - 1
      BY <1>4
    <3> QED
      BY <3>1, <3>2
  <2>2. CASE ~GroupEndsAfter(e, c)
    <3>1. Len(e.group) + e.n_bits # GroupBits(e)
      BY <2>2 DEF GroupEndsAfter
    <3>2. j + 1 # ArcByteBits
      BY <1>2, <1>4, <1>5, <3>1
    <3>3. j + 1 \in 0 .. ArcByteBits - 1
      BY <1>4, <3>2
    <3>4. Len(e2.group) = (j + 1) * e2.n_bits
      BY <1>1, <1>2, <1>5, <2>2
    <3> QED
      BY <3>3, <3>4
  <2> QED
    BY <2>1, <2>2
<1>10. \E i \in Nat : Len(e2.file) = i * ArcByteBits
  <2>1. CASE GroupEndsAfter(e, c)
    <3>1. Len(e2.file) = b * ArcByteBits + e.n_bits * ArcByteBits
      BY <1>1, <1>3, <1>4, <2>1
    <3>2. b * ArcByteBits + e.n_bits * ArcByteBits = (b + e.n_bits) * ArcByteBits
      BY <1>3, <1>4
    <3>3. b + e.n_bits \in Nat
      BY <1>3, <1>4
    <3> QED
      BY <3>1, <3>2, <3>3
  <2>2. CASE ~GroupEndsAfter(e, c)
    BY <1>1, <1>3, <2>2
  <2> QED
    BY <2>1, <2>2
<1>11. e2.free <= MaxcodeOf(e2.n_bits) + 1
  <2>0. e.free <= MaxcodeOf(e.n_bits) + 1
    BY DEF Framed
  <2>1. CASE c = ARC_CLEAR
    <3>1. INIT_BITS \in INIT_BITS .. Bits
      BY ArcSizes
    <3>2. FIRST <= MaxcodeOf(INIT_BITS) /\ MaxcodeOf(INIT_BITS) \in Nat /\ FIRST \in Nat
      BY <3>1, ArcSizes
    <3> QED
      BY <1>6, <1>7, <2>1, <3>2
  <2>2. CASE c # ARC_CLEAR /\ ~WidensAfter(e, c)
    <3>1. e.free <= MaxcodeOf(e.n_bits)
      <4>1. ~(e.free > MaxcodeOf(e.n_bits)) /\ MaxcodeOf(e.n_bits) \in Nat
        BY <1>4, <2>2, ArcSizes DEF WidensAfter
      <4> QED
        BY <1>4, <4>1
    <3>2. MaxcodeOf(e.n_bits) \in Nat /\ max_maxcode \in Nat
      BY <1>4, ArcSizes
    <3> QED
      BY <1>4, <1>6, <1>7, <2>2, <3>1, <3>2 DEF Lesser
  <2>3. CASE c # ARC_CLEAR /\ WidensAfter(e, c)
    <3>1. e.free > MaxcodeOf(e.n_bits)
      BY <2>3 DEF WidensAfter
    <3>2. e.n_bits # Bits
      BY <1>4, <3>1, ArcSizes
    <3>3. /\ e.n_bits + 1 \in INIT_BITS .. Bits /\ MaxcodeOf(e.n_bits) = 2 ^ e.n_bits - 1
          /\ 2 ^ (e.n_bits + 1) = 2 * 2 ^ e.n_bits /\ 2 ^ e.n_bits \in Nat
          /\ FIRST < 2 ^ e.n_bits /\ FIRST \in Nat
      BY <1>4, <3>2, ArcSizes
    <3>4. /\ MaxcodeOf(e.n_bits + 1) \in Nat /\ MaxcodeOf(e.n_bits + 1) + 1 >= 2 ^ (e.n_bits + 1)
      <4>1. CASE e.n_bits + 1 = Bits
        BY <3>3, <4>1, ArcSizes
      <4>2. CASE e.n_bits + 1 # Bits
        BY <3>3, <4>2, ArcSizes
      <4> QED
        BY <4>1, <4>2
    <3>5. e2.n_bits = e.n_bits + 1 /\ e2.free = Lesser(e.free + 1, max_maxcode) /\ max_maxcode \in Nat
      BY <1>6, <1>7, <2>3, ArcSizes
    <3>6. Lesser(e.free + 1, max_maxcode) <= e.free + 1
      BY <1>4, <3>5 DEF Lesser
    <3> DEFINE power == 2 ^ e.n_bits
               next  == 2 ^ (e.n_bits + 1)
               top   == MaxcodeOf(e.n_bits + 1)
    <3>7. /\ power \in Nat /\ next = 2 * power /\ 1 <= power /\ top \in Nat /\ top + 1 >= next
          /\ e.free <= (power - 1) + 1
      <4>1. FIRST < power /\ FIRST \in Nat /\ power \in Nat
        BY <3>3
      <4>2. 1 <= power
        BY <4>1
      <4>3. e.free <= (power - 1) + 1
        BY <2>0, <3>3
      <4> QED
        BY <3>3, <3>4, <4>2, <4>3
    <3>8. MaxcodeOf(e2.n_bits) = top
      BY <3>5
    <3>9. e2.free \in Nat
      BY <1>4, <3>5 DEF Lesser
    <3> HIDE DEF power, next, top
    <3>10. e2.free <= e.free + 1
      BY <3>5, <3>6
    <3> QED
      BY <1>4, <3>7, <3>8, <3>9, <3>10
  <2> QED
    BY <2>1, <2>2, <2>3
<1> QED
  BY <1>9, <1>10, <1>11 DEF Framed, e2

(* What was sent stays where it is, and the code comes behind it.          *)
LEMMA SendRaw ==
  ASSUME ~Damaged, NEW e \in States, Framed(e), NEW c \in CodesNext(e)
  PROVE  /\ Raw(e) \in Seq(Bit) /\ Raw(AfterSend(e, c)) \in Seq(Bit)
         /\ Len(Raw(e)) <= Len(Raw(AfterSend(e, c)))
         /\ \A i \in 1 .. Len(Raw(e)) : Raw(AfterSend(e, c))[i] = Raw(e)[i]
         /\ CodeAt(Raw(AfterSend(e, c)), e, c)
<1> DEFINE new   == BitsOf(c, e.n_bits)
           group == e.group \o new
           full  == PadTo(group, GroupBits(e))
           last  == IF GroupEndsAfter(e, c) THEN full ELSE group
           e2    == AfterSend(e, c)
           f == Len(e.file)
           g == Len(e.group)
           n == e.n_bits
<1>0. Len(e.file) = f /\ Len(e.group) = g /\ e.n_bits = n
  OBVIOUS
<1>1. /\ n \in Nat \ {0} /\ e.group \in Seq(Bit) /\ e.file \in Seq(Bit) /\ g \in Nat /\ f \in Nat
      /\ GroupBits(e) \in Nat
  BY StateParts
<1>2. /\ e2 \in States
      /\ ~GroupEndsAfter(e, c) => e2.file = e.file /\ e2.group = group
      /\ GroupEndsAfter(e, c) => e2.group = <<>> /\ e2.file = e.file \o full
  BY SendParts
<1>3. new \in Seq(Bit) /\ Len(new) = n
  <2>1. c \in Nat
    BY CodeFits
  <2>2. BitsOf(c, n) \in Seq({0, 1}) /\ Len(BitsOf(c, n)) = n
    BY <1>1, <2>1, BitsType
  <2> QED
    BY <2>2 DEF Bit
<1>4. new = BitsOf(c, n)
  OBVIOUS
<1> HIDE DEF new, f, g, n
<1>5. /\ group \in Seq(Bit) /\ Len(group) = g + n
      /\ \A i \in 1 .. g + n : group[i] = IF i <= g THEN e.group[i] ELSE new[i - g]
  <2>1. /\ group \in Seq(Bit) /\ Len(group) = Len(e.group) + Len(new)
        /\ \A i \in 1 .. Len(e.group) + Len(new) : group[i] = IF i <= Len(e.group) THEN e.group[i] ELSE new[i - Len(e.group)]
    BY <1>1, <1>3, ConcatProperties
  <2> HIDE DEF group
  <2> QED
    BY <1>0, <1>3, <2>1
<1> HIDE DEF group
<1>6. /\ full \in Seq(Bit) /\ Len(full) = (IF GroupBits(e) > Len(group) THEN GroupBits(e) ELSE Len(group))
      /\ \A i \in 1 .. Len(group) : full[i] = group[i]
  BY <1>1, <1>5, PadToIs
<1> HIDE DEF full
<1>7. last \in Seq(Bit) /\ Len(last) \in Nat /\ Len(last) >= g + n /\ \A i \in 1 .. g + n : last[i] = group[i]
  <2>1. CASE GroupEndsAfter(e, c)
    <3>1. Len(full) \in Nat /\ Len(full) >= g + n
      BY <1>1, <1>5, <1>6
    <3> QED
      BY <1>5, <1>6, <2>1, <3>1
  <2>2. CASE ~GroupEndsAfter(e, c)
    BY <1>1, <1>5, <2>2
  <2> QED
    BY <2>1, <2>2
<1>8. Raw(e2) = e.file \o last
  <2>1. CASE GroupEndsAfter(e, c)
    <3>1. e.file \o full \in Seq(Bit)
      BY <1>1, <1>6, ConcatProperties
    <3>2. Raw(e2) = (e.file \o full) \o <<>>
      BY <1>2, <2>1 DEF Raw
    <3> QED
      BY <2>1, <3>1, <3>2, ConcatEmptySeq
  <2>2. CASE ~GroupEndsAfter(e, c)
    BY <1>2, <2>2 DEF Raw
  <2> QED
    BY <2>1, <2>2
<1> HIDE DEF last, e2
<1>9. /\ Raw(e) \in Seq(Bit) /\ Len(Raw(e)) = f + g
      /\ \A i \in 1 .. f + g : Raw(e)[i] = IF i <= f THEN e.file[i] ELSE e.group[i - f]
  <2> DEFINE u == e.file
             v == e.group
  <2>1. u \in Seq(Bit) /\ v \in Seq(Bit) /\ Len(u) = f /\ Len(v) = g
    BY <1>0, <1>1
  <2> HIDE DEF u, v
  <2>2. /\ u \o v \in Seq(Bit) /\ Len(u \o v) = Len(u) + Len(v)
        /\ \A i \in 1 .. Len(u) + Len(v) : (u \o v)[i] = IF i <= Len(u) THEN u[i] ELSE v[i - Len(u)]
    BY <2>1, ConcatProperties
  <2>3. Raw(e) = u \o v
    BY DEF Raw, u, v
  <2> QED
    BY <2>1, <2>2, <2>3 DEF u, v
<1>10. /\ Raw(e2) \in Seq(Bit) /\ Len(Raw(e2)) = f + Len(last)
       /\ \A i \in 1 .. f + Len(last) : Raw(e2)[i] = IF i <= f THEN e.file[i] ELSE last[i - f]
  <2>1. /\ e.file \o last \in Seq(Bit) /\ Len(e.file \o last) = Len(e.file) + Len(last)
        /\ \A i \in 1 .. Len(e.file) + Len(last) : (e.file \o last)[i] = IF i <= Len(e.file) THEN e.file[i] ELSE last[i - Len(e.file)]
    BY <1>1, <1>7, ConcatProperties
  <2> QED
    BY <1>0, <1>8, <2>1
<1>11. Len(Raw(e)) <= Len(Raw(e2)) /\ f + g + n <= Len(Raw(e2))
  BY <1>1, <1>7, <1>9, <1>10
<1>12. ASSUME NEW i \in 1 .. Len(Raw(e)) PROVE Raw(e2)[i] = Raw(e)[i]
  <2>1. i \in 1 .. f + g /\ i \in 1 .. f + Len(last)
    BY <1>1, <1>7, <1>9
  <2>2. CASE i <= f
    BY <1>9, <1>10, <2>1, <2>2
  <2>3. CASE ~(i <= f)
    <3>1. i - f \in 1 .. g + n /\ i - f <= g
      BY <1>1, <2>1, <2>3
    <3> QED
      BY <1>5, <1>7, <1>9, <1>10, <2>1, <2>3, <3>1
  <2> QED
    BY <2>2, <2>3
<1>13. ASSUME NEW i \in 1 .. n PROVE Raw(e2)[f + g + i] = new[i]
  <2>1. /\ f + g + i \in 1 .. f + Len(last) /\ ~(f + g + i <= f) /\ (f + g + i) - f = g + i
        /\ g + i \in 1 .. g + n /\ ~(g + i <= g) /\ (g + i) - g = i
    BY <1>1, <1>7
  <2> QED
    BY <1>5, <1>7, <1>10, <2>1
<1>14. CodeAt(Raw(e2), e, c)
  BY <1>0, <1>1, <1>4, <1>11, <1>13 DEF CodeAt, Place
<1> QED
  BY <1>9, <1>10, <1>11, <1>12, <1>14 DEF e2

-----------------------------------------------------------------------------
(* What the codes mean.                                                    *)
LEMMA StringInIs ==
  ASSUME NEW e \in States, NEW t \in Texts, InStep(e, t), ~Damaged, Framed(e),
         NEW c \in CodesNext(e), c # ARC_CLEAR
  PROVE  /\ StringIn(t, c) \in Seq(Characters) /\ StringIn(t, c) # <<>>
         /\ Head(StringIn(t, c)) \in Characters
         /\ c \in InUse(t) => StringIn(t, c) = KnownString(t, c)
         /\ c \notin InUse(t) =>
              /\ c = FIRST + Len(t.entries) /\ FIRST + Len(t.entries) < max_maxcode /\ t.prev # <<>>
              /\ StringIn(t, c) = Append(t.prev, Head(t.prev))
<1>1. /\ t.prev \in Seq(Characters) /\ t.entries \in Seq(Seq(Characters) \ {<<>>})
      /\ Len(t.entries) \in Nat
      /\ \A i \in 1 .. Len(t.entries) : t.entries[i] \in Seq(Characters) /\ t.entries[i] # <<>>
  <2>1. t.prev \in Seq(Characters) /\ t.entries \in Seq(Seq(Characters) \ {<<>>})
    BY DEF Texts
  <2>2. Len(t.entries) \in Nat /\ t.entries \in [1 .. Len(t.entries) -> Seq(Characters) \ {<<>>}]
    BY <2>1, LenProperties
  <2> QED
    BY <2>1, <2>2
<1> DEFINE n == Len(t.entries)
           f == e.free
<1>0. Len(t.entries) = n /\ n \in Nat /\ e.free = f
  BY <1>1
<1> HIDE DEF n, f
<1>2. /\ FIRST \in Nat /\ ArcLiterals \in Nat /\ FIRST = ArcLiterals + 1 /\ ARC_CLEAR = ArcLiterals
      /\ max_maxcode \in Nat /\ f \in Nat /\ f <= max_maxcode
  BY <1>0, ArcSizes, StateParts
<1>3. /\ c \in Nat /\ c < f /\ (c \notin Characters => c \in FIRST .. f - 1)
      /\ f = FIRST => c \in Characters
  BY <1>0, CodeFits
<1>4. CASE c \in Characters
  <2>1. c < ArcLiterals /\ StringIn(t, c) = <<c>> /\ KnownString(t, c) = <<c>> /\ c \in InUse(t)
    <3>1. c < ArcLiterals
      BY <1>2, <1>4 DEF Characters
    <3>2. StringIn(t, c) = <<c>> /\ KnownString(t, c) = <<c>>
      BY <3>1 DEF StringIn, KnownString
    <3>3. c \in InUse(t)
      BY <1>4 DEF InUse, NewEntry
    <3> QED
      BY <3>1, <3>2, <3>3
  <2>2. <<c>> \in Seq(Characters) /\ <<c>> # <<>> /\ Head(<<c>>) = c
    BY <1>4
  <2> QED
    BY <1>4, <2>1, <2>2
<1>5. CASE c \notin Characters
  <2>1. c \in FIRST .. f - 1 /\ t.prev # <<>> /\ ~(c < ArcLiterals)
    BY <1>0, <1>2, <1>3, <1>5 DEF InStep
  <2>2. f = Lesser(FIRST + n + 1, max_maxcode)
    BY <1>0, <2>1 DEF InStep
  <2>3. c <= FIRST + n /\ c < max_maxcode
    BY <1>0, <1>2, <1>3, <2>2 DEF Lesser
  <2>4. CASE c < FIRST + n
    <3>1. c - FIRST < n /\ c - FIRST + 1 \in 1 .. n
      BY <1>0, <1>2, <1>3, <2>1, <2>4
    <3>2. StringIn(t, c) = t.entries[c - FIRST + 1] /\ KnownString(t, c) = t.entries[c - FIRST + 1]
      BY <1>0, <2>1, <3>1 DEF StringIn, KnownString
    <3>3. c \in InUse(t)
      BY <1>0, <1>2, <2>1, <2>4 DEF InUse, NewEntry
    <3>4. StringIn(t, c) \in Seq(Characters) /\ StringIn(t, c) # <<>>
      BY <1>0, <1>1, <3>1, <3>2
    <3> QED
      BY <3>2, <3>3, <3>4, HeadTailProperties
  <2>5. CASE ~(c < FIRST + n)
    <3>1. c = FIRST + n
      BY <1>0, <1>2, <1>3, <2>3, <2>5
    <3>2. StringIn(t, c) = Append(t.prev, Head(t.prev))
      BY <1>0, <1>2, <2>1, <3>1 DEF StringIn
    <3>3. Head(t.prev) \in Characters
      BY <1>1, <2>1, HeadTailProperties
    <3>4. Append(t.prev, Head(t.prev)) \in Seq(Characters) /\ Append(t.prev, Head(t.prev)) # <<>>
      BY <1>1, <3>3, AppendProperties
    <3>5. c \notin InUse(t)
      BY <1>0, <1>2, <1>5, <3>1 DEF InUse, NewEntry
    <3> QED
      BY <1>0, <2>1, <2>3, <3>1, <3>2, <3>4, <3>5, HeadTailProperties
  <2> QED
    BY <2>4, <2>5
<1> QED
  BY <1>4, <1>5

LEMMA TextStep ==
  ASSUME NEW e \in States, NEW t \in Texts, InStep(e, t), ~Damaged, Framed(e), NEW c \in CodesNext(e)
  PROVE  AfterRead(t, c) \in Texts /\ InStep(AfterSend(e, c), AfterRead(t, c))
<1> DEFINE t2 == AfterRead(t, c)
           e2 == AfterSend(e, c)
           n  == Len(t.entries)
<1>1. /\ FIRST \in Nat /\ max_maxcode \in Nat /\ FIRST < max_maxcode /\ e.free \in Nat /\ e.free <= max_maxcode
  BY ArcSizes, StateParts
<1>2. /\ t.text \in Seq(Characters) /\ t.prev \in Seq(Characters)
      /\ t.entries \in Seq(Seq(Characters) \ {<<>>}) /\ Len(t.entries) \in Nat
  <2>1. /\ t.text \in Seq(Characters) /\ t.prev \in Seq(Characters)
        /\ t.entries \in Seq(Seq(Characters) \ {<<>>})
    BY DEF Texts
  <2> QED
    BY <2>1, LenProperties
<1>0. Len(t.entries) = n /\ n \in Nat
  BY <1>2
<1> HIDE DEF n
<1>3. e2.free = IF c = ARC_CLEAR THEN FIRST ELSE Lesser(e.free + 1, max_maxcode)
  BY DEF AfterSend
<1>4. CASE c = ARC_CLEAR
  <2>1. t2 = [text |-> t.text, prev |-> <<>>, entries |-> <<>>]
    BY <1>4 DEF AfterRead, NewText
  <2>2. t2 \in Texts
    BY <1>2, <2>1, EmptySeq DEF Texts
  <2>3. t2.prev = <<>> /\ t2.entries = <<>> /\ Len(t2.entries) = 0
    BY <2>1, EmptySeq
  <2> QED
    BY <1>1, <1>3, <1>4, <2>2, <2>3 DEF InStep
<1>5. CASE c # ARC_CLEAR
  <2> DEFINE string == StringIn(t, c)
             grown  == Append(t.entries, Append(t.prev, Head(string)))
             full   == t.prev = <<>> \/ FIRST + n >= max_maxcode
             entries == IF t.prev = <<>> \/ FIRST + Len(t.entries) >= max_maxcode THEN t.entries ELSE grown
             text == t.text \o string
  <2>1. string \in Seq(Characters) /\ string # <<>> /\ Head(string) \in Characters
    BY <1>5, StringInIs
  <2>2. t2 = [text |-> text, prev |-> string, entries |-> entries]
    BY <1>5 DEF AfterRead
  <2> HIDE DEF string
  <2>3. text \in Seq(Characters)
    BY <1>2, <2>1, ConcatProperties
  <2>4. grown \in Seq(Seq(Characters) \ {<<>>}) /\ Len(grown) = n + 1
    <3> DEFINE h == Head(string)
               entry == Append(t.prev, h)
    <3>1. h \in Characters
      BY <2>1
    <3> HIDE DEF h
    <3>2. entry \in Seq(Characters) /\ entry # <<>>
      BY <1>2, <3>1, AppendProperties
    <3>3. grown = Append(t.entries, entry)
      BY DEF h
    <3> HIDE DEF entry
    <3>4. entry \in Seq(Characters) \ {<<>>}
      BY <3>2
    <3> HIDE DEF grown
    <3> QED
      BY <1>0, <1>2, <3>3, <3>4, AppendProperties
  <2> HIDE DEF text, grown
  <2>5. entries \in Seq(Seq(Characters) \ {<<>>}) /\ Len(entries) = n + (IF full THEN 0 ELSE 1)
    BY <1>0, <1>2, <2>4
  <2>6. t.prev = <<>> => e.free = FIRST /\ n = 0
    BY <1>0, EmptySeq DEF InStep
  <2>7. t.prev # <<>> => e.free = Lesser(FIRST + n + 1, max_maxcode)
    BY <1>0 DEF InStep
  <2>8. FIRST + n <= max_maxcode
    BY <1>0 DEF InStep
  <2> HIDE DEF entries, t2, e2
  <2>9. t2 \in Texts
    BY <2>1, <2>2, <2>3, <2>5 DEF Texts
  <2>10. t2.prev # <<>> /\ t2.entries = entries
    BY <2>1, <2>2
  <2> DEFINE m == Len(entries)
  <2>12. Len(entries) = m /\ m = n + (IF full THEN 0 ELSE 1)
    BY <2>5
  <2> HIDE DEF m
  <2>11. e2.free = Lesser(FIRST + m + 1, max_maxcode) /\ FIRST + m <= max_maxcode
    <3>1. CASE t.prev = <<>>
      BY <1>0, <1>1, <1>3, <1>5, <2>12, <2>6, <3>1 DEF Lesser
    <3>2. CASE t.prev # <<>> /\ FIRST + n >= max_maxcode
      BY <1>0, <1>1, <1>3, <1>5, <2>12, <2>7, <2>8, <3>2 DEF Lesser
    <3>3. CASE t.prev # <<>> /\ ~(FIRST + n >= max_maxcode)
      BY <1>0, <1>1, <1>3, <1>5, <2>12, <2>7, <2>8, <3>3 DEF Lesser
    <3> QED
      BY <3>1, <3>2, <3>3
  <2> QED
    BY <2>9, <2>10, <2>11, <2>12 DEF InStep, t2, e2
<1> QED
  BY <1>4, <1>5

-----------------------------------------------------------------------------
(* All codes of a stream.                                                  *)
LEMMA PlaceIs ==
  ASSUME NEW e \in States
  PROVE  Place(e) \in Nat /\ e.n_bits \in Nat
<1>1. e.n_bits \in Nat \ {0} /\ Len(e.group) \in Nat /\ Len(e.file) \in Nat
  BY StateParts
<1> DEFINE f == Len(e.file)
           g == Len(e.group)
<1>2. f \in Nat /\ g \in Nat /\ e.n_bits \in Nat
  BY <1>1
<1>3. Place(e) = f + g
  BY DEF Place
<1> HIDE DEF f, g
<1> QED
  BY <1>2, <1>3

LEMMA CodeStays ==
  ASSUME NEW e \in States, NEW bits, NEW more, Len(bits) \in Nat, Len(more) \in Nat,
         Len(bits) <= Len(more), \A i \in 1 .. Len(bits) : more[i] = bits[i],
         NEW c, CodeAt(bits, e, c)
  PROVE  CodeAt(more, e, c)
<1> DEFINE m == Len(bits)
           p == Place(e)
           n == e.n_bits
<1>1. p \in Nat /\ n \in Nat
  BY PlaceIs
<1>2. p + n <= m /\ \A i \in 1 .. n : bits[p + i] = BitsOf(c, n)[i]
  BY DEF CodeAt
<1>3. m \in Nat /\ m <= Len(more) /\ \A i \in 1 .. m : more[i] = bits[i]
  OBVIOUS
<1> HIDE DEF m, p, n
<1>4. p + n <= Len(more)
  BY <1>1, <1>2, <1>3
<1>5. ASSUME NEW i \in 1 .. n PROVE more[p + i] = BitsOf(c, n)[i]
  <2>1. p + i \in 1 .. m
    BY <1>1, <1>2, <1>3
  <2> QED
    BY <1>2, <1>3, <2>1
<1> QED
  BY <1>4, <1>5 DEF CodeAt, p, n

LEMMA SentParts ==
  ASSUME NEW e, NEW es, NEW ts, Sent(e, es, ts)
  PROVE  /\ e \in States /\ Framed(e) /\ e.codes \in Seq(AllCodes) /\ Len(e.codes) \in Nat
         /\ es[0] = NewArcEncoder /\ ts[0] = NewText /\ es[Len(e.codes)] = e
         /\ \A k \in 0 .. Len(e.codes) :
              es[k] \in States /\ ts[k] \in Texts /\ Framed(es[k]) /\ InStep(es[k], ts[k])
         /\ \A k \in 0 .. Len(e.codes) - 1 :
              /\ e.codes[k + 1] \in CodesNext(es[k]) /\ CodeAt(Raw(e), es[k], e.codes[k + 1])
              /\ es[k + 1] = AfterSend(es[k], e.codes[k + 1])
              /\ ts[k + 1] = AfterRead(ts[k], e.codes[k + 1])
<1> DEFINE n == Len(e.codes)
<1>1. /\ e \in States /\ es \in [0 .. n -> States] /\ ts \in [0 .. n -> Texts]
      /\ es[0] = NewArcEncoder /\ ts[0] = NewText /\ es[n] = e
      /\ \A k \in 0 .. n : Framed(es[k]) /\ InStep(es[k], ts[k])
      /\ \A k \in 0 .. n - 1 :
           /\ e.codes[k + 1] \in CodesNext(es[k]) /\ CodeAt(Raw(e), es[k], e.codes[k + 1])
           /\ es[k + 1] = AfterSend(es[k], e.codes[k + 1])
           /\ ts[k + 1] = AfterRead(ts[k], e.codes[k + 1])
  BY DEF Sent
<1>2. e.codes \in Seq(AllCodes) /\ n \in Nat
  BY <1>1, StateParts, LenProperties
<1>3. Framed(e)
  <2>1. n \in 0 .. n
    BY <1>2
  <2> QED
    BY <1>1, <2>1
<1>4. \A k \in 0 .. n : es[k] \in States /\ ts[k] \in Texts
  BY <1>1
<1> QED
  BY <1>1, <1>2, <1>3, <1>4

LEMMA SentStarts ==
  \E es, ts : Sent(NewArcEncoder, es, ts)
<1> DEFINE e  == NewArcEncoder
           es == [k \in 0 .. 0 |-> NewArcEncoder]
           ts == [k \in 0 .. 0 |-> NewText]
<1>1. /\ e.free = FIRST /\ e.n_bits = INIT_BITS /\ e.group = <<>> /\ e.file = <<>> /\ e.codes = <<>>
      /\ Len(e.codes) = 0 /\ Len(e.group) = 0 /\ Len(e.file) = 0 /\ e \in States
  <2>1. INIT_BITS \in INIT_BITS .. Bits /\ FIRST \in FIRST .. max_maxcode
    BY ArcSizes
  <2>2. /\ <<>> \in Seq(Bit) /\ <<>> \in Seq(AllCodes) /\ Len(<<>>) = 0
    BY EmptySeq
  <2> QED
    BY <2>1, <2>2 DEF NewArcEncoder, States
<1>2. Framed(e)
  <2>1. 0 \in 0 .. ArcByteBits - 1 /\ INIT_BITS \in INIT_BITS .. Bits /\ 0 = 0 * INIT_BITS /\ 0 = 0 * ArcByteBits
    BY ArcSizes
  <2>2. FIRST <= MaxcodeOf(INIT_BITS) /\ FIRST \in Nat /\ MaxcodeOf(INIT_BITS) \in Nat
    BY <2>1, ArcSizes
  <2>3. Len(e.group) = 0 * e.n_bits /\ Len(e.file) = 0 * ArcByteBits /\ e.free <= MaxcodeOf(e.n_bits) + 1
    BY <1>1, <2>1, <2>2
  <2> HIDE DEF e
  <2>4. \E j \in 0 .. ArcByteBits - 1 : Len(e.group) = j * e.n_bits
    BY <2>1, <2>3
  <2>5. \E b \in Nat : Len(e.file) = b * ArcByteBits
    BY <2>3
  <2> QED
    BY <2>3, <2>4, <2>5 DEF Framed
<1>3. NewText \in Texts /\ InStep(e, NewText)
  <2>1. /\ <<>> \in Seq(Characters) /\ <<>> \in Seq(Seq(Characters) \ {<<>>}) /\ Len(<<>>) = 0
    BY EmptySeq
  <2>2. NewText \in Texts
    BY <2>1 DEF NewText, Texts
  <2>3. NewText.prev = <<>> /\ NewText.entries = <<>>
    BY DEF NewText
  <2>4. FIRST + 0 <= max_maxcode
    BY ArcSizes
  <2> QED
    BY <1>1, <2>1, <2>2, <2>3, <2>4 DEF InStep
<1>4. es \in [0 .. 0 -> States] /\ ts \in [0 .. 0 -> Texts] /\ es[0] = e /\ ts[0] = NewText
  BY <1>1, <1>3
<1>5. \A k \in 0 .. 0 : es[k] = e /\ ts[k] = NewText
  OBVIOUS
<1> HIDE DEF e, es, ts
<1>6. Sent(e, es, ts)
  <2>1. \A k \in 0 .. 0 : Framed(es[k]) /\ InStep(es[k], ts[k])
    BY <1>2, <1>3, <1>5
  <2>2. e = NewArcEncoder /\ 0 .. 0 - 1 = {}
    BY DEF e
  <2> QED
    BY <1>1, <1>4, <2>1, <2>2 DEF Sent
<1> QED
  BY <1>6 DEF e

LEMMA SentGrows ==
  ASSUME ~Damaged, NEW e, NEW es, NEW ts, Sent(e, es, ts), NEW c \in CodesNext(e)
  PROVE  \E fs, us : Sent(AfterSend(e, c), fs, us)
<1> DEFINE n  == Len(e.codes)
           e2 == AfterSend(e, c)
           t2 == AfterRead(ts[n], c)
           fs == [k \in 0 .. n + 1 |-> IF k <= n THEN es[k] ELSE e2]
           us == [k \in 0 .. n + 1 |-> IF k <= n THEN ts[k] ELSE t2]
<1>1. /\ e \in States /\ Framed(e) /\ e.codes \in Seq(AllCodes) /\ n \in Nat
      /\ es[0] = NewArcEncoder /\ ts[0] = NewText /\ es[n] = e
      /\ \A k \in 0 .. n : es[k] \in States /\ ts[k] \in Texts /\ Framed(es[k]) /\ InStep(es[k], ts[k])
      /\ \A k \in 0 .. n - 1 :
           /\ e.codes[k + 1] \in CodesNext(es[k]) /\ CodeAt(Raw(e), es[k], e.codes[k + 1])
           /\ es[k + 1] = AfterSend(es[k], e.codes[k + 1])
           /\ ts[k + 1] = AfterRead(ts[k], e.codes[k + 1])
  BY SentParts
<1>2. /\ e2 \in States /\ e2.codes = Append(e.codes, c) /\ Framed(e2) /\ c \in AllCodes
  BY <1>1, SendParts, SendFramed, CodeFits
<1>3. t2 \in Texts /\ InStep(e2, t2)
  <2> DEFINE t == ts[n]
  <2>1. t \in Texts /\ InStep(e, t)
    <3>1. n \in 0 .. n
      BY <1>1
    <3> QED
      BY <1>1, <3>1
  <2> HIDE DEF t
  <2>2. AfterRead(t, c) \in Texts /\ InStep(AfterSend(e, c), AfterRead(t, c))
    BY <1>1, <2>1, TextStep
  <2> QED
    BY <2>2 DEF t
<1>4. /\ Len(e2.codes) = n + 1 /\ e2.codes[n + 1] = c /\ \A k \in 1 .. n : e2.codes[k] = e.codes[k]
  BY <1>1, <1>2, AppendProperties
<1>5. /\ Raw(e) \in Seq(Bit) /\ Raw(e2) \in Seq(Bit) /\ Len(Raw(e)) <= Len(Raw(e2))
      /\ \A i \in 1 .. Len(Raw(e)) : Raw(e2)[i] = Raw(e)[i]
      /\ CodeAt(Raw(e2), e, c)
  BY <1>1, SendRaw
<1>6. Len(Raw(e)) \in Nat /\ Len(Raw(e2)) \in Nat
  BY <1>5, LenProperties
<1>7. /\ \A k \in 0 .. n : fs[k] = es[k] /\ us[k] = ts[k]
      /\ fs[n + 1] = e2 /\ us[n + 1] = t2
      /\ fs = [k \in 0 .. n + 1 |-> fs[k]] /\ us = [k \in 0 .. n + 1 |-> us[k]]
  BY <1>1
<1>8. e2 = AfterSend(e, c) /\ t2 = AfterRead(ts[n], c)
  OBVIOUS
<1> HIDE DEF n, e2, t2, fs, us
<1>9. \A k \in 0 .. n + 1 : fs[k] \in States /\ us[k] \in Texts /\ Framed(fs[k]) /\ InStep(fs[k], us[k])
  <2> SUFFICES ASSUME NEW k \in 0 .. n + 1
               PROVE  fs[k] \in States /\ us[k] \in Texts /\ Framed(fs[k]) /\ InStep(fs[k], us[k])
    OBVIOUS
  <2>1. k \in 0 .. n \/ k = n + 1
    BY <1>1
  <2> QED
    BY <1>1, <1>2, <1>3, <1>7, <2>1
<1>10. ASSUME NEW k \in 0 .. n
       PROVE  /\ e2.codes[k + 1] \in CodesNext(fs[k]) /\ CodeAt(Raw(e2), fs[k], e2.codes[k + 1])
              /\ fs[k + 1] = AfterSend(fs[k], e2.codes[k + 1])
              /\ us[k + 1] = AfterRead(us[k], e2.codes[k + 1])
  <2>1. CASE k = n
    BY <1>1, <1>4, <1>5, <1>7, <1>8, <2>1
  <2>2. CASE k # n
    <3>1. k \in 0 .. n - 1 /\ k + 1 \in 0 .. n /\ k + 1 \in 1 .. n
      BY <1>1, <2>2
    <3>2. /\ e.codes[k + 1] \in CodesNext(es[k]) /\ CodeAt(Raw(e), es[k], e.codes[k + 1])
          /\ es[k + 1] = AfterSend(es[k], e.codes[k + 1])
          /\ ts[k + 1] = AfterRead(ts[k], e.codes[k + 1])
      BY <1>1, <3>1
    <3>3. /\ e2.codes[k + 1] = e.codes[k + 1] /\ fs[k] = es[k] /\ us[k] = ts[k]
          /\ fs[k + 1] = es[k + 1] /\ us[k + 1] = ts[k + 1] /\ es[k] \in States
      BY <1>1, <1>4, <1>7, <3>1
    <3> DEFINE f == es[k]
               d == e.codes[k + 1]
               bits == Raw(e)
               more == Raw(e2)
    <3>4. f \in States /\ CodeAt(bits, f, d)
      BY <3>2, <3>3
    <3>5. Len(bits) \in Nat /\ Len(more) \in Nat /\ Len(bits) <= Len(more) /\ \A i \in 1 .. Len(bits) : more[i] = bits[i]
      BY <1>5, <1>6
    <3> HIDE DEF f, d, bits, more
    <3>6. CodeAt(more, f, d)
      BY <3>4, <3>5, CodeStays
    <3>7. CodeAt(Raw(e2), es[k], e.codes[k + 1])
      BY <3>6 DEF f, d, more
    <3> QED
      BY <3>2, <3>3, <3>7
  <2> QED
    BY <2>1, <2>2
<1>11. Sent(e2, fs, us)
  <2>1. fs \in [0 .. n + 1 -> States] /\ us \in [0 .. n + 1 -> Texts]
    BY <1>7, <1>9
  <2>2. 0 \in 0 .. n /\ (n + 1) - 1 = n
    BY <1>1
  <2>3. fs[0] = NewArcEncoder /\ us[0] = NewText
    BY <1>1, <1>7, <2>2
  <2> QED
    BY <1>2, <1>4, <1>7, <1>9, <1>10, <2>1, <2>2, <2>3 DEF Sent
<1> QED
  BY <1>11 DEF e2

-----------------------------------------------------------------------------
(* The stream holds what was sent, in whole bytes, and less than one byte  *)
(* more.                                                                   *)
LEMMA WireIs ==
  ASSUME NEW e \in States, Framed(e)
  PROVE  /\ Wire(e) \in Seq(Bit) /\ Len(Wire(e)) \in Nat
         /\ Len(Raw(e)) \in Nat /\ Len(Raw(e)) <= Len(Wire(e))
         /\ \A i \in 1 .. Len(Raw(e)) : Wire(e)[i] = Raw(e)[i]
         /\ \E b \in Nat : Len(Wire(e)) = b * ArcByteBits
         /\ Place(e) <= Len(Wire(e)) /\ Len(Wire(e)) < Place(e) + ArcByteBits
         /\ Len(Wire(e)) <= Len(e.file) + GroupBits(e)
         /\ e.group = <<>> => Len(Wire(e)) = Len(e.file)
<1> DEFINE f == Len(e.file)
           g == Len(e.group)
           last == WholeBytes(e.group)
           k == Len(last)
<1>0. Len(e.file) = f /\ Len(e.group) = g /\ Len(last) = k
  OBVIOUS
<1>1. /\ e.group \in Seq(Bit) /\ e.file \in Seq(Bit) /\ g \in Nat /\ f \in Nat /\ GroupBits(e) \in Nat
      /\ e.n_bits \in Nat /\ GroupBits(e) = e.n_bits * ArcByteBits /\ ArcByteBits \in Nat \ {0}
  BY StateParts, ArcSizes
<1>2. g <= GroupBits(e)
  <2>1. g + e.n_bits <= GroupBits(e)
    BY Room
  <2> HIDE DEF g
  <2> QED
    BY <1>1, <2>1
<1>3. /\ last \in Seq(Bit) /\ k \in Nat /\ g <= k /\ k < g + ArcByteBits
      /\ \E b \in Nat : k = b * ArcByteBits
      /\ \A w \in Nat : g <= w * ArcByteBits => k <= w * ArcByteBits
      /\ \A i \in 1 .. g : last[i] = e.group[i]
  BY <1>1, WholeBytesIs
<1> HIDE DEF last
<1>4. /\ e.file \o last \in Seq(Bit) /\ Len(e.file \o last) = Len(e.file) + Len(last)
      /\ \A i \in 1 .. Len(e.file) + Len(last) : (e.file \o last)[i] = IF i <= Len(e.file) THEN e.file[i] ELSE last[i - Len(e.file)]
  <2>1. e.file \in Seq(Bit) /\ last \in Seq(Bit)
    BY <1>1, <1>3
  <2> QED
    BY <2>1, ConcatProperties
<1>5. Wire(e) = e.file \o last
  BY DEF Wire, last
<1>6. /\ Raw(e) \in Seq(Bit) /\ Len(Raw(e)) = Len(e.file) + Len(e.group)
      /\ \A i \in 1 .. Len(e.file) + Len(e.group) : Raw(e)[i] = IF i <= Len(e.file) THEN e.file[i] ELSE e.group[i - Len(e.file)]
  BY <1>1, ConcatProperties DEF Raw
<1>7. Place(e) = f + g
  BY DEF Place
<1>8. g = 0 => k = 0
  <2>1. 0 \in Nat /\ 0 * ArcByteBits = 0
    BY <1>1
  <2> HIDE DEF g, k
  <2>2. g = 0 => k <= 0 * ArcByteBits
    BY <1>3, <2>1
  <2> QED
    BY <1>3, <2>1, <2>2
<1>9. k <= GroupBits(e)
  <2> HIDE DEF g, k
  <2> QED
    BY <1>1, <1>2, <1>3
<1>10. e.group = <<>> => g = 0
  BY EmptySeq
<1> DEFINE wire == Wire(e)
           raw  == Raw(e)
<1> HIDE DEF f, g, k
<1>11. /\ wire \in Seq(Bit) /\ Len(wire) = f + k
       /\ \A i \in 1 .. f + k : wire[i] = IF i <= f THEN e.file[i] ELSE last[i - f]
  BY <1>0, <1>4, <1>5
<1>12. /\ Len(raw) = f + g /\ \A i \in 1 .. f + g : raw[i] = IF i <= f THEN e.file[i] ELSE e.group[i - f]
  BY <1>0, <1>6
<1> HIDE DEF wire, raw
<1>13. ASSUME NEW i \in 1 .. f + g PROVE wire[i] = raw[i]
  <2>1. i \in 1 .. f + k
    BY <1>1, <1>3
  <2>2. CASE i <= f
    BY <1>11, <1>12, <2>1, <2>2
  <2>3. CASE ~(i <= f)
    <3>1. i - f \in 1 .. g
      BY <1>1, <2>3
    <3> QED
      BY <1>3, <1>11, <1>12, <2>1, <2>3, <3>1
  <2> QED
    BY <2>2, <2>3
<1>14. \E b \in Nat : f + k = b * ArcByteBits
  <2>1. PICK b \in Nat : k = b * ArcByteBits
    BY <1>3
  <2>2. PICK a \in Nat : f = a * ArcByteBits
    BY <1>0 DEF Framed
  <2>3. f + k = (a + b) * ArcByteBits /\ a + b \in Nat
    BY <1>1, <2>1, <2>2
  <2> QED
    BY <2>3
<1>15. f + k \in Nat /\ f + g \in Nat /\ f + g <= f + k /\ f + k < f + g + ArcByteBits /\ f + k <= f + GroupBits(e)
  BY <1>1, <1>3, <1>9
<1>16. e.group = <<>> => f + k = f
  BY <1>1, <1>8, <1>10
<1> QED
  BY <1>0, <1>7, <1>11, <1>12, <1>13, <1>14, <1>15, <1>16 DEF wire, raw

-----------------------------------------------------------------------------
(* The reader.  The bits of a code that are in the buffer are what getcode *)
(* takes from it.                                                          *)
LEMMA BufferReads ==
  ASSUME NEW buf, NEW off \in Nat, NEW bits \in Seq(Bit),
         \A i \in 1 .. Len(bits) : buf[off + i] = bits[i]
  PROVE  SubSeq(buf, off + 1, off + Len(bits)) = bits
<1> DEFINE n == Len(bits)
           a == off + 1
           b == off + n
           got == SubSeq(buf, a, b)
<1>0. Len(bits) = n /\ n \in Nat /\ \A i \in 1 .. n : bits[i] \in Bit /\ buf[off + i] = bits[i]
  BY LenProperties
<1>2. a = off + 1 /\ b = off + n
  OBVIOUS
<1> HIDE DEF n
<1>1. a \in Int /\ b \in Int /\ \A i \in a .. b : buf[i] \in Bit
  <2> SUFFICES ASSUME NEW i \in a .. b PROVE buf[i] \in Bit
    BY <1>0
  <2>1. i - off \in 1 .. n /\ off + (i - off) = i
    BY <1>0
  <2> QED
    BY <1>0, <2>1
<1> HIDE DEF a, b
<1>3. /\ got \in Seq(Bit) /\ Len(got) = IF a <= b THEN b - a + 1 ELSE 0
      /\ \A i \in 1 .. b - a + 1 : got[i] = buf[a + i - 1]
  BY <1>1, SubSeqProperties
<1>4. b - a + 1 = n /\ \A i \in 1 .. n : a + i - 1 = off + i
  BY <1>0, <1>2
<1> HIDE DEF got
<1>5. Len(got) = Len(bits) /\ \A i \in 1 .. n : got[i] = bits[i]
  BY <1>0, <1>2, <1>3, <1>4
<1>6. got = bits
  BY <1>0, <1>3, <1>5, SeqEqual
<1> QED
  BY <1>0, <1>2, <1>6 DEF got

(* A code from its bits.                                                   *)
LEMMA CodeOfBits ==
  ASSUME NEW d \in Nat, NEW n \in Nat, d < 2 ^ n
  PROVE  BitsOf(d, n) \in Seq(Bit) /\ Len(BitsOf(d, n)) = n /\ ValueOf(BitsOf(d, n)) = d
<1>1. BitsOf(d, n) \in Seq({0, 1}) /\ Len(BitsOf(d, n)) = n
  BY BitsType
<1>2. ValueOf(BitsOf(d, n)) = d
  BY ValueOfBits
<1> QED
  BY <1>1, <1>2 DEF Bit

(* Part of a sequence of bits.                                             *)
LEMMA PartOf ==
  ASSUME NEW s \in Seq(Bit), NEW m \in Int, 1 <= m
  PROVE  /\ SubSeq(s, m, Len(s)) \in Seq(Bit)
         /\ Len(SubSeq(s, m, Len(s))) = IF m <= Len(s) THEN Len(s) - m + 1 ELSE 0
         /\ \A i \in 1 .. Len(s) - m + 1 : SubSeq(s, m, Len(s))[i] = s[m + i - 1]
<1> DEFINE n == Len(s)
<1>1. n \in Nat /\ \A i \in 1 .. n : s[i] \in Bit
  BY LenProperties
<1> HIDE DEF n
<1>2. n \in Int /\ \A i \in m .. n : s[i] \in Bit
  BY <1>1
<1>3. /\ SubSeq(s, m, n) \in Seq(Bit) /\ Len(SubSeq(s, m, n)) = IF m <= n THEN n - m + 1 ELSE 0
      /\ \A i \in 1 .. n - m + 1 : SubSeq(s, m, n)[i] = s[m + i - 1]
  BY <1>2, SubSeqProperties
<1> QED
  BY <1>3 DEF n

(* What is left of what is left.                                           *)
LEMMA TailOfTail ==
  ASSUME NEW wire \in Seq(Bit), NEW f \in Nat, NEW k \in Nat, f + k <= Len(wire)
  PROVE  LET rest == SubSeq(wire, f + 1, Len(wire))
         IN  /\ rest \in Seq(Bit) /\ Len(rest) = Len(wire) - f
             /\ \A i \in 1 .. Len(wire) - f : rest[i] = wire[f + i]
             /\ SubSeq(rest, k + 1, Len(rest)) \in Seq(Bit)
             /\ SubSeq(rest, k + 1, Len(rest)) = SubSeq(wire, f + k + 1, Len(wire))
<1> DEFINE W == Len(wire)
           a == f + 1
           m == k + 1
           b == f + k + 1
           rest == SubSeq(wire, a, Len(wire))
           R == Len(rest)
           one == SubSeq(rest, m, Len(rest))
           two == SubSeq(wire, b, Len(wire))
<1>1. W \in Nat /\ Len(wire) = W /\ f + k <= W
  BY LenProperties
<1>2. a = f + 1 /\ m = k + 1 /\ b = f + k + 1 /\ Len(rest) = R
  OBVIOUS
<1> HIDE DEF W, a, m, b
<1>3. a \in Int /\ m \in Int /\ b \in Int /\ 1 <= a /\ 1 <= m /\ 1 <= b
  BY <1>2
<1>5. /\ rest \in Seq(Bit) /\ Len(rest) = IF a <= Len(wire) THEN Len(wire) - a + 1 ELSE 0
      /\ \A i \in 1 .. Len(wire) - a + 1 : rest[i] = wire[a + i - 1]
  BY <1>3, PartOf
<1> HIDE DEF rest, R
<1>6. R = W - f /\ R \in Nat /\ \A i \in 1 .. W - f : rest[i] = wire[f + i]
  <2>1. W - a + 1 = W - f /\ \A i \in 1 .. W - f : a + i - 1 = f + i
    BY <1>1, <1>2
  <2> QED
    BY <1>1, <1>2, <1>5, <2>1
<1>11. /\ one \in Seq(Bit) /\ Len(one) = IF m <= Len(rest) THEN Len(rest) - m + 1 ELSE 0
       /\ \A i \in 1 .. Len(rest) - m + 1 : one[i] = rest[m + i - 1]
  BY <1>3, <1>5, PartOf
<1>12. /\ two \in Seq(Bit) /\ Len(two) = IF b <= Len(wire) THEN Len(wire) - b + 1 ELSE 0
       /\ \A i \in 1 .. Len(wire) - b + 1 : two[i] = wire[b + i - 1]
  BY <1>3, PartOf
<1> HIDE DEF one, two
<1>13. R - m + 1 = W - b + 1 /\ (m <= R <=> b <= W)
  BY <1>1, <1>2, <1>6
<1>14. Len(one) = Len(two)
  BY <1>1, <1>2, <1>11, <1>12, <1>13
<1>15. ASSUME NEW i \in 1 .. Len(one) PROVE one[i] = two[i]
  <2>1. i \in 1 .. R - m + 1 /\ i \in 1 .. W - b + 1
    BY <1>2, <1>3, <1>6, <1>11, <1>13
  <2>2. m + i - 1 \in 1 .. W - f /\ b + i - 1 = f + (m + i - 1)
    BY <1>1, <1>2, <1>6, <2>1
  <2> QED
    BY <1>1, <1>2, <1>6, <1>11, <1>12, <2>1, <2>2
<1>16. one = two
  BY <1>11, <1>12, <1>14, <1>15, SeqEqual
<1>17. /\ rest = SubSeq(wire, f + 1, Len(wire)) /\ one = SubSeq(rest, k + 1, Len(rest))
       /\ two = SubSeq(wire, f + k + 1, Len(wire))
  BY <1>2 DEF rest, one, two
<1>18. Len(rest) = Len(wire) - f /\ \A i \in 1 .. Len(wire) - f : rest[i] = wire[f + i]
  BY <1>1, <1>2, <1>6
<1> HIDE DEF rest, R
<1> QED
  BY <1>5, <1>11, <1>16, <1>17, <1>18

(* A reader behind a code.                                                 *)
LEMMA OffsetMoved ==
  ASSUME NEW r \in Readers, NEW k \in Nat
  PROVE  /\ [r EXCEPT !.offset = k] \in Readers
         /\ [r EXCEPT !.offset = k].n_bits = r.n_bits /\ [r EXCEPT !.offset = k].maxcode = r.maxcode
         /\ [r EXCEPT !.offset = k].clear_flg = r.clear_flg /\ [r EXCEPT !.offset = k].offset = k
         /\ [r EXCEPT !.offset = k].size = r.size /\ [r EXCEPT !.offset = k].buf = r.buf
         /\ [r EXCEPT !.offset = k].rest = r.rest
BY DEF Readers

(* So many bytes hold so many groups of bits.                              *)
LEMMA BytesOf ==
  ASSUME NEW x \in Nat, NEW s \in Nat \ {0}
  PROVE  (x * s) \div s = x
<1> DEFINE a == x * s
           q == a \div s
<1>1. a \in Nat /\ x * s = s * x
  OBVIOUS
<1>2. q \in Int /\ a = s * q + (a % s) /\ a % s \in 0 .. s - 1
  <2> HIDE DEF a
  <2> QED
    BY <1>1, DivMod, ModRange
<1>3. a = s * x
  BY <1>1
<1> HIDE DEF a, q
<1>4. s * q <= s * x /\ s * x < s * q + s
  BY <1>2, <1>3
<1>5. ASSUME q >= x + 1 PROVE FALSE
  <2>1. s * q >= s * (x + 1) /\ s * (x + 1) = s * x + s
    BY <1>2, <1>5
  <2> QED
    BY <1>2, <1>4, <2>1
<1>6. ASSUME x >= q + 1 PROVE FALSE
  <2>1. s * x >= s * (q + 1) /\ s * (q + 1) = s * q + s
    BY <1>2, <1>6
  <2> QED
    BY <1>2, <1>4, <2>1
<1>7. q = x
  BY <1>2, <1>5, <1>6
<1> QED
  BY <1>7 DEF q, a

(* What a group takes of what is left: all of its bits, or all that is     *)
(* left.                                                                   *)
LEMMA GroupTakes ==
  ASSUME NEW n \in Nat, NEW s \in Nat \ {0}, NEW q \in Nat, NEW R \in Nat, R = q * s
  PROVE  /\ R \div s = q /\ Lesser(n, q) \in Nat
         /\ Lesser(n, q) * s = Lesser(n * s, R) /\ n * s \in Nat
<1>1. R \div s = q
  BY BytesOf
<1>2. n * s \in Nat /\ q * s \in Nat
  OBVIOUS
<1>3. n < q => n * s + s <= q * s
  BY OneTimesMore
<1>4. q < n => q * s + s <= n * s
  BY OneTimesMore
<1> DEFINE a == n * s
           b == q * s
<1>5. n < q => a < b
  BY <1>2, <1>3
<1>6. q < n => b < a
  BY <1>2, <1>4
<1>7. n = q => a = b
  OBVIOUS
<1>8. a \in Nat /\ b \in Nat /\ R = b
  BY <1>2
<1>9. CASE n < q
  <2>1. Lesser(n, q) = n
    BY <1>9 DEF Lesser
  <2> HIDE DEF a, b
  <2>2. Lesser(a, R) = a
    BY <1>5, <1>8, <1>9 DEF Lesser
  <2> QED
    BY <1>1, <1>2, <2>1, <2>2 DEF a
<1>10. CASE ~(n < q)
  <2>1. Lesser(n, q) = q
    BY <1>10 DEF Lesser
  <2> HIDE DEF a, b
  <2>2. Lesser(a, R) = b
    BY <1>6, <1>7, <1>8, <1>10 DEF Lesser
  <2> QED
    BY <1>1, <1>2, <2>1, <2>2 DEF a, b
<1> QED
  BY <1>9, <1>10

(* At the start of a group the reader takes the group, and its first code. *)
LEMMA RefillReads ==
  ASSUME NEW r \in Readers, NEW free, MustRefill(r, free),
         NEW s \in States, Framed(s), s.group = <<>>,
         NEW wire \in Seq(Bit), \E b \in Nat : Len(wire) = b * ArcByteBits,
         NEW d \in Nat, d < 2 ^ s.n_bits, CodeAt(wire, s, d),
         r.rest = SubSeq(wire, Len(s.file) + 1, Len(wire)), WidthFor(r, free) = s.n_bits,
         s.n_bits = r.n_bits /\ ~r.clear_flg => r.maxcode = MaxcodeOf(s.n_bits)
  PROVE  /\ getcode(r, free).code = d /\ getcode(r, free).reader \in Readers
         /\ ReaderAt(getcode(r, free).reader, wire, s) /\ getcode(r, free).reader.clear_flg = FALSE
<1> DEFINE F == Len(s.file)
           W == Len(wire)
           n == s.n_bits
           B == ArcByteBits
           rest == r.rest
           R == Len(rest)
<1>1. /\ n \in Nat \ {0} /\ n \in Nat /\ F \in Nat /\ B \in Nat \ {0} /\ n \in INIT_BITS .. Bits /\ Bits \in Nat
      /\ GroupBits(s) = n * B /\ GroupBits(s) \in Nat
  BY StateParts, ArcSizes
<1>2. W \in Nat
  BY LenProperties
<1>3. Len(s.group) = 0
  BY EmptySeq
<1>4. F + n <= W /\ \A i \in 1 .. n : wire[F + i] = BitsOf(d, n)[i]
  <2>1. Place(s) = F + 0
    BY <1>3 DEF Place
  <2>2. Place(s) = F
    BY <1>1, <2>1
  <2> QED
    BY <2>2 DEF CodeAt
<1>5. PICK b \in Nat : W = b * B
  OBVIOUS
<1>6. PICK a \in Nat : F = a * B
  BY DEF Framed
<1>7. rest = SubSeq(wire, F + 1, W)
  OBVIOUS
<1>8. WidthFor(r, free) = n /\ MaxcodeOf(n) \in Nat
  BY <1>1, ArcSizes
<1>9. n = r.n_bits /\ ~r.clear_flg => r.maxcode = MaxcodeOf(n)
  OBVIOUS
<1>10. d < 2 ^ n
  OBVIOUS
<1>11. Len(s.file) = F /\ Len(wire) = W /\ s.n_bits = n /\ ArcByteBits = B /\ r.rest = rest
  OBVIOUS
<1>12. r.buf \in [1 .. Bits * B -> Bit]
  BY DEF Readers
<1> HIDE DEF F, W, n, B, rest
<1>13. rest \in Seq(Bit) /\ R = W - F /\ \A i \in 1 .. W - F : rest[i] = wire[F + i]
  <2>1. F + 0 <= Len(wire) /\ 0 \in Nat
    BY <1>1, <1>2, <1>4, <1>11
  <2> DEFINE tail == SubSeq(wire, F + 1, Len(wire))
  <2>2. tail \in Seq(Bit) /\ Len(tail) = Len(wire) - F /\ \A i \in 1 .. Len(wire) - F : tail[i] = wire[F + i]
    BY <1>1, <2>1, TailOfTail
  <2>3. tail = rest
    BY <1>7, <1>11
  <2> QED
    BY <1>11, <2>2, <2>3
<1> DEFINE q == R \div B
           bytes == Lesser(n, q)
           bits == bytes * B
<1>14. bytes \in Nat /\ bits = Lesser(n * B, R) /\ n * B \in Nat /\ R \in Nat
  <2>1. b - a \in Nat /\ R = (b - a) * B
    <3>1. (b - a) * B = b * B - a * B
      BY <1>1, <1>5, <1>6
    <3>2. ASSUME a > b PROVE FALSE
      <4>1. b * B + B <= a * B
        BY <1>1, <3>2, OneTimesMore
      <4>2. W + B <= F
        BY <1>5, <1>6, <4>1
      <4>3. F + n <= W /\ F \in Nat /\ W \in Nat /\ n \in Nat /\ B \in Nat \ {0}
        BY <1>1, <1>2, <1>4
      <4> QED
        BY <4>2, <4>3
    <3> QED
      BY <1>5, <1>6, <1>13, <3>1, <3>2
  <2>2. R \in Nat
    BY <1>1, <1>2, <1>4, <1>13
  <2> HIDE DEF R, q
  <2> DEFINE p == b - a
  <2>3. p \in Nat /\ R = p * B
    BY <2>1
  <2> HIDE DEF p
  <2>4. R \div B = p /\ Lesser(n, p) \in Nat /\ Lesser(n, p) * B = Lesser(n * B, R) /\ n * B \in Nat
    <3>1. n \in Nat /\ B \in Nat \ {0} /\ p \in Nat /\ R \in Nat /\ R = p * B
      BY <1>1, <2>2, <2>3
    <3>2. R \div B = p
      BY <3>1, GroupTakes
    <3>3. Lesser(n, p) \in Nat /\ n * B \in Nat
      BY <3>1, GroupTakes
    <3>4. Lesser(n, p) * B = Lesser(n * B, R)
      BY <3>1, GroupTakes
    <3> QED
      BY <3>2, <3>3, <3>4
  <2>5. q = p
    BY <2>4 DEF q
  <2> QED
    BY <2>2, <2>4, <2>5
<1> HIDE DEF R
<1>15. n <= n * B /\ n * B <= Bits * B /\ Bits * B \in Nat
  <2>1. \A x, y \in Nat : x <= y => x * B <= y * B
    BY <1>1
  <2>2. 1 <= B => n * 1 <= n * B
    BY <1>1
  <2> QED
    BY <1>1, <2>1, <2>2
<1>16. bits \in Nat /\ n <= bits /\ bits <= R /\ bits <= Bits * B /\ bytes # 0
  <2> HIDE DEF bytes, bits
  <2>1. bits \in Nat /\ n <= bits /\ bits <= R /\ bits <= Bits * B
    BY <1>1, <1>2, <1>4, <1>13, <1>14, <1>15 DEF Lesser
  <2>2. bytes = 0 => bits = 0
    BY <1>1 DEF bits
  <2> QED
    BY <1>1, <2>1, <2>2
<1> DEFINE max  == IF n = r.n_bits /\ ~r.clear_flg THEN r.maxcode ELSE MaxcodeOf(n)
           buf  == [x \in DOMAIN r.buf |-> IF x <= bits THEN rest[x] ELSE r.buf[x]]
           left == SubSeq(rest, bits + 1, R)
           full == [n_bits |-> n, maxcode |-> max, clear_flg |-> FALSE,
                    offset |-> IF bytes = 0 THEN r.offset ELSE 0,
                    size |-> IF bytes = 0 THEN 0 ELSE bits - (n - 1), buf |-> buf, rest |-> left]
<1>17. Refill(r, free) = full
  BY <1>8, <1>11 DEF Refill, R
<1>18. full.offset = 0 /\ full.size = bits - (n - 1)
  BY <1>16
<1>19. max = MaxcodeOf(n)
  BY <1>9
<1> HIDE DEF q, bytes, bits, max
<1>20. /\ buf \in [1 .. Bits * B -> Bit] /\ \A x \in 1 .. bits : buf[x] = rest[x]
  <2>1. DOMAIN r.buf = 1 .. Bits * B /\ \A x \in 1 .. Bits * B : r.buf[x] \in Bit
    BY <1>12
  <2>2. \A x \in 1 .. R : rest[x] \in Bit
    BY <1>13 DEF R
  <2>3. \A x \in 1 .. Bits * B : (IF x <= bits THEN rest[x] ELSE r.buf[x]) \in Bit
    BY <1>14, <1>15, <1>16, <2>1, <2>2
  <2>4. \A x \in 1 .. bits : x \in 1 .. Bits * B /\ x <= bits
    BY <1>15, <1>16
  <2> QED
    BY <2>1, <2>3, <2>4
<1>21. left \in Seq(Bit) /\ left = SubSeq(wire, F + bits + 1, W)
  <2>4. bits \in Nat /\ bits <= R /\ R = W - F /\ W \in Nat /\ F \in Nat
    BY <1>1, <1>2, <1>13, <1>16
  <2>5. F + bits <= W
    BY <2>4
  <2>1. F + bits <= Len(wire) /\ bits \in Nat /\ F \in Nat
    BY <1>11, <2>4, <2>5
  <2> DEFINE tail == SubSeq(wire, F + 1, Len(wire))
  <2>2. /\ SubSeq(tail, bits + 1, Len(tail)) \in Seq(Bit)
        /\ SubSeq(tail, bits + 1, Len(tail)) = SubSeq(wire, F + bits + 1, Len(wire))
    BY <2>1, TailOfTail
  <2>3. tail = rest
    BY <1>7, <1>11
  <2> QED
    BY <1>11, <2>2, <2>3 DEF R
<1>22. r.rest # <<>>
  <2>1. R # 0
    BY <1>1, <1>14, <1>16
  <2>2. Len(rest) # 0
    BY <2>1 DEF R
  <2> QED
    BY <1>11, <2>2, EmptySeq
<1>23. /\ full.n_bits = n /\ full.maxcode = max /\ full.clear_flg = FALSE /\ full.buf = buf
       /\ full.rest = left
  OBVIOUS
<1>24. full \in Readers
  <2>1. max \in Nat /\ bits - (n - 1) \in Int /\ n \in Nat
    BY <1>1, <1>8, <1>16, <1>19
  <2>2. full.offset \in Nat /\ full.size \in Int /\ buf \in [1 .. Bits * ArcByteBits -> Bit]
    BY <1>11, <1>18, <1>20, <2>1
  <2> DEFINE o == full.offset
             z == full.size
  <2>3. full = [n_bits |-> n, maxcode |-> max, clear_flg |-> FALSE, offset |-> o, size |-> z, buf |-> buf, rest |-> left]
    OBVIOUS
  <2> HIDE DEF o, z, full, buf, left
  <2>4. o \in Nat /\ z \in Int
    BY <2>2 DEF o, z
  <2> QED
    BY <1>21, <2>1, <2>2, <2>3, <2>4 DEF Readers
<1> HIDE DEF full, buf, left
<1> DEFINE after == [full EXCEPT !.offset = n]
<1>25. /\ after \in Readers /\ after.n_bits = n /\ after.maxcode = max /\ after.clear_flg = FALSE
       /\ after.offset = n /\ after.size = bits - (n - 1) /\ after.buf = buf /\ after.rest = left
  BY <1>1, <1>18, <1>23, <1>24, OffsetMoved
<1>26. ValueOf(SubSeq(full.buf, full.offset + 1, full.offset + full.n_bits)) = d
  <2> DEFINE off == 0
             code == BitsOf(d, n)
  <2>1. off \in Nat
    OBVIOUS
  <2>2. ASSUME NEW i \in 1 .. n PROVE buf[off + i] = code[i]
    <3>1. off + i = i /\ i \in 1 .. bits /\ i \in 1 .. W - F
      BY <1>1, <1>2, <1>4, <1>16
    <3> QED
      BY <1>4, <1>13, <1>20, <3>1
  <2>3. full.buf = buf /\ full.offset = off /\ full.n_bits = n
    BY <1>18, <1>23
  <2>4. code \in Seq(Bit) /\ Len(code) = n /\ ValueOf(code) = d
    BY <1>1, <1>10, CodeOfBits
  <2> HIDE DEF off, code
  <2>5. SubSeq(buf, off + 1, off + n) = code
    <3>1. \A i \in 1 .. Len(code) : buf[off + i] = code[i]
      BY <2>2, <2>4
    <3>2. SubSeq(buf, off + 1, off + Len(code)) = code
      BY <2>1, <2>4, <3>1, BufferReads
    <3> QED
      BY <2>4, <3>2
  <2> QED
    BY <2>3, <2>4, <2>5
<1>27. getcode(r, free) = [code |-> d, reader |-> after]
  <2>1. full.offset + full.n_bits = n
    BY <1>1, <1>18, <1>23
  <2>2. [full EXCEPT !.offset = @ + full.n_bits] = after
    BY <2>1
  <2> HIDE DEF after
  <2> QED
    BY <1>17, <1>22, <1>26, <2>2 DEF getcode
<1> HIDE DEF after
<1>29. InGroup(wire, s) = bits
  BY <1>1, <1>11, <1>13, <1>14 DEF InGroup, bits
<1>30. ReaderAt(after, wire, s)
  <2>1. 0 + n = n /\ \A x \in 1 .. bits : x \in 1 .. W - F
    BY <1>1, <1>2, <1>13, <1>14, <1>16
  <2>2. \A x \in 1 .. bits : buf[x] = wire[F + x]
    BY <1>13, <1>20, <2>1
  <2> QED
    BY <1>3, <1>11, <1>19, <1>21, <1>25, <1>29, <2>1, <2>2 DEF ReaderAt
<1> QED
  BY <1>25, <1>27, <1>30

(* Inside a group the reader takes the next code from its buffer.          *)
LEMMA StayReads ==
  ASSUME NEW r \in Readers, NEW free, NEW s \in States, NEW s2 \in States, Framed(s), Framed(s2),
         NEW wire \in Seq(Bit), ReaderAt(r, wire, s), r.clear_flg = FALSE, ~(free > r.maxcode),
         s2.file = s.file, s2.n_bits = s.n_bits, Len(s2.group) = Len(s.group) + s.n_bits,
         NEW d \in Nat, d < 2 ^ s2.n_bits, CodeAt(wire, s2, d)
  PROVE  /\ getcode(r, free).code = d /\ getcode(r, free).reader \in Readers
         /\ ReaderAt(getcode(r, free).reader, wire, s2) /\ getcode(r, free).reader.clear_flg = FALSE
<1> DEFINE F == Len(s.file)
           W == Len(wire)
           n == s.n_bits
           o == Len(s2.group)
           G == GroupBits(s)
           I == InGroup(wire, s)
           code == BitsOf(d, n)
           after == [r EXCEPT !.offset = o + n]
<1>1. /\ n \in Nat \ {0} /\ F \in Nat /\ o \in Nat /\ W \in Nat /\ G \in Nat
      /\ GroupBits(s2) = G /\ Len(s2.file) = F /\ s2.n_bits = n
  <2>1. n \in Nat \ {0} /\ F \in Nat /\ o \in Nat /\ G \in Nat
    BY StateParts
  <2>2. GroupBits(s2) = G
    BY DEF GroupBits
  <2> QED
    BY <2>1, <2>2, LenProperties
<1>2. o + n <= G
  <2>1. Len(s2.group) + s2.n_bits <= GroupBits(s2)
    BY Room
  <2> QED
    BY <1>1, <2>1
<1>3. code \in Seq(Bit) /\ Len(code) = n /\ ValueOf(code) = d
  <2>1. n \in Nat /\ d < 2 ^ n
    BY <1>1
  <2> HIDE DEF n
  <2> QED
    BY <2>1, CodeOfBits
<1>4. F + o + n <= W /\ \A i \in 1 .. n : wire[F + o + i] = code[i]
  BY <1>1 DEF CodeAt, Place
<1>5. /\ r.n_bits = n /\ r.maxcode = MaxcodeOf(n) /\ r.clear_flg = FALSE /\ r.offset = o
      /\ r.size = I - (n - 1) /\ \A b \in 1 .. I : r.buf[b] = wire[F + b]
      /\ r.rest = SubSeq(wire, F + I + 1, W)
  BY DEF ReaderAt
<1>6. InGroup(wire, s) = I /\ InGroup(wire, s2) = I /\ Len(wire) = W /\ Len(s2.group) = o
  BY <1>1 DEF InGroup
<1>7. I = Lesser(G, W - F)
  BY DEF InGroup
<1> HIDE DEF F, W, n, o, G, I, code
<1>8. o + n <= I /\ I \in Nat
  BY <1>1, <1>2, <1>4, <1>7 DEF Lesser
<1>9. ~MustRefill(r, free)
  <2>1. ~(o >= I - (n - 1))
    BY <1>1, <1>8
  <2> QED
    BY <1>5, <2>1 DEF MustRefill
<1>10. ValueOf(SubSeq(r.buf, r.offset + 1, r.offset + r.n_bits)) = d
  <2> DEFINE buf == r.buf
  <2>1. ASSUME NEW i \in 1 .. n PROVE buf[o + i] = code[i]
    <3>1. o + i \in 1 .. I /\ F + (o + i) = F + o + i
      BY <1>1, <1>8
    <3> QED
      BY <1>4, <1>5, <3>1
  <2> HIDE DEF buf
  <2>2. \A i \in 1 .. Len(code) : buf[o + i] = code[i]
    BY <1>3, <2>1
  <2>3. SubSeq(buf, o + 1, o + Len(code)) = code
    <3>1. o \in Nat /\ code \in Seq(Bit)
      BY <1>1, <1>3
    <3> QED
      BY <2>2, <3>1, BufferReads
  <2> QED
    BY <1>3, <1>5, <2>3 DEF buf
<1>11. o + n \in Nat
  BY <1>1
<1>12. /\ after \in Readers /\ after.n_bits = n /\ after.maxcode = MaxcodeOf(n) /\ after.clear_flg = FALSE
       /\ after.offset = o + n /\ after.size = I - (n - 1) /\ after.buf = r.buf /\ after.rest = r.rest
  BY <1>5, <1>11, OffsetMoved
<1>13. getcode(r, free) = [code |-> d, reader |-> after]
  <2>1. [r EXCEPT !.offset = @ + r.n_bits] = after
    BY <1>5
  <2> HIDE DEF after
  <2> QED
    BY <1>9, <1>10, <2>1 DEF getcode
<1> HIDE DEF after
<1>14. ReaderAt(after, wire, s2)
  BY <1>1, <1>5, <1>6, <1>12 DEF ReaderAt
<1> QED
  BY <1>12, <1>13, <1>14

(* At the end of the stream there is no code.                              *)
LEMMA RefillEnds ==
  ASSUME NEW r \in Readers, NEW free, r.rest = <<>>, MustRefill(r, free),
         WidthFor(r, free) \in INIT_BITS .. Bits
  PROVE  /\ getcode(r, free).code = -1 /\ getcode(r, free).reader \in Readers
         /\ getcode(r, free).reader.size = 0
<1> DEFINE n == WidthFor(r, free)
           bytes == Lesser(n, Len(r.rest) \div ArcByteBits)
           bits == bytes * ArcByteBits
           max  == IF n = r.n_bits /\ ~r.clear_flg THEN r.maxcode ELSE MaxcodeOf(n)
           buf  == [b \in DOMAIN r.buf |-> IF b <= bits THEN r.rest[b] ELSE r.buf[b]]
           left == SubSeq(r.rest, bits + 1, Len(r.rest))
           full == [n_bits |-> n, maxcode |-> max, clear_flg |-> FALSE,
                    offset |-> IF bytes = 0 THEN r.offset ELSE 0,
                    size |-> IF bytes = 0 THEN 0 ELSE bits - (n - 1), buf |-> buf, rest |-> left]
<1>1. n \in Nat \ {0} /\ MaxcodeOf(n) \in Nat /\ ArcByteBits \in Nat \ {0} /\ n \in INIT_BITS .. Bits
  BY ArcSizes
<1>2. /\ r.maxcode \in Nat /\ r.offset \in Nat /\ r.buf \in [1 .. Bits * ArcByteBits -> Bit]
      /\ Bits * ArcByteBits \in Nat
  BY ArcSizes DEF Readers
<1>3. Refill(r, free) = full
  BY DEF Refill
<1>4. Len(r.rest) = 0 /\ r.rest \in Seq(Bit)
  BY EmptySeq
<1>5. bytes = 0 /\ bits = 0
  <2>1. (0 * ArcByteBits) \div ArcByteBits = 0 /\ 0 * ArcByteBits = 0
    BY <1>1, BytesOf
  <2>2. Len(r.rest) \div ArcByteBits = 0
    BY <1>4, <2>1
  <2>3. Lesser(n, 0) = 0
    BY <1>1 DEF Lesser
  <2>4. bytes = 0
    BY <2>2, <2>3
  <2> QED
    BY <2>1, <2>4
<1>6. buf \in [1 .. Bits * ArcByteBits -> Bit]
  <2>1. DOMAIN r.buf = 1 .. Bits * ArcByteBits /\ \A b \in 1 .. Bits * ArcByteBits : r.buf[b] \in Bit
    BY <1>2
  <2> HIDE DEF bits
  <2>2. \A b \in 1 .. Bits * ArcByteBits : ~(b <= bits)
    BY <1>2, <1>5
  <2> QED
    BY <2>1, <2>2
<1>7. left = <<>>
  <2>1. bits + 1 = 1
    BY <1>5
  <2>2. SubSeq(r.rest, 1, 0) = <<>>
    BY SubSeqEmpty
  <2> HIDE DEF bits
  <2> QED
    BY <1>4, <2>1, <2>2
<1>8. max \in Nat
  BY <1>1, <1>2
<1> HIDE DEF n, bytes, bits, max, buf, left
<1>9. full = [n_bits |-> n, maxcode |-> max, clear_flg |-> FALSE, offset |-> r.offset, size |-> 0,
              buf |-> buf, rest |-> left]
  BY <1>5
<1> HIDE DEF full
<1>10. full \in Readers /\ full.size = 0
  BY <1>1, <1>2, <1>4, <1>6, <1>7, <1>8, <1>9 DEF Readers
<1>11. getcode(r, free) = [code |-> -1, reader |-> full]
  BY <1>3 DEF getcode
<1> QED
  BY <1>10, <1>11

(* A reader that has read c, which s sent, leaves the group where the      *)
(* encoder did, for the width the encoder went on with.                    *)
Behind(r, free, wire, s, c) ==
  /\ r \in Readers /\ ReaderAt(r, wire, s) /\ (r.clear_flg <=> c = ARC_CLEAR)
  /\ c # ARC_CLEAR => free = s.free

LEMMA SameGroup ==
  ASSUME NEW r, NEW free, NEW wire \in Seq(Bit), NEW s \in States, NEW c, Behind(r, free, wire, s, c)
  PROVE  /\ WidthFor(r, free) = AfterSend(s, c).n_bits
         /\ GroupEndsAfter(s, c) => MustRefill(r, free)
         /\ ~GroupEndsAfter(s, c) => r.clear_flg = FALSE /\ ~(free > r.maxcode)
<1>1. AfterSend(s, c).n_bits = IF c = ARC_CLEAR THEN INIT_BITS
                               ELSE IF WidensAfter(s, c) THEN s.n_bits + 1 ELSE s.n_bits
  BY DEF AfterSend
<1>2. /\ r.n_bits = s.n_bits /\ r.maxcode = MaxcodeOf(s.n_bits) /\ r.clear_flg \in BOOLEAN
      /\ r.offset = Len(s.group) + s.n_bits /\ r.size = InGroup(wire, s) - (s.n_bits - 1)
      /\ (r.clear_flg <=> c = ARC_CLEAR) /\ (c # ARC_CLEAR => free = s.free)
  BY DEF Behind, ReaderAt, Readers
<1>3. CASE c = ARC_CLEAR
  BY <1>1, <1>2, <1>3 DEF WidthFor, MustRefill, GroupEndsAfter
<1>4. CASE c # ARC_CLEAR
  <2>1. free > r.maxcode <=> WidensAfter(s, c)
    BY <1>2, <1>4 DEF WidensAfter
  <2>2. WidthFor(r, free) = AfterSend(s, c).n_bits
    BY <1>1, <1>2, <1>4, <2>1 DEF WidthFor
  <2>3. ASSUME Len(s.group) + s.n_bits = GroupBits(s) PROVE r.offset >= r.size
    <3> DEFINE o == Len(s.group) + s.n_bits
               n == s.n_bits
               F == Len(s.file)
               W == Len(wire)
               G == GroupBits(s)
    <3>1. n \in Nat \ {0} /\ G \in Nat /\ F \in Nat /\ W \in Nat
      BY StateParts, LenProperties
    <3>2. r.offset = o /\ r.size = Lesser(G, W - F) - (n - 1) /\ o = G
      BY <1>2, <2>3 DEF InGroup
    <3> HIDE DEF o, n, F, W, G
    <3> QED
      BY <3>1, <3>2 DEF Lesser
  <2> QED
    BY <1>2, <1>4, <2>1, <2>2, <2>3 DEF MustRefill, GroupEndsAfter
<1> QED
  BY <1>3, <1>4

(* It then reads what the encoder sent next,                               *)
LEMMA ReadNext ==
  ASSUME ~Damaged, NEW s \in States, Framed(s), NEW c \in CodesNext(s),
         NEW wire \in Seq(Bit), \E b \in Nat : Len(wire) = b * ArcByteBits,
         NEW r, NEW free, Behind(r, free, wire, s, c),
         NEW d \in CodesNext(AfterSend(s, c)), CodeAt(wire, AfterSend(s, c), d)
  PROVE  /\ getcode(r, free).code = d /\ getcode(r, free).reader \in Readers
         /\ ReaderAt(getcode(r, free).reader, wire, AfterSend(s, c))
         /\ getcode(r, free).reader.clear_flg = FALSE
<1> DEFINE s2 == AfterSend(s, c)
<1>1. /\ s2 \in States /\ Framed(s2)
      /\ ~GroupEndsAfter(s, c) =>
           s2.file = s.file /\ s2.n_bits = s.n_bits /\ Len(s2.group) = Len(s.group) + s.n_bits
      /\ GroupEndsAfter(s, c) => s2.group = <<>> /\ Len(s2.file) = Len(s.file) + GroupBits(s)
  BY SendParts, SendFramed
<1>2. r \in Readers /\ ReaderAt(r, wire, s) /\ r.n_bits = s.n_bits /\ r.maxcode = MaxcodeOf(s.n_bits)
  BY DEF Behind, ReaderAt
<1>3. /\ WidthFor(r, free) = s2.n_bits
      /\ GroupEndsAfter(s, c) => MustRefill(r, free)
      /\ ~GroupEndsAfter(s, c) => r.clear_flg = FALSE /\ ~(free > r.maxcode)
  BY SameGroup
<1>4. d \in CodesNext(s2) /\ CodeAt(wire, s2, d)
  OBVIOUS
<1> HIDE DEF s2
<1>5. d \in Nat /\ d < 2 ^ s2.n_bits
  BY <1>1, <1>4, CodeFits
<1>6. CASE ~GroupEndsAfter(s, c)
  <2>1. /\ r.clear_flg = FALSE /\ ~(free > r.maxcode)
        /\ s2.file = s.file /\ s2.n_bits = s.n_bits /\ Len(s2.group) = Len(s.group) + s.n_bits
    BY <1>1, <1>3, <1>6
  <2> QED
    BY <1>1, <1>2, <1>4, <1>5, <2>1, StayReads DEF s2
<1>7. CASE GroupEndsAfter(s, c)
  <2>1. /\ MustRefill(r, free) /\ WidthFor(r, free) = s2.n_bits /\ s2.group = <<>>
        /\ s2.n_bits = r.n_bits /\ ~r.clear_flg => r.maxcode = MaxcodeOf(s2.n_bits)
    BY <1>1, <1>2, <1>3, <1>7
  <2>2. r.rest = SubSeq(wire, Len(s2.file) + 1, Len(wire))
    <3> DEFINE F == Len(s.file)
               W == Len(wire)
               G == GroupBits(s)
    <3>1. F \in Nat /\ W \in Nat /\ G \in Nat /\ s2.n_bits \in Nat /\ Len(s2.file) = F + G
      BY <1>1, <1>7, StateParts, LenProperties
    <3>2. F + G <= W
      <4>1. Place(s2) + s2.n_bits <= W
        BY <1>4 DEF CodeAt
      <4>2. Place(s2) = Len(s2.file) + Len(s2.group) /\ Len(s2.group) = 0
        BY <2>1, EmptySeq DEF Place
      <4> HIDE DEF F, W, G
      <4> QED
        BY <3>1, <4>1, <4>2
    <3>3. InGroup(wire, s) = Lesser(G, W - F) /\ r.rest = SubSeq(wire, F + InGroup(wire, s) + 1, W)
      BY <1>2 DEF ReaderAt, InGroup
    <3>4. Len(wire) = W
      OBVIOUS
    <3> HIDE DEF F, W, G
    <3>5. InGroup(wire, s) = G
      BY <3>1, <3>2, <3>3 DEF Lesser
    <3> QED
      BY <3>1, <3>3, <3>4, <3>5
  <2> QED
    BY <1>1, <1>2, <1>4, <1>5, <2>1, <2>2, RefillReads DEF s2
<1> QED
  BY <1>6, <1>7

(* or ends where the encoder did,                                          *)
LEMMA ReadEnd ==
  ASSUME ~Damaged, NEW s \in States, Framed(s), NEW c \in CodesNext(s), NEW r, NEW free,
         Behind(r, free, Wire(AfterSend(s, c)), s, c)
  PROVE  /\ getcode(r, free).code = -1 /\ getcode(r, free).reader \in Readers
         /\ getcode(r, free).reader.size = 0
<1> DEFINE s2 == AfterSend(s, c)
           wire == Wire(s2)
<1>1. /\ s2 \in States /\ Framed(s2)
      /\ ~GroupEndsAfter(s, c) =>
           s2.file = s.file /\ s2.n_bits = s.n_bits /\ Len(s2.group) = Len(s.group) + s.n_bits
      /\ GroupEndsAfter(s, c) => s2.group = <<>> /\ Len(s2.file) = Len(s.file) + GroupBits(s)
  BY SendParts, SendFramed
<1>2. Behind(r, free, wire, s, c)
  OBVIOUS
<1> HIDE DEF s2
<1>3. /\ wire \in Seq(Bit) /\ Len(wire) \in Nat /\ Place(s2) <= Len(wire) /\ Len(wire) < Place(s2) + ArcByteBits
      /\ Len(wire) <= Len(s2.file) + GroupBits(s2)
      /\ s2.group = <<>> => Len(wire) = Len(s2.file)
  BY <1>1, WireIs
<1> HIDE DEF wire
<1>4. /\ r \in Readers /\ r.n_bits = s.n_bits /\ r.maxcode = MaxcodeOf(s.n_bits)
      /\ r.offset = Len(s.group) + s.n_bits /\ r.size = InGroup(wire, s) - (s.n_bits - 1)
      /\ r.rest = SubSeq(wire, Len(s.file) + InGroup(wire, s) + 1, Len(wire))
  BY <1>2 DEF Behind, ReaderAt
<1>5. /\ WidthFor(r, free) = s2.n_bits
      /\ GroupEndsAfter(s, c) => MustRefill(r, free)
  <2>1. wire \in Seq(Bit)
    BY <1>3
  <2>2. WidthFor(r, free) = AfterSend(s, c).n_bits
    BY <1>2, <2>1, SameGroup
  <2>3. GroupEndsAfter(s, c) => MustRefill(r, free)
    BY <1>2, <2>1, SameGroup
  <2> QED
    BY <2>2, <2>3 DEF s2
<1> DEFINE F == Len(s.file)
           W == Len(wire)
           G == GroupBits(s)
           n == s.n_bits
           g == Len(s.group)
           I == InGroup(wire, s)
<1>6. /\ F \in Nat /\ W \in Nat /\ G \in Nat /\ n \in Nat \ {0} /\ g \in Nat
      /\ ArcByteBits \in Nat /\ ArcByteBits <= n
  BY <1>3, StateParts, ArcSizes
<1>7. I = Lesser(G, W - F) /\ r.offset = g + n /\ r.size = I - (n - 1) /\ r.rest = SubSeq(wire, F + I + 1, W)
  BY <1>4 DEF InGroup
<1>8. W - F <= G /\ 0 <= W - F /\ (~GroupEndsAfter(s, c) => W - F < g + n + n)
  <2>1. CASE GroupEndsAfter(s, c)
    <3>1. W = F + G
      BY <1>1, <1>3, <2>1
    <3> HIDE DEF F, W, G, g, n
    <3> QED
      BY <1>6, <2>1, <3>1
  <2>2. CASE ~GroupEndsAfter(s, c)
    <3>1. Len(s2.file) = F /\ Len(s2.group) = g + n /\ GroupBits(s2) = G
      BY <1>1, <2>2 DEF GroupBits
    <3>2. Place(s2) = F + (g + n)
      BY <3>1 DEF Place
    <3>3. F + (g + n) <= W /\ W < F + (g + n) + ArcByteBits /\ W <= F + G
      BY <1>3, <3>1, <3>2
    <3> HIDE DEF F, W, G, g, n
    <3> QED
      BY <1>6, <3>3
  <2> QED
    BY <2>1, <2>2
<1>9. r.rest = <<>>
  <2> HIDE DEF F, W, G, I
  <2>1. I = W - F /\ F + I + 1 \in Int /\ W \in Int /\ W < F + I + 1
    BY <1>6, <1>7, <1>8 DEF Lesser
  <2> DEFINE m == F + I + 1
  <2>2. m \in Int /\ W < m
    BY <2>1
  <2> HIDE DEF m
  <2>3. SubSeq(wire, m, W) = <<>>
    BY <1>6, <2>2, SubSeqEmpty
  <2> QED
    BY <1>7, <2>3 DEF m
<1>10. MustRefill(r, free)
  <2>1. CASE GroupEndsAfter(s, c)
    BY <1>5, <2>1
  <2>2. CASE ~GroupEndsAfter(s, c)
    <3> HIDE DEF F, W, G, I, n, g
    <3>1. r.offset >= r.size
      BY <1>6, <1>7, <1>8, <2>2 DEF Lesser
    <3> QED
      BY <3>1 DEF MustRefill
  <2> QED
    BY <2>1, <2>2
<1>11. WidthFor(r, free) \in INIT_BITS .. Bits
  BY <1>1, <1>5, StateParts
<1> QED
  BY <1>4, <1>9, <1>10, <1>11, RefillEnds

(* having begun where the encoder did.                                     *)
LEMMA ReadFirst ==
  ASSUME ~Damaged, NEW wire \in Seq(Bit), \E b \in Nat : Len(wire) = b * ArcByteBits,
         NEW r \in Readers, NewReader(r, wire),
         NEW d \in CodesNext(NewArcEncoder), CodeAt(wire, NewArcEncoder, d)
  PROVE  /\ getcode(r, FIRST).code = d /\ getcode(r, FIRST).reader \in Readers
         /\ ReaderAt(getcode(r, FIRST).reader, wire, NewArcEncoder)
         /\ getcode(r, FIRST).reader.clear_flg = FALSE
<1> DEFINE s == NewArcEncoder
<1>1. s \in States /\ Framed(s)
  <2>1. PICK es, ts : Sent(s, es, ts)
    BY SentStarts
  <2> HIDE DEF s
  <2> QED
    BY <2>1, SentParts
<1>2. s.group = <<>> /\ s.n_bits = INIT_BITS /\ s.file = <<>>
  BY DEF NewArcEncoder
<1>3. /\ r.n_bits = INIT_BITS /\ r.maxcode = MaxcodeOf(INIT_BITS) /\ r.clear_flg = FALSE
      /\ r.offset = 0 /\ r.size = 0 /\ r.rest = wire
  BY DEF NewReader
<1>4. FIRST \in Nat /\ MaxcodeOf(INIT_BITS) \in Nat /\ ~(FIRST > MaxcodeOf(INIT_BITS))
  <2>1. INIT_BITS \in INIT_BITS .. Bits
    BY ArcSizes
  <2> QED
    BY <2>1, ArcSizes
<1>5. d \in CodesNext(s) /\ CodeAt(wire, s, d)
  OBVIOUS
<1>6. MustRefill(r, FIRST) /\ WidthFor(r, FIRST) = s.n_bits
  BY <1>2, <1>3, <1>4 DEF MustRefill, WidthFor
<1>7. r.rest = SubSeq(wire, Len(s.file) + 1, Len(wire))
  <2>1. Len(s.file) + 1 = 1
    BY <1>2, EmptySeq
  <2>2. SubSeq(wire, 1, Len(wire)) = wire
    BY SubSeqFull
  <2> QED
    BY <1>3, <2>1, <2>2
<1> HIDE DEF s
<1>8. d \in Nat /\ d < 2 ^ s.n_bits
  BY <1>1, <1>5, CodeFits
<1>9. s.n_bits = r.n_bits /\ ~r.clear_flg => r.maxcode = MaxcodeOf(s.n_bits)
  BY <1>2, <1>3
<1>10. /\ getcode(r, FIRST).code = d /\ getcode(r, FIRST).reader \in Readers
       /\ ReaderAt(getcode(r, FIRST).reader, wire, s) /\ getcode(r, FIRST).reader.clear_flg = FALSE
  BY <1>1, <1>2, <1>5, <1>6, <1>7, <1>8, <1>9, RefillReads
<1> QED
  BY <1>10 DEF s

-----------------------------------------------------------------------------
(* What is delivered.  Cutting as it comes cuts the whole.                 *)
LEMMA ClipMore ==
  ASSUME arcLen \in Nat, NEW t \in Seq(Characters), NEW s \in Seq(Characters)
  PROVE  Clip(Clip(t) \o s) = Clip(t \o s)
<1> DEFINE T == Len(t)
           S == Len(s)
           A == arcLen
           v == t \o s
<1>1. T \in Nat /\ S \in Nat /\ A \in Nat
  BY LenProperties
<1>2. /\ v \in Seq(Characters) /\ Len(v) = T + S
      /\ \A i \in 1 .. T + S : v[i] = IF i <= T THEN t[i] ELSE s[i - T]
  BY ConcatProperties
<1>3. Len(t) = T /\ Len(s) = S /\ arcLen = A /\ \A i \in 1 .. T : t[i] \in Characters
  BY LenProperties
<1> HIDE DEF T, S, A, v
<1>4. CASE T <= A
  <2>1. Clip(t) = SubSeq(t, 1, Len(t))
    BY <1>1, <1>3, <1>4 DEF Clip, Lesser
  <2>2. Clip(t) = t
    BY <2>1, SubSeqFull
  <2> QED
    BY <2>2
<1>5. CASE ~(T <= A)
  <2> DEFINE ct == SubSeq(t, 1, A)
             u  == ct \o s
             cu == SubSeq(u, 1, A)
             cv == SubSeq(v, 1, A)
  <2>1. Clip(t) = ct
    BY <1>1, <1>3, <1>5 DEF Clip, Lesser
  <2>2. /\ ct \in Seq(Characters) /\ Len(ct) = (IF 1 <= A THEN A - 1 + 1 ELSE 0)
        /\ \A i \in 1 .. A - 1 + 1 : ct[i] = t[1 + i - 1]
    <3>1. 1 \in Int /\ A \in Int /\ \A i \in 1 .. A : t[i] \in Characters
      BY <1>1, <1>3, <1>5
    <3> QED
      BY <3>1, SubSeqProperties
  <2> HIDE DEF ct
  <2>3. Len(ct) = A /\ \A i \in 1 .. A : ct[i] = t[i]
    <3>1. A - 1 + 1 = A /\ \A i \in 1 .. A : 1 + i - 1 = i
      BY <1>1
    <3> QED
      BY <1>1, <2>2, <3>1
  <2>4. /\ u \in Seq(Characters) /\ Len(u) = Len(ct) + Len(s)
        /\ \A i \in 1 .. Len(ct) + Len(s) : u[i] = IF i <= Len(ct) THEN ct[i] ELSE s[i - Len(ct)]
    BY <2>2, ConcatProperties
  <2> HIDE DEF u
  <2>5. Len(u) = A + S /\ \A i \in 1 .. A : u[i] = t[i] /\ t[i] \in Characters
    BY <1>1, <1>3, <1>5, <2>3, <2>4
  <2>6. \A i \in 1 .. A : v[i] = t[i]
    BY <1>1, <1>2, <1>5
  <2>7. Clip(u) = cu /\ Clip(v) = cv
    <3>1. Lesser(A + S, A) = A /\ Lesser(T + S, A) = A
      BY <1>1, <1>5 DEF Lesser
    <3> QED
      BY <1>2, <1>3, <2>5, <3>1 DEF Clip
  <2>8. /\ cu \in Seq(Characters) /\ Len(cu) = (IF 1 <= A THEN A - 1 + 1 ELSE 0)
        /\ \A i \in 1 .. A - 1 + 1 : cu[i] = u[1 + i - 1]
    <3>1. 1 \in Int /\ A \in Int /\ \A i \in 1 .. A : u[i] \in Characters
      BY <1>1, <2>5
    <3> QED
      BY <3>1, SubSeqProperties
  <2>9. /\ cv \in Seq(Characters) /\ Len(cv) = (IF 1 <= A THEN A - 1 + 1 ELSE 0)
        /\ \A i \in 1 .. A - 1 + 1 : cv[i] = v[1 + i - 1]
    <3>1. 1 \in Int /\ A \in Int /\ \A i \in 1 .. A : v[i] \in Characters
      BY <1>1, <2>5, <2>6
    <3> QED
      BY <3>1, SubSeqProperties
  <2> HIDE DEF cu, cv
  <2>10. Len(cu) = A /\ Len(cv) = A /\ \A i \in 1 .. A : cu[i] = cv[i]
    <3>1. A - 1 + 1 = A /\ \A i \in 1 .. A : 1 + i - 1 = i
      BY <1>1
    <3> QED
      BY <1>1, <2>5, <2>6, <2>8, <2>9, <3>1
  <2>11. cu = cv
    BY <2>8, <2>9, <2>10, SeqEqual
  <2>12. u = Clip(t) \o s
    BY <2>1 DEF u
  <2> QED
    BY <2>7, <2>11, <2>12 DEF v
<1> QED
  BY <1>4, <1>5

(* The text of the codes is the last of the texts.                         *)
LEMMA TextIs ==
  ASSUME NEW e, NEW es, NEW ts, Sent(e, es, ts)
  PROVE  ArcText(e.codes) = ts[Len(e.codes)].text
<1> DEFINE codes == e.codes
           n == Len(codes)
           R(v) == [k \in 0 .. n |-> IF k = 0 THEN NewText ELSE AfterRead(v[k - 1], codes[k])]
           value == CHOOSE v : v = R(v)
<1>1. /\ n \in Nat /\ ts[0] = NewText
      /\ \A k \in 0 .. n - 1 : ts[k + 1] = AfterRead(ts[k], codes[k + 1])
  BY SentParts
<1>2. ts = [k \in 0 .. n |-> ts[k]]
  BY DEF Sent
<1>3. ArcText(codes) = value[n].text
  BY DEF ArcText
<1> HIDE DEF codes, n
<1>4. \A k \in 1 .. n : ts[k] = AfterRead(ts[k - 1], codes[k])
  <2> SUFFICES ASSUME NEW k \in 1 .. n PROVE ts[k] = AfterRead(ts[k - 1], codes[k])
    OBVIOUS
  <2>1. k - 1 \in 0 .. n - 1 /\ (k - 1) + 1 = k
    BY <1>1
  <2> QED
    BY <1>1, <2>1
<1>5. ts = R(ts)
  <2>1. \A k \in 0 .. n : ts[k] = IF k = 0 THEN NewText ELSE AfterRead(ts[k - 1], codes[k])
    <3> SUFFICES ASSUME NEW k \in 0 .. n
                 PROVE  ts[k] = IF k = 0 THEN NewText ELSE AfterRead(ts[k - 1], codes[k])
      OBVIOUS
    <3>1. k = 0 \/ k \in 1 .. n
      BY <1>1
    <3> QED
      BY <1>1, <1>4, <3>1
  <2> QED
    BY <1>2, <2>1
<1>6. value = R(value)
  <2> HIDE DEF R
  <2> QED
    BY <1>5
<1> HIDE DEF value
<1>7. value[0] = NewText /\ \A k \in 1 .. n : value[k] = AfterRead(value[k - 1], codes[k])
  <2> DEFINE w == value
  <2>1. w = [k \in 0 .. n |-> IF k = 0 THEN NewText ELSE AfterRead(w[k - 1], codes[k])]
    BY <1>6
  <2> HIDE DEF w
  <2>2. \A k \in 0 .. n : w[k] = IF k = 0 THEN NewText ELSE AfterRead(w[k - 1], codes[k])
    BY <2>1
  <2>3. 0 \in 0 .. n /\ \A k \in 1 .. n : k \in 0 .. n /\ k # 0
    BY <1>1
  <2>4. w[0] = NewText /\ \A k \in 1 .. n : w[k] = AfterRead(w[k - 1], codes[k])
    BY <2>2, <2>3
  <2> QED
    BY <2>4 DEF w
<1> DEFINE S == {k \in 0 .. n : value[k] = ts[k]}
<1>8. 0 \in S
  BY <1>1, <1>7
<1>9. ASSUME NEW k \in 0 .. n - 1, k \in S PROVE k + 1 \in S
  <2>1. k + 1 \in 1 .. n /\ (k + 1) - 1 = k /\ k + 1 \in 0 .. n
    BY <1>1
  <2>2. value[k + 1] = AfterRead(value[k], codes[k + 1]) /\ ts[k + 1] = AfterRead(ts[k], codes[k + 1])
    BY <1>1, <1>7, <2>1
  <2> QED
    BY <1>9, <2>1, <2>2
<1>10. n \in S
  <2> HIDE DEF S
  <2>1. 0 \in Int /\ n \in Int /\ n \in 0 .. n
    BY <1>1
  <2>2. \A k \in 0 .. n : k \in S
    BY <1>8, <1>9, <2>1, Upwards
  <2> QED
    BY <2>1, <2>2
<1> QED
  BY <1>3, <1>10 DEF codes, n

-----------------------------------------------------------------------------
(* The tables.  A code in use has its string.                              *)
LEMMA ArcStringIs ==
  ASSUME NEW t \in Texts, TableHolds(t), NEW c \in InUse(t)
  PROVE  ArcString(c) = KnownString(t, c)
<1> DEFINE M == max_maxcode
           D == AllCodes
           S == [D -> Seq(Nat)]
           one(s) == [d \in D |-> IF d < ArcLiterals \/ prefix[d] \notin D THEN <<d>>
                                  ELSE Append(s[prefix[d]], suffix[d])]
           step == [k \in 0 .. M - 1 |-> [s \in S |-> one(s)]]
           none == [d \in D |-> <<d>>]
           R(v) == [k \in 0 .. M |->
                      [d \in D |->
                         IF d < ArcLiterals \/ k = 0 \/ prefix[d] \notin D THEN <<d>>
                         ELSE Append(v[k - 1][prefix[d]], suffix[d])]]
           value == CHOOSE v : v = R(v)
           f == NewEntry(t)
<1>1. /\ M \in Nat /\ D = 0 .. M - 1 /\ ArcLiterals \in Nat /\ ArcLiterals < M
      /\ FIRST = ArcLiterals + 1 /\ f \in Int
  <2>1. t.entries \in Seq(Seq(Characters) \ {<<>>})
    BY DEF Texts
  <2>2. f \in Int
    BY <2>1, ArcSizes, LenProperties DEF NewEntry
  <2>3. M \in Nat /\ D = 0 .. M - 1 /\ ArcLiterals \in Nat /\ FIRST = ArcLiterals + 1 /\ FIRST < M
    BY ArcSizes DEF AllCodes
  <2> HIDE DEF M, D, f
  <2> QED
    BY <2>2, <2>3
<1>2. /\ DOMAIN prefix = D /\ \A d \in D : prefix[d] \in Nat /\ suffix[d] \in Nat
      /\ \A d \in FIRST .. f - 1 :
           /\ prefix[d] \in InUse(t) /\ prefix[d] < d
           /\ KnownString(t, d) = Append(KnownString(t, prefix[d]), suffix[d])
      /\ InUse(t) = Characters \cup (FIRST .. f - 1) /\ f <= M
  BY DEF TableHolds, InUse
<1>3. \A s \in S : one(s) \in S
  <2> SUFFICES ASSUME NEW s \in S, NEW d \in D
               PROVE  (IF d < ArcLiterals \/ prefix[d] \notin D THEN <<d>>
                       ELSE Append(s[prefix[d]], suffix[d])) \in Seq(Nat)
    OBVIOUS
  <2>1. CASE d < ArcLiterals \/ prefix[d] \notin D
    <3>1. d \in Nat
      BY <1>1
    <3> QED
      BY <2>1, <3>1
  <2>2. CASE ~(d < ArcLiterals \/ prefix[d] \notin D)
    <3>1. s[prefix[d]] \in Seq(Nat) /\ suffix[d] \in Nat
      BY <1>2, <2>2
    <3> QED
      BY <2>2, <3>1, AppendProperties
  <2> QED
    BY <2>1, <2>2
<1>4. PICK g : Solves(g, M, S, none, step)
  <2>1. none \in S
    BY <1>1
  <2>2. step \in [0 .. M - 1 -> [S -> S]]
    <3> HIDE DEF S, one
    <3> QED
      BY <1>3
  <2> HIDE DEF M, S, none, step
  <2>3. Recursion(M, S, none, step)
    BY <1>1, <2>1, <2>2 DEF Recursion
  <2> QED
    BY <2>3, RecursionExists
<1>5. g \in [0 .. M -> S] /\ g[0] = none /\ \A k \in 0 .. M - 1 : g[k + 1] = step[k][g[k]]
  <2> HIDE DEF M, S, none, step
  <2> QED
    BY <1>4 DEF Solves
<1> HIDE DEF M, D, f
<1>6. g = R(g)
  <2>1. ASSUME NEW n \in 0 .. M
        PROVE  g[n] = [d \in D |->
                         IF d < ArcLiterals \/ n = 0 \/ prefix[d] \notin D THEN <<d>>
                         ELSE Append(g[n - 1][prefix[d]], suffix[d])]
    <3>1. CASE n = 0
      BY <1>5, <3>1
    <3>2. CASE n # 0
      <4> DEFINE k == n - 1
      <4>1. k \in 0 .. M - 1 /\ k + 1 = n /\ k \in 0 .. M
        BY <1>1, <3>2
      <4>2. g[k] \in S /\ g[k + 1] = step[k][g[k]]
        BY <1>5, <4>1
      <4>3. g[n] = one(g[k])
        <5> HIDE DEF S, one
        <5> QED
          BY <4>1, <4>2
      <4> QED
        BY <3>2, <4>3
    <3> QED
      BY <3>1, <3>2
  <2>2. g = [n \in 0 .. M |-> g[n]]
    BY <1>5
  <2>3. R(g) = [n \in 0 .. M |-> g[n]]
    BY <2>1
  <2> QED
    BY <2>2, <2>3
<1>7. value = R(value)
  <2> HIDE DEF R
  <2> QED
    BY <1>6
<1>8. ArcString(c) = value[M][c]
  BY <1>2 DEF ArcString, M
<1> HIDE DEF value
<1>9. ASSUME NEW k \in 0 .. M - 1, NEW d \in D
      PROVE  value[k + 1][d] = IF d < ArcLiterals \/ prefix[d] \notin D THEN <<d>>
                               ELSE Append(value[k][prefix[d]], suffix[d])
  <2>1. k + 1 \in 0 .. M /\ k + 1 # 0 /\ (k + 1) - 1 = k
    BY <1>1
  <2>2. value[k + 1] = R(value)[k + 1]
    <3> HIDE DEF R
    <3> QED
      BY <1>7
  <2> QED
    BY <2>1, <2>2
<1> HIDE DEF R
<1>10. \A x \in InUse(t) : x \in D /\ x < M /\ x \in Nat
  <2> SUFFICES ASSUME NEW x \in InUse(t) PROVE x \in D /\ x < M /\ x \in Nat
    OBVIOUS
  <2>1. CASE x \in Characters
    BY <1>1, <2>1 DEF Characters
  <2>2. CASE x \in FIRST .. f - 1
    BY <1>1, <1>2, <2>2
  <2> QED
    BY <1>2, <2>1, <2>2
<1> DEFINE T == {k \in 0 .. M : \A x \in InUse(t) : x < k => value[k][x] = KnownString(t, x)}
<1>11. 0 \in T
  <2>1. \A x \in InUse(t) : ~(x < 0)
    BY <1>10
  <2> QED
    BY <1>1, <2>1
<1>12. ASSUME NEW k \in 0 .. M - 1, k \in T PROVE k + 1 \in T
  <2>1. k + 1 \in 0 .. M
    BY <1>1
  <2>2. SUFFICES ASSUME NEW x \in InUse(t), x < k + 1 PROVE value[k + 1][x] = KnownString(t, x)
    BY <2>1
  <2>3. CASE x \in Characters
    <3>1. x < ArcLiterals
      BY <1>1, <2>3 DEF Characters
    <3> QED
      BY <1>9, <1>10, <3>1 DEF KnownString
  <2>4. CASE x \notin Characters
    <3>1. x \in FIRST .. f - 1
      BY <1>2, <2>4
    <3> DEFINE p == prefix[x]
    <3>2. p \in InUse(t) /\ p < x /\ KnownString(t, x) = Append(KnownString(t, p), suffix[x])
      BY <1>2, <3>1
    <3>7. ~(x < ArcLiterals)
      BY <1>1, <3>1
    <3>3. ~(x < ArcLiterals) /\ p \in D
      BY <1>10, <3>2, <3>7
    <3>4. value[k + 1][x] = Append(value[k][p], suffix[x])
      BY <1>9, <1>10, <3>3
    <3> HIDE DEF p
    <3>5. p < k
      BY <1>10, <2>2, <3>2
    <3>6. value[k][p] = KnownString(t, p)
      BY <1>12, <3>2, <3>5
    <3> QED
      BY <3>2, <3>4, <3>6
  <2> QED
    BY <2>3, <2>4
<1>13. M \in T
  <2> HIDE DEF T
  <2>1. 0 \in Int /\ M \in Int /\ M \in 0 .. M
    BY <1>1
  <2>2. \A k \in 0 .. M - 1 : k \in T => k + 1 \in T
    BY <1>12
  <2>3. \A k \in 0 .. M : k \in T
    BY <1>11, <2>1, <2>2, Upwards
  <2> QED
    BY <2>1, <2>3
<1> QED
  BY <1>8, <1>10, <1>13

(* An entry more.                                                          *)
LEMMA TableGrows ==
  ASSUME ~Damaged, NEW e \in States, Framed(e), NEW t \in Texts, InStep(e, t),
         NEW c \in CodesNext(e), c # ARC_CLEAR, t.prev # <<>>, TableHolds(t), LastRead(t),
         AddEntry(free_ent, Head(StringIn(t, c))), oldcode' = c, finchar' = Head(StringIn(t, c))
  PROVE  TableHolds(AfterRead(t, c))' /\ LastRead(AfterRead(t, c))'
<1> DEFINE string == StringIn(t, c)
           h  == Head(string)
           n  == Len(t.entries)
           t2 == AfterRead(t, c)
           f  == NewEntry(t)
           entry == Append(t.prev, h)
<1>1. /\ string \in Seq(Characters) /\ string # <<>> /\ h \in Characters
      /\ c \in InUse(t) => string = KnownString(t, c)
      /\ c \notin InUse(t) => /\ c = f /\ f < max_maxcode
                              /\ string = Append(t.prev, Head(t.prev))
  BY StringInIs DEF NewEntry
<1>2. /\ t.prev \in Seq(Characters) /\ t.entries \in Seq(Seq(Characters) \ {<<>>}) /\ n \in Nat
  <2>1. t.prev \in Seq(Characters) /\ t.entries \in Seq(Seq(Characters) \ {<<>>})
    BY DEF Texts
  <2> QED
    BY <2>1, LenProperties
<1>11. Len(t.entries) = n /\ f = FIRST + n
  BY DEF NewEntry
<1> HIDE DEF n, f
<1>3. /\ prefix \in [AllCodes -> Nat] /\ suffix \in [AllCodes -> Nat]
      /\ free_ent = f /\ f <= max_maxcode
      /\ \A x \in FIRST .. f - 1 :
           /\ prefix[x] \in InUse(t) /\ prefix[x] < x
           /\ KnownString(t, x) = Append(KnownString(t, prefix[x]), suffix[x])
  BY DEF TableHolds, f
<1>4. oldcode \in InUse(t) /\ t.prev = KnownString(t, oldcode)
  BY DEF LastRead
<1>5. InUse(t) = Characters \cup (FIRST .. f - 1)
  BY DEF InUse, f
<1>6. /\ FIRST \in Nat /\ max_maxcode \in Nat /\ AllCodes = 0 .. max_maxcode - 1 /\ f \in Nat
      /\ FIRST <= f /\ Characters = 0 .. ArcLiterals - 1 /\ ARC_CLEAR = ArcLiterals /\ ArcLiterals \in Nat
      /\ FIRST = ArcLiterals + 1 /\ FIRST < max_maxcode
  BY <1>2, <1>11, ArcSizes DEF AllCodes, Characters
<1>7. /\ t2.prev = string
      /\ t2.entries = IF t.prev = <<>> \/ f >= max_maxcode THEN t.entries ELSE Append(t.entries, entry)
  BY <1>11 DEF AfterRead
<1>8. AddEntry(f, h)
  BY <1>3
<1>9. oldcode' = c /\ finchar' = h
  OBVIOUS
<1>10. entry \in Seq(Characters) /\ entry # <<>>
  <2> HIDE DEF h
  <2> QED
    BY <1>1, <1>2, AppendProperties
<1> HIDE DEF string, t2
<1>12. \A x \in InUse(t) : x \in Nat /\ x < f
  <2> SUFFICES ASSUME NEW x \in InUse(t) PROVE x \in Nat /\ x < f
    OBVIOUS
  <2>1. CASE x \in Characters
    <3>1. x \in Nat /\ x < ArcLiterals
      BY <1>6, <2>1
    <3> QED
      BY <1>6, <3>1
  <2>2. CASE x \in FIRST .. f - 1
    <3>1. x \in Nat /\ FIRST <= x /\ x < f /\ f <= max_maxcode
      BY <1>3, <1>6, <2>2
    <3> QED
      BY <1>6, <3>1
  <2> QED
    BY <1>5, <2>1, <2>2
<1>13. CASE f < max_maxcode
  <2>1. /\ prefix' = [prefix EXCEPT ![f] = oldcode] /\ suffix' = [suffix EXCEPT ![f] = h] /\ free_ent' = f + 1
    BY <1>8, <1>13 DEF AddEntry
  <2> DEFINE grown == Append(t.entries, entry)
  <2>2. t2.entries = grown
    <3>1. ~(f >= max_maxcode)
      BY <1>6, <1>13
    <3> HIDE DEF entry
    <3> QED
      BY <1>7, <3>1
  <2>3. /\ Len(grown) = n + 1 /\ grown[n + 1] = entry /\ \A i \in 1 .. n : grown[i] = t.entries[i]
    <3> DEFINE old == t.entries
               S   == Seq(Characters) \ {<<>>}
    <3>1. old \in Seq(S) /\ entry \in S /\ Len(old) = n
      BY <1>2, <1>10, <1>11
    <3> HIDE DEF entry, old, S
    <3>2. /\ Len(Append(old, entry)) = Len(old) + 1 /\ Append(old, entry)[Len(old) + 1] = entry
          /\ \A i \in 1 .. Len(old) : Append(old, entry)[i] = old[i]
      BY <3>1, AppendProperties
    <3> QED
      BY <3>1, <3>2 DEF old
  <2> DEFINE p2 == [prefix EXCEPT ![f] = oldcode]
             s2 == [suffix EXCEPT ![f] = h]
  <2>4. f \in AllCodes
    BY <1>6, <1>13
  <2>5. /\ p2 \in [AllCodes -> Nat] /\ s2 \in [AllCodes -> Nat]
        /\ p2[f] = oldcode /\ s2[f] = h
        /\ \A x \in AllCodes : x # f => p2[x] = prefix[x] /\ s2[x] = suffix[x]
    <3>1. oldcode \in Nat /\ h \in Nat
      BY <1>1, <1>4, <1>6, <1>12
    <3> QED
      BY <1>3, <2>4, <3>1
  <2>6. prefix' = p2 /\ suffix' = s2
    BY <2>1
  <2> HIDE DEF p2, s2, grown, entry, h
  <2>7. FIRST + (n + 1) = f + 1 /\ (f + 1) - 1 = f
    BY <1>2, <1>6, <1>11
  <2>8. NewEntry(t2) = f + 1
    BY <2>2, <2>3, <2>7 DEF NewEntry
  <2>9. InUse(t2) = Characters \cup (FIRST .. f)
    BY <2>7, <2>8 DEF InUse
  <2>10. \A x \in InUse(t) : x \in InUse(t2) /\ KnownString(t2, x) = KnownString(t, x)
    <3> SUFFICES ASSUME NEW x \in InUse(t) PROVE x \in InUse(t2) /\ KnownString(t2, x) = KnownString(t, x)
      OBVIOUS
    <3>1. CASE x \in Characters
      <4>1. x < ArcLiterals
        BY <1>6, <3>1
      <4> QED
        BY <2>9, <3>1, <4>1 DEF KnownString
    <3>2. CASE x \in FIRST .. f - 1
      <4>3. /\ f \in Nat /\ FIRST \in Nat /\ n \in Nat /\ ArcLiterals \in Nat
            /\ f = FIRST + n /\ FIRST = ArcLiterals + 1
        BY <1>2, <1>6, <1>11
      <4>1. x \in FIRST .. f /\ ~(x < ArcLiterals) /\ x - FIRST + 1 \in 1 .. n
        BY <3>2, <4>3
      <4>2. t2.entries[x - FIRST + 1] = t.entries[x - FIRST + 1]
        BY <2>2, <2>3, <4>1
      <4> QED
        BY <2>9, <4>1, <4>2 DEF KnownString
    <3> QED
      BY <1>5, <3>1, <3>2
  <2>11. f \in InUse(t2) /\ KnownString(t2, f) = entry
    <3>3. /\ f \in Nat /\ FIRST \in Nat /\ n \in Nat /\ ArcLiterals \in Nat
          /\ FIRST <= f /\ f = FIRST + n /\ FIRST = ArcLiterals + 1
      BY <1>2, <1>6, <1>11
    <3>1. f \in FIRST .. f /\ ~(f < ArcLiterals) /\ f - FIRST + 1 = n + 1
      BY <3>3
    <3>2. t2.entries[f - FIRST + 1] = entry
      BY <2>2, <2>3, <3>1
    <3> QED
      BY <2>9, <3>1, <3>2 DEF KnownString
  <2>13. \A x \in FIRST .. f :
           /\ p2[x] \in InUse(t2) /\ p2[x] < x
           /\ KnownString(t2, x) = Append(KnownString(t2, p2[x]), s2[x])
    <3> SUFFICES ASSUME NEW x \in FIRST .. f
                 PROVE  /\ p2[x] \in InUse(t2) /\ p2[x] < x
                        /\ KnownString(t2, x) = Append(KnownString(t2, p2[x]), s2[x])
      OBVIOUS
    <3>1. CASE x = f
      <4>1. p2[x] = oldcode /\ s2[x] = h /\ KnownString(t2, oldcode) = t.prev /\ oldcode \in InUse(t2)
        BY <1>4, <2>5, <2>10, <3>1
      <4> QED
        BY <1>4, <1>12, <2>11, <3>1, <4>1 DEF entry
    <3>2. CASE x # f
      <4>1. x \in FIRST .. f - 1 /\ x \in AllCodes
        BY <1>3, <1>6, <3>2
      <4>2. p2[x] = prefix[x] /\ s2[x] = suffix[x] /\ x \in InUse(t) /\ prefix[x] \in InUse(t) /\ prefix[x] < x
            /\ KnownString(t, x) = Append(KnownString(t, prefix[x]), suffix[x])
        BY <1>3, <1>5, <2>5, <3>2, <4>1
      <4> QED
        BY <2>10, <4>2
    <3> QED
      BY <3>1, <3>2
  <2>14. f + 1 <= max_maxcode
    BY <1>6, <1>13
  <2>15. TableHolds(t2)'
    BY <2>1, <2>5, <2>6, <2>7, <2>8, <2>13, <2>14 DEF TableHolds
  <2>16. c \in InUse(t2) /\ KnownString(t2, c) = string
    <3>1. CASE c \in InUse(t)
      BY <1>1, <2>10, <3>1
    <3>2. CASE c \notin InUse(t)
      <4>1. c = f /\ string = Append(t.prev, Head(t.prev)) /\ h = Head(string)
        BY <1>1, <3>2 DEF h
      <4>2. Head(string) = Head(t.prev)
        <5>1. t.prev # <<>> /\ Head(t.prev) \in Characters
          BY <1>2, HeadTailProperties
        <5>2. Head(Append(t.prev, Head(t.prev))) = Head(t.prev)
          BY <1>2, <5>1, HeadTailAppend
        <5> QED
          BY <4>1, <5>2
      <4> QED
        BY <2>11, <4>1, <4>2 DEF entry
    <3> QED
      BY <3>1, <3>2
  <2>17. LastRead(t2)'
    BY <1>7, <1>9, <2>16 DEF LastRead, h
  <2> QED
    BY <2>15, <2>17 DEF t2
<1>14. CASE ~(f < max_maxcode)
  <2>1. prefix' = prefix /\ suffix' = suffix /\ free_ent' = f
    BY <1>8, <1>14 DEF AddEntry
  <2>2. t2.entries = t.entries
    <3>1. f >= max_maxcode
      BY <1>6, <1>14
    <3> HIDE DEF entry
    <3> QED
      BY <1>7, <3>1
  <2>3. InUse(t2) = InUse(t) /\ \A x : KnownString(t2, x) = KnownString(t, x)
    BY <2>2 DEF InUse, KnownString, NewEntry
  <2>4. TableHolds(t2)'
    <3>1. NewEntry(t2) = f
      BY <2>2 DEF NewEntry, f
    <3> QED
      BY <1>3, <2>1, <2>3, <3>1 DEF TableHolds
  <2>5. c \in InUse(t2) /\ KnownString(t2, c) = string
    BY <1>1, <1>14, <2>3
  <2>6. LastRead(t2)'
    BY <1>7, <1>9, <2>5 DEF LastRead
  <2> QED
    BY <2>4, <2>6 DEF t2
<1> QED
  BY <1>13, <1>14

(* The tables before the first code.                                       *)
LEMMA TableFresh ==
  ASSUME NEW junk \in Nat, free_ent' = FIRST, prefix' = EmptyTable(junk), suffix' = Alphabet(junk)
  PROVE  TableHolds(NewText)'
<1>1. /\ FIRST \in Nat /\ max_maxcode \in Nat /\ FIRST <= max_maxcode
      /\ AllCodes = 0 .. max_maxcode - 1 /\ FIRST + 0 = FIRST /\ FIRST .. FIRST - 1 = {}
  BY ArcSizes DEF AllCodes
<1>2. NewEntry(NewText) = FIRST
  BY <1>1 DEF NewEntry, NewText
<1>3. EmptyTable(junk) \in [AllCodes -> Nat] /\ Alphabet(junk) \in [AllCodes -> Nat]
  BY <1>1 DEF EmptyTable, Alphabet
<1> QED
  BY <1>1, <1>2, <1>3 DEF TableHolds

(* A text without a code before has no entries, nor has it one after the   *)
(* next code, which is a literal.                                          *)
LEMMA LiteralRead ==
  ASSUME NEW t \in Texts, t.prev = <<>>, t.entries = <<>>, NEW c \in Characters
  PROVE  /\ NewEntry(AfterRead(t, c)) = FIRST /\ AfterRead(t, c).prev = <<c>>
         /\ AfterRead(t, c).text = t.text \o <<c>>
         /\ c \in InUse(AfterRead(t, c)) /\ KnownString(AfterRead(t, c), c) = <<c>>
<1>1. c < ArcLiterals /\ c # ARC_CLEAR /\ FIRST \in Nat /\ FIRST + 0 = FIRST
  BY ArcSizes DEF Characters
<1>2. StringIn(t, c) = <<c>>
  BY <1>1 DEF StringIn
<1>3. AfterRead(t, c) = [text |-> t.text \o <<c>>, prev |-> <<c>>, entries |-> <<>>]
  BY <1>1, <1>2 DEF AfterRead
<1>4. NewEntry(AfterRead(t, c)) = FIRST
  BY <1>1, <1>3 DEF NewEntry
<1> QED
  BY <1>1, <1>3, <1>4 DEF InUse, KnownString

(* The tables after a literal with none before it.                         *)
LEMMA TableFirst ==
  ASSUME NEW t \in Texts, t.prev = <<>>, t.entries = <<>>, NEW c \in Characters,
         free_ent' = FIRST, prefix' \in [AllCodes -> Nat], suffix' \in [AllCodes -> Nat],
         oldcode' = c, finchar' = c
  PROVE  TableHolds(AfterRead(t, c))' /\ LastRead(AfterRead(t, c))'
<1> DEFINE t2 == AfterRead(t, c)
<1>1. NewEntry(t2) = FIRST /\ t2.prev = <<c>> /\ c \in InUse(t2) /\ KnownString(t2, c) = <<c>>
  BY LiteralRead
<1>2. FIRST \in Nat /\ FIRST <= max_maxcode /\ FIRST .. FIRST - 1 = {} /\ Head(<<c>>) = c
  BY ArcSizes
<1> HIDE DEF t2
<1>3. TableHolds(t2)'
  BY <1>1, <1>2 DEF TableHolds
<1>4. LastRead(t2)'
  BY <1>1, <1>2 DEF LastRead
<1> QED
  BY <1>3, <1>4 DEF t2

(* The entry of a literal behind a CLEAR is the CLEAR code's.              *)
LEMMA TableCleared ==
  ASSUME NEW t \in Texts, TableHolds(t), oldcode \in Nat,
         NEW t1 \in Texts, t1.prev = <<>>, t1.entries = <<>>, NEW c \in Characters,
         AddEntry(FreeAfterClear, c), oldcode' = c, finchar' = c
  PROVE  TableHolds(AfterRead(t1, c))' /\ LastRead(AfterRead(t1, c))'
<1>1. /\ FreeAfterClear \in AllCodes /\ FreeAfterClear < max_maxcode /\ FreeAfterClear + 1 = FIRST
      /\ c \in Nat
  BY ArcSizes DEF FreeAfterClear, AllCodes, Characters
<1>2. prefix \in [AllCodes -> Nat] /\ suffix \in [AllCodes -> Nat]
  BY DEF TableHolds
<1>3. /\ prefix' = [prefix EXCEPT ![FreeAfterClear] = oldcode]
      /\ suffix' = [suffix EXCEPT ![FreeAfterClear] = c] /\ free_ent' = FIRST
  BY <1>1 DEF AddEntry
<1> HIDE DEF FreeAfterClear
<1>4. prefix' \in [AllCodes -> Nat] /\ suffix' \in [AllCodes -> Nat]
  BY <1>1, <1>2, <1>3
<1> QED
  BY <1>3, <1>4, TableFirst

(* Codes in use are naturals.                                              *)
LEMMA InUseIs ==
  ASSUME NEW t \in Texts, NEW x \in InUse(t)
  PROVE  x \in Nat
<1>1. FIRST \in Nat /\ ArcLiterals \in Nat
  BY ArcSizes
<1>2. CASE x \in Characters
  BY <1>1, <1>2 DEF Characters
<1>3. CASE x \in FIRST .. NewEntry(t) - 1
  <2> DEFINE m == NewEntry(t) - 1
  <2>1. x \in FIRST .. m
    BY <1>3
  <2> HIDE DEF m
  <2> QED
    BY <1>1, <2>1
<1> QED
  BY <1>2, <1>3 DEF InUse

(* Who has read a code is where its sender was: their free entries are the *)
(* same.                                                                   *)
LEMMA FreeInStep ==
  ASSUME ~Damaged, NEW e \in States, Framed(e), NEW t \in Texts, InStep(e, t),
         NEW c \in CodesNext(e), c # ARC_CLEAR
  PROVE  e.free = NewEntry(AfterRead(t, c)) /\ AfterRead(t, c).prev # <<>>
<1> DEFINE old == t.entries
           entry == Append(t.prev, Head(StringIn(t, c)))
           n == Len(old)
           f == FIRST + n
           t2 == AfterRead(t, c)
<1>1. /\ StringIn(t, c) # <<>> /\ Head(StringIn(t, c)) \in Characters
  BY StringInIs
<1>2. /\ t2.prev = StringIn(t, c)
      /\ t2.entries = IF t.prev = <<>> \/ f >= max_maxcode THEN old ELSE Append(old, entry)
  BY DEF AfterRead
<1>3. old \in Seq(Seq(Characters) \ {<<>>}) /\ t.prev \in Seq(Characters)
  BY DEF Texts
<1>4. entry \in Seq(Characters) \ {<<>>}
  BY <1>1, <1>3, AppendProperties
<1>5. n \in Nat /\ FIRST \in Nat /\ max_maxcode \in Nat
  BY <1>3, ArcSizes, LenProperties
<1> HIDE DEF entry
<1>6. Len(Append(old, entry)) = n + 1
  BY <1>3, <1>4, AppendProperties
<1>7. /\ t.prev = <<>> => e.free = FIRST /\ n = 0
      /\ t.prev # <<>> => e.free = Lesser(f + 1, max_maxcode)
      /\ f <= max_maxcode
  BY DEF InStep
<1>8. NewEntry(t2) = FIRST + Len(t2.entries)
  BY DEF NewEntry
<1>9. CASE t.prev = <<>>
  <2>1. t2.entries = old /\ e.free = FIRST /\ n = 0
    BY <1>2, <1>7, <1>9
  <2> HIDE DEF t2, n
  <2>2. NewEntry(t2) = FIRST + n
    BY <1>8, <2>1 DEF n
  <2> QED
    BY <1>1, <1>2, <1>5, <2>1, <2>2 DEF t2
<1>10. CASE t.prev # <<>>
  <2>1. e.free = Lesser(f + 1, max_maxcode)
    BY <1>7, <1>10
  <2>2. CASE f >= max_maxcode
    <3>1. NewEntry(t2) = f
      BY <1>2, <1>8, <2>2
    <3>2. Lesser(f + 1, max_maxcode) = f
      <4> HIDE DEF n
      <4> QED
        BY <1>5, <1>7, <2>2 DEF Lesser
    <3> QED
      BY <1>1, <1>2, <2>1, <3>1, <3>2
  <2>3. CASE ~(f >= max_maxcode)
    <3>1. t2.entries = Append(old, entry)
      BY <1>2, <1>10, <2>3
    <3>2. NewEntry(t2) = FIRST + (n + 1)
      BY <1>6, <1>8, <3>1
    <3>3. Lesser(f + 1, max_maxcode) = FIRST + (n + 1)
      <4> HIDE DEF n
      <4> QED
        BY <1>5, <1>7, <2>3 DEF Lesser
    <3> QED
      BY <1>1, <1>2, <2>1, <3>2, <3>3
  <2> QED
    BY <2>2, <2>3
<1> QED
  BY <1>9, <1>10

(* The stack delivers the string of the code, whether the decoder has its  *)
(* entry or makes it now.                                                  *)
LEMMA StringDelivered ==
  ASSUME ~Damaged, NEW e \in States, Framed(e), NEW t \in Texts, InStep(e, t), t.prev # <<>>,
         NEW d \in CodesNext(e), d # ARC_CLEAR, TableHolds(t), LastRead(t)
  PROVE  /\ d \in Nat /\ d <= free_ent
         /\ d = free_ent => Append(ArcString(oldcode), finchar) = StringIn(t, d)
         /\ d # free_ent => ArcString(d) = StringIn(t, d)
<1> DEFINE n == Len(t.entries)
           f == NewEntry(t)
<1>1. n \in Nat /\ FIRST \in Nat /\ max_maxcode \in Nat /\ f = FIRST + n /\ FIRST = ArcLiterals + 1
      /\ ArcLiterals \in Nat
  <2>1. t.entries \in Seq(Seq(Characters) \ {<<>>})
    BY DEF Texts
  <2> QED
    BY <2>1, ArcSizes, LenProperties DEF NewEntry
<1>2. free_ent = f
  BY DEF TableHolds
<1>3. e.free = Lesser(FIRST + n + 1, max_maxcode)
  BY DEF InStep
<1>4. d \in Nat /\ d < e.free /\ (d \notin Characters => d \in FIRST .. e.free - 1)
  BY CodeFits
<1>5. InUse(t) = Characters \cup (FIRST .. f - 1)
  BY DEF InUse
<1>6. /\ d \in InUse(t) => StringIn(t, d) = KnownString(t, d)
      /\ d \notin InUse(t) => StringIn(t, d) = Append(t.prev, Head(t.prev))
  BY StringInIs
<1> HIDE DEF n, f
<1>7. e.free <= f + 1 /\ e.free \in Nat
  BY <1>1, <1>3 DEF Lesser
<1>8. d <= f /\ f \in Nat
  BY <1>1, <1>4, <1>7
<1>9. d # f => d \in InUse(t)
  <2>1. CASE d \in Characters
    BY <1>5, <2>1
  <2>2. CASE d \notin Characters
    <3>1. FIRST <= d
      BY <1>1, <1>4, <1>7, <2>2
    <3>2. d # f => d \in FIRST .. f - 1
      BY <1>1, <1>4, <1>8, <3>1
    <3> QED
      BY <1>5, <3>2
  <2> QED
    BY <2>1, <2>2
<1>10. f \notin InUse(t)
  <2>1. f \notin Characters
    BY <1>1 DEF Characters
  <2>2. f \notin FIRST .. f - 1
    BY <1>1, <1>8
  <2> QED
    BY <1>5, <2>1, <2>2
<1>11. d # f => ArcString(d) = StringIn(t, d)
  BY <1>6, <1>9, ArcStringIs
<1>12. oldcode \in InUse(t) /\ t.prev = KnownString(t, oldcode) /\ finchar = Head(t.prev)
  BY DEF LastRead
<1>13. ArcString(oldcode) = t.prev
  BY <1>12, ArcStringIs
<1>14. d = f => Append(ArcString(oldcode), finchar) = StringIn(t, d)
  BY <1>6, <1>10, <1>12, <1>13
<1> QED
  BY <1>2, <1>4, <1>8, <1>11, <1>14

(* The codes stand in the finished stream, which is whole bytes.           *)
LEMMA OnWire ==
  ASSUME NEW e, NEW es, NEW ts, Sent(e, es, ts)
  PROVE  /\ Wire(e) \in Seq(Bit) /\ \E b \in Nat : Len(Wire(e)) = b * ArcByteBits
         /\ \A k \in 0 .. Len(e.codes) - 1 : CodeAt(Wire(e), es[k], e.codes[k + 1])
         /\ e.codes = <<>> => Wire(e) = <<>>
         /\ e.codes # <<>> => Wire(e) # <<>>
<1>1. /\ e \in States /\ Framed(e) /\ e.codes \in Seq(AllCodes) /\ Len(e.codes) \in Nat
      /\ es[0] = NewArcEncoder /\ es[Len(e.codes)] = e
      /\ \A k \in 0 .. Len(e.codes) : es[k] \in States
      /\ \A k \in 0 .. Len(e.codes) - 1 : CodeAt(Raw(e), es[k], e.codes[k + 1])
  BY SentParts
<1>2. /\ Wire(e) \in Seq(Bit) /\ Len(Wire(e)) \in Nat
      /\ Len(Raw(e)) \in Nat /\ Len(Raw(e)) <= Len(Wire(e))
      /\ \A i \in 1 .. Len(Raw(e)) : Wire(e)[i] = Raw(e)[i]
      /\ \E b \in Nat : Len(Wire(e)) = b * ArcByteBits
      /\ e.group = <<>> => Len(Wire(e)) = Len(e.file)
  BY <1>1, WireIs
<1>3. ASSUME NEW k \in 0 .. Len(e.codes) - 1
      PROVE  CodeAt(Wire(e), es[k], e.codes[k + 1])
  <2>1. es[k] \in States /\ CodeAt(Raw(e), es[k], e.codes[k + 1])
    <3> DEFINE n == Len(e.codes)
    <3>1. n \in Nat /\ k \in 0 .. n - 1
      BY <1>1
    <3> HIDE DEF n
    <3>2. k \in 0 .. n
      BY <3>1
    <3> QED
      BY <1>1, <3>2 DEF n
  <2> QED
    BY <1>2, <2>1, CodeStays
<1>4. ASSUME e.codes = <<>> PROVE Wire(e) = <<>>
  <2>1. e = NewArcEncoder
    BY <1>1, <1>4
  <2>2. Len(Wire(e)) = 0
    BY <1>2, <2>1 DEF NewArcEncoder
  <2> QED
    BY <1>2, <2>2, EmptySeq
<1>5. ASSUME e.codes # <<>> PROVE Wire(e) # <<>>
  <2>1. Len(e.codes) # 0
    BY <1>1, <1>5, EmptySeq
  <2>2. CodeAt(Wire(e), es[0], e.codes[1]) /\ es[0] \in States
    BY <1>1, <1>3, <2>1
  <2>3. Place(es[0]) + es[0].n_bits <= Len(Wire(e))
    BY <2>2 DEF CodeAt
  <2>4. Place(es[0]) \in Nat /\ es[0].n_bits \in Nat \ {0}
    BY <2>2, PlaceIs, StateParts
  <2>5. Len(Wire(e)) # 0
    BY <1>2, <2>3, <2>4
  <2> QED
    BY <2>5
<1> QED
  BY <1>2, <1>3, <1>4, <1>5

-----------------------------------------------------------------------------
(* Every step keeps the invariant.                                         *)
LEMMA StartKeeps ==
  ArcInit => ArcInv
<1> SUFFICES ASSUME ArcInit PROVE ArcInv
  OBVIOUS
<1>1. reader \in Readers /\ reader.size = 0
  <2> DEFINE n == Bits * ArcByteBits
             bits == PadTo(<<>>, n)
  <2>1. n \in Nat
    BY ArcSizes
  <2>2. bits = [b \in 1 .. n |-> 0]
    <3>1. Len(<<>>) = 0 /\ n - 0 = n
      BY <2>1
    <3> DEFINE z == [b \in 1 .. n |-> 0]
    <3>2. z \in Seq(Int) /\ <<>> \o z = z
      <4>1. z \in [1 .. n -> Int]
        OBVIOUS
      <4>2. z \in Seq(Int)
        BY <2>1, <4>1, SeqDef
      <4> HIDE DEF z
      <4> QED
        BY <4>2, ConcatEmptySeq
    <3> QED
      BY <3>1, <3>2 DEF PadTo
  <2>3. bits \in [1 .. Bits * ArcByteBits -> Bit]
    BY <2>2 DEF Bit
  <2> HIDE DEF bits
  <2>4. <<>> \in Seq(Bit)
    OBVIOUS
  <2>5. reader = [n_bits |-> 0, maxcode |-> 0, clear_flg |-> FALSE, offset |-> 0, size |-> 0,
                  buf |-> bits, rest |-> <<>>]
    BY DEF ArcInit, bits
  <2> QED
    BY <2>3, <2>4, <2>5 DEF Readers
<1>2. \E es, ts : Sent(arcEnc, es, ts)
  BY SentStarts DEF ArcInit
<1> QED
  BY <1>1, <1>2 DEF ArcInit, ArcInv, Encoding

LEMMA SendKeeps ==
  ASSUME ~Damaged, ArcInv, NEW c, ArcSend(c)
  PROVE  ArcInv'
<1>1. arcPc = "encode" /\ arcPc' = "encode" /\ reader' = reader /\ arcLen' = arcLen
  BY DEF ArcSend
<1>2. PICK e : e = arcEnc
  OBVIOUS
<1>3. c \in CodesNext(e) /\ arcEnc' = AfterSend(e, c)
  BY <1>2 DEF ArcSend
<1>4. PICK es, ts : Sent(e, es, ts)
  BY <1>1, <1>2 DEF ArcInv, Encoding, BeforeFirst, Between, Ended
<1>5. PICK fs, us : Sent(AfterSend(e, c), fs, us)
  BY <1>3, <1>4, SentGrows
<1>6. reader.size = 0
  BY <1>1 DEF ArcInv, Encoding, BeforeFirst, Between, Ended
<1>7. Encoding'
  BY <1>1, <1>3, <1>5, <1>6 DEF Encoding
<1> QED
  BY <1>1, <1>7 DEF ArcInv

LEMMA AnotherKeeps ==
  ASSUME ArcInv, Another
  PROVE  ArcInv'
<1>1. arcPc = "done" /\ arcPc' = "encode" /\ reader' = reader /\ arcLen' = 0 /\ arcEnc' = NewArcEncoder
  BY DEF Another
<1>2. reader.size = 0 /\ reader \in Readers
  BY <1>1 DEF ArcInv, Encoding, BeforeFirst, Between, Ended
<1>3. Encoding'
  BY <1>1, <1>2, SentStarts DEF Encoding
<1> QED
  BY <1>1, <1>2, <1>3 DEF ArcInv

LEMMA CallKeeps ==
  ASSUME ArcInv, NEW len \in ArcOutLens, NEW junk \in Junk, Call(len, junk)
  PROVE  ArcInv'
<1>1. /\ arcPc = "encode" /\ arcEnc' = arcEnc /\ arcLen' = len /\ arcOut' = <<>>
      /\ reader' = ResetReader(Wire(arcEnc))
      /\ free_ent' = FIRST /\ prefix' = EmptyTable(junk) /\ suffix' = Alphabet(junk)
      /\ arcPc' = IF reader'.rest = <<>> THEN "done" ELSE "first"
  BY DEF Call
<1>2. len \in Nat /\ junk \in Nat
  BY ArcAssumption
<1>3. reader \in Readers /\ reader.size = 0 /\ \E es, ts : Sent(arcEnc, es, ts)
  BY <1>1 DEF ArcInv, Encoding, BeforeFirst, Between, Ended
<1>4. PICK e : e = arcEnc
  OBVIOUS
<1>5. PICK es, ts : Sent(e, es, ts)
  BY <1>3, <1>4
<1> DEFINE w == Wire(e)
<1>6. w \in Seq(Bit) /\ (e.codes = <<>> => w = <<>>) /\ (e.codes # <<>> => w # <<>>)
  BY <1>5, OnWire
<1> HIDE DEF w
<1>7. MaxcodeOf(INIT_BITS) \in Nat /\ INIT_BITS \in Nat
  BY ArcSizes
<1>8. reader' = [reader EXCEPT !.n_bits = INIT_BITS, !.maxcode = MaxcodeOf(INIT_BITS),
                               !.clear_flg = FALSE, !.offset = 0, !.rest = w]
  BY <1>1, <1>4 DEF ResetReader, w
<1>9. /\ reader' \in Readers /\ reader'.size = 0 /\ reader'.n_bits = INIT_BITS
      /\ reader'.maxcode = MaxcodeOf(INIT_BITS) /\ reader'.clear_flg = FALSE
      /\ reader'.offset = 0 /\ reader'.rest = w
  BY <1>3, <1>6, <1>7, <1>8 DEF Readers
<1>10. arcEnc' = e
  BY <1>1, <1>4
<1>11. CASE w = <<>>
  <2>1. arcPc' = "done"
    BY <1>1, <1>9, <1>11
  <2>2. Len(e.codes) = 0 /\ ts[0] = NewText
    <3>1. e.codes = <<>>
      BY <1>6, <1>11
    <3>2. ts[0] = NewText
      BY <1>5, SentParts
    <3> QED
      BY <3>1, <3>2
  <2>3. ArcText(e.codes) = <<>>
    BY <1>5, <2>2, TextIs DEF NewText
  <2>4. Clip(<<>>)' = <<>>
    <3>1. Len(<<>>) = 0 /\ Lesser(0, len) = 0
      BY <1>2 DEF Lesser
    <3> QED
      BY <1>1, <3>1 DEF Clip
  <2>5. (arcOut = Clip(ArcText(arcEnc.codes)))'
    BY <1>1, <1>10, <2>3, <2>4
  <2>6. Ended'
    BY <1>9, <2>1, <2>5 DEF Ended
  <2> QED
    BY <1>1, <1>2, <1>9, <2>6 DEF ArcInv
<1>12. CASE w # <<>>
  <2>1. arcPc' = "first"
    BY <1>1, <1>9, <1>12
  <2>2. e.codes # <<>>
    BY <1>6, <1>12
  <2>3. TableHolds(NewText)'
    BY <1>1, <1>2, TableFresh
  <2>4. NewReader(reader', w)
    BY <1>9 DEF NewReader
  <2>5. BeforeFirst'
    BY <1>5, <1>10, <2>1, <2>2, <2>3, <2>4 DEF BeforeFirst, w
  <2> QED
    BY <1>1, <1>2, <1>9, <2>5 DEF ArcInv
<1> QED
  BY <1>11, <1>12

LEMMA FirstKeeps ==
  ASSUME ~Damaged, ArcInv, ArcFirstCode
  PROVE  ArcInv'
<1>1. arcPc = "first" /\ arcPc' = "loop" /\ arcEnc' = arcEnc /\ arcLen' = arcLen
      /\ free_ent' = free_ent /\ prefix' = prefix /\ suffix' = suffix
      /\ reader' = getcode(reader, free_ent).reader /\ oldcode' = getcode(reader, free_ent).code
      /\ finchar' = getcode(reader, free_ent).code % ArcLiterals /\ arcOut' = Clip(<<finchar'>>)
  BY DEF ArcFirstCode, arcDict
<1>2. BeforeFirst /\ reader \in Readers /\ arcLen \in Nat
  BY <1>1 DEF ArcInv, Encoding, BeforeFirst, Between, Ended
<1>3. PICK e : e = arcEnc
  OBVIOUS
<1>4. PICK es, ts : Sent(e, es, ts)
  BY <1>2, <1>3 DEF BeforeFirst
<1> DEFINE w == Wire(e)
           d == e.codes[1]
           n == Len(e.codes)
<1>5. /\ n \in Nat /\ n # 0 /\ es[0] = NewArcEncoder /\ ts[0] = NewText /\ e.codes \in Seq(AllCodes)
  <2>1. n \in Nat /\ es[0] = NewArcEncoder /\ ts[0] = NewText /\ e.codes \in Seq(AllCodes)
    BY <1>4, SentParts
  <2>2. e.codes # <<>>
    BY <1>2, <1>3 DEF BeforeFirst
  <2> QED
    BY <2>1, <2>2, EmptySeq
<1>6. 0 \in 0 .. n - 1 /\ 0 \in 0 .. n /\ 0 + 1 = 1 /\ 1 \in 1 .. n /\ 1 - 1 = 0
  BY <1>5
<1>7. /\ d \in CodesNext(NewArcEncoder) /\ ts[1] = AfterRead(NewText, d)
      /\ es[0] \in States /\ Framed(es[0]) /\ ts[0] \in Texts
  BY <1>4, <1>5, <1>6, SentParts
<1>8. w \in Seq(Bit) /\ (\E b \in Nat : Len(w) = b * ArcByteBits) /\ CodeAt(w, NewArcEncoder, d)
  BY <1>4, <1>5, <1>6, OnWire
<1>9. NewReader(reader, w)
  BY <1>2, <1>3 DEF BeforeFirst
<1>10. d \in Characters
  <2>1. NewArcEncoder \in States /\ Framed(NewArcEncoder) /\ NewArcEncoder.free = FIRST
    BY <1>5, <1>7 DEF NewArcEncoder
  <2> HIDE DEF d
  <2> QED
    BY <1>7, <2>1, CodeFits
<1> HIDE DEF w, d, n
<1>11. free_ent = FIRST /\ prefix \in [AllCodes -> Nat] /\ suffix \in [AllCodes -> Nat]
  <2>1. FIRST + 0 = FIRST
    BY ArcSizes
  <2>2. NewEntry(NewText) = FIRST
    BY <2>1 DEF NewEntry, NewText
  <2> QED
    BY <1>2, <2>2 DEF BeforeFirst, TableHolds
<1>12. /\ getcode(reader, FIRST).code = d /\ getcode(reader, FIRST).reader \in Readers
       /\ ReaderAt(getcode(reader, FIRST).reader, w, NewArcEncoder)
       /\ getcode(reader, FIRST).reader.clear_flg = FALSE
  BY <1>2, <1>7, <1>8, <1>9, ReadFirst
<1>13. d % ArcLiterals = d /\ d # ARC_CLEAR
  BY <1>10, ArcSizes DEF Characters
<1>14. oldcode' = d /\ finchar' = d /\ reader' = getcode(reader, FIRST).reader /\ arcOut' = Clip(<<d>>)
  BY <1>1, <1>11, <1>12, <1>13
<1>15. NewText \in Texts /\ NewText.prev = <<>> /\ NewText.entries = <<>> /\ NewText.text = <<>>
  BY <1>5, <1>7 DEF NewText
<1>16. TableHolds(ts[1])' /\ LastRead(ts[1])'
  BY <1>1, <1>7, <1>10, <1>11, <1>14, <1>15, TableFirst
<1>17. ts[1].text = <<d>>
  <2>1. ts[1].text = NewText.text \o <<d>>
    BY <1>7, <1>10, <1>15, LiteralRead
  <2>2. <<>> \o <<d>> = <<d>>
    OBVIOUS
  <2> QED
    BY <1>15, <2>1, <2>2
<1>18. (arcOut = Clip(ts[1].text))'
  BY <1>1, <1>14, <1>17 DEF Clip
<1>19. arcEnc' = e
  BY <1>1, <1>3
<1>20. ReaderAt(reader', w, es[1 - 1]) /\ reader'.clear_flg = FALSE
  BY <1>5, <1>6, <1>12, <1>14
<1>21. After(es, ts, 1)'
  BY <1>13, <1>16, <1>18, <1>19, <1>20 DEF After, w, d
<1>22. Between'
  BY <1>1, <1>4, <1>6, <1>19, <1>21 DEF Between, n
<1>23. reader' \in Readers /\ arcLen' \in Nat
  BY <1>1, <1>2, <1>12, <1>14
<1> QED
  BY <1>22, <1>23 DEF ArcInv

(* A reader told to clear is behind a CLEAR.                               *)
LEMMA ToldToClear ==
  ASSUME NEW r \in Readers, NEW wire, NEW s, ReaderAt(r, wire, s), NEW free
  PROVE  Behind([r EXCEPT !.clear_flg = TRUE], free, wire, s, ARC_CLEAR)
<1> DEFINE r2 == [r EXCEPT !.clear_flg = TRUE]
<1>1. /\ r2 \in Readers /\ r2.n_bits = r.n_bits /\ r2.maxcode = r.maxcode /\ r2.offset = r.offset
      /\ r2.size = r.size /\ r2.buf = r.buf /\ r2.rest = r.rest /\ r2.clear_flg = TRUE
  BY DEF Readers
<1> HIDE DEF r2
<1>2. ReaderAt(r2, wire, s)
  BY <1>1 DEF ReaderAt
<1> QED
  BY <1>1, <1>2 DEF Behind, r2

(* Whatever the stream ended with, the text is there.                      *)
LEMMA EndKeeps ==
  ASSUME NEW e, e = arcEnc, NEW es, NEW ts, Sent(e, es, ts), NEW text,
         arcLen \in Nat, arcOut = Clip(text), text = ts[Len(e.codes)].text,
         NEW got, got.reader \in Readers, got.reader.size = 0, got.code = -1, NEW free,
         Handle(got, free), UNCHANGED <<arcEnc, stream, arcLen>>
  PROVE  ArcInv'
<1>1. reader' = got.reader /\ arcPc' = "done" /\ arcOut' = arcOut /\ arcLen' = arcLen /\ arcEnc' = e
  BY DEF Handle
<1>2. ArcText(e.codes) = text
  BY TextIs
<1>3. (arcOut = Clip(ArcText(arcEnc.codes)))'
  BY <1>1, <1>2 DEF Clip
<1>4. Ended'
  BY <1>1, <1>3 DEF Ended
<1> QED
  BY <1>1, <1>4 DEF ArcInv

LEMMA NextKeeps ==
  ASSUME ~Damaged, ArcInv, NextCode
  PROVE  ArcInv'
<1> DEFINE got == getcode(reader, free_ent)
           told == [got.reader EXCEPT !.clear_flg = TRUE]
           got2 == getcode(told, FreeAfterClear)
<1>1. /\ arcPc = "loop" /\ UNCHANGED <<arcEnc, stream, arcLen>>
      /\ got.code = ARC_CLEAR => Handle(got2, FreeAfterClear)
      /\ got.code # ARC_CLEAR => Handle(got, free_ent)
  BY DEF NextCode
<1>2. Between /\ reader \in Readers /\ arcLen \in Nat
  BY <1>1 DEF ArcInv, Encoding, BeforeFirst, Between, Ended
<1>3. PICK e : e = arcEnc
  OBVIOUS
<1>4. PICK es, ts : Sent(e, es, ts) /\ \E k \in 1 .. Len(e.codes) : After(es, ts, k)
  BY <1>2, <1>3 DEF Between
<1>5. PICK k \in 1 .. Len(e.codes) : After(es, ts, k)
  BY <1>4
<1> DEFINE n == Len(e.codes)
           w == Wire(e)
           s == es[k - 1]
           c == e.codes[k]
           t == ts[k]
<1>6. /\ n \in Nat /\ es[n] = e
      /\ \A i \in 0 .. n : es[i] \in States /\ ts[i] \in Texts /\ Framed(es[i]) /\ InStep(es[i], ts[i])
      /\ \A i \in 0 .. n - 1 :
           /\ e.codes[i + 1] \in CodesNext(es[i])
           /\ es[i + 1] = AfterSend(es[i], e.codes[i + 1]) /\ ts[i + 1] = AfterRead(ts[i], e.codes[i + 1])
  BY <1>4, SentParts
<1>7. w \in Seq(Bit) /\ (\E b \in Nat : Len(w) = b * ArcByteBits)
      /\ \A i \in 0 .. n - 1 : CodeAt(w, es[i], e.codes[i + 1])
  BY <1>4, OnWire
<1>8. /\ c # ARC_CLEAR /\ ReaderAt(reader, w, s) /\ reader.clear_flg = FALSE
      /\ TableHolds(t) /\ LastRead(t) /\ arcOut = Clip(t.text)
  BY <1>3, <1>5 DEF After
<1>9. k \in 1 .. n
  OBVIOUS
<1> HIDE DEF n, w
<1>10. k \in 0 .. n /\ k - 1 \in 0 .. n /\ k - 1 \in 0 .. n - 1 /\ (k - 1) + 1 = k
  BY <1>6, <1>9
<1>11. /\ s \in States /\ Framed(s) /\ c \in CodesNext(s) /\ es[k] = AfterSend(s, c)
       /\ t = AfterRead(ts[k - 1], c) /\ t \in Texts /\ InStep(es[k], t) /\ InStep(s, ts[k - 1])
       /\ es[k] \in States /\ Framed(es[k]) /\ ts[k - 1] \in Texts
  BY <1>6, <1>10
<1>12. s.free = NewEntry(t) /\ t.prev # <<>>
  BY <1>8, <1>11, FreeInStep
<1> HIDE DEF s, c, t
<1>13. free_ent = s.free
  BY <1>8, <1>12 DEF TableHolds
<1>14. Behind(reader, free_ent, w, s, c)
  BY <1>2, <1>8, <1>13 DEF Behind
<1>15. ARC_CLEAR \in Nat
  BY ArcSizes
<1> HIDE DEF got, told, got2
<1>16. CASE k = n
  <2>1. e = AfterSend(s, c)
    BY <1>6, <1>11, <1>16
  <2>2. got.code = -1 /\ got.reader \in Readers /\ got.reader.size = 0
    <3>1. Behind(reader, free_ent, Wire(AfterSend(s, c)), s, c)
      BY <1>14, <2>1 DEF w
    <3> QED
      BY <1>11, <3>1, ReadEnd DEF got
  <2>3. Handle(got, free_ent)
    BY <1>1, <1>15, <2>2
  <2>4. t.text = ts[Len(e.codes)].text
    BY <1>16 DEF n, t
  <2> QED
    BY <1>1, <1>2, <1>3, <1>4, <1>8, <2>2, <2>3, <2>4, EndKeeps
<1>17. CASE k # n
  <2> DEFINE d == e.codes[k + 1]
             u == ts[k + 1]
  <2>1. k \in 0 .. n - 1 /\ k + 1 \in 0 .. n /\ k + 1 \in 1 .. n /\ (k + 1) - 1 = k
    BY <1>6, <1>9, <1>17
  <2>2. /\ d \in CodesNext(es[k]) /\ es[k + 1] = AfterSend(es[k], d) /\ u = AfterRead(t, d)
        /\ es[k + 1] \in States /\ Framed(es[k + 1]) /\ u \in Texts /\ InStep(es[k + 1], u)
    BY <1>6, <2>1 DEF t
  <2>3. CodeAt(w, es[k], d)
    BY <1>7, <2>1
  <2> HIDE DEF d, u
  <2>4. /\ got.code = d /\ got.reader \in Readers /\ ReaderAt(got.reader, w, es[k])
        /\ got.reader.clear_flg = FALSE
    <3>1. d \in CodesNext(AfterSend(s, c)) /\ CodeAt(w, AfterSend(s, c), d)
      BY <1>11, <2>2, <2>3
    <3>2. s \in States /\ Framed(s) /\ c \in CodesNext(s)
      BY <1>11
    <3>3. w \in Seq(Bit) /\ \E b \in Nat : Len(w) = b * ArcByteBits
      BY <1>7
    <3>4. /\ got.code = d /\ got.reader \in Readers /\ ReaderAt(got.reader, w, AfterSend(s, c))
          /\ got.reader.clear_flg = FALSE
      <4>1. PICK r, free : r = reader /\ free = free_ent
        OBVIOUS
      <4>2. Behind(r, free, w, s, c)
        BY <1>14, <4>1
      <4>3. /\ getcode(r, free).code = d /\ getcode(r, free).reader \in Readers
            /\ ReaderAt(getcode(r, free).reader, w, AfterSend(s, c))
            /\ getcode(r, free).reader.clear_flg = FALSE
        BY <3>1, <3>2, <3>3, <4>2, ReadNext
      <4> QED
        BY <4>1, <4>3 DEF got
    <3> QED
      BY <1>11, <3>4
  <2>5. CASE d # ARC_CLEAR
    <3>1. Handle(got, free_ent)
      BY <1>1, <2>4, <2>5
    <3> DEFINE string == StringIn(t, d)
    <3>2. /\ d \in Nat /\ d <= free_ent
          /\ d = free_ent => Append(ArcString(oldcode), finchar) = string
          /\ d # free_ent => ArcString(d) = string
      BY <1>8, <1>11, <1>12, <2>2, <2>5, StringDelivered
    <3>3. string \in Seq(Characters)
      BY <1>11, <2>2, <2>5, StringInIs
    <3> HIDE DEF string
    <3>4. free_ent \in Nat
      BY <1>11, <1>13, StateParts
    <3>5. ~(got.code = -1 \/ got.code > free_ent)
      BY <2>4, <3>2, <3>4
    <3>6. string = IF got.code = free_ent THEN Append(ArcString(oldcode), finchar) ELSE ArcString(got.code)
      BY <2>4, <3>2
    <3>7. /\ reader' = got.reader /\ arcOut' = Clip(arcOut \o string) /\ finchar' = Head(string)
          /\ AddEntry(free_ent, Head(string)) /\ oldcode' = d /\ arcPc' = "loop"
      BY <1>1, <2>4, <3>1, <3>5, <3>6 DEF Handle
    <3>8. TableHolds(u)' /\ LastRead(u)'
      BY <1>8, <1>11, <1>12, <2>2, <2>5, <3>7, TableGrows DEF string
    <3>9. u.text = t.text \o string
      BY <2>2, <2>5 DEF AfterRead, string
    <3>10. t.text \in Seq(Characters)
      BY <1>11 DEF Texts
    <3>11. arcOut' = Clip(u.text)
      BY <1>2, <1>8, <3>3, <3>7, <3>9, <3>10, ClipMore
    <3>12. (arcOut = Clip(u.text))'
      BY <1>1, <3>11 DEF Clip
    <3>13. arcEnc' = e
      BY <1>1, <1>3
    <3>14. ReaderAt(reader', w, es[(k + 1) - 1]) /\ reader'.clear_flg = FALSE
      BY <2>1, <2>4, <3>7
    <3>15. After(es, ts, k + 1)'
      BY <2>5, <3>8, <3>12, <3>13, <3>14 DEF After, w, d, u
    <3>16. Between'
      BY <1>4, <2>1, <3>7, <3>13, <3>15 DEF Between, n
    <3>17. reader' \in Readers /\ arcLen' \in Nat
      BY <1>1, <1>2, <2>4, <3>7
    <3> QED
      BY <3>16, <3>17 DEF ArcInv
  <2>6. CASE d = ARC_CLEAR
    <3>1. Handle(got2, FreeAfterClear)
      BY <1>1, <2>4, <2>6
    <3>2. Behind(told, FreeAfterClear, w, es[k], d)
      BY <2>4, <2>6, ToldToClear DEF told
    <3>3. u.text = t.text /\ u.prev = <<>> /\ u.entries = <<>>
      BY <2>2, <2>6 DEF AfterRead, NewText
    <3>4. CASE k + 1 = n
      <4>1. e = AfterSend(es[k], d)
        BY <1>6, <2>2, <3>4
      <4>2. got2.code = -1 /\ got2.reader \in Readers /\ got2.reader.size = 0
        <5>1. Behind(told, FreeAfterClear, Wire(AfterSend(es[k], d)), es[k], d)
          BY <3>2, <4>1 DEF w
        <5> QED
          BY <1>11, <2>2, <5>1, ReadEnd DEF got2
      <4>3. t.text = ts[Len(e.codes)].text
        BY <3>3, <3>4 DEF n, u
      <4> QED
        BY <1>1, <1>2, <1>3, <1>4, <1>8, <3>1, <4>2, <4>3, EndKeeps
    <3>5. CASE k + 1 # n
      <4> DEFINE d2 == e.codes[(k + 1) + 1]
                 v == ts[(k + 1) + 1]
      <4>1. k + 1 \in 0 .. n - 1 /\ (k + 1) + 1 \in 1 .. n /\ ((k + 1) + 1) - 1 = k + 1
        BY <1>6, <2>1, <3>5
      <4>2. d2 \in CodesNext(es[k + 1]) /\ v = AfterRead(u, d2) /\ CodeAt(w, es[k + 1], d2)
        BY <1>6, <1>7, <4>1 DEF u
      <4> HIDE DEF d2, v
      <4>3. es[k + 1].free = FIRST
        BY <2>2, <2>6 DEF AfterSend
      <4>4. d2 \in Characters /\ d2 # ARC_CLEAR
        BY <2>2, <4>2, <4>3, CodeFits
      <4>5. /\ got2.code = d2 /\ got2.reader \in Readers /\ ReaderAt(got2.reader, w, es[k + 1])
            /\ got2.reader.clear_flg = FALSE
        <5>1. d2 \in CodesNext(AfterSend(es[k], d)) /\ CodeAt(w, AfterSend(es[k], d), d2)
          BY <2>2, <4>2
        <5>2. /\ got2.code = d2 /\ got2.reader \in Readers
              /\ ReaderAt(got2.reader, w, AfterSend(es[k], d)) /\ got2.reader.clear_flg = FALSE
          BY <1>7, <1>11, <2>2, <3>2, <5>1, ReadNext DEF got2
        <5> QED
          BY <2>2, <5>2
      <4>6. ~(got2.code = -1 \/ got2.code > FreeAfterClear) /\ got2.code # FreeAfterClear
        <5>1. d2 \in Nat /\ d2 < FreeAfterClear /\ FreeAfterClear \in Nat
          BY <4>4, ArcSizes DEF FreeAfterClear, Characters
        <5> HIDE DEF FreeAfterClear
        <5> QED
          BY <4>5, <5>1
      <4>7. ArcString(d2) = <<d2>>
        <5>1. d2 \in InUse(t) /\ KnownString(t, d2) = <<d2>>
          BY <4>4, ArcSizes DEF InUse, KnownString, Characters
        <5> QED
          BY <1>8, <1>11, <5>1, ArcStringIs
      <4>8. /\ reader' = got2.reader /\ arcOut' = Clip(arcOut \o <<d2>>) /\ finchar' = d2
            /\ AddEntry(FreeAfterClear, d2) /\ oldcode' = d2 /\ arcPc' = "loop"
        <5>1. Head(<<d2>>) = d2
          OBVIOUS
        <5>2. <<d2>> = IF got2.code = FreeAfterClear THEN Append(ArcString(oldcode), finchar)
                       ELSE ArcString(got2.code)
          BY <4>5, <4>6, <4>7
        <5> QED
          BY <1>1, <3>1, <4>5, <4>6, <5>1, <5>2 DEF Handle
      <4>9. oldcode \in Nat
        BY <1>8, <1>11, InUseIs DEF LastRead
      <4>10. TableHolds(v)' /\ LastRead(v)'
        BY <1>8, <1>11, <2>2, <3>3, <4>2, <4>4, <4>8, <4>9, TableCleared
      <4>11. v.text = t.text \o <<d2>>
        BY <2>2, <3>3, <4>2, <4>4, LiteralRead
      <4>12. t.text \in Seq(Characters) /\ <<d2>> \in Seq(Characters)
        BY <1>11, <4>4 DEF Texts
      <4>13. arcOut' = Clip(v.text)
        BY <1>2, <1>8, <4>8, <4>11, <4>12, ClipMore
      <4>14. (arcOut = Clip(v.text))'
        BY <1>1, <4>13 DEF Clip
      <4>15. arcEnc' = e
        BY <1>1, <1>3
      <4>16. ReaderAt(reader', w, es[((k + 1) + 1) - 1]) /\ reader'.clear_flg = FALSE
        BY <4>1, <4>5, <4>8
      <4>17. After(es, ts, (k + 1) + 1)'
        BY <4>4, <4>10, <4>14, <4>15, <4>16 DEF After, w, d2, v
      <4>18. Between'
        BY <1>4, <4>1, <4>8, <4>15, <4>17 DEF Between, n
      <4>19. reader' \in Readers /\ arcLen' \in Nat
        BY <1>1, <1>2, <4>5, <4>8
      <4> QED
        BY <4>18, <4>19 DEF ArcInv
    <3> QED
      BY <3>4, <3>5
  <2> QED
    BY <2>5, <2>6
<1> QED
  BY <1>16, <1>17

LEMMA ArcInvHolds ==
  ASSUME ~Damaged
  PROVE  ArcSpec => []ArcInv
<1>1. ArcInit => ArcInv
  BY StartKeeps
<1>2. ASSUME ArcInv, [ArcNext]_arcVars PROVE ArcInv'
  <2>1. ASSUME NEW c \in 0 .. max_maxcode - 1, ArcSend(c) PROVE ArcInv'
    BY <1>2, <2>1, SendKeeps
  <2>2. ASSUME NEW len \in ArcOutLens, NEW junk \in Junk, Call(len, junk) PROVE ArcInv'
    BY <1>2, <2>2, CallKeeps
  <2>3. CASE ArcFirstCode
    BY <1>2, <2>3, FirstKeeps
  <2>4. CASE NextCode
    BY <1>2, <2>4, NextKeeps
  <2>5. CASE Another
    BY <1>2, <2>5, AnotherKeeps
  <2>6. CASE UNCHANGED arcVars
    <3>1. /\ arcEnc' = arcEnc /\ reader' = reader /\ free_ent' = free_ent /\ prefix' = prefix
          /\ suffix' = suffix /\ finchar' = finchar /\ oldcode' = oldcode
          /\ arcLen' = arcLen /\ arcOut' = arcOut /\ arcPc' = arcPc
      BY <2>6 DEF arcVars, arcDict
    <3>2. Encoding' <=> Encoding
      BY <3>1 DEF Encoding
    <3>3. \A t : (TableHolds(t)' <=> TableHolds(t)) /\ (LastRead(t)' <=> LastRead(t))
      BY <3>1 DEF TableHolds, LastRead
    <3>4. BeforeFirst' <=> BeforeFirst
      BY <3>1, <3>3 DEF BeforeFirst
    <3>5. \A es, ts, k : After(es, ts, k)' <=> After(es, ts, k)
      BY <3>1, <3>3 DEF After, Clip
    <3>6. Between' <=> Between
      BY <3>1, <3>5 DEF Between
    <3>7. Ended' <=> Ended
      BY <3>1 DEF Ended, Clip
    <3> QED
      BY <1>2, <3>1, <3>2, <3>4, <3>6, <3>7 DEF ArcInv
  <2> QED
    BY <1>2, <2>1, <2>2, <2>3, <2>4, <2>5, <2>6 DEF ArcNext
<1> QED
  BY <1>1, <1>2, PTL DEF ArcSpec

(* arc_decompress_lzw: as long as no stream holds a code that is none,     *)
(* every one is decoded to the text of its codes, cut to the caller's      *)
(* buffer, whatever streams and whatever memory were there before.  The    *)
(* run arc_lzw_after_error shows why the hypothesis is needed.             *)
THEOREM ArcTextCorrect ==
  ASSUME ~Damaged
  PROVE  ArcSpec => []OutputIsText
<1>1. ArcInv => OutputIsText
  BY DEF ArcInv, Encoding, BeforeFirst, Between, Ended, OutputIsText
<1> QED
  BY <1>1, ArcInvHolds, PTL
=============================================================================
