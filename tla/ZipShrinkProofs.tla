-------------------------- MODULE ZipShrinkProofs --------------------------
(***************************************************************************)
(* What holds of shrink's decoder for every width of code, every buffer    *)
(* and every stream of the encoder of ZipShrink: its types, and that the   *)
(* string of every code arrives (StringsArrive).                           *)
(*                                                                         *)
(* Between two codes the decoder's table is the encoder's: the same codes  *)
(* are used, under the same parents, and a string that is not lost is the  *)
(* string of its parent, not lost either, and the decoder's character      *)
(* (Agree). While a code or a control code is on its way, there is an      *)
(* encoder with which the decoder still agrees, and which what is on its   *)
(* way has led to the one there is (CodeOnItsWay, ControlOnItsWay).        *)
(***************************************************************************)
EXTENDS ZipShrink, NatLemmas

-----------------------------------------------------------------------------
Encoders ==
  [used : SUBSET Entries, par : [Entries -> {NoCode} \cup Codes], str : [Entries -> Seq(Bytes)],
   prev : {NoCode} \cup Bytes \cup Entries, string : Seq(Bytes),
   n_bits : SHRINK_INIT_BITS .. SHRINK_MAX_BITS]

Tables == [Codes -> [parent : {-1} \cup Codes, chr : Bytes, used : BOOLEAN]]

KnownString(e, c) == IF c \in Bytes THEN <<c>> ELSE e.str[c]

(* The bytes are roots of d, and so is the control code.                   *)
Roots(d) ==
  \A c \in 0 .. SHRINK_CONTROL : d[c] = [parent |-> -1, chr |-> c % SHRINK_CONTROL, used |-> TRUE]

(* A known string is its parent's, known too, and one character.           *)
Rooted(e, d) ==
  \A c \in KnownCodes(e) \ Bytes :
    e.par[c] \in KnownCodes(e) /\ e.str[c] = Append(KnownString(e, e.par[c]), d[c].chr)

Lost(e) == \A c \in Entries : c \notin e.used => e.str[c] = <<>>

SameCodes(e, d) ==
  \A c \in Entries : (d[c].used <=> c \in e.used) /\ (c \in e.used => d[c].parent = e.par[c])

(* The string that was sent last, even if its code is free again.          *)
LastSent(e) ==
  /\ e.prev # NoCode => e.string # <<>>
  /\ e.prev \in KnownCodes(e) => e.string = KnownString(e, e.prev)
  /\ e.prev = NoCode => e.used = {}

(* The tables of an encoder and of a decoder that has read what it sent.   *)
Agree(e, d) ==
  e \in Encoders /\ d \in Tables /\ Roots(d) /\ Rooted(e, d) /\ Lost(e) /\ SameCodes(e, d) /\ LastSent(e)

SameState(e) ==
  /\ next_code = NextEntry(e) /\ code_size = e.n_bits /\ prev_code = e.prev
  /\ (phase = "first") <=> (e.prev = NoCode)

-----------------------------------------------------------------------------
Arrived(e) ==
  IF room > 0 THEN delivered = e.string ELSE IsPrefix(delivered, e.string)

NothingOnItsWay ==
  /\ phase \in {"first", "read"} /\ bits = <<>>
  /\ Agree(encoder, dict) /\ SameState(encoder)
  /\ phase = "read" => Arrived(encoder)

CodeIsOnItsWay(e, c) ==
  /\ phase \in {"first", "read"} /\ room > 0
  /\ Agree(e, dict) /\ SameState(e) /\ c \in CodesToSend(e)
  /\ bits = BitsOf(c, e.n_bits) /\ encoder = AfterCode(e, c)

CodeOnItsWay == \E e, c : CodeIsOnItsWay(e, c)

ControlIsOnItsWay(e, subcode) ==
  /\ phase \in {"read", "subcode"} /\ room > 0
  /\ Agree(e, dict) /\ SameState(e) /\ MayFollow(e, subcode)
  /\ subcode \in 0 .. 2 ^ SHRINK_INIT_BITS - 1
  /\ encoder = AfterControl(e, subcode) /\ delivered = e.string
  /\ bits = IF phase = "read"
              THEN BitsOf(SHRINK_CONTROL, e.n_bits) \o BitsOf(subcode, e.n_bits)
              ELSE BitsOf(subcode, e.n_bits)

ControlOnItsWay == \E e, subcode : ControlIsOnItsWay(e, subcode)

Bounds ==
  /\ dict \in Tables
  /\ next_code \in SHRINK_FIRST_CODE .. Full /\ next_code = FirstFrom(dict, SHRINK_FIRST_CODE)
  /\ code_size \in SHRINK_INIT_BITS .. SHRINK_MAX_BITS
  /\ prev_code \in {NoCode} \cup Codes /\ room \in 0 .. OutSize
  /\ phase \in {"first", "read", "subcode", "done"}

ShrinkInv == Bounds /\ (NothingOnItsWay \/ CodeOnItsWay \/ ControlOnItsWay \/ phase = "done")

-----------------------------------------------------------------------------
(* The control code and the bytes fit in every width.                      *)
LEMMA Sizes ==
  /\ SHRINK_CONTROL \in Nat \ {0} /\ OutSize \in Nat
  /\ SHRINK_INIT_BITS \in Nat \ {0} /\ SHRINK_MAX_BITS \in Nat /\ SHRINK_INIT_BITS <= SHRINK_MAX_BITS
  /\ SHRINK_MAX_CODES \in Nat /\ Full = SHRINK_MAX_CODES
  /\ SHRINK_FIRST_CODE = SHRINK_CONTROL + 1 /\ SHRINK_FIRST_CODE <= SHRINK_MAX_CODES
  /\ \A k \in SHRINK_INIT_BITS .. SHRINK_MAX_BITS :
       /\ k \in Nat \ {0} /\ 2 ^ k \in Nat /\ SHRINK_CONTROL < 2 ^ k
       /\ 2 ^ k <= SHRINK_MAX_CODES /\ 2 ^ SHRINK_INIT_BITS <= 2 ^ k
<1>1. /\ SHRINK_CONTROL \in Nat \ {0} /\ OutSize \in Nat
      /\ SHRINK_INIT_BITS \in Nat \ {0} /\ SHRINK_MAX_BITS \in Nat /\ SHRINK_INIT_BITS <= SHRINK_MAX_BITS
      /\ SHRINK_CONTROL < 2 ^ SHRINK_INIT_BITS
  BY ShrinkAssumption
<1>2. SHRINK_MAX_CODES = 2 ^ SHRINK_MAX_BITS /\ Full = SHRINK_MAX_CODES /\ SHRINK_FIRST_CODE = SHRINK_CONTROL + 1
  BY DEF SHRINK_MAX_CODES, Full, SHRINK_FIRST_CODE
<1>3. ASSUME NEW k \in SHRINK_INIT_BITS .. SHRINK_MAX_BITS
      PROVE  /\ k \in Nat \ {0} /\ 2 ^ k \in Nat /\ SHRINK_CONTROL < 2 ^ k
             /\ 2 ^ k <= 2 ^ SHRINK_MAX_BITS /\ 2 ^ SHRINK_INIT_BITS <= 2 ^ k
  <2>1. k \in Nat \ {0} /\ SHRINK_INIT_BITS <= k /\ k <= SHRINK_MAX_BITS
    BY <1>1
  <2>2. 2 ^ k \in Nat /\ 2 ^ SHRINK_INIT_BITS \in Nat
    BY <1>1, <2>1, PowerType
  <2>3. 2 ^ SHRINK_INIT_BITS <= 2 ^ k /\ 2 ^ k <= 2 ^ SHRINK_MAX_BITS
    BY <1>1, <2>1, PowerRises
  <2> QED
    BY <1>1, <2>1, <2>2, <2>3
<1>4. 2 ^ SHRINK_MAX_BITS \in Nat
  BY <1>1, PowerType
<1>5. SHRINK_CONTROL < 2 ^ SHRINK_MAX_BITS
  <2>1. SHRINK_MAX_BITS \in SHRINK_INIT_BITS .. SHRINK_MAX_BITS
    BY <1>1
  <2> QED
    BY <2>1, <1>3
<1> QED
  BY <1>1, <1>2, <1>3, <1>4, <1>5

(* Bytes and entries are codes, and no code is both.                       *)
LEMMA Kinds ==
  /\ Codes = 0 .. SHRINK_MAX_CODES - 1 /\ Bytes \subseteq Codes /\ Entries \subseteq Codes
  /\ Codes \subseteq Nat /\ NoCode \notin Codes
  /\ \A c \in Bytes : c \notin Entries /\ c \in 0 .. SHRINK_CONTROL /\ c # SHRINK_CONTROL /\ c < SHRINK_FIRST_CODE
  /\ \A c \in Entries : c >= SHRINK_FIRST_CODE /\ c # SHRINK_CONTROL /\ c < SHRINK_MAX_CODES
  /\ SHRINK_CONTROL \in Codes /\ 0 \in Bytes
BY Sizes DEF Codes, Bytes, Entries, NoCode

(* Min is the least element.                                               *)
LEMMA MinIsLeast ==
  ASSUME NEW S \in SUBSET Nat, NEW m \in S, \A k \in S : m <= k
  PROVE  Min(S) = m
<1>1. Min(S) \in S /\ \A k \in S : Min(S) <= k
  BY Zenon DEF Min
<1>2. Min(S) \in Nat /\ m \in Nat /\ Min(S) <= m /\ m <= Min(S)
  BY <1>1
<1> QED
  BY <1>2

LEMMA MinExists ==
  ASSUME NEW S \in SUBSET Nat, S # {}
  PROVE  Min(S) \in S /\ \A k \in S : Min(S) <= k
<1>1. PICK m \in S : \A k \in S : m <= k
  BY LeastElement
<1> QED
  BY <1>1, Zenon DEF Min

(* The next entry is the lowest code that is free.                         *)
LEMMA NextEntryIs ==
  ASSUME NEW e, e.used \in SUBSET Entries
  PROVE  /\ NextEntry(e) \in SHRINK_FIRST_CODE .. Full /\ NextEntry(e) \notin e.used
         /\ (NextEntry(e) = Full) <=> (Free(e) = {})
         /\ NextEntry(e) # Full => NextEntry(e) \in Entries
         /\ \A c \in SHRINK_FIRST_CODE .. Full : c < NextEntry(e) => c \in e.used
<1>1. CASE Free(e) = {}
  <2>1. NextEntry(e) = Full
    BY <1>1 DEF NextEntry
  <2> QED
    BY <1>1, <2>1, Sizes DEF Entries, Free
<1>2. CASE Free(e) # {}
  <2>1. Free(e) \in SUBSET Nat
    BY Kinds DEF Free
  <2>2. NextEntry(e) \in Free(e) /\ \A k \in Free(e) : NextEntry(e) <= k
    BY <1>2, <2>1, MinExists DEF NextEntry
  <2> HIDE DEF NextEntry
  <2> QED
    BY <1>2, <2>2, Sizes DEF Entries, Free
<1> QED
  BY <1>1, <1>2

(* It is where the decoder's search from any used prefix of the entries    *)
(* ends.                                                                   *)
LEMMA FirstFromIs ==
  ASSUME NEW e, NEW d, NEW from \in SHRINK_FIRST_CODE .. Full, e.used \in SUBSET Entries,
         \A c \in Entries : d[c].used <=> c \in e.used,
         from <= NextEntry(e)
  PROVE  FirstFrom(d, from) = NextEntry(e)
<1> DEFINE S == {c \in from .. Full : c = Full \/ ~d[c].used}
           m == NextEntry(e)
<1>1. /\ m \in SHRINK_FIRST_CODE .. Full /\ m \notin e.used
      /\ m # Full => m \in Entries
      /\ \A c \in SHRINK_FIRST_CODE .. Full : c < m => c \in e.used
  BY NextEntryIs
<1> HIDE DEF m
<1>2. S \in SUBSET Nat
  BY Sizes
<1>3. m \in S
  BY <1>1, Sizes DEF m
<1>4. \A k \in S : m <= k
  <2> SUFFICES ASSUME NEW k \in S, k < m PROVE FALSE
    BY <1>1, Sizes
  <2>1. k \in SHRINK_FIRST_CODE .. Full /\ k # Full /\ k \in Entries
    BY <1>1, Sizes DEF Entries
  <2>2. k \in e.used /\ ~d[k].used
    BY <1>1, <2>1
  <2> QED
    BY <2>2
<1>5. Min(S) = m
  <2> HIDE DEF S
  <2> QED
    BY <1>2, <1>3, <1>4, MinIsLeast
<1> QED
  BY <1>5 DEF FirstFrom, m

-----------------------------------------------------------------------------
(* What is known of a code whose string is not lost.                       *)
LEMMA KnownCode ==
  ASSUME NEW e, NEW d, Agree(e, d), NEW c \in KnownCodes(e)
  PROVE  /\ c \in Codes /\ c # SHRINK_CONTROL /\ d[c].used /\ c \in Bytes \cup Entries
         /\ c \in Entries => c \in e.used
         /\ KnownString(e, c) \in Seq(Bytes) /\ KnownString(e, c) # <<>>
         /\ Len(KnownString(e, c)) \in Nat \ {0}
         /\ c \in Bytes => d[c].parent = -1 /\ KnownString(e, c) = <<d[c].chr>>
         /\ c \notin Bytes =>
              /\ d[c].parent \in KnownCodes(e)
              /\ KnownString(e, c) = Append(KnownString(e, d[c].parent), d[c].chr)
              /\ Len(KnownString(e, c)) = Len(KnownString(e, d[c].parent)) + 1
<1>1. /\ e \in Encoders /\ d \in Tables /\ Roots(d) /\ Rooted(e, d) /\ SameCodes(e, d)
  BY DEF Agree
<1>2. e.used \in SUBSET Entries /\ e.str \in [Entries -> Seq(Bytes)]
  BY <1>1 DEF Encoders
<1>3. \A x \in KnownCodes(e) :
        /\ x \in Bytes \cup Entries /\ (x \in Entries => x \in e.used) /\ x \in Codes
        /\ (x \notin Bytes => x \in Entries)
        /\ KnownString(e, x) \in Seq(Bytes) /\ KnownString(e, x) # <<>>
  <2> SUFFICES ASSUME NEW x \in KnownCodes(e)
               PROVE  /\ x \in Bytes \cup Entries /\ (x \in Entries => x \in e.used) /\ x \in Codes
                      /\ (x \notin Bytes => x \in Entries)
                      /\ KnownString(e, x) \in Seq(Bytes) /\ KnownString(e, x) # <<>>
    OBVIOUS
  <2>1. CASE x \in Bytes
    BY <2>1, Kinds DEF KnownString
  <2>2. CASE x \notin Bytes
    <3>1. x \in e.used /\ e.str[x] # <<>> /\ x \in Entries
      BY <2>2, <1>2 DEF KnownCodes
    <3> QED
      BY <2>2, <3>1, <1>2, Kinds DEF KnownString
  <2> QED
    BY <2>1, <2>2
<1>4. \A x \in KnownCodes(e) : Len(KnownString(e, x)) \in Nat \ {0}
  BY <1>3, EmptySeq
<1>5. d[c] \in [parent : {-1} \cup Codes, chr : Bytes, used : BOOLEAN]
  BY <1>1, <1>3 DEF Tables
<1>6. CASE c \in Bytes
  <2>1. c \in 0 .. SHRINK_CONTROL /\ c # SHRINK_CONTROL /\ c \in 0 .. SHRINK_CONTROL - 1 /\ c \notin Entries
    BY <1>6, Kinds, Sizes DEF Bytes
  <2>2. d[c] = [parent |-> -1, chr |-> c % SHRINK_CONTROL, used |-> TRUE]
    BY <1>1, <2>1 DEF Roots
  <2>3. c % SHRINK_CONTROL = c
    BY <2>1, Sizes
  <2>4. KnownString(e, c) = <<d[c].chr>>
    BY <1>6, <2>2, <2>3 DEF KnownString
  <2> QED
    BY <1>3, <1>4, <1>6, <2>1, <2>2, <2>4
<1>7. CASE c \notin Bytes
  <2>1. c \in Entries /\ c \in e.used /\ c # SHRINK_CONTROL
    BY <1>3, <1>7, Kinds
  <2>2. d[c].used /\ d[c].parent = e.par[c]
    BY <1>1, <2>1 DEF SameCodes
  <2>3. e.par[c] \in KnownCodes(e) /\ e.str[c] = Append(KnownString(e, e.par[c]), d[c].chr)
    BY <1>1, <1>7 DEF Rooted
  <2>4. KnownString(e, c) = Append(KnownString(e, d[c].parent), d[c].chr) /\ d[c].parent \in KnownCodes(e)
    BY <1>7, <2>2, <2>3 DEF KnownString
  <2>5. KnownString(e, d[c].parent) \in Seq(Bytes) /\ d[c].chr \in Bytes
    BY <1>3, <1>5, <2>4
  <2>6. Len(KnownString(e, c)) = Len(KnownString(e, d[c].parent)) + 1
    BY <2>4, <2>5, AppendProperties
  <2> QED
    BY <1>3, <1>4, <1>7, <2>1, <2>2, <2>4, <2>6
<1> QED
  BY <1>6, <1>7

(* A string is no longer than there are codes: each of its beginnings is   *)
(* the string of a code of its own.                                        *)
LEMMA StringsFit ==
  ASSUME NEW e, NEW d, Agree(e, d), NEW c \in KnownCodes(e)
  PROVE  Len(KnownString(e, c)) \in 1 .. SHRINK_MAX_CODES
<1> DEFINE n == Len(KnownString(e, c))
           len(x) == Len(KnownString(e, x))
           S == {k \in Nat : k < n => \E x \in KnownCodes(e) : len(x) = n - k}
<1>1. \A x \in KnownCodes(e) :
        /\ x \in Codes /\ len(x) \in Nat \ {0}
        /\ len(x) # 1 => d[x].parent \in KnownCodes(e) /\ len(x) = len(d[x].parent) + 1
  <2> SUFFICES ASSUME NEW x \in KnownCodes(e)
               PROVE  /\ x \in Codes /\ len(x) \in Nat \ {0}
                      /\ len(x) # 1 => d[x].parent \in KnownCodes(e) /\ len(x) = len(d[x].parent) + 1
    OBVIOUS
  <2>1. CASE x \in Bytes
    <3>1. len(x) = 1 /\ x \in Codes
      BY <2>1, KnownCode
    <3> QED
      BY <3>1
  <2>2. CASE x \notin Bytes
    BY <2>2, KnownCode
  <2> QED
    BY <2>1, <2>2
<1>2. n \in Nat \ {0} /\ n = len(c)
  BY <1>1
<1> HIDE DEF n, len
<1>3. 0 \in S
  BY <1>2
<1>4. ASSUME NEW k \in 0 .. n - 1, k \in S PROVE k + 1 \in S
  <2>1. SUFFICES ASSUME k + 1 < n PROVE \E x \in KnownCodes(e) : len(x) = n - (k + 1)
    OBVIOUS
  <2>2. PICK x \in KnownCodes(e) : len(x) = n - k
    BY <1>2, <1>4
  <2>3. len(x) # 1
    BY <1>2, <2>1, <2>2
  <2>4. d[x].parent \in KnownCodes(e) /\ len(x) = len(d[x].parent) + 1
    BY <1>1, <2>3
  <2>5. len(d[x].parent) \in Nat
    BY <1>1, <2>4
  <2>6. len(d[x].parent) = n - (k + 1)
    BY <1>2, <2>2, <2>4, <2>5
  <2> QED
    BY <2>4, <2>6
<1>5. \A k \in 0 .. n : k \in S
  <2> HIDE DEF S
  <2>1. 0 \in Int /\ n \in Int /\ (0 <= n => 0 \in S)
    BY <1>2, <1>3
  <2>2. \A k \in 0 .. n - 1 : k \in S => k + 1 \in S
    BY <1>4
  <2> QED
    BY <2>1, <2>2, Upwards
<1>6. \A k \in 1 .. n : \E x \in KnownCodes(e) : len(x) = k
  <2> SUFFICES ASSUME NEW k \in 1 .. n PROVE \E x \in KnownCodes(e) : len(x) = k
    OBVIOUS
  <2>1. n - k \in 0 .. n /\ n - k < n /\ n - (n - k) = k
    BY <1>2
  <2>2. n - k \in S
    BY <1>5, <2>1
  <2> QED
    BY <2>1, <2>2
<1> DEFINE f == [k \in 1 .. n |-> CHOOSE x \in KnownCodes(e) : len(x) = k]
<1>7. \A k \in 1 .. n : f[k] \in Codes /\ len(f[k]) = k
  BY <1>1, <1>6
<1>8. f \in [1 .. n -> Codes]
  <2>1. f = [k \in 1 .. n |-> f[k]]
    OBVIOUS
  <2> HIDE DEF f
  <2> QED
    BY <1>7, <2>1
<1> HIDE DEF f, S
<1>9. f \in Injection(1 .. n, Codes)
  <2>1. \A j, k \in 1 .. n : f[j] = f[k] => j = k
    BY <1>7
  <2> QED
    BY <1>8, <2>1 DEF Injection, IsInjective
<1>10. IsFiniteSet(Codes) /\ Cardinality(Codes) = SHRINK_MAX_CODES
  <2>1. 0 \in Int /\ SHRINK_MAX_CODES - 1 \in Int /\ SHRINK_MAX_CODES \in Nat
    BY Sizes
  <2>2. /\ IsFiniteSet(0 .. SHRINK_MAX_CODES - 1)
        /\ Cardinality(0 .. SHRINK_MAX_CODES - 1)
             = IF 0 > SHRINK_MAX_CODES - 1 THEN 0 ELSE (SHRINK_MAX_CODES - 1) - 0 + 1
    BY <2>1, FS_Interval
  <2> QED
    BY <2>1, <2>2, Kinds
<1>11. Cardinality(1 .. n) = n
  <2>1. 1 \in Int /\ n \in Int
    BY <1>2
  <2> QED
    BY <1>2, <2>1, FS_Interval
<1>12. n <= SHRINK_MAX_CODES
  BY <1>9, <1>10, <1>11, FS_Injection
<1> QED
  BY <1>2, <1>12, Sizes DEF n

(* What the decoder walks from a code to its root is the string of the     *)
(* code: its stack holds as many as there are codes.                       *)
LEMMA StringOfIs ==
  ASSUME NEW e, Agree(e, dict), NEW c \in KnownCodes(e)
  PROVE  StringOf(c) = KnownString(e, c)
<1> DEFINE M == SHRINK_MAX_CODES
           S == [Codes -> Seq(Bytes)]
           one(s) == [x \in Codes |-> IF dict[x].parent < 0 THEN <<dict[x].chr>>
                                      ELSE Append(s[dict[x].parent], dict[x].chr)]
           step == [k \in 0 .. M - 1 |-> [s \in S |-> one(s)]]
           none == [x \in Codes |-> <<>>]
           R(v) == [n \in 0 .. M |->
                      [x \in Codes |->
                         IF n = 0 THEN <<>>
                         ELSE IF dict[x].parent < 0 THEN <<dict[x].chr>>
                         ELSE Append(v[n - 1][dict[x].parent], dict[x].chr)]]
           value == CHOOSE v : v = R(v)
<1>1. M \in Nat /\ dict \in Tables
  BY Sizes DEF Agree
<1>2. \A x \in Codes : dict[x].parent \in {-1} \cup Codes /\ dict[x].chr \in Bytes
  BY <1>1 DEF Tables
<1>3. \A s \in S : one(s) \in S
  <2> SUFFICES ASSUME NEW s \in S, NEW x \in Codes
               PROVE  (IF dict[x].parent < 0 THEN <<dict[x].chr>>
                       ELSE Append(s[dict[x].parent], dict[x].chr)) \in Seq(Bytes)
    OBVIOUS
  <2>1. CASE dict[x].parent < 0
    BY <1>2, <2>1
  <2>2. CASE ~(dict[x].parent < 0)
    <3>1. dict[x].parent \in Codes
      BY <1>2, <2>2
    <3>2. s[dict[x].parent] \in Seq(Bytes) /\ dict[x].chr \in Bytes
      BY <1>2, <3>1
    <3> QED
      BY <2>2, <3>2, AppendProperties
  <2> QED
    BY <2>1, <2>2
<1>4. PICK g : Solves(g, M, S, none, step)
  <2>1. none \in S
    BY EmptySeq
  <2>2. step \in [0 .. M - 1 -> [S -> S]]
    <3> HIDE DEF S, one
    <3> QED
      BY <1>3
  <2> HIDE DEF M, S, none, step
  <2>3. Recursion(M, S, none, step)
    BY <1>1, <2>1, <2>2 DEF Recursion
  <2> QED
    BY <2>3, RecursionExists
<1>5. g \in [0 .. M -> S] /\ g[0] = none /\ \A k \in 0 .. M - 1 : g[k + 1] = step[k][g[k]]
  <2> HIDE DEF M, S, none, step
  <2> QED
    BY <1>4 DEF Solves
<1>6. g = R(g)
  <2>1. ASSUME NEW n \in 0 .. M
        PROVE  g[n] = [x \in Codes |->
                         IF n = 0 THEN <<>>
                         ELSE IF dict[x].parent < 0 THEN <<dict[x].chr>>
                         ELSE Append(g[n - 1][dict[x].parent], dict[x].chr)]
    <3>1. CASE n = 0
      BY <1>5, <3>1
    <3>2. CASE n # 0
      <4> DEFINE k == n - 1
      <4>1. k \in 0 .. M - 1 /\ k + 1 = n /\ k \in 0 .. M
        BY <1>1, <3>2
      <4>2. g[k] \in S /\ g[k + 1] = step[k][g[k]]
        BY <1>5, <4>1
      <4>3. g[n] = one(g[k])
        <5> HIDE DEF S, one
        <5> QED
          BY <4>1, <4>2
      <4> QED
        BY <3>2, <4>3
    <3> QED
      BY <3>1, <3>2
  <2>2. g = [n \in 0 .. M |-> g[n]]
    BY <1>5
  <2>3. R(g) = [n \in 0 .. M |-> g[n]]
    BY <2>1
  <2> QED
    BY <2>2, <2>3
<1>7. value = R(value)
  <2> HIDE DEF R
  <2> QED
    BY <1>6
<1>8. StringOf(c) = value[M][c]
  BY DEF StringOf
<1> HIDE DEF value
<1> DEFINE len(x) == Len(KnownString(e, x))
           T == {n \in 0 .. M : \A x \in KnownCodes(e) : len(x) <= n => value[n][x] = KnownString(e, x)}
<1>9. 0 \in T
  <2>1. \A x \in KnownCodes(e) : ~(len(x) <= 0)
    BY KnownCode
  <2> QED
    BY <1>1, <2>1
<1>10. ASSUME NEW n \in 0 .. M - 1, n \in T PROVE n + 1 \in T
  <2>1. SUFFICES ASSUME NEW x \in KnownCodes(e), len(x) <= n + 1
                 PROVE  value[n + 1][x] = KnownString(e, x)
    BY <1>1
  <2>2. x \in Codes /\ n + 1 \in 0 .. M /\ n + 1 # 0 /\ (n + 1) - 1 = n
    BY <1>1, KnownCode
  <2>3. value[n + 1][x] = IF dict[x].parent < 0 THEN <<dict[x].chr>>
                          ELSE Append(value[n][dict[x].parent], dict[x].chr)
    <3>1. value[n + 1] = R(value)[n + 1]
      <4> HIDE DEF R
      <4> QED
        BY <1>7
    <3> HIDE DEF M
    <3> QED
      BY <2>2, <3>1
  <2> HIDE DEF R
  <2>4. CASE x \in Bytes
    <3>1. dict[x].parent = -1 /\ KnownString(e, x) = <<dict[x].chr>>
      BY <2>4, KnownCode
    <3> QED
      BY <2>3, <3>1
  <2>5. CASE x \notin Bytes
    <3> DEFINE p == dict[x].parent
    <3>1. p \in KnownCodes(e) /\ KnownString(e, x) = Append(KnownString(e, p), dict[x].chr)
          /\ len(x) = len(p) + 1
      BY <2>5, KnownCode
    <3>2. p \in Codes /\ len(p) \in Nat
      BY <3>1, KnownCode
    <3>3. ~(p < 0)
      BY <3>2, Kinds
    <3> HIDE DEF p, len
    <3>4. len(p) <= n
      BY <2>1, <3>1, <3>2
    <3>5. value[n][p] = KnownString(e, p)
      BY <1>10, <3>1, <3>4
    <3> QED
      BY <2>3, <3>1, <3>3, <3>5 DEF p
  <2> QED
    BY <2>4, <2>5
<1>11. M \in T
  <2> HIDE DEF T, R
  <2>1. 0 \in Int /\ M \in Int /\ M \in 0 .. M
    BY <1>1
  <2>2. \A k \in 0 .. M - 1 : k \in T => k + 1 \in T
    BY <1>10
  <2>3. \A k \in 0 .. M : k \in T
    BY <1>9, <2>1, <2>2, Upwards
  <2> QED
    BY <2>1, <2>3
<1>12. len(c) <= M
  BY StringsFit, Sizes
<1> QED
  BY <1>8, <1>11, <1>12

-----------------------------------------------------------------------------
(* What may be sent is known, or is the entry that the code before it      *)
(* makes.                                                                  *)
LEMMA SentCode ==
  ASSUME NEW e, NEW d, Agree(e, d), NEW c \in CodesToSend(e)
  PROVE  /\ c \in Codes /\ c \in Bytes \cup Entries /\ c # SHRINK_CONTROL /\ c < 2 ^ e.n_bits
         /\ StringSent(e, c) \in Seq(Bytes) /\ StringSent(e, c) # <<>> /\ Head(StringSent(e, c)) \in Bytes
         /\ c \in KnownCodes(e) => d[c].used /\ StringSent(e, c) = KnownString(e, c)
         /\ c \notin KnownCodes(e) =>
              /\ c = NextEntry(e) /\ c \in Entries /\ ~d[c].used /\ PrevIsKnown(e)
              /\ StringSent(e, c) = Append(e.string, Head(e.string))
              /\ Head(StringSent(e, c)) = Head(e.string)
         /\ e.prev = NoCode => c \in Bytes
<1>1. e \in Encoders /\ SameCodes(e, d) /\ LastSent(e)
  BY DEF Agree
<1>2. e.used \in SUBSET Entries /\ e.string \in Seq(Bytes)
  BY <1>1 DEF Encoders
<1>3. /\ c < 2 ^ e.n_bits
      /\ c \in KnownCodes(e) \/ (PrevIsKnown(e) /\ Free(e) # {} /\ c = NextEntry(e))
  BY DEF CodesToSend
<1>4. e.prev = NoCode => c \in Bytes
  <2>1. e.prev = NoCode => ~PrevIsKnown(e)
    BY <1>2, Kinds DEF PrevIsKnown, KnownCodes
  <2>2. e.prev = NoCode => c \in KnownCodes(e) /\ e.used = {}
    BY <1>1, <1>3, <2>1 DEF LastSent
  <2> QED
    BY <2>2 DEF KnownCodes
<1>5. CASE c \in KnownCodes(e)
  <2>1. /\ c \in Codes /\ c # SHRINK_CONTROL /\ d[c].used /\ c \in Bytes \cup Entries
        /\ c \in Entries => c \in e.used
        /\ KnownString(e, c) \in Seq(Bytes) /\ KnownString(e, c) # <<>>
    BY <1>5, KnownCode
  <2>2. StringSent(e, c) = KnownString(e, c)
    BY <2>1 DEF StringSent, KnownString
  <2>3. Head(StringSent(e, c)) \in Bytes
    BY <2>1, <2>2, HeadTailProperties
  <2> QED
    BY <1>3, <1>4, <1>5, <2>1, <2>2, <2>3
<1>6. CASE c \notin KnownCodes(e)
  <2>1. PrevIsKnown(e) /\ Free(e) # {} /\ c = NextEntry(e)
    BY <1>3, <1>6
  <2>2. c \in Entries /\ c \notin e.used
    BY <1>2, <2>1, NextEntryIs
  <2>3. c \notin Bytes /\ c \in Codes /\ c # SHRINK_CONTROL
    BY <2>2, Kinds
  <2>4. ~d[c].used
    BY <1>1, <2>2 DEF SameCodes
  <2>5. StringSent(e, c) = Append(e.string, Head(e.string))
    BY <2>2, <2>3 DEF StringSent
  <2>6. e.string # <<>>
    <3>1. e.prev \in KnownCodes(e)
      BY <2>1 DEF PrevIsKnown
    <3>2. e.string = KnownString(e, e.prev)
      BY <1>1, <3>1 DEF LastSent
    <3> QED
      BY <3>1, <3>2, KnownCode
  <2>7. Head(e.string) \in Bytes
    BY <1>2, <2>6, HeadTailProperties
  <2>8. StringSent(e, c) \in Seq(Bytes) /\ StringSent(e, c) # <<>>
    BY <1>2, <2>5, <2>7, AppendProperties
  <2>9. Head(StringSent(e, c)) = Head(e.string)
    <3> DEFINE h == Head(e.string)
               s == e.string
    <3>1. Head(Append(s, h)) = IF s = <<>> THEN h ELSE Head(s)
      BY <1>2, HeadTailAppend
    <3> QED
      BY <2>5, <2>6, <3>1
  <2> QED
    BY <1>3, <1>4, <1>6, <2>1, <2>2, <2>3, <2>4, <2>5, <2>7, <2>8, <2>9
<1> QED
  BY <1>5, <1>6

Enters(e) == e.prev # NoCode /\ NextEntry(e) # Full

(* The encoder after a code.                                               *)
LEMMA AfterCodeIs ==
  ASSUME NEW e \in Encoders, NEW c
  PROVE  AfterCode(e, c) =
           [used   |-> IF Enters(e) THEN e.used \cup {NextEntry(e)} ELSE e.used,
            par    |-> IF Enters(e) THEN [e.par EXCEPT ![NextEntry(e)] = e.prev] ELSE e.par,
            str    |-> IF Enters(e) /\ PrevIsKnown(e)
                         THEN [e.str EXCEPT ![NextEntry(e)] = Append(e.string, Head(StringSent(e, c)))]
                         ELSE e.str,
            prev   |-> c,
            string |-> StringSent(e, c),
            n_bits |-> e.n_bits]
<1> DEFINE E == Enters(e)
           N == NextEntry(e)
           G == StringSent(e, c)
           P == PrevIsKnown(e)
<1>1. AfterCode(e, c) =
        [e EXCEPT !.used   = IF E THEN @ \cup {N} ELSE @,
                  !.par    = IF E THEN [@ EXCEPT ![N] = e.prev] ELSE @,
                  !.str    = IF E /\ P THEN [@ EXCEPT ![N] = Append(e.string, Head(G))] ELSE @,
                  !.prev   = c,
                  !.string = G]
  BY Zenon DEF AfterCode, Enters
<1> HIDE DEF E, N, G, P
<1>2. AfterCode(e, c) =
        [used   |-> IF E THEN e.used \cup {N} ELSE e.used,
         par    |-> IF E THEN [e.par EXCEPT ![N] = e.prev] ELSE e.par,
         str    |-> IF E /\ P THEN [e.str EXCEPT ![N] = Append(e.string, Head(G))] ELSE e.str,
         prev   |-> c, string |-> G, n_bits |-> e.n_bits]
  BY <1>1 DEF Encoders
<1> QED
  BY <1>2 DEF E, N, G, P

(* The entry that a code makes.                                            *)
Entered(e, d, c) ==
  IF Enters(e)
    THEN [d EXCEPT ![NextEntry(e)] = [parent |-> e.prev, chr |-> Head(StringSent(e, c)), used |-> TRUE]]
    ELSE d

(* After a code, with the entry it makes, the tables agree again.          *)
LEMMA AfterCodeAgrees ==
  ASSUME NEW e, NEW d, Agree(e, d), NEW c \in CodesToSend(e)
  PROVE  /\ Agree(AfterCode(e, c), Entered(e, d, c))
         /\ AfterCode(e, c).prev = c /\ AfterCode(e, c).string = StringSent(e, c)
         /\ AfterCode(e, c).n_bits = e.n_bits
         /\ AfterCode(e, c).used = IF Enters(e) THEN e.used \cup {NextEntry(e)} ELSE e.used
<1> DEFINE f == AfterCode(e, c)
           d2 == Entered(e, d, c)
           N == NextEntry(e)
           G == StringSent(e, c)
           h == Head(G)
           P == PrevIsKnown(e)
<1>1. e \in Encoders /\ d \in Tables /\ Roots(d) /\ Rooted(e, d) /\ Lost(e) /\ SameCodes(e, d) /\ LastSent(e)
  BY DEF Agree
<1>2. /\ e.used \in SUBSET Entries /\ e.par \in [Entries -> {NoCode} \cup Codes]
      /\ e.str \in [Entries -> Seq(Bytes)] /\ e.prev \in {NoCode} \cup Bytes \cup Entries
      /\ e.string \in Seq(Bytes) /\ e.n_bits \in SHRINK_INIT_BITS .. SHRINK_MAX_BITS
  BY <1>1 DEF Encoders
<1>3. /\ f.used = IF Enters(e) THEN e.used \cup {N} ELSE e.used
      /\ f.par = IF Enters(e) THEN [e.par EXCEPT ![N] = e.prev] ELSE e.par
      /\ f.str = IF Enters(e) /\ P THEN [e.str EXCEPT ![N] = Append(e.string, h)] ELSE e.str
      /\ f.prev = c /\ f.string = G /\ f.n_bits = e.n_bits
      /\ f = [used |-> f.used, par |-> f.par, str |-> f.str, prev |-> c, string |-> G, n_bits |-> e.n_bits]
  <2> DEFINE u == IF Enters(e) THEN e.used \cup {N} ELSE e.used
             p == IF Enters(e) THEN [e.par EXCEPT ![N] = e.prev] ELSE e.par
             s == IF Enters(e) /\ P THEN [e.str EXCEPT ![N] = Append(e.string, h)] ELSE e.str
  <2>1. f = [used |-> u, par |-> p, str |-> s, prev |-> c, string |-> G, n_bits |-> e.n_bits]
    BY <1>1, AfterCodeIs
  <2> HIDE DEF f, u, p, s, N, G, h, P
  <2>2. f.used = u /\ f.par = p /\ f.str = s /\ f.prev = c /\ f.string = G /\ f.n_bits = e.n_bits
    BY <2>1
  <2> QED
    BY <2>1, <2>2 DEF u, p, s
<1>4. /\ c \in Bytes \cup Entries /\ c \in Codes /\ c # NoCode
      /\ G \in Seq(Bytes) /\ G # <<>> /\ h \in Bytes
      /\ c \in KnownCodes(e) => G = KnownString(e, c)
      /\ c \notin KnownCodes(e) =>
           c = N /\ c \in Entries /\ P /\ G = Append(e.string, Head(e.string)) /\ h = Head(e.string)
      /\ e.prev = NoCode => c \in Bytes
  BY SentCode, Kinds
<1>5. /\ N \notin e.used
      /\ N # Full => N \in Entries
      /\ N \in Entries => N # Full
  BY <1>2, NextEntryIs, Kinds, Sizes
<1> HIDE DEF f, N, G, h, P
<1>6. Bytes \subseteq KnownCodes(e) /\ Bytes \subseteq KnownCodes(f)
  BY DEF KnownCodes
<1>7. CASE ~Enters(e)
  <2>1. f.used = e.used /\ f.par = e.par /\ f.str = e.str /\ d2 = d
    BY <1>3, <1>7 DEF Entered
  <2>2. c \in KnownCodes(e)
    BY <1>4, <1>5, <1>6, <1>7 DEF Enters, N
  <2>3. KnownCodes(f) = KnownCodes(e) /\ \A x : KnownString(f, x) = KnownString(e, x)
    BY <2>1 DEF KnownCodes, KnownString
  <2>4. f \in Encoders
    <3>1. f = [used |-> e.used, par |-> e.par, str |-> e.str, prev |-> c, string |-> G, n_bits |-> e.n_bits]
      BY <1>3, <2>1
    <3> QED
      BY <3>1, <1>2, <1>4 DEF Encoders
  <2>5. Rooted(f, d2)
    BY <1>1, <2>1, <2>3 DEF Rooted
  <2>6. Lost(f) /\ SameCodes(f, d2)
    BY <1>1, <2>1 DEF Lost, SameCodes
  <2>7. LastSent(f)
    BY <1>3, <1>4, <2>2, <2>3 DEF LastSent
  <2>8. Agree(f, d2)
    BY <1>1, <2>1, <2>4, <2>5, <2>6, <2>7 DEF Agree
  <2> QED
    BY <1>3, <2>8 DEF f, N, G
<1>8. CASE Enters(e)
  <2>1. /\ N \in Entries /\ e.prev # NoCode /\ e.prev \in Codes
        /\ f.used = e.used \cup {N} /\ f.par = [e.par EXCEPT ![N] = e.prev]
        /\ d2 = [d EXCEPT ![N] = [parent |-> e.prev, chr |-> h, used |-> TRUE]]
    BY <1>2, <1>3, <1>5, <1>8, Kinds DEF Enters, Entered, N, h, G
  <2>2. /\ P => f.str = [e.str EXCEPT ![N] = Append(e.string, h)]
        /\ ~P => f.str = e.str
    BY <1>3, <1>8
  <2>3. Append(e.string, h) \in Seq(Bytes) /\ Append(e.string, h) # <<>>
    BY <1>2, <1>4, AppendProperties
  <2>4. /\ e.str[N] = <<>> /\ N \notin KnownCodes(e) /\ N \notin Bytes /\ N \notin 0 .. SHRINK_CONTROL
        /\ N \in Codes
    <3>1. e.str[N] = <<>>
      BY <1>1, <1>5, <2>1 DEF Lost
    <3>2. N \notin Bytes /\ N \notin 0 .. SHRINK_CONTROL /\ N \in Codes
      BY <2>1, Kinds, Sizes
    <3> QED
      BY <1>5, <3>1, <3>2 DEF KnownCodes
  <2>5. /\ \A x \in Entries : x # N => f.par[x] = e.par[x] /\ f.str[x] = e.str[x]
        /\ f.par[N] = e.prev
        /\ P => f.str[N] = Append(e.string, h)
        /\ ~P => f.str[N] = <<>>
        /\ f.par \in [Entries -> {NoCode} \cup Codes] /\ f.str \in [Entries -> Seq(Bytes)]
    <3>1. /\ \A x \in Entries : x # N => f.par[x] = e.par[x]
          /\ f.par[N] = e.prev /\ f.par \in [Entries -> {NoCode} \cup Codes]
      BY <1>2, <2>1
    <3>2. /\ \A x \in Entries : x # N => f.str[x] = e.str[x]
          /\ P => f.str[N] = Append(e.string, h)
          /\ ~P => f.str[N] = <<>>
          /\ f.str \in [Entries -> Seq(Bytes)]
      <4>1. CASE P
        <5> DEFINE a == Append(e.string, h)
                   s == e.str
                   B == Seq(Bytes)
        <5>1. f.str = [s EXCEPT ![N] = a] /\ a \in B /\ s \in [Entries -> B]
          BY <1>2, <2>2, <2>3, <4>1
        <5> HIDE DEF a, s, B
        <5>2. f.str[N] = a /\ f.str \in [Entries -> B] /\ \A x \in Entries : x # N => f.str[x] = s[x]
          BY <2>1, <5>1
        <5> QED
          BY <4>1, <5>2 DEF a, s, B
      <4>2. CASE ~P
        BY <1>2, <2>2, <2>4, <4>2
      <4> QED
        BY <4>1, <4>2
    <3> QED
      BY <3>1, <3>2
  <2>6. /\ d2 \in Tables /\ d2[N] = [parent |-> e.prev, chr |-> h, used |-> TRUE]
        /\ \A x \in Codes : x # N => d2[x] = d[x]
    <3> DEFINE r == [parent |-> e.prev, chr |-> h, used |-> TRUE]
               K == [parent : {-1} \cup Codes, chr : Bytes, used : BOOLEAN]
    <3>1. r \in K /\ d \in [Codes -> K]
      BY <1>1, <1>4, <2>1 DEF Tables
    <3> HIDE DEF r, K
    <3>2. [d EXCEPT ![N] = r] \in [Codes -> K] /\ [d EXCEPT ![N] = r][N] = r
          /\ \A x \in Codes : x # N => [d EXCEPT ![N] = r][x] = d[x]
      BY <3>1, <2>4
    <3> QED
      BY <2>1, <3>2 DEF r, K, Tables
  <2> HIDE DEF d2
  <2>7. f \in Encoders
    <3>1. f.used \in SUBSET Entries
      BY <1>2, <2>1
    <3> DEFINE u == f.used
               p == f.par
               s == f.str
    <3>2. f = [used |-> u, par |-> p, str |-> s, prev |-> c, string |-> G, n_bits |-> e.n_bits]
      BY <1>3
    <3>3. u \in SUBSET Entries /\ p \in [Entries -> {NoCode} \cup Codes] /\ s \in [Entries -> Seq(Bytes)]
      BY <3>1, <2>5
    <3> HIDE DEF u, p, s
    <3> QED
      BY <3>2, <3>3, <1>2, <1>4 DEF Encoders
  <2>8. /\ KnownCodes(e) \subseteq KnownCodes(f)
        /\ \A x \in KnownCodes(e) : KnownString(f, x) = KnownString(e, x)
        /\ \A x \in KnownCodes(f) \ Bytes : x \in Entries /\ (x \in KnownCodes(e) \/ (x = N /\ P))
    <3>1. \A x \in KnownCodes(e) \ Bytes : x \in e.used /\ x \in Entries /\ x # N /\ e.str[x] # <<>>
      BY <1>2, <1>5 DEF KnownCodes
    <3>2. \A x \in KnownCodes(e) \ Bytes : x \in KnownCodes(f) /\ f.str[x] = e.str[x]
      BY <2>1, <2>5, <3>1 DEF KnownCodes
    <3>3. \A x \in KnownCodes(e) : KnownString(f, x) = KnownString(e, x)
      BY <3>2 DEF KnownString
    <3>4. ASSUME NEW x \in KnownCodes(f) \ Bytes
          PROVE  x \in Entries /\ (x \in KnownCodes(e) \/ (x = N /\ P))
      <4>1. x \in f.used /\ f.str[x] # <<>> /\ x \in Entries
        BY <1>2, <2>1 DEF KnownCodes
      <4>2. CASE x = N
        BY <2>5, <4>1, <4>2
      <4>3. CASE x # N
        <5>1. x \in e.used /\ e.str[x] # <<>>
          BY <2>1, <2>5, <4>1, <4>3
        <5> QED
          BY <4>1, <5>1 DEF KnownCodes
      <4> QED
        BY <4>2, <4>3
    <3> QED
      BY <1>6, <3>2, <3>3, <3>4
  <2>9. Roots(d2)
    <3> SUFFICES ASSUME NEW x \in 0 .. SHRINK_CONTROL
                 PROVE  d2[x] = [parent |-> -1, chr |-> x % SHRINK_CONTROL, used |-> TRUE]
      BY DEF Roots
    <3>1. x # N /\ x \in Codes
      BY <2>4, Kinds, Sizes
    <3> QED
      BY <1>1, <2>6, <3>1 DEF Roots
  <2>10. Rooted(f, d2)
    <3> SUFFICES ASSUME NEW x \in KnownCodes(f) \ Bytes
                 PROVE  f.par[x] \in KnownCodes(f) /\ f.str[x] = Append(KnownString(f, f.par[x]), d2[x].chr)
      BY DEF Rooted
    <3>1. CASE x \in KnownCodes(e)
      <4>1. x # N /\ x \in Entries /\ x \in Codes
        BY <2>4, <2>8, <3>1, Kinds
      <4>2. f.par[x] = e.par[x] /\ f.str[x] = e.str[x] /\ d2[x] = d[x]
        BY <2>5, <2>6, <4>1
      <4>3. e.par[x] \in KnownCodes(e) /\ e.str[x] = Append(KnownString(e, e.par[x]), d[x].chr)
        BY <1>1, <3>1 DEF Rooted
      <4>4. KnownString(f, e.par[x]) = KnownString(e, e.par[x]) /\ e.par[x] \in KnownCodes(f)
        BY <2>8, <4>3
      <4> QED
        BY <4>2, <4>3, <4>4
    <3>2. CASE x = N /\ P
      <4>1. e.prev \in KnownCodes(e)
        BY <3>2 DEF P, PrevIsKnown
      <4>2. e.string = KnownString(e, e.prev)
        BY <1>1, <4>1 DEF LastSent
      <4>3. KnownString(f, e.prev) = e.string /\ e.prev \in KnownCodes(f)
        BY <2>8, <4>1, <4>2
      <4>4. d2[x].chr = h
        BY <2>6, <3>2
      <4> QED
        BY <2>5, <3>2, <4>3, <4>4
    <3> QED
      BY <2>8, <3>1, <3>2
  <2>11. Lost(f)
    BY <1>1, <2>1, <2>5 DEF Lost
  <2>12. SameCodes(f, d2)
    <3> SUFFICES ASSUME NEW x \in Entries
                 PROVE  (d2[x].used <=> x \in f.used) /\ (x \in f.used => d2[x].parent = f.par[x])
      BY DEF SameCodes
    <3>1. CASE x = N
      BY <2>1, <2>5, <2>6, <3>1
    <3>2. CASE x # N
      <4>1. d2[x] = d[x] /\ f.par[x] = e.par[x] /\ (x \in f.used <=> x \in e.used)
        BY <2>1, <2>5, <2>6, <3>2, Kinds
      <4>2. (d[x].used <=> x \in e.used) /\ (x \in e.used => d[x].parent = e.par[x])
        BY <1>1 DEF SameCodes
      <4> QED
        BY <4>1, <4>2
    <3> QED
      BY <3>1, <3>2
  <2>13. LastSent(f)
    <3>1. f.string = G /\ f.prev = c /\ f.string # <<>> /\ f.prev # NoCode
      BY <1>3, <1>4
    <3>2. ASSUME c \in KnownCodes(f) PROVE G = KnownString(f, c)
      <4>1. CASE c \in KnownCodes(e)
        BY <1>4, <2>8, <4>1
      <4>2. CASE c \notin KnownCodes(e)
        <5>1. c = N /\ P /\ G = Append(e.string, Head(e.string)) /\ h = Head(e.string)
          BY <1>4, <4>2
        <5>2. KnownString(f, N) = f.str[N]
          BY <2>4 DEF KnownString
        <5> QED
          BY <2>5, <5>1, <5>2
      <4> QED
        BY <4>1, <4>2
    <3> QED
      BY <3>1, <3>2 DEF LastSent
  <2>14. Agree(f, d2)
    BY <2>6, <2>7, <2>9, <2>10, <2>11, <2>12, <2>13 DEF Agree
  <2> QED
    BY <1>3, <2>14 DEF f, N, G, d2
<1> QED
  BY <1>7, <1>8

(* After the code grew, the tables agree still.                            *)
LEMMA AfterGrowAgrees ==
  ASSUME NEW e, NEW d, Agree(e, d), e.n_bits < SHRINK_MAX_BITS
  PROVE  /\ Agree(AfterControl(e, SHRINK_GROW_CODE), d)
         /\ AfterControl(e, SHRINK_GROW_CODE).n_bits = e.n_bits + 1
         /\ AfterControl(e, SHRINK_GROW_CODE).prev = e.prev
         /\ AfterControl(e, SHRINK_GROW_CODE).string = e.string
         /\ AfterControl(e, SHRINK_GROW_CODE).used = e.used
<1> DEFINE f == AfterControl(e, SHRINK_GROW_CODE)
           k == e.n_bits + 1
<1>1. e \in Encoders /\ d \in Tables /\ Roots(d) /\ Rooted(e, d) /\ Lost(e) /\ SameCodes(e, d) /\ LastSent(e)
  BY DEF Agree
<1>2. f = [e EXCEPT !.n_bits = @ + 1]
  <2>1. SHRINK_GROW_CODE # SHRINK_CLEAR_CODE
    BY DEF SHRINK_GROW_CODE, SHRINK_CLEAR_CODE
  <2> QED
    BY <2>1 DEF AfterControl
<1>3. k \in SHRINK_INIT_BITS .. SHRINK_MAX_BITS
  BY <1>1, Sizes DEF Encoders
<1> HIDE DEF f
<1>4. f = [e EXCEPT !.n_bits = k]
  BY <1>2
<1> HIDE DEF k
<1>5. /\ f \in Encoders /\ f.used = e.used /\ f.par = e.par /\ f.str = e.str
      /\ f.prev = e.prev /\ f.string = e.string /\ f.n_bits = k
  BY <1>1, <1>3, <1>4 DEF Encoders
<1>6. KnownCodes(f) = KnownCodes(e) /\ \A x : KnownString(f, x) = KnownString(e, x)
  BY <1>5 DEF KnownCodes, KnownString
<1>7. Rooted(f, d) /\ Lost(f) /\ SameCodes(f, d) /\ LastSent(f)
  BY <1>1, <1>5, <1>6 DEF Rooted, Lost, SameCodes, LastSent
<1>8. Agree(f, d)
  BY <1>1, <1>5, <1>7 DEF Agree
<1> QED
  BY <1>5, <1>8 DEF f, k

(* The entries that the decoder clears are the encoder's leaves: with a    *)
(* full table it looks at every entry.                                     *)
LEMMA AfterClearAgrees ==
  ASSUME NEW e, Agree(e, dict), Free(e) = {}, shrink_partial_clear(Full)
  PROVE  /\ Agree(AfterControl(e, SHRINK_CLEAR_CODE), dict')
         /\ AfterControl(e, SHRINK_CLEAR_CODE).n_bits = e.n_bits
         /\ AfterControl(e, SHRINK_CLEAR_CODE).prev = e.prev
         /\ AfterControl(e, SHRINK_CLEAR_CODE).string = e.string
         /\ AfterControl(e, SHRINK_CLEAR_CODE).used \in SUBSET Entries
<1> DEFINE f == AfterControl(e, SHRINK_CLEAR_CODE)
           L == Leaves(e)
           u == e.used \ L
           s == [c \in Entries |-> IF c \in L THEN <<>> ELSE e.str[c]]
<1>1. /\ e \in Encoders /\ dict \in Tables /\ Roots(dict) /\ Rooted(e, dict) /\ Lost(e)
      /\ SameCodes(e, dict) /\ LastSent(e)
  BY DEF Agree
<1>2. /\ e.used \in SUBSET Entries /\ e.str \in [Entries -> Seq(Bytes)]
      /\ e.par \in [Entries -> {NoCode} \cup Codes]
  BY <1>1 DEF Encoders
<1>3. f = [e EXCEPT !.used = u, !.str = s]
  <2>1. SHRINK_GROW_CODE # SHRINK_CLEAR_CODE
    BY DEF SHRINK_GROW_CODE, SHRINK_CLEAR_CODE
  <2> QED
    BY <2>1 DEF AfterControl
<1>4. u \in SUBSET Entries /\ s \in [Entries -> Seq(Bytes)]
  BY <1>2, EmptySeq
<1> HIDE DEF f, u, s
<1>5. /\ f \in Encoders /\ f.used = u /\ f.par = e.par /\ f.str = s
      /\ f.prev = e.prev /\ f.string = e.string /\ f.n_bits = e.n_bits
  BY <1>1, <1>3, <1>4 DEF Encoders
<1>6. /\ \A c \in L : s[c] = <<>>
      /\ \A c \in Entries \ L : s[c] = e.str[c]
      /\ \A c : c \in u <=> (c \in e.used /\ c \notin L)
      /\ L \subseteq Entries
  BY <1>2 DEF s, u, Leaves
<1>7. \A c \in Entries : c \in e.used => ((c \in L) <=> (c \notin ParentsBelow(Full)))
  <2> SUFFICES ASSUME NEW c \in Entries, c \in e.used
               PROVE  (c \in L) <=> (c \notin ParentsBelow(Full))
    OBVIOUS
  <2>1. SHRINK_FIRST_CODE .. Full - 1 = Entries
    BY Sizes DEF Entries
  <2>2. (c \in ParentsBelow(Full)) <=> \E x \in Entries : dict[x].used /\ dict[x].parent = c
    BY <2>1 DEF ParentsBelow
  <2>3. \A x \in Entries : (dict[x].used /\ dict[x].parent = c) <=> (x \in e.used /\ e.par[x] = c)
    BY <1>1 DEF SameCodes
  <2>4. (c \in L) <=> \A x \in e.used : e.par[x] # c
    BY DEF Leaves
  <2> QED
    BY <1>2, <2>2, <2>3, <2>4
<1>8. /\ dict' \in Tables
      /\ \A c \in Codes : dict'[c].parent = dict[c].parent /\ dict'[c].chr = dict[c].chr
      /\ \A c \in Codes \ Entries : dict'[c] = dict[c]
      /\ \A c \in Entries : dict'[c].used <=> (dict[c].used /\ c \in ParentsBelow(Full))
  <2> DEFINE K == [parent : {-1} \cup Codes, chr : Bytes, used : BOOLEAN]
             b(c) == dict[c].used /\ ~(c \in Entries /\ c \notin ParentsBelow(Full))
  <2>1. SHRINK_FIRST_CODE .. Full - 1 = Entries
    BY Sizes DEF Entries
  <2>2. dict' = [c \in Codes |-> [dict[c] EXCEPT !.used = b(c)]]
    BY <2>1 DEF shrink_partial_clear
  <2>3. \A c \in Codes : dict[c] \in K
    BY <1>1 DEF Tables
  <2>4. ASSUME NEW c \in Codes
        PROVE  /\ dict'[c] \in K /\ dict'[c].parent = dict[c].parent /\ dict'[c].chr = dict[c].chr
               /\ dict'[c].used = b(c)
               /\ dict'[c] = [parent |-> dict[c].parent, chr |-> dict[c].chr, used |-> b(c)]
               /\ dict[c] = [parent |-> dict[c].parent, chr |-> dict[c].chr, used |-> dict[c].used]
    <3> DEFINE v == b(c)
               r == dict[c]
    <3>1. v \in BOOLEAN
      BY <2>3
    <3>2. dict'[c] = [r EXCEPT !.used = v] /\ r \in K
      BY <2>2, <2>3
    <3> HIDE DEF v, r
    <3>3. /\ dict'[c] \in K /\ dict'[c].parent = r.parent /\ dict'[c].chr = r.chr /\ dict'[c].used = v
          /\ dict'[c] = [parent |-> r.parent, chr |-> r.chr, used |-> v]
          /\ r = [parent |-> r.parent, chr |-> r.chr, used |-> r.used]
      BY <3>1, <3>2
    <3> QED
      BY <3>3 DEF v, r
  <2>5. ASSUME NEW c \in Codes, c \notin Entries PROVE dict'[c] = dict[c]
    <3>1. b(c) = dict[c].used
      BY <2>3, <2>5
    <3> QED
      BY <2>4, <3>1
  <2>6. dict' \in [Codes -> K]
    BY <2>2, <2>4
  <2> QED
    BY <2>4, <2>5, <2>6, Kinds DEF Tables
<1>9. /\ \A x \in KnownCodes(f) : x \in KnownCodes(e) /\ KnownString(f, x) = KnownString(e, x)
      /\ \A x \in KnownCodes(e) : x \notin L => x \in KnownCodes(f)
      /\ \A x \in KnownCodes(f) \ Bytes : x \in Entries /\ x \in e.used /\ x \notin L
  BY <1>2, <1>5, <1>6 DEF KnownCodes, KnownString
<1>10. Rooted(f, dict')
  <2> SUFFICES ASSUME NEW x \in KnownCodes(f) \ Bytes
               PROVE  f.par[x] \in KnownCodes(f) /\ f.str[x] = Append(KnownString(f, f.par[x]), dict'[x].chr)
    BY DEF Rooted
  <2>1. x \in KnownCodes(e) \ Bytes /\ x \in Entries /\ x \in e.used /\ x \notin L /\ x \in Codes
    BY <1>9, Kinds
  <2>2. e.par[x] \in KnownCodes(e) /\ e.str[x] = Append(KnownString(e, e.par[x]), dict[x].chr)
    BY <1>1, <2>1 DEF Rooted
  <2>3. e.par[x] \notin L
    BY <2>1 DEF Leaves
  <2>4. e.par[x] \in KnownCodes(f) /\ KnownString(f, e.par[x]) = KnownString(e, e.par[x])
    BY <1>9, <2>2, <2>3
  <2> QED
    BY <1>5, <1>6, <1>8, <2>1, <2>2, <2>4
<1>11. Lost(f)
  BY <1>1, <1>5, <1>6 DEF Lost
<1>12. SameCodes(f, dict')
  <2> SUFFICES ASSUME NEW x \in Entries
               PROVE  (dict'[x].used <=> x \in f.used) /\ (x \in f.used => dict'[x].parent = f.par[x])
    BY DEF SameCodes
  <2>1. (dict[x].used <=> x \in e.used) /\ (x \in e.used => dict[x].parent = e.par[x]) /\ x \in Codes
    BY <1>1, Kinds DEF SameCodes
  <2> QED
    BY <1>5, <1>6, <1>7, <1>8, <2>1
<1>13. LastSent(f)
  BY <1>1, <1>5, <1>6, <1>9 DEF LastSent
<1>14. Roots(dict')
  <2>1. \A x \in 0 .. SHRINK_CONTROL : x \in Codes \ Entries
    BY Kinds, Sizes DEF Entries
  <2> QED
    BY <1>1, <1>8, <2>1 DEF Roots
<1>15. Agree(f, dict')
  BY <1>5, <1>8, <1>10, <1>11, <1>12, <1>13, <1>14 DEF Agree
<1> QED
  BY <1>4, <1>5, <1>15 DEF f

-----------------------------------------------------------------------------
(* The bits of a code and what follows them.                               *)
LEMMA ReadCode ==
  ASSUME NEW k \in SHRINK_INIT_BITS .. SHRINK_MAX_BITS, NEW c \in Nat, c < 2 ^ k,
         NEW rest \in Seq({0, 1})
  PROVE  /\ Len(BitsOf(c, k) \o rest) >= k /\ Len(BitsOf(c, k) \o rest) # 0
         /\ ValueOf(SubSeq(BitsOf(c, k) \o rest, 1, k)) = c
         /\ SubSeq(BitsOf(c, k) \o rest, k + 1, Len(BitsOf(c, k) \o rest)) = rest
<1> DEFINE s == BitsOf(c, k)
           all == s \o rest
<1>1. k \in Nat \ {0}
  BY Sizes
<1>2. s \in Seq({0, 1}) /\ Len(s) = k
  BY <1>1, BitsType
<1>3. ValueOf(s) = c
  BY <1>1, ValueOfBits
<1> HIDE DEF s
<1>4. all = s \o rest
  OBVIOUS
<1>5. SubSeq(s \o rest, 1, Len(s)) = s /\ SubSeq(s \o rest, Len(s) + 1, Len(s \o rest)) = rest
      /\ Len(s \o rest) = Len(s) + Len(rest) /\ Len(rest) \in Nat
  <2> DEFINE S == {0, 1}
  <2>1. s \in Seq(S) /\ rest \in Seq(S)
    BY <1>2
  <2> HIDE DEF S
  <2> QED
    BY <2>1, TakeApart, ConcatProperties, LenProperties
<1> HIDE DEF all
<1>6. SubSeq(all, 1, k) = s /\ SubSeq(all, k + 1, Len(all)) = rest /\ Len(all) = k + Len(rest)
  BY <1>2, <1>4, <1>5
<1>7. ValueOf(SubSeq(all, 1, k)) = c
  BY <1>3, <1>6
<1>8. Len(all) >= k /\ Len(all) # 0
  BY <1>1, <1>5, <1>6
<1> QED
  BY <1>6, <1>7, <1>8 DEF all, s

(* With nothing behind them.                                               *)
LEMMA ReadLast ==
  ASSUME NEW k \in SHRINK_INIT_BITS .. SHRINK_MAX_BITS, NEW c \in Nat, c < 2 ^ k,
         NEW all, all = BitsOf(c, k)
  PROVE  /\ Len(all) >= k /\ Len(all) # 0
         /\ ValueOf(SubSeq(all, 1, k)) = c
         /\ SubSeq(all, k + 1, Len(all)) = <<>>
<1>1. k \in Nat \ {0}
  BY Sizes
<1>2. all \in Seq({0, 1}) /\ Len(all) = k
  BY <1>1, BitsType
<1>3. SubSeq(all, 1, k) = all
  BY <1>2, SubSeqFull
<1>4. ValueOf(all) = c
  BY <1>1, ValueOfBits
<1>5. SubSeq(all, k + 1, k) = <<>>
  BY <1>1, <1>2, SubSeqEmpty
<1>6. ValueOf(SubSeq(all, 1, k)) = c
  BY <1>3, <1>4
<1> QED
  BY <1>1, <1>2, <1>5, <1>6

(* What the caller's buffer takes of a string.                             *)
LEMMA EmitIs ==
  ASSUME room \in 0 .. OutSize, room > 0, NEW string \in Seq(Bytes), Emit(string)
  PROVE  /\ room' \in 0 .. OutSize
         /\ IF room' > 0 THEN delivered' = string ELSE IsPrefix(delivered', string)
<1> DEFINE n == IF Len(string) < room THEN Len(string) ELSE room
<1>1. delivered' = SubSeq(string, 1, n) /\ room' = room - Len(delivered')
  BY DEF Emit
<1>2. Len(string) \in Nat /\ n \in Nat /\ n <= Len(string) /\ n <= room /\ room \in Nat
  BY LenProperties, Sizes
<1>3. (Len(string) < room => n = Len(string)) /\ (~(Len(string) < room) => n = room)
  OBVIOUS
<1> HIDE DEF n
<1>4. /\ SubSeq(string, 1, n) \in Seq(Bytes) /\ Len(SubSeq(string, 1, n)) = n
      /\ \A i \in 1 .. n : SubSeq(string, 1, n)[i] = string[i]
  <2>1. \A i \in 1 .. n : string[i] \in Bytes
    BY <1>2, ElementOfSeq
  <2>2. /\ SubSeq(string, 1, n) \in Seq(Bytes)
        /\ Len(SubSeq(string, 1, n)) = IF 1 <= n THEN n - 1 + 1 ELSE 0
        /\ \A i \in 1 .. n - 1 + 1 : SubSeq(string, 1, n)[i] = string[1 + i - 1]
    BY <1>2, <2>1, 1 \in Int, n \in Int, SubSeqProperties
  <2> QED
    BY <1>2, <2>2
<1>5. room' = room - n /\ room' \in 0 .. OutSize
  BY <1>1, <1>2, <1>4, Sizes
<1>6. CASE n = Len(string)
  <2>1. SubSeq(string, 1, n) = string
    BY <1>4, <1>6, SeqEqual
  <2>2. delivered' = string
    BY <1>1, <2>1
  <2>3. SubSeq(string, 1, Len(string)) = SubSeq(string, 1, Len(string)) /\ Len(string) <= Len(string)
    BY <1>2
  <2>4. IsPrefix(delivered', string)
    BY <2>2, <2>3 DEF IsPrefix
  <2> QED
    BY <1>5, <2>2, <2>4
<1>7. CASE n # Len(string)
  <2>1. n = room /\ room' = 0
    BY <1>2, <1>3, <1>5, <1>7
  <2>2. Len(delivered') = n /\ SubSeq(delivered', 1, n) = SubSeq(string, 1, n)
    <3> DEFINE t == SubSeq(string, 1, n)
    <3>1. t \in Seq(Bytes) /\ Len(t) = n
      BY <1>4
    <3> HIDE DEF t
    <3>2. SubSeq(t, 1, n) = t
      BY <3>1, SubSeqFull
    <3> QED
      BY <1>1, <3>1, <3>2 DEF t
  <2>3. IsPrefix(delivered', string)
    BY <1>2, <2>2 DEF IsPrefix
  <2> QED
    BY <1>5, <2>1, <2>3
<1> QED
  BY <1>6, <1>7

-----------------------------------------------------------------------------
(* The decoder's table has room where the encoder's has.                   *)
LEMMA SameNext ==
  ASSUME NEW e, NEW d, Agree(e, d)
  PROVE  /\ NextEntry(e) \in SHRINK_FIRST_CODE .. Full /\ NextEntry(e) = FirstFrom(d, SHRINK_FIRST_CODE)
         /\ \A from \in SHRINK_FIRST_CODE .. Full : from <= NextEntry(e) => FirstFrom(d, from) = NextEntry(e)
<1>1. e.used \in SUBSET Entries /\ \A c \in Entries : d[c].used <=> c \in e.used
  BY DEF Agree, Encoders, SameCodes
<1>2. NextEntry(e) \in SHRINK_FIRST_CODE .. Full
  BY <1>1, NextEntryIs
<1>3. \A from \in SHRINK_FIRST_CODE .. Full : from <= NextEntry(e) => FirstFrom(d, from) = NextEntry(e)
  BY <1>1, FirstFromIs
<1>4. SHRINK_FIRST_CODE \in SHRINK_FIRST_CODE .. Full /\ SHRINK_FIRST_CODE <= NextEntry(e)
  BY <1>2, Sizes
<1> QED
  BY <1>2, <1>3, <1>4

(* Encoders that have the same entries make the same one next.             *)
LEMMA NextOfUsed ==
  ASSUME NEW e, NEW f, e.used = f.used
  PROVE  NextEntry(e) = NextEntry(f)
BY DEF NextEntry, Free

(* What the bits are while something is on its way.                        *)
LEMMA CodeBits ==
  ASSUME Bounds, NEW e, NEW c, CodeIsOnItsWay(e, c)
  PROVE  /\ Len(bits) >= code_size /\ bits # <<>> /\ ReadValue = c
         /\ SubSeq(bits, code_size + 1, Len(bits)) = <<>>
         /\ c \in Codes /\ c # SHRINK_CONTROL
<1>1. Agree(e, dict) /\ code_size = e.n_bits /\ c \in CodesToSend(e) /\ bits = BitsOf(c, e.n_bits)
  BY DEF CodeIsOnItsWay, SameState
<1>2. code_size \in SHRINK_INIT_BITS .. SHRINK_MAX_BITS
  BY DEF Bounds
<1>3. c \in Codes /\ c < 2 ^ code_size /\ c # SHRINK_CONTROL
  BY <1>1, SentCode
<1>4. c \in Nat
  BY <1>3, Kinds
<1>5. bits = BitsOf(c, code_size)
  BY <1>1
<1>6. /\ Len(bits) >= code_size /\ Len(bits) # 0
      /\ ValueOf(SubSeq(bits, 1, code_size)) = c
      /\ SubSeq(bits, code_size + 1, Len(bits)) = <<>>
  BY <1>2, <1>3, <1>4, <1>5, ReadLast
<1>7. bits # <<>>
  <2>1. Len(<<>>) = 0
    OBVIOUS
  <2> QED
    BY <1>6, <2>1
<1>8. ReadValue = c
  BY <1>6 DEF ReadValue
<1> QED
  BY <1>3, <1>6, <1>7, <1>8

LEMMA ControlBits ==
  ASSUME Bounds, NEW e, NEW subcode, ControlIsOnItsWay(e, subcode)
  PROVE  /\ Len(bits) >= code_size /\ bits # <<>>
         /\ phase = "read" =>
              /\ ReadValue = SHRINK_CONTROL
              /\ SubSeq(bits, code_size + 1, Len(bits)) = BitsOf(subcode, code_size)
         /\ phase = "subcode" => ReadValue = subcode /\ SubSeq(bits, code_size + 1, Len(bits)) = <<>>
<1>1. /\ code_size = e.n_bits /\ subcode \in 0 .. 2 ^ SHRINK_INIT_BITS - 1 /\ phase \in {"read", "subcode"}
      /\ bits = IF phase = "read"
                  THEN BitsOf(SHRINK_CONTROL, e.n_bits) \o BitsOf(subcode, e.n_bits)
                  ELSE BitsOf(subcode, e.n_bits)
  BY DEF ControlIsOnItsWay, SameState
<1>2. code_size \in SHRINK_INIT_BITS .. SHRINK_MAX_BITS
  BY DEF Bounds
<1>3. code_size \in Nat /\ SHRINK_CONTROL \in Nat /\ SHRINK_CONTROL < 2 ^ code_size
  BY <1>2, Sizes
<1>4. subcode \in Nat /\ subcode < 2 ^ code_size
  <2>1. 2 ^ SHRINK_INIT_BITS <= 2 ^ code_size /\ 2 ^ code_size \in Nat /\ 2 ^ SHRINK_INIT_BITS \in Nat
    <3>1. SHRINK_INIT_BITS \in SHRINK_INIT_BITS .. SHRINK_MAX_BITS
      BY Sizes
    <3> QED
      BY <1>2, <3>1, Sizes
  <2> QED
    BY <1>1, <2>1
<1>5. Len(<<>>) = 0
  OBVIOUS
<1>6. CASE phase = "read"
  <2> DEFINE rest == BitsOf(subcode, code_size)
  <2>1. rest \in Seq({0, 1}) /\ bits = BitsOf(SHRINK_CONTROL, code_size) \o rest
    BY <1>1, <1>3, <1>4, <1>6, BitsType
  <2> HIDE DEF rest
  <2>2. /\ Len(bits) >= code_size /\ Len(bits) # 0
        /\ ValueOf(SubSeq(bits, 1, code_size)) = SHRINK_CONTROL
        /\ SubSeq(bits, code_size + 1, Len(bits)) = rest
    <3> DEFINE k == code_size
               c == SHRINK_CONTROL
               all == bits
    <3>1. k \in SHRINK_INIT_BITS .. SHRINK_MAX_BITS /\ c \in Nat /\ c < 2 ^ k
          /\ rest \in Seq({0, 1}) /\ all = BitsOf(c, k) \o rest
      BY <1>2, <1>3, <2>1
    <3> HIDE DEF k, c, all
    <3>2. /\ Len(BitsOf(c, k) \o rest) >= k /\ Len(BitsOf(c, k) \o rest) # 0
          /\ ValueOf(SubSeq(BitsOf(c, k) \o rest, 1, k)) = c
          /\ SubSeq(BitsOf(c, k) \o rest, k + 1, Len(BitsOf(c, k) \o rest)) = rest
      BY <3>1, ReadCode
    <3> QED
      BY <3>1, <3>2 DEF k, c, all
  <2>3. bits # <<>> /\ ReadValue = SHRINK_CONTROL
    BY <1>5, <2>2 DEF ReadValue
  <2> QED
    BY <1>6, <2>2, <2>3 DEF rest
<1>7. CASE phase = "subcode"
  <2>1. bits = BitsOf(subcode, code_size)
    BY <1>1, <1>7
  <2>2. /\ Len(bits) >= code_size /\ Len(bits) # 0
        /\ ValueOf(SubSeq(bits, 1, code_size)) = subcode
        /\ SubSeq(bits, code_size + 1, Len(bits)) = <<>>
    BY <1>2, <1>4, <2>1, ReadLast
  <2>3. bits # <<>> /\ ReadValue = subcode
    BY <1>5, <2>2 DEF ReadValue
  <2> QED
    BY <1>7, <2>2, <2>3
<1> QED
  BY <1>1, <1>6, <1>7

(* While the encoder may send, nothing is on its way.                      *)
LEMMA WaitingIsIdle ==
  ASSUME ShrinkInv, Waiting
  PROVE  NothingOnItsWay
<1>1. Bounds /\ phase \in {"first", "read"} /\ Len(bits) < code_size
  BY DEF ShrinkInv, Waiting
<1>2. ASSUME NEW e, NEW c, CodeIsOnItsWay(e, c) PROVE FALSE
  <2>1. Len(bits) >= code_size
    BY <1>1, <1>2, CodeBits
  <2>2. Len(bits) \in Nat /\ code_size \in Nat
    <3>1. code_size \in Nat
      BY <1>1, Sizes DEF Bounds
    <3>2. bits \in Seq({0, 1})
      <4>1. c \in Codes /\ bits = BitsOf(c, e.n_bits) /\ e.n_bits = code_size
        BY <1>1, <1>2, CodeBits DEF CodeIsOnItsWay, SameState
      <4> QED
        BY <3>1, <4>1, BitsType, Kinds
    <3> QED
      BY <3>1, <3>2, LenProperties
  <2> QED
    BY <1>1, <2>1, <2>2
<1>3. ASSUME NEW e, NEW subcode, ControlIsOnItsWay(e, subcode) PROVE FALSE
  <2>1. Len(bits) >= code_size
    BY <1>1, <1>3, ControlBits
  <2>2. Len(bits) \in Nat /\ code_size \in Nat
    <3>1. code_size \in Nat /\ 2 ^ SHRINK_INIT_BITS \in Nat
      <4>1. SHRINK_INIT_BITS \in SHRINK_INIT_BITS .. SHRINK_MAX_BITS
        BY Sizes
      <4> QED
        BY <1>1, <4>1, Sizes DEF Bounds
    <3>2. subcode \in Nat /\ SHRINK_CONTROL \in Nat /\ phase = "read"
      BY <1>1, <1>3, <3>1, Sizes DEF ControlIsOnItsWay
    <3>3. bits = BitsOf(SHRINK_CONTROL, code_size) \o BitsOf(subcode, code_size)
      BY <1>3, <3>2 DEF ControlIsOnItsWay, SameState
    <3>4. BitsOf(SHRINK_CONTROL, code_size) \in Seq({0, 1}) /\ BitsOf(subcode, code_size) \in Seq({0, 1})
      BY <3>1, <3>2, BitsType
    <3>5. bits \in Seq({0, 1})
      BY <3>3, <3>4, ConcatProperties
    <3> QED
      BY <3>1, <3>5, LenProperties
  <2> QED
    BY <1>1, <2>1, <2>2
<1> QED
  BY <1>1, <1>2, <1>3 DEF ShrinkInv, CodeOnItsWay, ControlOnItsWay

(* While the decoder can read, something is on its way.                    *)
LEMMA ReadingIsBusy ==
  ASSUME ShrinkInv, CanRead, phase # "done"
  PROVE  CodeOnItsWay \/ ControlOnItsWay
<1>1. SUFFICES ASSUME NothingOnItsWay PROVE FALSE
  BY DEF ShrinkInv
<1>2. bits = <<>> /\ code_size \in Nat \ {0} /\ Len(bits) >= code_size
  BY <1>1, Sizes DEF ShrinkInv, Bounds, NothingOnItsWay, CanRead
<1>3. Len(<<>>) = 0
  OBVIOUS
<1> QED
  BY <1>2, <1>3

-----------------------------------------------------------------------------
(* At first both tables are new.                                           *)
LEMMA ShrinkStarts ==
  ShrinkInit => ShrinkInv
<1> SUFFICES ASSUME ShrinkInit PROVE ShrinkInv
  OBVIOUS
<1>1. /\ encoder = NewTable /\ bits = <<>>
      /\ dict = [c \in Codes |-> IF c <= SHRINK_CONTROL
                                   THEN [parent |-> -1, chr |-> c % SHRINK_CONTROL, used |-> TRUE]
                                   ELSE [parent |-> 0, chr |-> 0, used |-> FALSE]]
      /\ next_code = SHRINK_FIRST_CODE /\ code_size = SHRINK_INIT_BITS /\ prev_code = NoCode
      /\ room = OutSize /\ phase = "first"
  BY DEF ShrinkInit
<1>2. /\ encoder.used = {} /\ encoder.prev = NoCode /\ encoder.n_bits = SHRINK_INIT_BITS
      /\ encoder.str = [c \in Entries |-> <<>>] /\ encoder \in Encoders
  <2> DEFINE p == [c \in Entries |-> NoCode]
             s == [c \in Entries |-> <<>>]
  <2>1. p \in [Entries -> {NoCode} \cup Codes] /\ s \in [Entries -> Seq(Bytes)] /\ <<>> \in Seq(Bytes)
        /\ SHRINK_INIT_BITS \in SHRINK_INIT_BITS .. SHRINK_MAX_BITS
    BY EmptySeq, Sizes
  <2>2. encoder = [used |-> {}, par |-> p, str |-> s, prev |-> NoCode, string |-> <<>>, n_bits |-> SHRINK_INIT_BITS]
    BY <1>1 DEF NewTable
  <2> HIDE DEF p, s
  <2>3. encoder.used = {} /\ encoder.prev = NoCode /\ encoder.n_bits = SHRINK_INIT_BITS /\ encoder.str = s
    BY <2>2
  <2>4. encoder \in Encoders
    BY <2>1, <2>2 DEF Encoders
  <2> QED
    BY <2>3, <2>4 DEF s
<1>3. dict \in Tables
  <2> DEFINE K == [parent : {-1} \cup Codes, chr : Bytes, used : BOOLEAN]
  <2>1. \A c \in Codes : c % SHRINK_CONTROL \in Bytes
    <3> SUFFICES ASSUME NEW c \in Codes PROVE c % SHRINK_CONTROL \in Bytes
      OBVIOUS
    <3>1. c \in Int /\ SHRINK_CONTROL \in Nat \ {0}
      BY Kinds, Sizes
    <3> QED
      BY <3>1, ModRange DEF Bytes
  <2>2. 0 \in Codes /\ 0 \in Bytes
    BY Kinds
  <2>3. \A c \in Codes : dict[c] \in K
    BY <1>1, <2>1, <2>2
  <2>4. dict = [c \in Codes |-> dict[c]]
    BY <1>1
  <2> HIDE DEF K
  <2>5. dict \in [Codes -> K]
    BY <2>3, <2>4
  <2> QED
    BY <2>5 DEF Tables, K
<1>4. Roots(dict)
  <2>1. \A c \in 0 .. SHRINK_CONTROL : c \in Codes /\ c <= SHRINK_CONTROL
    BY Kinds, Sizes
  <2> QED
    BY <1>1, <2>1 DEF Roots
<1>5. \A c \in Entries : ~dict[c].used
  <2>1. \A c \in Entries : c \in Codes /\ ~(c <= SHRINK_CONTROL)
    BY Kinds, Sizes
  <2> QED
    BY <1>1, <2>1
<1>6. Agree(encoder, dict)
  <2>1. KnownCodes(encoder) = Bytes /\ NoCode \notin Bytes
    BY <1>2, Kinds DEF KnownCodes
  <2>2. Rooted(encoder, dict)
    BY <2>1 DEF Rooted
  <2>3. Lost(encoder) /\ SameCodes(encoder, dict)
    BY <1>2, <1>5 DEF Lost, SameCodes
  <2>4. LastSent(encoder)
    BY <1>2, <2>1 DEF LastSent
  <2> QED
    BY <1>2, <1>3, <1>4, <2>2, <2>3, <2>4 DEF Agree
<1>7. NextEntry(encoder) = SHRINK_FIRST_CODE
  <2>1. encoder.used \in SUBSET Entries
    BY <1>2
  <2>2. /\ NextEntry(encoder) \in SHRINK_FIRST_CODE .. Full
        /\ \A c \in SHRINK_FIRST_CODE .. Full : c < NextEntry(encoder) => c \in encoder.used
    BY <2>1, NextEntryIs
  <2> QED
    BY <1>2, <2>2, Sizes
<1>8. Bounds
  BY <1>1, <1>3, <1>6, <1>7, SameNext, Sizes DEF Bounds
<1>9. NothingOnItsWay
  BY <1>1, <1>2, <1>6, <1>7 DEF NothingOnItsWay, SameState
<1> QED
  BY <1>8, <1>9 DEF ShrinkInv

-----------------------------------------------------------------------------
(* The invariant through each step.                                        *)
LEMMA SendCodeKeeps ==
  ASSUME ShrinkInv, NEW c \in Codes, SendCode(c)
  PROVE  ShrinkInv'
<1>1. /\ Waiting /\ c \in CodesToSend(encoder)
      /\ encoder' = AfterCode(encoder, c) /\ bits' = bits \o BitsOf(c, encoder.n_bits)
      /\ dict' = dict /\ next_code' = next_code /\ code_size' = code_size /\ prev_code' = prev_code
      /\ room' = room /\ delivered' = delivered /\ phase' = phase
  BY DEF SendCode, decoder
<1>2. PICK e : e = encoder
  OBVIOUS
<1>3. NothingOnItsWay /\ Bounds
  BY <1>1, WaitingIsIdle DEF ShrinkInv
<1>4. phase \in {"first", "read"} /\ bits = <<>> /\ Agree(e, dict) /\ SameState(e) /\ room > 0
  BY <1>1, <1>2, <1>3 DEF NothingOnItsWay, Waiting
<1>5. bits' = BitsOf(c, e.n_bits)
  <2>1. c \in Nat /\ e.n_bits \in Nat
    <3>1. e.n_bits = code_size /\ code_size \in SHRINK_INIT_BITS .. SHRINK_MAX_BITS
      BY <1>3, <1>4 DEF SameState, Bounds
    <3> QED
      BY <3>1, Kinds, Sizes
  <2>2. BitsOf(c, e.n_bits) \in Seq({0, 1})
    BY <2>1, BitsType
  <2> DEFINE b == BitsOf(c, e.n_bits)
  <2> HIDE DEF b
  <2>3. <<>> \o b = b
    BY <2>2, ConcatEmptySeq DEF b
  <2> QED
    BY <1>1, <1>2, <1>4, <2>3 DEF b
<1>6. Bounds'
  BY <1>1, <1>3 DEF Bounds
<1>7. CodeIsOnItsWay(e, c)'
  BY <1>1, <1>2, <1>4, <1>5 DEF CodeIsOnItsWay, SameState
<1>8. CodeOnItsWay'
  BY <1>7 DEF CodeOnItsWay
<1> QED
  BY <1>6, <1>8 DEF ShrinkInv

LEMMA SendControlKeeps ==
  ASSUME ShrinkInv, NEW subcode \in 0 .. 2 ^ SHRINK_INIT_BITS - 1, SendControl(subcode)
  PROVE  ShrinkInv'
<1>1. /\ Waiting /\ encoder.prev # NoCode /\ MayFollow(encoder, subcode)
      /\ encoder' = AfterControl(encoder, subcode)
      /\ bits' = bits \o BitsOf(SHRINK_CONTROL, encoder.n_bits) \o BitsOf(subcode, encoder.n_bits)
      /\ dict' = dict /\ next_code' = next_code /\ code_size' = code_size /\ prev_code' = prev_code
      /\ room' = room /\ delivered' = delivered /\ phase' = phase
  BY DEF SendControl, decoder
<1>2. PICK e : e = encoder
  OBVIOUS
<1>3. NothingOnItsWay /\ Bounds
  BY <1>1, WaitingIsIdle DEF ShrinkInv
<1>4. /\ phase = "read" /\ bits = <<>> /\ Agree(e, dict) /\ SameState(e) /\ room > 0
      /\ delivered = e.string
  BY <1>1, <1>2, <1>3 DEF NothingOnItsWay, Waiting, SameState, Arrived
<1>5. bits' = BitsOf(SHRINK_CONTROL, e.n_bits) \o BitsOf(subcode, e.n_bits)
  <2> DEFINE a == BitsOf(SHRINK_CONTROL, e.n_bits)
             b == BitsOf(subcode, e.n_bits)
  <2>1. a \in Seq({0, 1})
    <3>1. e.n_bits = code_size /\ code_size \in SHRINK_INIT_BITS .. SHRINK_MAX_BITS
      BY <1>3, <1>4 DEF SameState, Bounds
    <3>2. e.n_bits \in Nat /\ SHRINK_CONTROL \in Nat
      BY <3>1, Sizes
    <3> QED
      BY <3>2, BitsType
  <2> HIDE DEF a, b
  <2>2. <<>> \o a = a
    BY <2>1, ConcatEmptySeq
  <2>3. bits' = (bits \o a) \o b
    BY <1>1, <1>2 DEF a, b
  <2>4. bits' = a \o b
    BY <1>4, <2>2, <2>3
  <2> QED
    BY <2>4 DEF a, b
<1>6. Bounds'
  BY <1>1, <1>3 DEF Bounds
<1>7. ControlIsOnItsWay(e, subcode)'
  BY <1>1, <1>2, <1>4, <1>5 DEF ControlIsOnItsWay, SameState
<1>8. ControlOnItsWay'
  BY <1>7 DEF ControlOnItsWay
<1> QED
  BY <1>6, <1>8 DEF ShrinkInv

LEMMA FirstCodeKeeps ==
  ASSUME ShrinkInv, FirstCode
  PROVE  ShrinkInv'
<1>1. /\ phase = "first" /\ room > 0 /\ CanRead
      /\ bits' = SubSeq(bits, code_size + 1, Len(bits))
      /\ prev_code' = ReadValue /\ phase' = "read"
      /\ Emit(IF ReadValue \in Bytes THEN <<ReadValue>> ELSE <<>>)
      /\ encoder' = encoder /\ dict' = dict /\ next_code' = next_code /\ code_size' = code_size
  BY DEF FirstCode, Consume
<1>2. Bounds
  BY DEF ShrinkInv
<1>3. PICK e, c : CodeIsOnItsWay(e, c)
  <2>1. CodeOnItsWay
    BY <1>1, ReadingIsBusy DEF ControlOnItsWay, ControlIsOnItsWay
  <2> QED
    BY <2>1 DEF CodeOnItsWay
<1>4. Agree(e, dict) /\ SameState(e) /\ c \in CodesToSend(e) /\ encoder = AfterCode(e, c)
  BY <1>3 DEF CodeIsOnItsWay
<1>5. ReadValue = c /\ bits' = <<>> /\ c \in Codes /\ c # NoCode
  BY <1>1, <1>2, <1>3, CodeBits, Kinds
<1>6. e.prev = NoCode /\ next_code = NextEntry(e) /\ code_size = e.n_bits
  BY <1>1, <1>4 DEF SameState
<1>7. c \in Bytes
  BY <1>4, <1>6, SentCode
<1>8. ~Enters(e) /\ Entered(e, dict, c) = dict
  BY <1>6 DEF Enters, Entered
<1>9. /\ Agree(encoder, dict) /\ encoder.prev = c /\ encoder.string = StringSent(e, c)
      /\ encoder.n_bits = e.n_bits /\ encoder.used = e.used
  <2> DEFINE f == AfterCode(e, c)
  <2>1. /\ Agree(f, Entered(e, dict, c)) /\ f.prev = c /\ f.string = StringSent(e, c) /\ f.n_bits = e.n_bits
        /\ f.used = IF Enters(e) THEN e.used \cup {NextEntry(e)} ELSE e.used
    BY <1>4, AfterCodeAgrees
  <2>2. encoder = f
    BY <1>4
  <2> HIDE DEF f
  <2> QED
    BY <1>8, <2>1, <2>2
<1>10. NextEntry(encoder) = NextEntry(e)
  BY <1>9, NextOfUsed
<1>11. StringSent(e, c) = <<c>> /\ StringSent(e, c) \in Seq(Bytes)
  BY <1>7 DEF StringSent
<1>12. Emit(StringSent(e, c))
  BY <1>1, <1>5, <1>7, <1>11
<1>13. /\ room' \in 0 .. OutSize
       /\ IF room' > 0 THEN delivered' = StringSent(e, c) ELSE IsPrefix(delivered', StringSent(e, c))
  BY <1>1, <1>2, <1>11, <1>12, EmitIs DEF Bounds
<1>14. NothingOnItsWay'
  BY <1>1, <1>5, <1>6, <1>9, <1>10, <1>13 DEF NothingOnItsWay, SameState, Arrived
<1>15. Bounds'
  BY <1>1, <1>2, <1>5, <1>13 DEF Bounds
<1> QED
  BY <1>14, <1>15 DEF ShrinkInv

(* A code after the first, whose string the decoder has found.             *)
LEMMA CodeReadKeeps ==
  ASSUME Bounds, NEW e, NEW c, CodeIsOnItsWay(e, c), phase = "read",
         Emit(StringSent(e, c)), Enter(Head(StringSent(e, c))), Consume, prev_code' = c,
         encoder' = encoder, code_size' = code_size, phase' = phase
  PROVE  ShrinkInv'
<1> DEFINE f == AfterCode(e, c)
           G == StringSent(e, c)
<1>1. Agree(e, dict) /\ SameState(e) /\ c \in CodesToSend(e) /\ encoder = f /\ room > 0
  BY DEF CodeIsOnItsWay
<1>2. bits' = <<>> /\ c \in Codes /\ c # NoCode
  BY CodeBits, Kinds DEF Consume
<1>3. e.prev # NoCode /\ next_code = NextEntry(e) /\ code_size = e.n_bits /\ prev_code = e.prev
  BY <1>1 DEF SameState
<1>4. /\ Agree(f, Entered(e, dict, c)) /\ f.prev = c /\ f.string = G /\ f.n_bits = e.n_bits
      /\ f.used = IF Enters(e) THEN e.used \cup {NextEntry(e)} ELSE e.used
  BY <1>1, AfterCodeAgrees
<1> HIDE DEF f
<1>5. dict' = Entered(e, dict, c) /\ next_code' = NextEntry(f)
  <2>1. next_code \in SHRINK_FIRST_CODE .. Full /\ Full = SHRINK_MAX_CODES
    BY Sizes DEF Bounds
  <2>2. CASE next_code < SHRINK_MAX_CODES
    <3>1. Enters(e)
      BY <1>3, <2>1, <2>2 DEF Enters
    <3>2. /\ dict' = [dict EXCEPT ![next_code] = [parent |-> prev_code, chr |-> Head(G), used |-> TRUE]]
          /\ next_code' = FreeAfter(dict', next_code + 1)
      BY <2>2 DEF Enter
    <3>3. dict' = Entered(e, dict, c)
      BY <1>3, <3>1, <3>2 DEF Entered
    <3>4. Agree(f, dict') /\ f.used = e.used \cup {next_code}
      BY <1>3, <1>4, <3>1, <3>3
    <3>5. f.used \in SUBSET Entries /\ e.used \in SUBSET Entries
      BY <1>1, <3>4 DEF Agree, Encoders
    <3>6. NextEntry(f) \in SHRINK_FIRST_CODE .. Full /\ NextEntry(f) \notin f.used
      BY <3>5, NextEntryIs
    <3>7. next_code < NextEntry(f)
      <4>1. \A x \in SHRINK_FIRST_CODE .. Full : x < next_code => x \in e.used
        BY <1>3, <3>5, NextEntryIs
      <4>2. NextEntry(f) # next_code /\ ~(NextEntry(f) < next_code)
        BY <3>4, <3>6, <4>1
      <4> QED
        BY <2>1, <3>6, <4>2, Sizes
    <3>8. next_code + 1 \in SHRINK_FIRST_CODE .. Full /\ next_code + 1 <= NextEntry(f)
      BY <2>1, <2>2, <3>6, <3>7, Sizes
    <3>9. FirstFrom(dict', next_code + 1) = NextEntry(f)
      BY <3>4, <3>8, SameNext
    <3> QED
      BY <3>2, <3>3, <3>9 DEF FreeAfter
  <2>3. CASE ~(next_code < SHRINK_MAX_CODES)
    <3>1. next_code = Full
      BY <2>1, <2>3, Sizes
    <3>2. ~Enters(e)
      BY <1>3, <3>1 DEF Enters
    <3>3. dict' = dict /\ next_code' = next_code
      BY <2>3 DEF Enter
    <3>4. NextEntry(f) = NextEntry(e)
      BY <1>4, <3>2, NextOfUsed
    <3> QED
      BY <1>3, <3>2, <3>3, <3>4 DEF Entered
  <2> QED
    BY <2>2, <2>3
<1>6. Agree(f, dict')
  BY <1>4, <1>5
<1>7. NextEntry(f) \in SHRINK_FIRST_CODE .. Full /\ NextEntry(f) = FirstFrom(dict', SHRINK_FIRST_CODE)
  BY <1>6, SameNext
<1>8. G \in Seq(Bytes)
  BY <1>1, SentCode
<1>9. /\ room' \in 0 .. OutSize
      /\ IF room' > 0 THEN delivered' = G ELSE IsPrefix(delivered', G)
  BY <1>1, <1>8, EmitIs DEF Bounds
<1> HIDE DEF G
<1>10. encoder' = f
  BY <1>1
<1>11. NothingOnItsWay'
  BY <1>2, <1>3, <1>4, <1>5, <1>6, <1>9, <1>10 DEF NothingOnItsWay, SameState, Arrived
<1>12. dict' \in Tables
  BY <1>6 DEF Agree
<1>13. Bounds'
  BY <1>2, <1>5, <1>7, <1>9, <1>12 DEF Bounds
<1> QED
  BY <1>11, <1>13 DEF ShrinkInv

(* A code that is not the control code is one that the encoder sent.       *)
LEMMA ReadsACode ==
  ASSUME ShrinkInv, Reads, ReadValue # SHRINK_CONTROL
  PROVE  phase = "read" /\ \E e : CodeIsOnItsWay(e, ReadValue)
<1>1. phase = "read" /\ CanRead /\ Bounds
  BY DEF Reads, ShrinkInv
<1>2. ~ControlOnItsWay
  BY <1>1, ControlBits DEF ControlOnItsWay
<1>3. PICK e, c : CodeIsOnItsWay(e, c)
  BY <1>1, <1>2, ReadingIsBusy DEF CodeOnItsWay
<1>4. ReadValue = c
  BY <1>1, <1>3, CodeBits
<1> QED
  BY <1>1, <1>3, <1>4

LEMMA KwKwKKeeps ==
  ASSUME ShrinkInv, KwKwK
  PROVE  ShrinkInv'
<1> DEFINE s == StringOf(prev_code)
           c == ReadValue
<1>1. /\ Reads /\ c >= SHRINK_FIRST_CODE /\ ~dict[c].used /\ Consume
      /\ Emit(Append(s, Head(s))) /\ Enter(Head(s))
      /\ prev_code' = c /\ encoder' = encoder /\ code_size' = code_size /\ phase' = phase
  BY DEF KwKwK
<1>2. c # SHRINK_CONTROL
  <2>1. SHRINK_FIRST_CODE = SHRINK_CONTROL + 1 /\ SHRINK_CONTROL \in Nat
    BY Sizes
  <2> HIDE DEF c
  <2> QED
    BY <1>1, <2>1
<1>3. PICK e : CodeIsOnItsWay(e, c)
  BY <1>1, <1>2, ReadsACode
<1>4. phase = "read" /\ Bounds
  BY <1>1 DEF Reads, ShrinkInv
<1> HIDE DEF c
<1>5. Agree(e, dict) /\ SameState(e) /\ c \in CodesToSend(e)
  BY <1>3 DEF CodeIsOnItsWay
<1>6. c \notin KnownCodes(e)
  BY <1>1, <1>5, KnownCode
<1>7. PrevIsKnown(e) /\ StringSent(e, c) = Append(e.string, Head(e.string)) /\ Head(StringSent(e, c)) = Head(e.string)
  BY <1>5, <1>6, SentCode
<1>8. s = e.string
  <2>1. e.prev \in KnownCodes(e) /\ prev_code = e.prev
    BY <1>5, <1>7 DEF PrevIsKnown, SameState
  <2>2. e.string = KnownString(e, e.prev)
    BY <1>5, <2>1 DEF Agree, LastSent
  <2> QED
    BY <1>5, <2>1, <2>2, StringOfIs
<1> HIDE DEF s
<1>9. Emit(StringSent(e, c)) /\ Enter(Head(StringSent(e, c)))
  BY <1>1, <1>7, <1>8
<1> QED
  BY <1>1, <1>3, <1>4, <1>9, CodeReadKeeps

LEMMA KnownKeeps ==
  ASSUME ShrinkInv, Known
  PROVE  ShrinkInv'
<1> DEFINE c == ReadValue
           s == StringOf(c)
<1>1. /\ Reads /\ c # SHRINK_CONTROL /\ dict[c].used /\ Consume
      /\ Emit(s) /\ Enter(Head(s))
      /\ prev_code' = c /\ encoder' = encoder /\ code_size' = code_size /\ phase' = phase
  BY DEF Known
<1>2. PICK e : CodeIsOnItsWay(e, c)
  BY <1>1, ReadsACode
<1>3. phase = "read" /\ Bounds
  BY <1>1 DEF Reads, ShrinkInv
<1> HIDE DEF c
<1>4. Agree(e, dict) /\ c \in CodesToSend(e)
  BY <1>2 DEF CodeIsOnItsWay
<1>5. c \in KnownCodes(e) /\ StringSent(e, c) = KnownString(e, c)
  BY <1>1, <1>4, SentCode
<1>6. s = StringSent(e, c)
  BY <1>4, <1>5, StringOfIs
<1> HIDE DEF s
<1>7. Emit(StringSent(e, c)) /\ Enter(Head(StringSent(e, c)))
  BY <1>1, <1>6
<1> QED
  BY <1>1, <1>2, <1>3, <1>7, CodeReadKeeps

LEMMA ControlKeeps ==
  ASSUME ShrinkInv, Control
  PROVE  ShrinkInv'
<1>1. /\ Reads /\ ReadValue = SHRINK_CONTROL /\ phase' = "subcode"
      /\ bits' = SubSeq(bits, code_size + 1, Len(bits))
      /\ encoder' = encoder /\ dict' = dict /\ next_code' = next_code /\ code_size' = code_size
      /\ prev_code' = prev_code /\ room' = room /\ delivered' = delivered
  BY DEF Control, Consume
<1>2. phase = "read" /\ CanRead /\ Bounds
  BY <1>1 DEF Reads, ShrinkInv
<1>3. ~CodeOnItsWay
  BY <1>1, <1>2, CodeBits DEF CodeOnItsWay
<1>4. PICK e, subcode : ControlIsOnItsWay(e, subcode)
  BY <1>2, <1>3, ReadingIsBusy DEF ControlOnItsWay
<1>5. bits' = BitsOf(subcode, code_size)
  BY <1>1, <1>2, <1>4, ControlBits
<1>6. ControlIsOnItsWay(e, subcode)'
  BY <1>1, <1>2, <1>4, <1>5 DEF ControlIsOnItsWay, SameState
<1>7. Bounds'
  BY <1>1, <1>2 DEF Bounds
<1>8. ControlOnItsWay'
  BY <1>6 DEF ControlOnItsWay
<1> QED
  BY <1>7, <1>8 DEF ShrinkInv

(* In the middle of a control code the subcode is what the encoder sent.   *)
LEMMA ReadsASubcode ==
  ASSUME ShrinkInv, phase = "subcode", CanRead
  PROVE  Bounds /\ \E e : /\ ControlIsOnItsWay(e, ReadValue)
                          /\ SubSeq(bits, code_size + 1, Len(bits)) = <<>>
<1>1. Bounds
  BY DEF ShrinkInv
<1>2. PICK e, subcode : ControlIsOnItsWay(e, subcode)
  <2>1. ControlOnItsWay
    BY ReadingIsBusy DEF CodeOnItsWay, CodeIsOnItsWay
  <2> QED
    BY <2>1 DEF ControlOnItsWay
<1>3. ReadValue = subcode /\ SubSeq(bits, code_size + 1, Len(bits)) = <<>>
  BY <1>1, <1>2, ControlBits
<1> QED
  BY <1>1, <1>2, <1>3

LEMMA GrowKeeps ==
  ASSUME ShrinkInv, Grow
  PROVE  ShrinkInv'
<1>1. /\ phase = "subcode" /\ CanRead /\ ReadValue = SHRINK_GROW_CODE /\ code_size' = code_size + 1
      /\ bits' = SubSeq(bits, code_size + 1, Len(bits))
      /\ phase' = IF code_size' > SHRINK_MAX_BITS THEN "failed" ELSE "read"
      /\ encoder' = encoder /\ dict' = dict /\ next_code' = next_code
      /\ prev_code' = prev_code /\ room' = room /\ delivered' = delivered
  BY DEF Grow, Consume
<1>2. PICK e : ControlIsOnItsWay(e, SHRINK_GROW_CODE) /\ bits' = <<>>
  BY <1>1, ReadsASubcode
<1>3. Bounds
  BY DEF ShrinkInv
<1>4. /\ Agree(e, dict) /\ SameState(e) /\ MayFollow(e, SHRINK_GROW_CODE) /\ room > 0
      /\ encoder = AfterControl(e, SHRINK_GROW_CODE) /\ delivered = e.string
  BY <1>2 DEF ControlIsOnItsWay
<1>5. next_code = NextEntry(e) /\ code_size = e.n_bits /\ prev_code = e.prev /\ e.prev # NoCode
  BY <1>1, <1>4 DEF SameState
<1>6. e.n_bits < SHRINK_MAX_BITS
  BY <1>4 DEF MayFollow
<1>7. /\ Agree(encoder, dict) /\ encoder.n_bits = e.n_bits + 1 /\ encoder.prev = e.prev
      /\ encoder.string = e.string /\ encoder.used = e.used
  BY <1>4, <1>6, AfterGrowAgrees
<1>8. NextEntry(encoder) = NextEntry(e)
  BY <1>7, NextOfUsed
<1>9. code_size' \in SHRINK_INIT_BITS .. SHRINK_MAX_BITS /\ phase' = "read"
  BY <1>1, <1>3, <1>5, <1>6, Sizes DEF Bounds
<1>10. NothingOnItsWay'
  BY <1>1, <1>2, <1>4, <1>5, <1>7, <1>8, <1>9 DEF NothingOnItsWay, SameState, Arrived
<1>11. Bounds'
  BY <1>1, <1>3, <1>9 DEF Bounds
<1> QED
  BY <1>10, <1>11 DEF ShrinkInv

LEMMA PartialClearKeeps ==
  ASSUME ShrinkInv, PartialClear
  PROVE  ShrinkInv'
<1>1. /\ phase = "subcode" /\ CanRead /\ ReadValue = SHRINK_CLEAR_CODE /\ phase' = "read"
      /\ bits' = SubSeq(bits, code_size + 1, Len(bits))
      /\ shrink_partial_clear(next_code) /\ next_code' = FirstFrom(dict', SHRINK_FIRST_CODE)
      /\ encoder' = encoder /\ code_size' = code_size
      /\ prev_code' = prev_code /\ room' = room /\ delivered' = delivered
  BY DEF PartialClear, Consume, NextAfterClear
<1>2. PICK e : ControlIsOnItsWay(e, SHRINK_CLEAR_CODE) /\ bits' = <<>>
  BY <1>1, ReadsASubcode
<1>3. Bounds
  BY DEF ShrinkInv
<1>4. /\ Agree(e, dict) /\ SameState(e) /\ MayFollow(e, SHRINK_CLEAR_CODE) /\ room > 0
      /\ encoder = AfterControl(e, SHRINK_CLEAR_CODE) /\ delivered = e.string
  BY <1>2 DEF ControlIsOnItsWay
<1>5. next_code = NextEntry(e) /\ code_size = e.n_bits /\ prev_code = e.prev /\ e.prev # NoCode
  BY <1>1, <1>4 DEF SameState
<1>6. Free(e) = {} /\ next_code = Full
  BY <1>4, <1>5 DEF MayFollow, NextEntry
<1>7. /\ Agree(encoder, dict') /\ encoder.n_bits = e.n_bits /\ encoder.prev = e.prev
      /\ encoder.string = e.string
  BY <1>1, <1>4, <1>6, AfterClearAgrees
<1>8. NextEntry(encoder) \in SHRINK_FIRST_CODE .. Full /\ NextEntry(encoder) = FirstFrom(dict', SHRINK_FIRST_CODE)
  BY <1>7, SameNext
<1>9. NothingOnItsWay'
  BY <1>1, <1>2, <1>4, <1>5, <1>7, <1>8 DEF NothingOnItsWay, SameState, Arrived
<1>10. dict' \in Tables
  BY <1>7 DEF Agree
<1>11. Bounds'
  BY <1>1, <1>3, <1>8, <1>10 DEF Bounds
<1> QED
  BY <1>9, <1>11 DEF ShrinkInv

LEMMA OtherSubcodeKeeps ==
  ASSUME ShrinkInv, OtherSubcode
  PROVE  ShrinkInv'
<1>1. /\ phase = "subcode" /\ CanRead /\ ReadValue \notin {SHRINK_GROW_CODE, SHRINK_CLEAR_CODE}
      /\ bits' = SubSeq(bits, code_size + 1, Len(bits)) /\ phase' = "read"
      /\ encoder' = encoder /\ dict' = dict /\ next_code' = next_code /\ code_size' = code_size
      /\ prev_code' = prev_code /\ room' = room /\ delivered' = delivered
  BY DEF OtherSubcode, Consume
<1>2. PICK e : ControlIsOnItsWay(e, ReadValue) /\ bits' = <<>>
  BY <1>1, ReadsASubcode
<1>3. Bounds
  BY DEF ShrinkInv
<1>4. Agree(e, dict) /\ SameState(e) /\ room > 0 /\ encoder = AfterControl(e, ReadValue) /\ delivered = e.string
  BY <1>2 DEF ControlIsOnItsWay
<1>5. encoder = e
  <2> DEFINE v == ReadValue
  <2>1. v # SHRINK_GROW_CODE /\ v # SHRINK_CLEAR_CODE /\ encoder = AfterControl(e, v)
    BY <1>1, <1>4
  <2> HIDE DEF v
  <2> QED
    BY <2>1 DEF AfterControl
<1>6. next_code = NextEntry(e) /\ code_size = e.n_bits /\ prev_code = e.prev /\ e.prev # NoCode
  BY <1>1, <1>4 DEF SameState
<1>7. NothingOnItsWay'
  BY <1>1, <1>2, <1>4, <1>5, <1>6 DEF NothingOnItsWay, SameState, Arrived
<1>8. Bounds'
  BY <1>1, <1>3 DEF Bounds
<1> QED
  BY <1>7, <1>8 DEF ShrinkInv

LEMMA ShrinkReturnKeeps ==
  ASSUME ShrinkInv, ShrinkReturn
  PROVE  ShrinkInv'
BY DEF ShrinkInv, ShrinkReturn, Bounds

LEMMA StutterKeeps ==
  ASSUME ShrinkInv, UNCHANGED shrinkVars
  PROVE  ShrinkInv'
<1>1. /\ encoder' = encoder /\ bits' = bits /\ dict' = dict /\ next_code' = next_code
      /\ code_size' = code_size /\ prev_code' = prev_code /\ room' = room /\ delivered' = delivered
      /\ phase' = phase
  BY DEF shrinkVars, decoder
<1>2. Bounds'
  BY <1>1 DEF ShrinkInv, Bounds
<1>3. ASSUME NothingOnItsWay PROVE NothingOnItsWay'
  BY <1>1, <1>3 DEF NothingOnItsWay, SameState, Arrived
<1>4. ASSUME CodeOnItsWay PROVE CodeOnItsWay'
  BY <1>1, <1>4 DEF CodeOnItsWay, CodeIsOnItsWay, SameState
<1>5. ASSUME ControlOnItsWay PROVE ControlOnItsWay'
  BY <1>1, <1>5 DEF ControlOnItsWay, ControlIsOnItsWay, SameState
<1> QED
  BY <1>1, <1>2, <1>3, <1>4, <1>5 DEF ShrinkInv

LEMMA ShrinkInvHolds ==
  ShrinkSpec => []ShrinkInv
<1>1. ShrinkInit => ShrinkInv
  BY ShrinkStarts
<1>2. ShrinkInv /\ [ShrinkNext]_shrinkVars => ShrinkInv'
  <2> SUFFICES ASSUME ShrinkInv, [ShrinkNext]_shrinkVars PROVE ShrinkInv'
    OBVIOUS
  <2>1. CASE \E c \in Codes : SendCode(c)
    BY <2>1, SendCodeKeeps
  <2>2. CASE \E subcode \in 0 .. 2 ^ SHRINK_INIT_BITS - 1 : SendControl(subcode)
    BY <2>2, SendControlKeeps
  <2>3. CASE FirstCode
    BY <2>3, FirstCodeKeeps
  <2>4. CASE Control
    BY <2>4, ControlKeeps
  <2>5. CASE Grow
    BY <2>5, GrowKeeps
  <2>6. CASE PartialClear
    BY <2>6, PartialClearKeeps
  <2>7. CASE OtherSubcode
    BY <2>7, OtherSubcodeKeeps
  <2>8. CASE KwKwK
    BY <2>8, KwKwKKeeps
  <2>9. CASE Known
    BY <2>9, KnownKeeps
  <2>10. CASE ShrinkReturn
    BY <2>10, ShrinkReturnKeeps
  <2>11. CASE UNCHANGED shrinkVars
    BY <2>11, StutterKeeps
  <2> QED
    BY <2>1, <2>2, <2>3, <2>4, <2>5, <2>6, <2>7, <2>8, <2>9, <2>10, <2>11 DEF ShrinkNext, Decode
<1> QED
  BY <1>1, <1>2, PTL DEF ShrinkSpec

-----------------------------------------------------------------------------
(* zip_shrink_decompress: the types, the next code is always the lowest    *)
(* one that is free, and no stream of the encoder ends in an error.        *)
THEOREM ShrinkTypeCorrect ==
  ShrinkSpec => []ShrinkTypeOK
<1>1. ShrinkInv => ShrinkTypeOK
  BY DEF ShrinkInv, Bounds, Tables, ShrinkTypeOK
<1> QED
  BY <1>1, ShrinkInvHolds, PTL

(* zip_shrink_decompress: each code is decoded to the string the encoder   *)
(* had for it when it sent it, cut by the caller's buffer.                 *)
THEOREM StringsCorrect ==
  ShrinkSpec => []StringsArrive
<1>1. ShrinkInv => StringsArrive
  <2> SUFFICES ASSUME ShrinkInv, phase = "read", bits = <<>> PROVE Arrived(encoder)
    BY DEF StringsArrive, Arrived
  <2>1. Bounds
    BY DEF ShrinkInv
  <2>2. ~CodeOnItsWay
    BY <2>1, CodeBits DEF CodeOnItsWay
  <2>3. ~ControlOnItsWay
    BY <2>1, ControlBits DEF ControlOnItsWay
  <2> QED
    BY <2>2, <2>3 DEF ShrinkInv, NothingOnItsWay
<1> QED
  BY <1>1, ShrinkInvHolds, PTL
=============================================================================
