---------------------------- MODULE ZooLzdProofs ----------------------------
(***************************************************************************)
(* What holds of the resumable decoder of ZooLzd for every width of code   *)
(* and byte, every chunk and buffer size and every number of codes: its    *)
(* types and bounds, ReturnsAreTrue and ImplementsLzw.                     *)
(*                                                                         *)
(* The inductive invariant says three things more than the properties do.  *)
(* The bits that were sent and not read are the codes that were sent and   *)
(* not read, each as wide as the encoder had it, and the decoder is at the *)
(* state from which these codes lead to the encoder's (Synced, by way of   *)
(* Behind).  Every chain of the tables ends in a literal, and the old code *)
(* has one (DictInv).  And what is on the stack is the end of the string   *)
(* of the code that is being expanded (ExpandInv).                         *)
(***************************************************************************)
EXTENDS ZooLzd, NatLemmas

-----------------------------------------------------------------------------
(* What the reader or the writer of the stream has come to: the next free  *)
(* code, the width of a code, whether there is a code to make an entry     *)
(* with, and what may come next.                                           *)
State == [free : FIRST_FREE .. MAXMAX + 1, nbits : MinBits .. MAXBITS,
          prev : BOOLEAN, next : {"literal", "any", "nothing"}]

(* What may be sent at w, the limit on the number of codes aside.          *)
MaySend(w, c) ==
  \/ w.next \in {"literal", "any"} /\ c \in 0 .. Literals - 1
  \/ w.next = "any" /\ c \in {CLEAR, Z_EOF}
  \/ w.next = "any" /\ w.prev /\ c \in FIRST_FREE .. w.free /\ c < 2 ^ w.nbits

Fresh(next) == [free |-> FIRST_FREE, nbits |-> MinBits, prev |-> FALSE, next |-> next]
Ended(w)    == [free |-> w.free, nbits |-> w.nbits, prev |-> w.prev, next |-> "nothing"]
Makes(w)    == w.prev /\ w.free <= MAXMAX
Grown(w)    ==
  [free  |-> IF Makes(w) THEN w.free + 1 ELSE w.free,
   nbits |-> IF Makes(w) /\ w.free + 1 >= 2 ^ w.nbits /\ w.nbits < MAXBITS THEN w.nbits + 1 ELSE w.nbits,
   prev  |-> TRUE, next |-> "any"]

(* Where c leads from w.                                                   *)
Past(w, c) == IF c = CLEAR THEN Fresh("literal") ELSE IF c = Z_EOF THEN Ended(w) ELSE Grown(w)

(* The codes q lead from the reader to the writer, by way of W; the bits   *)
(* are these codes, each as wide as the writer had it, and what pads the   *)
(* last byte. R[i] is what is left of the bits before code i.              *)
Trace(q, bits, reader, writer, W, R) ==
  /\ W \in [1 .. Len(q) + 1 -> State] /\ R \in [1 .. Len(q) + 1 -> Seq({0, 1})]
  /\ W[1] = reader /\ W[Len(q) + 1] = writer /\ R[1] = bits
  /\ R[Len(q) + 1] = <<>> \/ (writer.next = "nothing" /\ Len(R[Len(q) + 1]) < ByteBits)
  /\ \A i \in 1 .. Len(q) :
       /\ MaySend(W[i], q[i])
       /\ W[i + 1] = Past(W[i], q[i])
       /\ R[i] = BitsOf(q[i], W[i].nbits) \o R[i + 1]

Behind(q, bits, reader, writer) == \E W, R : Trace(q, bits, reader, writer, W, R)

-----------------------------------------------------------------------------
(* The largest code is the largest of its width, and the special codes fit *)
(* in every width.                                                         *)
LEMMA CodeFacts ==
  /\ Literals \in Nat \ {0} /\ MinBits \in Nat \ {0} /\ MAXBITS \in Nat /\ MinBits <= MAXBITS
  /\ ByteBits \in Nat \ {0} /\ ByteBits <= MinBits
  /\ CLEAR = Literals /\ Z_EOF = Literals + 1 /\ FIRST_FREE = Literals + 2
  /\ MAXMAX \in Nat /\ 2 ^ MAXBITS = MAXMAX + 1 /\ FIRST_FREE <= MAXMAX + 1
  /\ \A k \in MinBits .. MAXBITS :
       2 ^ k \in Nat /\ FIRST_FREE <= 2 ^ k /\ 2 ^ k <= MAXMAX + 1
<1>1. /\ Literals \in Nat \ {0} /\ MinBits \in Nat \ {0} /\ MAXBITS \in Nat /\ MinBits <= MAXBITS
      /\ ByteBits \in Nat \ {0} /\ ByteBits <= MinBits /\ 2 ^ MinBits >= Literals + 2
  BY LzdAssumption
<1>2. CLEAR = Literals /\ Z_EOF = Literals + 1 /\ FIRST_FREE = Literals + 2
  BY DEF CLEAR, Z_EOF, FIRST_FREE
<1>3. 2 ^ MAXBITS \in Nat \ {0}
  BY <1>1, PowerType
<1>4. MAXMAX \in Nat /\ 2 ^ MAXBITS = MAXMAX + 1
  BY <1>3 DEF MAXMAX
<1>5. ASSUME NEW k \in MinBits .. MAXBITS
      PROVE  2 ^ k \in Nat /\ FIRST_FREE <= 2 ^ k /\ 2 ^ k <= MAXMAX + 1
  <2>1. k \in Nat /\ MinBits <= k /\ k <= MAXBITS
    BY <1>1
  <2>2. 2 ^ MinBits \in Nat /\ 2 ^ k \in Nat
    BY <1>1, <2>1, PowerType
  <2>3. 2 ^ MinBits <= 2 ^ k /\ 2 ^ k <= 2 ^ MAXBITS
    BY <1>1, <2>1, PowerRises
  <2> QED
    BY <1>1, <1>2, <1>4, <2>2, <2>3
<1>6. FIRST_FREE <= MAXMAX + 1
  <2>1. MAXBITS \in MinBits .. MAXBITS
    BY <1>1
  <2> QED
    BY <1>5, <2>1, <1>1, <1>2, <1>4
<1> QED
  BY <1>1, <1>2, <1>4, <1>5, <1>6

(* What is sent fits in its width.                                         *)
LEMMA SentFits ==
  ASSUME NEW w \in State, NEW c, MaySend(w, c)
  PROVE  c \in 0 .. MAXMAX /\ c < 2 ^ w.nbits
<1>1. w.nbits \in MinBits .. MAXBITS /\ w.free \in FIRST_FREE .. MAXMAX + 1
  BY DEF State
<1>2. 2 ^ w.nbits \in Nat /\ FIRST_FREE <= 2 ^ w.nbits /\ 2 ^ w.nbits <= MAXMAX + 1
  BY <1>1, CodeFacts
<1>3. c \in Nat /\ c < 2 ^ w.nbits
  BY <1>1, <1>2, CodeFacts DEF MaySend
<1> QED
  BY <1>2, <1>3, CodeFacts

(* Sending leads from a state to a state.                                  *)
LEMMA PastType ==
  ASSUME NEW w \in State, NEW c
  PROVE  Past(w, c) \in State
<1>1. w.nbits \in MinBits .. MAXBITS /\ w.free \in FIRST_FREE .. MAXMAX + 1 /\ w.prev \in BOOLEAN
  BY DEF State
<1>2. Fresh("literal") \in State
  BY CodeFacts DEF Fresh, State
<1>3. Ended(w) \in State
  BY <1>1 DEF Ended, State
<1>4. Grown(w) \in State
  BY <1>1, CodeFacts DEF Grown, Makes, State
<1> QED
  BY <1>2, <1>3, <1>4 DEF Past

(* Two sequences joined come apart again.                                  *)
LEMMA Apart ==
  ASSUME NEW S, NEW s \in Seq(S), NEW t \in Seq(S)
  PROVE  TakeBits(s \o t, Len(s)) = s /\ DropBits(s \o t, Len(s)) = t
BY TakeApart DEF TakeBits, DropBits

-----------------------------------------------------------------------------
(* Enough bits for a code are a code: the first that was sent and not read.*)
(* What is left is behind the writer by one code less.                     *)
LEMMA ReadNext ==
  ASSUME NEW q \in Seq(0 .. MAXMAX), NEW bits, NEW reader, NEW writer,
         Behind(q, bits, reader, writer), Len(bits) >= reader.nbits
  PROVE  /\ q # <<>> /\ MaySend(reader, Head(q))
         /\ ValueOf(TakeBits(bits, reader.nbits)) = Head(q)
         /\ Behind(Tail(q), DropBits(bits, reader.nbits), Past(reader, Head(q)), writer)
<1> DEFINE n == Len(q)
<1>1. PICK W, R : Trace(q, bits, reader, writer, W, R)
  BY DEF Behind
<1>2. n \in Nat
  OBVIOUS
<1>3. /\ W \in [1 .. n + 1 -> State] /\ R \in [1 .. n + 1 -> Seq({0, 1})]
      /\ W[1] = reader /\ W[n + 1] = writer /\ R[1] = bits
      /\ R[n + 1] = <<>> \/ (writer.next = "nothing" /\ Len(R[n + 1]) < ByteBits)
      /\ \A i \in 1 .. n : MaySend(W[i], q[i]) /\ W[i + 1] = Past(W[i], q[i])
                           /\ R[i] = BitsOf(q[i], W[i].nbits) \o R[i + 1]
  BY <1>1 DEF Trace
<1>4. reader \in State /\ reader.nbits \in MinBits .. MAXBITS /\ reader.nbits \in Nat /\ reader.nbits >= ByteBits
  <2>1. 1 \in 1 .. n + 1
    BY <1>2
  <2>2. reader \in State
    BY <1>3, <2>1
  <2>3. reader.nbits \in MinBits .. MAXBITS
    BY <2>2 DEF State
  <2> QED
    BY <2>2, <2>3, CodeFacts
<1>5. n # 0
  <2>1. SUFFICES ASSUME n = 0 PROVE FALSE
    OBVIOUS
  <2>2. bits = <<>> \/ Len(bits) < ByteBits
    BY <1>3, <2>1
  <2>3. Len(<<>>) = 0
    OBVIOUS
  <2>4. Len(bits) = 0 \/ Len(bits) < ByteBits
    BY <2>2, <2>3
  <2> QED
    BY <2>4, <1>4, CodeFacts
<1>6. q # <<>> /\ 1 \in 1 .. n /\ Head(q) = q[1] /\ q[1] \in 0 .. MAXMAX
  <2>1. 1 \in 1 .. n
    BY <1>2, <1>5
  <2>2. q[1] \in 0 .. MAXMAX
    BY <2>1, ElementOfSeq
  <2>3. q # <<>>
    <3>1. Len(<<>>) = 0
      OBVIOUS
    <3> QED
      BY <1>5, <3>1
  <2>4. Head(q) = q[1]
    BY <2>3
  <2> QED
    BY <2>1, <2>2, <2>3, <2>4
<1> DEFINE c == q[1]
           k == reader.nbits
<1>7. MaySend(reader, c) /\ W[2] = Past(reader, c) /\ bits = BitsOf(c, k) \o R[2]
  <2>1. 1 + 1 = 2
    OBVIOUS
  <2> QED
    BY <1>3, <1>6, <2>1
<1>8. c \in Nat /\ c < 2 ^ k
  BY <1>4, <1>6, <1>7, SentFits, CodeFacts
<1>9. BitsOf(c, k) \in Seq({0, 1}) /\ Len(BitsOf(c, k)) = k
  BY <1>4, <1>8, BitsType
<1>10. R[2] \in Seq({0, 1})
  <2>1. 2 \in 1 .. n + 1
    BY <1>2, <1>5
  <2> QED
    BY <1>3, <2>1
<1>11. TakeBits(bits, k) = BitsOf(c, k) /\ DropBits(bits, k) = R[2]
  <2> DEFINE s == BitsOf(c, k)
             t == R[2]
  <2>1. s \in Seq({0, 1}) /\ t \in Seq({0, 1}) /\ Len(s) = k /\ bits = s \o t
    BY <1>7, <1>9, <1>10
  <2> HIDE DEF s, t, k
  <2>2. TakeBits(s \o t, Len(s)) = s /\ DropBits(s \o t, Len(s)) = t
    BY <2>1, Apart
  <2>3. TakeBits(bits, k) = s /\ DropBits(bits, k) = t
    BY <2>1, <2>2
  <2> QED
    BY <2>3 DEF s, t
<1>12. ValueOf(BitsOf(c, k)) = c
  BY <1>4, <1>8, ValueOfBits
<1>13. Behind(Tail(q), R[2], Past(reader, c), writer)
  <2> DEFINE p == Tail(q)
             m == n - 1
             V == [i \in 1 .. n |-> W[i + 1]]
             Q == [i \in 1 .. n |-> R[i + 1]]
  <2>1. Len(p) = m /\ m + 1 = n /\ \A i \in 1 .. m : p[i] = q[i + 1]
    BY <1>2, <1>6
  <2>2. V \in [1 .. m + 1 -> State] /\ Q \in [1 .. m + 1 -> Seq({0, 1})]
    BY <1>2, <1>3
  <2>3. V[1] = Past(reader, c) /\ V[m + 1] = writer /\ Q[1] = R[2] /\ Q[m + 1] = R[n + 1]
    BY <1>2, <1>3, <1>6, <1>7
  <2>4. ASSUME NEW i \in 1 .. m
        PROVE  MaySend(V[i], p[i]) /\ V[i + 1] = Past(V[i], p[i])
               /\ Q[i] = BitsOf(p[i], V[i].nbits) \o Q[i + 1]
    <3> DEFINE j == i + 1
    <3>1. j \in 1 .. n /\ i \in 1 .. n /\ i + 1 \in 1 .. n
      BY <1>2
    <3>2. MaySend(W[j], q[j]) /\ W[j + 1] = Past(W[j], q[j])
          /\ R[j] = BitsOf(q[j], W[j].nbits) \o R[j + 1]
      BY <1>3, <3>1
    <3>3. V[i] = W[j] /\ V[i + 1] = W[j + 1] /\ Q[i] = R[j] /\ Q[i + 1] = R[j + 1] /\ p[i] = q[j]
      BY <2>1, <3>1
    <3> HIDE DEF j, V, Q, p
    <3> QED
      BY <3>2, <3>3
  <2> HIDE DEF V, Q, p, m
  <2>5. Trace(p, R[2], Past(reader, c), writer, V, Q)
    BY <1>3, <2>1, <2>2, <2>3, <2>4 DEF Trace
  <2>6. Behind(p, R[2], Past(reader, c), writer)
    BY <2>5 DEF Behind
  <2> QED
    BY <2>6 DEF p
<1> HIDE DEF k
<1>14. Head(q) = c
  BY <1>6
<1>15. MaySend(reader, Head(q)) /\ ValueOf(TakeBits(bits, k)) = Head(q)
  BY <1>7, <1>11, <1>12, <1>14
<1>16. Behind(Tail(q), DropBits(bits, k), Past(reader, Head(q)), writer)
  BY <1>11, <1>13, <1>14
<1> QED
  BY <1>6, <1>15, <1>16 DEF k

(* Three sequences of bits joined.                                         *)
LEMMA Regroup ==
  ASSUME NEW s \in Seq({0, 1}), NEW t \in Seq({0, 1}), NEW u \in Seq({0, 1})
  PROVE  (s \o t) \o u = s \o (t \o u)
<1> DEFINE S == {0, 1}
<1>1. s \in Seq(S) /\ t \in Seq(S) /\ u \in Seq(S)
  OBVIOUS
<1> HIDE DEF S
<1> QED
  BY <1>1, ConcatAssociative

(* What the writer sends goes to the end of the bits.                      *)
LEMMA SendNext ==
  ASSUME NEW q \in Seq(0 .. MAXMAX), NEW bits \in Seq({0, 1}), NEW reader, NEW writer,
         NEW c, NEW pad \in Seq({0, 1}),
         Behind(q, bits, reader, writer), MaySend(writer, c),
         pad = <<>> \/ (c = Z_EOF /\ Len(pad) < ByteBits)
  PROVE  Behind(Append(q, c), bits \o (BitsOf(c, writer.nbits) \o pad), reader, Past(writer, c))
<1> DEFINE n == Len(q)
           k == writer.nbits
           e == BitsOf(c, k) \o pad
           p == Append(q, c)
<1>1. PICK W, R : Trace(q, bits, reader, writer, W, R)
  BY DEF Behind
<1>2. n \in Nat
  OBVIOUS
<1>3. /\ W \in [1 .. n + 1 -> State] /\ R \in [1 .. n + 1 -> Seq({0, 1})]
      /\ W[1] = reader /\ W[n + 1] = writer /\ R[1] = bits
      /\ R[n + 1] = <<>> \/ (writer.next = "nothing" /\ Len(R[n + 1]) < ByteBits)
      /\ \A i \in 1 .. n : MaySend(W[i], q[i]) /\ W[i + 1] = Past(W[i], q[i])
                           /\ R[i] = BitsOf(q[i], W[i].nbits) \o R[i + 1]
  BY <1>1 DEF Trace
<1>4. writer \in State /\ k \in MinBits .. MAXBITS /\ k \in Nat
  <2>1. n + 1 \in 1 .. n + 1
    BY <1>2
  <2>2. writer \in State
    BY <1>3, <2>1
  <2>3. writer.nbits \in MinBits .. MAXBITS
    BY <2>2 DEF State
  <2> QED
    BY <2>2, <2>3, CodeFacts
<1>5. c \in 0 .. MAXMAX /\ c \in Nat /\ c < 2 ^ k
  BY <1>4, SentFits, CodeFacts
<1>6. R[n + 1] = <<>>
  BY <1>3 DEF MaySend
<1>7. BitsOf(c, k) \in Seq({0, 1})
  BY <1>4, <1>5, BitsType
<1>8. e \in Seq({0, 1})
  BY <1>7, ConcatProperties
<1>9. Past(writer, c) \in State
  BY <1>4, PastType
<1>10. c = Z_EOF => Past(writer, c).next = "nothing"
  BY CodeFacts DEF Past, Ended
<1>11. p \in Seq(0 .. MAXMAX) /\ Len(p) = n + 1 /\ p[n + 1] = c /\ \A i \in 1 .. n : p[i] = q[i]
  BY <1>5, AppendProperties
<1> HIDE DEF n, e, k, p
<1> DEFINE m == n + 1
           V == [i \in 1 .. m + 1 |-> IF i <= m THEN W[i] ELSE Past(writer, c)]
           Q == [i \in 1 .. m + 1 |-> IF i <= m THEN R[i] \o e ELSE pad]
<1>12. \A i \in 1 .. m : R[i] \in Seq({0, 1}) /\ R[i] \o e \in Seq({0, 1})
  BY <1>3, <1>8, ConcatProperties
<1>13. V \in [1 .. m + 1 -> State] /\ Q \in [1 .. m + 1 -> Seq({0, 1})]
  BY <1>3, <1>9, <1>12
<1>14. V[1] = reader /\ Q[1] = bits \o e
  <2>1. 1 \in 1 .. m + 1 /\ 1 <= m
    BY <1>2
  <2> QED
    BY <1>3, <2>1
<1>15. V[m + 1] = Past(writer, c) /\ Q[m + 1] = pad
  <2>1. m + 1 \in 1 .. m + 1 /\ ~(m + 1 <= m)
    BY <1>2
  <2> QED
    BY <2>1
<1>16. ASSUME NEW i \in 1 .. m
       PROVE  MaySend(V[i], p[i]) /\ V[i + 1] = Past(V[i], p[i])
              /\ Q[i] = BitsOf(p[i], V[i].nbits) \o Q[i + 1]
  <2>1. CASE i = m
    <3>1. m \in 1 .. m + 1 /\ m <= m
      BY <1>2
    <3>2. V[m] = writer /\ p[m] = c /\ Q[m] = R[n + 1] \o e
      BY <1>3, <1>11, <3>1
    <3>3. Q[m] = e
      BY <1>6, <1>8, <3>2, ConcatEmptySeq
    <3> HIDE DEF m, V, Q
    <3>4. MaySend(V[m], p[m]) /\ V[m + 1] = Past(V[m], p[m])
      BY <1>15, <3>2
    <3>5. Q[m] = BitsOf(p[m], V[m].nbits) \o Q[m + 1]
      BY <1>15, <3>2, <3>3 DEF e, k
    <3> QED
      BY <2>1, <3>4, <3>5
  <2>2. CASE i # m
    <3>1. i \in 1 .. n /\ i <= m /\ i + 1 <= m /\ i \in 1 .. m + 1 /\ i + 1 \in 1 .. m + 1 /\ i + 1 \in 1 .. m
      BY <1>2, <2>2
    <3>2. V[i] = W[i] /\ V[i + 1] = W[i + 1] /\ Q[i] = R[i] \o e /\ Q[i + 1] = R[i + 1] \o e /\ p[i] = q[i]
      BY <1>11, <3>1
    <3>3. MaySend(W[i], q[i]) /\ W[i + 1] = Past(W[i], q[i]) /\ R[i] = BitsOf(q[i], W[i].nbits) \o R[i + 1]
      BY <1>3, <3>1
    <3> HIDE DEF V, Q
    <3> DEFINE b == BitsOf(q[i], W[i].nbits)
               t == R[i + 1]
    <3>4. b \in Seq({0, 1})
      <4>1. W[i] \in State /\ q[i] \in Nat
        <5>1. q[i] \in 0 .. MAXMAX
          BY <3>1, ElementOfSeq DEF n
        <5>2. i \in 1 .. n + 1
          BY <1>2, <3>1
        <5>3. W[i] \in State
          BY <1>3, <5>2
        <5>4. q[i] \in Nat
          BY <5>1, CodeFacts
        <5> QED
          BY <5>3, <5>4
      <4>2. W[i].nbits \in MinBits .. MAXBITS
        BY <4>1 DEF State
      <4>3. W[i].nbits \in Nat
        BY <4>2, CodeFacts
      <4> QED
        BY <4>1, <4>3, BitsType
    <3>5. t \in Seq({0, 1})
      BY <1>12, <3>1
    <3> HIDE DEF b, t
    <3>6. (b \o t) \o e = b \o (t \o e)
      <4> DEFINE B == Seq({0, 1})
      <4>1. b \in B /\ t \in B /\ e \in B
        BY <1>8, <3>4, <3>5
      <4>2. \A x, y, z \in B : (x \o y) \o z = x \o (y \o z)
        BY Regroup
      <4> HIDE DEF B
      <4> QED
        BY <4>1, <4>2, Zenon
    <3>7. Q[i] = b \o Q[i + 1]
      BY <3>2, <3>3, <3>6 DEF b, t
    <3> QED
      BY <3>2, <3>3, <3>7 DEF b
  <2> HIDE DEF V, Q
  <2> QED
    BY <2>1, <2>2
<1>17. pad = <<>> \/ (Past(writer, c).next = "nothing" /\ Len(pad) < ByteBits)
  BY <1>10
<1> HIDE DEF V, Q
<1>18. Len(p) = m
  BY <1>11
<1> HIDE DEF m
<1>19. Trace(p, bits \o e, reader, Past(writer, c), V, Q)
  BY <1>13, <1>14, <1>15, <1>16, <1>17, <1>18 DEF Trace
<1>20. Behind(p, bits \o e, reader, Past(writer, c))
  BY <1>19 DEF Behind
<1> QED
  BY <1>20 DEF p, e, k

(* A reader that has come to the end has read everything.                  *)
LEMMA ReadAll ==
  ASSUME NEW q \in Seq(0 .. MAXMAX), NEW bits, NEW reader, NEW writer,
         Behind(q, bits, reader, writer)
  PROVE  /\ reader \in State /\ writer \in State /\ bits \in Seq({0, 1})
         /\ reader.next = "nothing" => q = <<>>
         /\ q = <<>> => writer = reader
<1> DEFINE n == Len(q)
<1>1. PICK W, R : Trace(q, bits, reader, writer, W, R)
  BY DEF Behind
<1>2. n \in Nat
  OBVIOUS
<1>3. /\ W \in [1 .. n + 1 -> State] /\ R \in [1 .. n + 1 -> Seq({0, 1})]
      /\ W[1] = reader /\ W[n + 1] = writer /\ R[1] = bits
      /\ \A i \in 1 .. n : MaySend(W[i], q[i])
  BY <1>1 DEF Trace
<1>4. reader \in State /\ writer \in State /\ bits \in Seq({0, 1})
  <2>1. 1 \in 1 .. n + 1 /\ n + 1 \in 1 .. n + 1
    BY <1>2
  <2> QED
    BY <1>3, <2>1
<1>5. reader.next = "nothing" => q = <<>>
  <2>1. SUFFICES ASSUME reader.next = "nothing", q # <<>> PROVE FALSE
    OBVIOUS
  <2>2. 1 \in 1 .. n
    BY <2>1
  <2>3. MaySend(reader, q[1])
    BY <1>3, <2>2
  <2> QED
    BY <2>1, <2>3 DEF MaySend
<1>6. q = <<>> => writer = reader
  <2>1. q = <<>> => n = 0
    OBVIOUS
  <2> QED
    BY <1>3, <2>1
<1> QED
  BY <1>4, <1>5, <1>6

(* Nothing is sent and nothing is read.                                    *)
LEMMA NothingSent ==
  ASSUME NEW w \in State, NEW q, NEW bits, q = <<>>, bits = <<>>
  PROVE  Behind(q, bits, w, w)
<1> DEFINE W == [i \in 1 .. 1 |-> w]
           R == [i \in 1 .. 1 |-> bits]
<1>1. Len(q) = 0 /\ 0 + 1 = 1 /\ bits \in Seq({0, 1})
  OBVIOUS
<1>2. /\ W \in [1 .. 0 + 1 -> State] /\ R \in [1 .. 0 + 1 -> Seq({0, 1})]
      /\ W[1] = w /\ W[0 + 1] = w /\ R[1] = bits /\ R[0 + 1] = bits
  BY <1>1
<1> HIDE DEF W, R
<1>3. \A i \in 1 .. 0 : FALSE
  OBVIOUS
<1> DEFINE n == Len(q)
<1>4. n = 0
  BY <1>1
<1> HIDE DEF n
<1>5. /\ W \in [1 .. n + 1 -> State] /\ R \in [1 .. n + 1 -> Seq({0, 1})]
      /\ W[n + 1] = w /\ R[n + 1] = <<>> /\ \A i \in 1 .. n : FALSE
  BY <1>2, <1>3, <1>4
<1>6. \A i \in 1 .. n : /\ MaySend(W[i], q[i])
                         /\ W[i + 1] = Past(W[i], q[i])
                         /\ R[i] = BitsOf(q[i], W[i].nbits) \o R[i + 1]
  BY <1>5, Zenon
<1>7. Trace(q, bits, w, w, W, R)
  <2>1. W \in [1 .. Len(q) + 1 -> State] /\ R \in [1 .. Len(q) + 1 -> Seq({0, 1})]
    BY <1>5 DEF n
  <2>2. W[1] = w /\ W[Len(q) + 1] = w /\ R[1] = bits
    BY <1>2, <1>5 DEF n
  <2>3. R[Len(q) + 1] = <<>> \/ (w.next = "nothing" /\ Len(R[Len(q) + 1]) < ByteBits)
    BY <1>5 DEF n
  <2>4. \A i \in 1 .. Len(q) : /\ MaySend(W[i], q[i])
                              /\ W[i + 1] = Past(W[i], q[i])
                              /\ R[i] = BitsOf(q[i], W[i].nbits) \o R[i + 1]
    BY <1>6 DEF n
  <2> QED
    BY <2>1, <2>2, <2>3, <2>4 DEF Trace
<1> QED
  BY <1>7 DEF Behind

-----------------------------------------------------------------------------
(* Each entry refers to an earlier one, or to none.                        *)
Descends(h) == h \in [0 .. MAXMAX -> -1 .. MAXMAX] /\ \A x \in Literals .. MAXMAX : h[x] < x

Bytes    == 0 .. Literals - 1
Tails(t) == t \in [0 .. MAXMAX -> Bytes]

(* What has a string when the first n codes are taken, and the tables in   *)
(* which it has.                                                           *)
Known(n)   == Bytes \cup (FIRST_FREE .. n - 1)
Live(h, n) == \A x \in FIRST_FREE .. n - 1 : h[x] \in Known(x)

(* Along a chain a function may be defined by its value at the end and by  *)
(* the step from each entry's predecessor to the entry.                    *)
Follows(f, h, n, base, step) ==
  \A x \in -1 .. n : f[x] = IF x < Literals THEN base[x] ELSE step[x][f[h[x]]]

(* There is such a function: tlapm sees a recursive function as a CHOOSE,  *)
(* and this is what makes text and first the functions their definitions   *)
(* describe.                                                               *)
LEMMA ChainExists ==
  ASSUME NEW h, Descends(h), NEW S, NEW base \in [-1 .. Literals - 1 -> S],
         NEW step \in [0 .. MAXMAX -> [S -> S]]
  PROVE  \E f \in [-1 .. MAXMAX -> S] : Follows(f, h, MAXMAX, base, step)
<1> DEFINE T == {n \in -1 .. MAXMAX : \E f \in [-1 .. n -> S] : Follows(f, h, n, base, step)}
<1>0. Literals \in Nat \ {0} /\ MAXMAX \in Nat /\ MAXMAX >= Literals
  BY CodeFacts
<1>1. -1 \in T
  <2> DEFINE f == [x \in -1 .. -1 |-> base[x]]
  <2>1. f \in [-1 .. -1 -> S] /\ \A x \in -1 .. -1 : f[x] = base[x] /\ x < Literals
    BY <1>0
  <2> HIDE DEF f
  <2>2. Follows(f, h, -1, base, step)
    BY <2>1 DEF Follows
  <2>3. -1 \in -1 .. MAXMAX
    BY <1>0
  <2> QED
    BY <2>1, <2>2, <2>3
<1>2. ASSUME NEW n \in -1 .. MAXMAX - 1, n \in T
      PROVE  n + 1 \in T
  <2>1. PICK f \in [-1 .. n -> S] : Follows(f, h, n, base, step)
    BY <1>2
  <2> DEFINE m == n + 1
             v == IF m < Literals THEN base[m] ELSE step[m][f[h[m]]]
             g == [x \in -1 .. m |-> IF x = m THEN v ELSE f[x]]
  <2>2. n \in Int /\ m \in 0 .. MAXMAX /\ m = n + 1
    BY <1>0
  <2> HIDE DEF m
  <2>3. m >= Literals => h[m] \in -1 .. n
    BY <1>0, <2>2 DEF Descends
  <2>4. v \in S
    BY <1>0, <2>2, <2>3
  <2> HIDE DEF v
  <2>5. g \in [-1 .. m -> S]
    BY <2>2, <2>4
  <2>6. \A x \in -1 .. n : g[x] = f[x]
    BY <2>2
  <2>7. g[m] = v
    BY <2>2
  <2> HIDE DEF g
  <2>8. ASSUME NEW x \in -1 .. m
        PROVE  g[x] = IF x < Literals THEN base[x] ELSE step[x][g[h[x]]]
    <3>1. CASE x = m
      BY <3>1, <2>3, <2>6, <2>7, <1>0, <2>2 DEF v
    <3>2. CASE x # m
      <4>1. x \in -1 .. n
        BY <3>2, <2>2
      <4>2. g[x] = f[x] /\ f[x] = IF x < Literals THEN base[x] ELSE step[x][f[h[x]]]
        BY <4>1, <2>1, <2>6 DEF Follows
      <4>3. x >= Literals => h[x] \in -1 .. n
        BY <4>1, <1>0, <2>2 DEF Descends
      <4>4. x >= Literals => g[h[x]] = f[h[x]]
        BY <4>3, <2>6
      <4> QED
        BY <4>1, <4>2, <4>4, <1>0
    <3> QED
      BY <3>1, <3>2
  <2>9. Follows(g, h, m, base, step)
    BY <2>8 DEF Follows
  <2>10. m \in T
    BY <2>2, <2>5, <2>9
  <2> HIDE DEF T
  <2> QED
    BY <2>2, <2>10
<1>3. \A n \in -1 .. MAXMAX : n \in T
  <2> HIDE DEF T
  <2>1. -1 \in Int /\ MAXMAX \in Int
    BY <1>0
  <2> QED
    BY <1>1, <1>2, <2>1, Upwards
<1>4. MAXMAX \in T
  BY <1>0, <1>3
<1> QED
  BY <1>4

(* The strings of the tables: a literal is its own, an entry's is its      *)
(* predecessor's with its own byte after it.                               *)
LEMMA TextSteps ==
  ASSUME NEW h, NEW t, Descends(h), Tails(t)
  PROVE  /\ \A x \in -1 .. Literals - 1 : TextIn(h, t, x) = <<x>>
         /\ \A x \in Literals .. MAXMAX : TextIn(h, t, x) = Append(TextIn(h, t, h[x]), t[x])
<1> DEFINE R(f) == [x \in -1 .. MAXMAX |-> IF x < Literals THEN <<x>> ELSE Append(f[h[x]], t[x])]
           text == CHOOSE f : f = R(f)
           Strings == Seq(Int)
           base == [x \in -1 .. Literals - 1 |-> <<x>>]
           step == [x \in 0 .. MAXMAX |-> [s \in Strings |-> Append(s, t[x])]]
<1>0. Literals \in Nat \ {0} /\ MAXMAX \in Nat /\ MAXMAX >= Literals
  BY CodeFacts
<1>1. base \in [-1 .. Literals - 1 -> Strings]
  BY <1>0
<1>2. step \in [0 .. MAXMAX -> [Strings -> Strings]]
  <2>1. \A x \in 0 .. MAXMAX : t[x] \in Int
    BY <1>0 DEF Tails, Bytes
  <2>2. \A x \in 0 .. MAXMAX : \A s \in Strings : Append(s, t[x]) \in Strings
    BY <2>1
  <2> QED
    BY <2>2
<1>3. /\ \A x \in -1 .. Literals - 1 : base[x] = <<x>>
      /\ \A x \in 0 .. MAXMAX : \A s \in Strings : step[x][s] = Append(s, t[x])
  OBVIOUS
<1> HIDE DEF Strings, base, step
<1>4. PICK f \in [-1 .. MAXMAX -> Strings] : Follows(f, h, MAXMAX, base, step)
  BY <1>1, <1>2, ChainExists
<1>5. ASSUME NEW x \in -1 .. MAXMAX
      PROVE  f[x] = IF x < Literals THEN <<x>> ELSE Append(f[h[x]], t[x])
  <2>1. f[x] = IF x < Literals THEN base[x] ELSE step[x][f[h[x]]]
    BY <1>4 DEF Follows
  <2>2. CASE x < Literals
    BY <2>1, <2>2, <1>3, <1>0
  <2>3. CASE ~(x < Literals)
    <3>1. x \in 0 .. MAXMAX /\ h[x] \in -1 .. MAXMAX
      BY <2>3, <1>0 DEF Descends
    <3>2. f[h[x]] \in Strings
      BY <1>4, <3>1
    <3> QED
      BY <2>1, <2>3, <3>1, <3>2, <1>3
  <2> QED
    BY <2>2, <2>3
<1>6. f = R(f)
  <2>1. f = [x \in -1 .. MAXMAX |-> f[x]]
    BY <1>4
  <2>2. [x \in -1 .. MAXMAX |-> f[x]] = R(f)
    BY <1>5
  <2> QED
    BY <2>1, <2>2
<1>7. text = R(text)
  <2> HIDE DEF R
  <2> QED
    BY <1>6
<1> HIDE DEF text
<1>8. \A x \in -1 .. MAXMAX : text[x] = IF x < Literals THEN <<x>> ELSE Append(text[h[x]], t[x])
  BY <1>7
<1>9. \A x : TextIn(h, t, x) = text[x]
  BY DEF TextIn, text, R
<1>10. \A x \in -1 .. Literals - 1 : text[x] = <<x>>
  <2>1. \A x \in -1 .. Literals - 1 : x \in -1 .. MAXMAX /\ x < Literals
    BY <1>0
  <2> QED
    BY <1>8, <2>1, Zenon
<1>11. \A x \in Literals .. MAXMAX : text[x] = Append(text[h[x]], t[x])
  <2>1. \A x \in Literals .. MAXMAX : x \in -1 .. MAXMAX /\ ~(x < Literals)
    BY <1>0
  <2> QED
    BY <1>8, <2>1, Zenon
<1> QED
  BY <1>9, <1>10, <1>11

(* firstch comes to the end of the same chain.                             *)
LEMMA FirstSteps ==
  ASSUME NEW h, Descends(h)
  PROVE  /\ \A x \in -1 .. Literals - 1 : FirstIn(h, x) = x
         /\ \A x \in Literals .. MAXMAX : FirstIn(h, x) = FirstIn(h, h[x])
<1> DEFINE R(f) == [x \in -1 .. MAXMAX |-> IF x < Literals THEN x ELSE f[h[x]]]
           first == CHOOSE f : f = R(f)
           base == [x \in -1 .. Literals - 1 |-> x]
           step == [x \in 0 .. MAXMAX |-> [s \in Int |-> s]]
<1>0. Literals \in Nat \ {0} /\ MAXMAX \in Nat /\ MAXMAX >= Literals
  BY CodeFacts
<1>1. base \in [-1 .. Literals - 1 -> Int] /\ step \in [0 .. MAXMAX -> [Int -> Int]]
  BY <1>0
<1>2. /\ \A x \in -1 .. Literals - 1 : base[x] = x
      /\ \A x \in 0 .. MAXMAX : \A s \in Int : step[x][s] = s
  OBVIOUS
<1> HIDE DEF base, step
<1>3. PICK f \in [-1 .. MAXMAX -> Int] : Follows(f, h, MAXMAX, base, step)
  BY <1>1, ChainExists
<1>4. ASSUME NEW x \in -1 .. MAXMAX
      PROVE  f[x] = IF x < Literals THEN x ELSE f[h[x]]
  <2>1. f[x] = IF x < Literals THEN base[x] ELSE step[x][f[h[x]]]
    BY <1>3 DEF Follows
  <2>2. CASE x < Literals
    BY <2>1, <2>2, <1>2, <1>0
  <2>3. CASE ~(x < Literals)
    <3>1. x \in 0 .. MAXMAX /\ h[x] \in -1 .. MAXMAX
      BY <2>3, <1>0 DEF Descends
    <3> QED
      BY <2>1, <2>3, <3>1, <1>2, <1>3
  <2> QED
    BY <2>2, <2>3
<1>5. f = R(f)
  <2>1. f = [x \in -1 .. MAXMAX |-> f[x]]
    BY <1>3
  <2>2. [x \in -1 .. MAXMAX |-> f[x]] = R(f)
    BY <1>4
  <2> QED
    BY <2>1, <2>2
<1>6. first = R(first)
  <2> HIDE DEF R
  <2> QED
    BY <1>5
<1> HIDE DEF first
<1>7. \A x \in -1 .. MAXMAX : first[x] = IF x < Literals THEN x ELSE first[h[x]]
  BY <1>6
<1>8. \A x : FirstIn(h, x) = first[x]
  BY DEF FirstIn, first, R
<1>9. \A x \in -1 .. Literals - 1 : first[x] = x
  BY <1>7, <1>0
<1>10. \A x \in Literals .. MAXMAX : first[x] = first[h[x]]
  BY <1>7, <1>0
<1> QED
  BY <1>8, <1>9, <1>10

-----------------------------------------------------------------------------
(* What holds of the literals, and of an entry when it holds of its        *)
(* predecessor, holds of all that is known.                                *)
LEMMA AlongChains ==
  ASSUME NEW h, NEW n \in Int, n >= FIRST_FREE, Live(h, n), NEW S,
         \A x \in Bytes : x \in S, \A x \in FIRST_FREE .. n - 1 : h[x] \in S => x \in S
  PROVE  \A x \in Known(n) : x \in S
<1> DEFINE T == {k \in FIRST_FREE .. n : Known(k) \subseteq S}
<1>0. FIRST_FREE \in Int
  BY CodeFacts
<1>1. FIRST_FREE \in T
  <2>1. Known(FIRST_FREE) = Bytes
    BY <1>0 DEF Known
  <2> QED
    BY <1>0, <2>1
<1>2. ASSUME NEW k \in FIRST_FREE .. n - 1, k \in T
      PROVE  k + 1 \in T
  <2>1. Known(k) \subseteq S
    BY <1>2
  <2>2. h[k] \in Known(k)
    BY DEF Live
  <2>3. k \in S
    BY <2>1, <2>2
  <2>4. Known(k + 1) = Known(k) \cup {k}
    BY <1>0 DEF Known
  <2>5. k + 1 \in FIRST_FREE .. n
    BY <1>0
  <2> QED
    BY <2>1, <2>3, <2>4, <2>5
<1>3. \A k \in FIRST_FREE .. n : k \in T
  <2> HIDE DEF T
  <2> QED
    BY <1>0, <1>1, <1>2, Upwards
<1>4. n \in T
  BY <1>0, <1>3
<1> QED
  BY <1>4

(* A code that is known is a literal or an entry, and its predecessor is   *)
(* known as well.                                                          *)
LEMMA KnownFacts ==
  ASSUME NEW n \in FIRST_FREE .. MAXMAX + 1
  PROVE  /\ Known(n) \subseteq 0 .. MAXMAX
         /\ \A x \in Known(n) : x \in Int /\ x < n /\ x # CLEAR /\ x # Z_EOF
         /\ \A x \in Known(n) : x >= Literals => x \in FIRST_FREE .. n - 1
         /\ \A x \in Known(n) : x < Literals => x \in Bytes
         /\ \A x \in FIRST_FREE .. n - 1 : Known(x) \subseteq Known(n)
<1>0. /\ Literals \in Nat \ {0} /\ MAXMAX \in Nat /\ FIRST_FREE = Literals + 2 /\ CLEAR = Literals
      /\ Z_EOF = Literals + 1 /\ FIRST_FREE <= MAXMAX + 1
  BY CodeFacts
<1>1. n \in Int /\ n >= FIRST_FREE /\ n <= MAXMAX + 1
  BY <1>0
<1> QED
  BY <1>0, <1>1 DEF Known, Bytes

(* A sequence with one more element.                                       *)
LEMMA Longer ==
  ASSUME NEW S, NEW s \in Seq(S), NEW e \in S
  PROVE  /\ Append(s, e) \in Seq(S) /\ Len(Append(s, e)) = Len(s) + 1
         /\ Len(s) \in Nat
         /\ s # <<>> => Append(s, e) # <<>> /\ Head(Append(s, e)) = Head(s)
<1>1. Append(s, e) # <<>> /\ Append(s, e) \in Seq(S) /\ Len(Append(s, e)) = Len(s) + 1
  BY AppendProperties
<1>2. Head(Append(s, e)) = IF s = <<>> THEN e ELSE Head(s)
  BY HeadTailAppend
<1> QED
  BY <1>1, <1>2

(* The string of a code is not longer than the code is large, so that it   *)
(* fits on the stack, and firstch finds its first byte.                    *)
LEMMA KnownText ==
  ASSUME NEW h, NEW t, Descends(h), Tails(t), NEW n \in FIRST_FREE .. MAXMAX + 1, Live(h, n)
  PROVE  \A x \in Known(n) :
           /\ TextIn(h, t, x) \in Seq(Bytes) /\ TextIn(h, t, x) # <<>>
           /\ Len(TextIn(h, t, x)) <= x + 1
           /\ FirstIn(h, x) = Head(TextIn(h, t, x))
<1> DEFINE Good(x) == /\ TextIn(h, t, x) \in Seq(Bytes) /\ TextIn(h, t, x) # <<>>
                      /\ Len(TextIn(h, t, x)) <= x + 1
                      /\ FirstIn(h, x) = Head(TextIn(h, t, x))
           S == {x \in Known(n) : Good(x)}
<1>0. Literals \in Nat \ {0} /\ MAXMAX \in Nat /\ FIRST_FREE = Literals + 2
  BY CodeFacts
<1>1. \A x \in -1 .. Literals - 1 : TextIn(h, t, x) = <<x>>
  BY TextSteps
<1>2. \A x \in Literals .. MAXMAX : TextIn(h, t, x) = Append(TextIn(h, t, h[x]), t[x])
  BY TextSteps
<1>3. \A x \in -1 .. Literals - 1 : FirstIn(h, x) = x
  BY FirstSteps
<1>4. \A x \in Literals .. MAXMAX : FirstIn(h, x) = FirstIn(h, h[x])
  BY FirstSteps
<1>5. ASSUME NEW x \in Bytes
      PROVE  x \in S
  <2>1. x \in Known(n)
    BY DEF Known
  <2>2. x \in -1 .. Literals - 1 /\ x \in Int /\ x >= 0
    BY <1>0 DEF Bytes
  <2>3. TextIn(h, t, x) = <<x>> /\ FirstIn(h, x) = x
    BY <1>1, <1>3, <2>2
  <2>4. <<x>> \in Seq(Bytes) /\ <<x>> # <<>> /\ Len(<<x>>) = 1 /\ Head(<<x>>) = x
    OBVIOUS
  <2>5. Good(x)
    <3> DEFINE s == TextIn(h, t, x)
    <3>1. s = <<x>> /\ FirstIn(h, x) = x
      BY <2>3
    <3> HIDE DEF s
    <3>2. s \in Seq(Bytes) /\ s # <<>> /\ Len(s) <= x + 1 /\ FirstIn(h, x) = Head(s)
      BY <3>1, <2>2, <2>4
    <3> QED
      BY <3>2 DEF s
  <2> QED
    BY <2>1, <2>5
<1>6. ASSUME NEW x \in FIRST_FREE .. n - 1, h[x] \in S
      PROVE  x \in S
  <2> DEFINE s == TextIn(h, t, h[x])
             r == TextIn(h, t, x)
             e == t[x]
  <2>1. x \in Literals .. MAXMAX /\ x \in Int /\ x \in 0 .. MAXMAX
    BY <1>0
  <2>2. r = Append(s, e) /\ FirstIn(h, x) = FirstIn(h, h[x])
    BY <1>2, <1>4, <2>1
  <2>3. e \in Bytes
    BY <2>1 DEF Tails
  <2>4. h[x] < x /\ h[x] \in Int
    BY <2>1, <1>0 DEF Descends
  <2>5. s \in Seq(Bytes) /\ s # <<>> /\ Len(s) <= h[x] + 1 /\ FirstIn(h, h[x]) = Head(s)
    BY <1>6
  <2>6. x \in Known(n)
    BY DEF Known
  <2> HIDE DEF s, e, r
  <2>7. /\ Append(s, e) \in Seq(Bytes) /\ Len(Append(s, e)) = Len(s) + 1 /\ Len(s) \in Nat
        /\ Append(s, e) # <<>> /\ Head(Append(s, e)) = Head(s)
    BY <2>3, <2>5, Longer
  <2>8. r \in Seq(Bytes) /\ r # <<>> /\ Len(r) <= x + 1 /\ FirstIn(h, x) = Head(r)
    BY <2>1, <2>2, <2>4, <2>5, <2>7
  <2> QED
    BY <2>6, <2>8 DEF r
<1>7. \A x \in Known(n) : x \in S
  <2> HIDE DEF S
  <2>1. n \in Int /\ n >= FIRST_FREE
    BY <1>0
  <2> QED
    BY <1>5, <1>6, <2>1, AlongChains
<1> QED
  BY <1>7

(* A new entry changes no string that was known before.                    *)
LEMMA SameText ==
  ASSUME NEW h, NEW t, Descends(h), Tails(t), NEW g, NEW u, Descends(g), Tails(u),
         NEW n \in FIRST_FREE .. MAXMAX + 1, Live(h, n),
         \A x \in FIRST_FREE .. n - 1 : g[x] = h[x] /\ u[x] = t[x]
  PROVE  \A x \in Known(n) : TextIn(g, u, x) = TextIn(h, t, x)
<1> DEFINE S == {x \in Known(n) : TextIn(g, u, x) = TextIn(h, t, x)}
<1>0. Literals \in Nat \ {0} /\ MAXMAX \in Nat /\ FIRST_FREE = Literals + 2
  BY CodeFacts
<1>1. ASSUME NEW x \in Bytes
      PROVE  x \in S
  <2>1. x \in Known(n)
    BY DEF Known
  <2>2. x \in -1 .. Literals - 1
    BY <1>0 DEF Bytes
  <2>3. TextIn(g, u, x) = <<x>> /\ TextIn(h, t, x) = <<x>>
    BY <2>2, TextSteps
  <2> QED
    BY <2>1, <2>3
<1>2. ASSUME NEW x \in FIRST_FREE .. n - 1, h[x] \in S
      PROVE  x \in S
  <2>1. x \in Known(n) /\ x \in Literals .. MAXMAX
    BY <1>0 DEF Known
  <2>2. TextIn(g, u, x) = Append(TextIn(g, u, g[x]), u[x])
    BY <2>1, TextSteps
  <2>3. TextIn(h, t, x) = Append(TextIn(h, t, h[x]), t[x])
    BY <2>1, TextSteps
  <2>4. g[x] = h[x] /\ u[x] = t[x]
    OBVIOUS
  <2>5. TextIn(g, u, h[x]) = TextIn(h, t, h[x])
    BY <1>2
  <2>6. TextIn(g, u, x) = TextIn(h, t, x)
    BY <2>2, <2>3, <2>4, <2>5, Zenon
  <2> QED
    BY <2>1, <2>6
<1>3. \A x \in Known(n) : x \in S
  <2> HIDE DEF S
  <2>1. n \in Int /\ n >= FIRST_FREE
    BY <1>0
  <2> QED
    BY <1>1, <1>2, <2>1, AlongChains
<1> QED
  BY <1>3

-----------------------------------------------------------------------------
(* The inductive invariant.                                                *)
Bit == {0, 1}

Writer       == [free |-> enc.free, nbits |-> enc.nbits, prev |-> enc.prev, next |-> enc.next]
Reader(next) == [free |-> free_code, nbits |-> nbits, prev |-> have_old, next |-> next]

(* While a code is being expanded it has been read but not decoded.        *)
Unread         == IF pc = "expand" THEN Tail(sent) ELSE sent
ReaderAt(next) == IF pc = "expand" THEN Grown(Reader(next)) ELSE Reader(next)
Bits           == (bitbuf \o inp) \o wire

EncType ==
  enc \in [free : Int, nbits : Int, prev : BOOLEAN, next : {"literal", "any", "nothing"}, sent : Int]

BitsInv ==
  /\ bitbuf \in Seq(Bit) /\ inp \in Seq(Bit) /\ wire \in Seq(Bit)
  /\ Len(inp) % ByteBits = 0
  /\ Len(bitbuf) < MAXBITS + ByteBits

WidthInv ==
  /\ nbits \in MinBits .. MAXBITS /\ max_code = 2 ^ nbits
  /\ free_code \in FIRST_FREE .. MAXMAX + 1 /\ have_old \in BOOLEAN

(* The bits not read are the codes not read; after a CLEAR a literal comes.*)
Synced ==
  \E next \in {"literal", "any", "nothing"} :
    /\ Behind(Unread, Bits, ReaderAt(next), Writer)
    /\ pc = "literal" => next = "literal"

CallInv ==
  /\ pc \in {"idle", "loop", "literal", "expand"} /\ status \in {OK, NEED_INPUT, DONE}
  /\ outpos \in Nat /\ out_len \in Nat /\ outpos <= out_len
  /\ out \in Seq(Bytes) /\ stack \in Seq(Bytes)
  /\ pc = "literal" => ~have_old /\ stack = <<>> /\ outpos < out_len

(* The string of a code, the one that is being made included.              *)
StringFor(c) == IF c < free_code THEN Text(c) ELSE Append(Text(old_code), FirstByte(old_code))

DictInv ==
  /\ Descends(head) /\ Tails(tail) /\ Live(head, free_code)
  /\ old_code \in 0 .. MAXMAX
  /\ have_old => old_code \in Known(free_code)

(* What may be expanded: what is known, and the entry that is being made.  *)
Expandable(c) ==
  \/ c \in Known(free_code)
  \/ (c = free_code /\ have_old /\ free_code <= MAXMAX)

(* What is on the stack is the end of the string of the code that is being *)
(* expanded, and code has the rest of it.                                  *)
ExpandInv ==
  /\ Len(stack) <= MAXMAX + 1
  /\ code \in 0 .. MAXMAX /\ in_code \in 0 .. MAXMAX
  /\ pc = "expand" =>
       /\ sent # <<>> /\ Head(sent) = in_code
       /\ code \in Known(free_code)
       /\ Expandable(in_code)
       /\ Text(code) \o stack = StringFor(in_code)

LzdInv ==
  /\ EncType /\ sent \in Seq(0 .. MAXMAX)
  /\ BitsInv /\ WidthInv /\ Synced /\ CallInv /\ DictInv /\ ExpandInv /\ ReturnsAreTrue

-----------------------------------------------------------------------------
(* What is in front of a sequence is what is in front of its beginning.    *)
LEMMA InFront ==
  ASSUME NEW s \in Seq(Bit), NEW t \in Seq(Bit), NEW w \in 0 .. Len(s)
  PROVE  /\ TakeBits(s, w) \in Seq(Bit) /\ Len(TakeBits(s, w)) = w
         /\ DropBits(s, w) \in Seq(Bit) /\ Len(DropBits(s, w)) = Len(s) - w
         /\ TakeBits(s, w) \o DropBits(s, w) = s
         /\ TakeBits(s \o t, w) = TakeBits(s, w)
         /\ DropBits(s \o t, w) = DropBits(s, w) \o t
<1> DEFINE n == Len(s)
           a == SubSeq(s, 1, w)
           b == SubSeq(s, w + 1, n)
<1>1. n \in Nat /\ w \in Nat /\ w <= n /\ \A i \in 1 .. n : s[i] \in Bit
  BY LenProperties, ElementOfSeq
<1>2. a \in Seq(Bit) /\ Len(a) = w
  <2>1. 1 \in Int /\ w \in Int /\ \A i \in 1 .. w : s[i] \in Bit
    BY <1>1
  <2>2. a \in Seq(Bit) /\ Len(a) = IF 1 <= w THEN w - 1 + 1 ELSE 0
    BY <2>1, SubSeqProperties
  <2> HIDE DEF a
  <2> QED
    BY <1>1, <2>2
<1>3. b \in Seq(Bit) /\ Len(b) = n - w
  <2> HIDE DEF n
  <2>1. w + 1 \in Int /\ n \in Int /\ \A i \in w + 1 .. n : s[i] \in Bit
    BY <1>1
  <2>2. b \in Seq(Bit) /\ Len(b) = IF w + 1 <= n THEN n - (w + 1) + 1 ELSE 0
    BY <2>1, SubSeqProperties
  <2> HIDE DEF b
  <2> QED
    BY <1>1, <2>2
<1>4. a \o b = s
  <2>1. 1 \in 1 .. n + 1 /\ w \in 1 - 1 .. n /\ n \in w .. n
    BY <1>1
  <2>2. a \o b = SubSeq(s, 1, n)
    BY <2>1, ConcatAdjacentSubSeq
  <2>3. SubSeq(s, 1, n) = s
    BY SubSeqFull
  <2> QED
    BY <2>2, <2>3
<1>5. TakeBits(s, w) = a /\ DropBits(s, w) = b
  BY DEF TakeBits, DropBits
<1> HIDE DEF a, b, n
<1>6. s \o t = a \o (b \o t) /\ b \o t \in Seq(Bit)
  <2>1. (a \o b) \o t = a \o (b \o t)
    <3> DEFINE T == Seq(Bit)
    <3>1. a \in T /\ b \in T /\ t \in T
      BY <1>2, <1>3
    <3>2. \A x, y, z \in T : (x \o y) \o z = x \o (y \o z)
      BY Regroup DEF Bit
    <3> HIDE DEF T
    <3> QED
      BY <3>1, <3>2, Zenon
  <2>2. b \o t \in Seq(Bit)
    BY <1>3, ConcatProperties
  <2> QED
    BY <1>4, <2>1, <2>2
<1> DEFINE u == b \o t
<1>7. TakeBits(a \o u, Len(a)) = a /\ DropBits(a \o u, Len(a)) = u
  <2>1. u \in Seq(Bit)
    BY <1>6
  <2> HIDE DEF u
  <2> QED
    BY <1>2, <2>1, Apart
<1>8. TakeBits(s \o t, w) = a /\ DropBits(s \o t, w) = b \o t
  BY <1>2, <1>6, <1>7
<1> QED
  BY <1>2, <1>3, <1>4, <1>5, <1>8 DEF n

(* fill_bits takes whole bytes, moves nothing but the boundary between the *)
(* buffer and the input, and stops short only when the input is used up.   *)
LEMMA FillBits ==
  ASSUME BitsInv, NEW width \in MinBits .. MAXBITS
  PROVE  /\ FilledBy(width) \in Seq(Bit) /\ LeftBy(width) \in Seq(Bit)
         /\ FilledBy(width) \o LeftBy(width) = bitbuf \o inp
         /\ Len(LeftBy(width)) % ByteBits = 0
         /\ Len(FilledBy(width)) < MAXBITS + ByteBits
         /\ Len(FilledBy(width)) < width => LeftBy(width) = <<>>
<1> DEFINE b == Len(bitbuf)
           n == Len(inp)
           y == ByteBits
           need == (width - b + y - 1) \div y
           have == n \div y
           k == BytesTaken(width)
<1>0. /\ y \in Nat \ {0} /\ MinBits \in Nat \ {0} /\ MAXBITS \in Nat /\ width \in Nat /\ width <= MAXBITS
      /\ b \in Nat /\ n \in Nat /\ n % y = 0 /\ b < MAXBITS + y
  BY CodeFacts, LenProperties DEF BitsInv
<1>1. bitbuf \in Seq(Bit) /\ inp \in Seq(Bit)
  BY DEF BitsInv
<1>2. CASE Len(bitbuf) >= width
  <2>1. FilledBy(width) = bitbuf /\ LeftBy(width) = inp
    BY <1>2 DEF FilledBy, LeftBy
  <2> QED
    BY <1>0, <1>1, <1>2, <2>1
<1>3. CASE ~(Len(bitbuf) >= width)
  <2>1. b < width
    BY <1>0, <1>3
  <2>2. k = IF need < have THEN need ELSE have
    BY DEF BytesTaken, LesserOf
  <2>3. have \in Int /\ n = y * have
    <3>1. have \in Int /\ n = y * have + (n % y)
      BY <1>0, DivMod
    <3> HIDE DEF have
    <3>2. y * have \in Int
      BY <1>0, <3>1
    <3> QED
      BY <1>0, <3>1, <3>2
  <2> DEFINE d == width - b
             e == d + y - 1
             r == e % y
  <2>4. need \in Int /\ e = y * need + r /\ r \in 0 .. y - 1 /\ need = e \div y
    <3>1. e \in Int
      BY <1>0
    <3>2. need = e \div y
      BY <1>0
    <3> HIDE DEF e, need
    <3> QED
      BY <1>0, <3>1, <3>2, DivMod, ModRange
  <2>5. d \in Nat \ {0} /\ e = d + y - 1
    BY <1>0, <2>1
  <2> HIDE DEF need, have, d, e, r
  <2>6. y * need \in Int /\ y * need >= d /\ y * need <= d + y - 1
    <3>1. y * need \in Int
      BY <1>0, <2>4
    <3> QED
      BY <1>0, <2>4, <2>5, <3>1
  <2>7. need > 0 /\ have >= 0
    BY <1>0, <2>3, <2>4, <2>5, <2>6
  <2>8. k \in Nat /\ y * k \in 0 .. n /\ y * k <= d + y - 1
    <3>1. CASE need < have
      <4>1. k = need
        BY <2>2, <3>1
      <4>2. y * need <= y * have
        BY <1>0, <2>3, <2>4, <3>1
      <4> HIDE DEF k
      <4> QED
        BY <1>0, <2>3, <2>4, <2>5, <2>6, <2>7, <4>1, <4>2
    <3>2. CASE ~(need < have)
      <4>1. k = have /\ have <= need
        BY <2>2, <2>3, <2>4, <3>2
      <4>2. y * have <= y * need
        BY <1>0, <2>3, <2>4, <4>1
      <4> HIDE DEF k
      <4> QED
        BY <1>0, <2>3, <2>4, <2>5, <2>6, <2>7, <4>1, <4>2
    <3> QED
      BY <3>1, <3>2
  <2>9. k * y = y * k
    <3> HIDE DEF k
    <3> QED
      BY <1>0, <2>8
  <2>10. k = need \/ y * k = n
    BY <2>2, <2>3
  <2> DEFINE w == k * ByteBits
             f == TakeBits(inp, w)
             l == DropBits(inp, w)
  <2>11. FilledBy(width) = bitbuf \o f /\ LeftBy(width) = l
    BY <1>3 DEF FilledBy, LeftBy
  <2>12. w \in 0 .. Len(inp) /\ w = y * k
    BY <2>8, <2>9
  <2> HIDE DEF k, w
  <2>13. f \in Seq(Bit) /\ l \in Seq(Bit) /\ Len(f) = w /\ Len(l) = n - w /\ f \o l = inp
    <3>1. inp \in Seq(Bit) /\ w \in 0 .. Len(inp)
      BY <1>1, <2>12
    <3>2. /\ TakeBits(inp, w) \in Seq(Bit) /\ Len(TakeBits(inp, w)) = w
          /\ DropBits(inp, w) \in Seq(Bit) /\ Len(DropBits(inp, w)) = Len(inp) - w
          /\ TakeBits(inp, w) \o DropBits(inp, w) = inp
      BY <3>1, InFront
    <3> QED
      BY <3>2
  <2> HIDE DEF f, l
  <2>14. bitbuf \o f \in Seq(Bit) /\ Len(bitbuf \o f) = b + w
    BY <1>1, <2>13, ConcatProperties
  <2>15. (bitbuf \o f) \o l = bitbuf \o inp
    <3>1. (bitbuf \o f) \o l = bitbuf \o (f \o l)
      <4> DEFINE B == Seq(Bit)
      <4>1. bitbuf \in B /\ f \in B /\ l \in B
        BY <1>1, <2>13
      <4>2. \A p, q, v \in B : (p \o q) \o v = p \o (q \o v)
        BY Regroup DEF Bit
      <4> HIDE DEF B
      <4> QED
        BY <4>1, <4>2, Zenon
    <3> QED
      BY <2>13, <3>1
  <2>16. Len(l) % y = 0
    <3>1. Len(l) = y * (have - k)
      <4>1. y * (have - k) = y * have - y * k
        BY <1>0, <2>3, <2>8
      <4> QED
        BY <2>3, <2>12, <2>13, <4>1
    <3>2. have - k \in Int /\ 0 \in 0 .. y - 1
      BY <1>0, <2>3, <2>8
    <3>3. (y * (have - k) + 0) % y = 0
      <4> DEFINE q == have - k
      <4>1. q \in Int
        BY <3>2
      <4> HIDE DEF q
      <4>2. (y * q + 0) % y = 0
        BY <1>0, <3>2, <4>1, ModUnique
      <4> QED
        BY <4>2 DEF q
    <3>4. y * (have - k) + 0 = y * (have - k)
      BY <1>0, <3>2
    <3> QED
      BY <3>1, <3>3, <3>4
  <2>17. b + w < MAXBITS + y
    <3>1. b + w <= width + y - 1
      BY <1>0, <2>8, <2>12 DEF d
    <3>2. b + w \in Int
      BY <1>0, <2>12
    <3> QED
      BY <1>0, <3>1, <3>2
  <2>18. b + w < width => l = <<>>
    <3>1. SUFFICES ASSUME b + w < width PROVE l = <<>>
      OBVIOUS
    <3>2. k # need
      BY <1>0, <2>6, <2>8, <2>12, <3>1 DEF d
    <3>3. Len(l) = 0
      BY <1>0, <2>8, <2>10, <2>12, <2>13, <3>2
    <3> QED
      BY <2>13, <3>3, EmptySeq
  <2> QED
    BY <2>11, <2>13, <2>14, <2>15, <2>16, <2>17, <2>18
<1> QED
  BY <1>2, <1>3

-----------------------------------------------------------------------------
(* What reading a code does to the bits: it takes the first code that was  *)
(* sent and not read.                                                      *)
LEMMA ReadFacts ==
  ASSUME sent \in Seq(0 .. MAXMAX), BitsInv, WidthInv, Synced, pc # "expand",
         NEW c, ReadCode(c, nbits), wire' = wire
  PROVE  /\ sent # <<>> /\ c = Head(sent) /\ c \in 0 .. MAXMAX
         /\ BitsInv'
         /\ \E next \in {"literal", "any", "nothing"} :
              /\ pc = "literal" => next = "literal"
              /\ MaySend(Reader(next), c)
              /\ Behind(Tail(sent), Bits', Past(Reader(next), c), Writer)
<1> DEFINE f == FilledBy(nbits)
           l == LeftBy(nbits)
           u == f \o l
<1>0. nbits \in MinBits .. MAXBITS /\ nbits \in Nat
  BY CodeFacts DEF WidthInv
<1>1. /\ f \in Seq(Bit) /\ l \in Seq(Bit) /\ f \o l = bitbuf \o inp
      /\ Len(l) % ByteBits = 0 /\ Len(f) < MAXBITS + ByteBits
  BY <1>0, FillBits
<1>2. wire \in Seq(Bit)
  BY DEF BitsInv
<1>3. Len(f) >= nbits /\ c = ValueOf(TakeBits(f, nbits)) /\ bitbuf' = DropBits(f, nbits) /\ inp' = l
  BY DEF ReadCode
<1>4. PICK next \in {"literal", "any", "nothing"} :
         Behind(sent, Bits, Reader(next), Writer) /\ (pc = "literal" => next = "literal")
  BY DEF Synced, Unread, ReaderAt
<1> DEFINE r == Reader(next)
<1>5. r.nbits = nbits
  BY DEF Reader
<1> HIDE DEF f, l
<1>6. Len(f) \in Nat /\ nbits \in 0 .. Len(f)
  BY <1>0, <1>1, <1>3, LenProperties
<1>7. u \in Seq(Bit) /\ Len(u) = Len(f) + Len(l) /\ Len(l) \in Nat
  BY <1>1, ConcatProperties, LenProperties
<1>8. /\ DropBits(f, nbits) \in Seq(Bit) /\ Len(DropBits(f, nbits)) = Len(f) - nbits
      /\ TakeBits(f \o l, nbits) = TakeBits(f, nbits)
      /\ DropBits(f \o l, nbits) = DropBits(f, nbits) \o l
  <2>1. f \in Seq(Bit) /\ l \in Seq(Bit) /\ nbits \in 0 .. Len(f)
    BY <1>1, <1>6
  <2>2. /\ TakeBits(f, nbits) \in Seq(Bit) /\ Len(TakeBits(f, nbits)) = nbits
        /\ DropBits(f, nbits) \in Seq(Bit) /\ Len(DropBits(f, nbits)) = Len(f) - nbits
        /\ TakeBits(f, nbits) \o DropBits(f, nbits) = f
        /\ TakeBits(f \o l, nbits) = TakeBits(f, nbits)
        /\ DropBits(f \o l, nbits) = DropBits(f, nbits) \o l
    BY <2>1, InFront
  <2> QED
    BY <2>2
<1> HIDE DEF u
<1>9. /\ TakeBits(u \o wire, nbits) = TakeBits(u, nbits)
      /\ DropBits(u \o wire, nbits) = DropBits(u, nbits) \o wire
  <2>1. nbits \in 0 .. Len(u)
    BY <1>6, <1>7
  <2>2. u \in Seq(Bit) /\ wire \in Seq(Bit)
    BY <1>2, <1>7
  <2>3. /\ TakeBits(u, nbits) \in Seq(Bit) /\ Len(TakeBits(u, nbits)) = nbits
        /\ DropBits(u, nbits) \in Seq(Bit) /\ Len(DropBits(u, nbits)) = Len(u) - nbits
        /\ TakeBits(u, nbits) \o DropBits(u, nbits) = u
        /\ TakeBits(u \o wire, nbits) = TakeBits(u, nbits)
        /\ DropBits(u \o wire, nbits) = DropBits(u, nbits) \o wire
    BY <2>1, <2>2, InFront
  <2> QED
    BY <2>3
<1>10. Bits = u \o wire
  BY <1>1 DEF Bits, u
<1>11. Len(Bits) >= nbits
  <2>1. Len(u \o wire) = Len(u) + Len(wire) /\ Len(wire) \in Nat
    BY <1>2, <1>7, ConcatProperties, LenProperties
  <2> QED
    BY <1>0, <1>6, <1>7, <1>10, <2>1
<1>12. TakeBits(Bits, nbits) = TakeBits(f, nbits)
  BY <1>8, <1>9, <1>10 DEF u
<1>13. DropBits(Bits, nbits) = Bits'
  <2>1. DropBits(Bits, nbits) = (DropBits(f, nbits) \o l) \o wire
    BY <1>8, <1>9, <1>10 DEF u
  <2>2. Bits' = (bitbuf' \o inp') \o wire'
    BY DEF Bits
  <2> QED
    BY <1>3, <2>1, <2>2
<1>14. /\ sent # <<>> /\ MaySend(r, Head(sent))
       /\ ValueOf(TakeBits(Bits, nbits)) = Head(sent)
       /\ Behind(Tail(sent), DropBits(Bits, nbits), Past(r, Head(sent)), Writer)
  <2> HIDE DEF r
  <2>1. Behind(sent, Bits, r, Writer) /\ Len(Bits) >= r.nbits
    BY <1>4, <1>5, <1>11 DEF r
  <2> QED
    BY <1>5, <2>1, ReadNext
<1>15. c = Head(sent)
  BY <1>3, <1>12, <1>14
<1>16. c \in 0 .. MAXMAX
  BY <1>14, <1>15, HeadTailProperties
<1>17. BitsInv'
  <2>1. bitbuf' \in Seq(Bit) /\ inp' \in Seq(Bit) /\ wire' \in Seq(Bit)
    BY <1>1, <1>2, <1>3, <1>8
  <2>2. Len(inp') % ByteBits = 0
    BY <1>1, <1>3
  <2>3. Len(bitbuf') < MAXBITS + ByteBits
    <3>1. Len(bitbuf') = Len(f) - nbits
      BY <1>3, <1>8
    <3> QED
      BY <1>0, <1>1, <1>6, <3>1, CodeFacts
  <2> QED
    BY <2>1, <2>2, <2>3 DEF BitsInv
<1>18. MaySend(r, c) /\ Behind(Tail(sent), Bits', Past(r, c), Writer)
  BY <1>13, <1>14, <1>15
<1> QED
  BY <1>4, <1>14, <1>15, <1>16, <1>17, <1>18

(* A read that fails has used up the input and lost nothing.               *)
LEMMA StarveFacts ==
  ASSUME BitsInv, WidthInv, Starve(nbits)
  PROVE  BitsInv' /\ Bits' = Bits /\ inp' = <<>>
<1> DEFINE f == FilledBy(nbits)
           l == LeftBy(nbits)
<1>0. nbits \in MinBits .. MAXBITS
  BY DEF WidthInv
<1>1. /\ f \in Seq(Bit) /\ l \in Seq(Bit) /\ f \o l = bitbuf \o inp
      /\ Len(l) % ByteBits = 0 /\ Len(f) < MAXBITS + ByteBits
      /\ Len(f) < nbits => l = <<>>
  BY <1>0, FillBits
<1>2. wire \in Seq(Bit) /\ wire' = wire /\ bitbuf' = f /\ inp' = l /\ Len(f) < nbits
  BY DEF BitsInv, Starve, BitsAfterFailure, encVars
<1> HIDE DEF f, l
<1>3. Bits' = Bits
  <2>1. Bits' = (bitbuf' \o inp') \o wire'
    BY DEF Bits
  <2> QED
    BY <1>1, <1>2, <2>1 DEF Bits
<1> QED
  BY <1>1, <1>2, <1>3 DEF BitsInv

(* What of the invariant depends on what only the loop and the encoder     *)
(* change.                                                                 *)
Unmoved == UNCHANGED <<encVars, sent, dictVars, bitVars>>

(* Such a step keeps it when it neither begins nor ends a code.            *)
LEMMA UnmovedKeeps ==
  ASSUME LzdInv, Unmoved, pc # "expand", pc' # "expand", pc' = "literal" => pc = "literal"
  PROVE  /\ EncType' /\ sent' \in Seq(0 .. MAXMAX)
         /\ BitsInv' /\ WidthInv' /\ Synced' /\ DictInv'
<1>1. /\ enc' = enc /\ wire' = wire /\ sent' = sent /\ head' = head /\ tail' = tail /\ nbits' = nbits
      /\ max_code' = max_code /\ free_code' = free_code /\ old_code' = old_code
      /\ have_old' = have_old /\ bitbuf' = bitbuf /\ inp' = inp
  BY DEF Unmoved, encVars, dictVars, bitVars
<1>2. EncType' /\ sent' \in Seq(0 .. MAXMAX) /\ BitsInv' /\ WidthInv' /\ DictInv'
  BY <1>1 DEF LzdInv, EncType, BitsInv, WidthInv, DictInv
<1>3. Synced'
  <2>1. PICK next \in {"literal", "any", "nothing"} :
           Behind(sent, Bits, Reader(next), Writer) /\ (pc = "literal" => next = "literal")
    BY DEF LzdInv, Synced, Unread, ReaderAt
  <2>2. Unread' = sent /\ Bits' = Bits /\ Writer' = Writer /\ ReaderAt(next)' = Reader(next)
    BY <1>1 DEF Unread, Bits, Writer, ReaderAt, Reader
  <2>3. Behind(Unread', Bits', ReaderAt(next)', Writer') /\ (pc' = "literal" => next = "literal")
    BY <2>1, <2>2
  <2> QED
    BY <2>3 DEF Synced
<1> QED
  BY <1>2, <1>3

-----------------------------------------------------------------------------
(* The first state.                                                        *)
LEMMA InitInv == Init => LzdInv
<1> SUFFICES ASSUME Init PROVE LzdInv
  OBVIOUS
<1>0. /\ Literals \in Nat \ {0} /\ MAXMAX \in Nat /\ FIRST_FREE = Literals + 2 /\ FIRST_FREE <= MAXMAX + 1
      /\ MinBits \in Nat \ {0} /\ MAXBITS \in Nat /\ MinBits <= MAXBITS /\ ByteBits \in Nat \ {0}
  BY CodeFacts
<1>1. EncType /\ sent \in Seq(0 .. MAXMAX)
  <2>1. FIRST_FREE \in Int /\ MinBits \in Int
    BY <1>0
  <2> QED
    BY <2>1 DEF Init, NewEncoder, EncType
<1>2. BitsInv
  <2>1. Len(<<>>) = 0 /\ <<>> \in Seq(Bit)
    OBVIOUS
  <2>2. 0 % ByteBits = 0
    <3>1. (ByteBits * 0 + 0) % ByteBits = 0
      BY <1>0, 0 \in 0 .. ByteBits - 1, ModUnique
    <3>2. ByteBits * 0 + 0 = 0
      BY <1>0
    <3> QED
      BY <3>1, <3>2
  <2> QED
    BY <1>0, <2>1, <2>2 DEF Init, BitsInv
<1>3. WidthInv
  BY <1>0 DEF Init, WidthInv
<1>4. CallInv
  BY DEF Init, CallInv
<1>5. DictInv
  <2>1. head \in [0 .. MAXMAX -> -1 .. MAXMAX] /\ \A x \in 0 .. MAXMAX : head[x] = -1
    BY <1>0 DEF Init
  <2>2. Descends(head)
    BY <1>0, <2>1 DEF Descends
  <2>3. Tails(tail)
    <3>1. \A c \in 0 .. MAXMAX : (IF c < Literals THEN c ELSE 0) \in Bytes
      BY <1>0 DEF Bytes
    <3> QED
      BY <3>1 DEF Init, Tails
  <2>4. Live(head, free_code)
    BY <1>0 DEF Init, Live
  <2> QED
    BY <1>0, <2>2, <2>3, <2>4 DEF Init, DictInv
<1>6. ExpandInv
  BY <1>0 DEF Init, ExpandInv
<1>7. ReturnsAreTrue
  BY DEF Init, ReturnsAreTrue, OK, NEED_INPUT, DONE
<1>8. Synced
  <2> DEFINE q == Unread
             s == Bits
             r == Reader("any")
  <2>1. r \in State
    BY <1>0, <1>3 DEF Reader, State, WidthInv
  <2>2. q = <<>> /\ ReaderAt("any") = r /\ pc # "literal"
    BY DEF Init, Unread, ReaderAt
  <2>3. s = <<>>
    BY DEF Init, Bits
  <2>4. Writer = r
    BY DEF Init, NewEncoder, Writer, Reader
  <2> HIDE DEF q, s, r
  <2>5. Behind(q, s, r, r)
    BY <2>1, <2>2, <2>3, NothingSent
  <2>6. Behind(Unread, Bits, ReaderAt("any"), Writer)
    BY <2>2, <2>4, <2>5 DEF q, s
  <2> QED
    BY <2>2, <2>6 DEF Synced
<1> QED
  BY <1>1, <1>2, <1>3, <1>4, <1>5, <1>6, <1>7, <1>8 DEF LzdInv

(* The encoder sends a code.                                               *)
LEMMA SendKeeps ==
  ASSUME LzdInv, NEW c \in 0 .. MAXMAX, Send(c)
  PROVE  LzdInv'
<1>0. /\ ByteBits \in Nat \ {0} /\ Literals \in Nat /\ FIRST_FREE = Literals + 2 /\ CLEAR = Literals
      /\ Z_EOF = Literals + 1 /\ MinBits \in Nat
  BY CodeFacts
<1>1. /\ EncType /\ sent \in Seq(0 .. MAXMAX) /\ BitsInv /\ WidthInv /\ Synced /\ CallInv /\ DictInv
      /\ ExpandInv /\ ReturnsAreTrue
  BY DEF LzdInv
<1>2. /\ pc = "idle" /\ c \in Sendable /\ enc' = AfterSending(c) /\ sent' = Append(sent, c)
      /\ head' = head /\ tail' = tail /\ nbits' = nbits /\ max_code' = max_code
      /\ free_code' = free_code /\ old_code' = old_code /\ have_old' = have_old
      /\ stack' = stack /\ bitbuf' = bitbuf /\ inp' = inp /\ pc' = pc /\ code' = code /\ in_code' = in_code
      /\ outpos' = outpos /\ out_len' = out_len /\ status' = status /\ out' = out
  BY DEF Send, dictVars, bitVars, callVars
<1>3. PICK next \in {"literal", "any", "nothing"} : Behind(sent, Bits, Reader(next), Writer)
  BY <1>1, <1>2 DEF Synced, Unread, ReaderAt
<1> DEFINE w == Writer
           k == enc.nbits
           B == BitsOf(c, k)
           pad == IF c = Z_EOF THEN Padding(wire \o B) ELSE <<>>
<1>4. w \in State /\ Bits \in Seq(Bit)
  <2> HIDE DEF w
  <2>1. Behind(sent, Bits, Reader(next), w)
    BY <1>3 DEF w
  <2> QED
    BY <1>1, <2>1, ReadAll DEF Bit
<1>5. w.free = enc.free /\ w.nbits = k /\ w.prev = enc.prev /\ w.next = enc.next
  BY DEF Writer
<1>6. k \in MinBits .. MAXBITS /\ k \in Nat /\ enc.free \in FIRST_FREE .. MAXMAX + 1
  BY <1>0, <1>4, <1>5, CodeFacts DEF State
<1>7. MaySend(w, c)
  <2> HIDE DEF w, k
  <2>1. 2 ^ k \in Int
    BY <1>6, PowerType
  <2>2. enc.next \in {"literal", "any", "nothing"} /\ enc.prev \in BOOLEAN
    BY <1>1 DEF EncType
  <2>3. CASE enc.next = "literal"
    <3>1. c \in 0 .. Literals - 1
      BY <1>2, <2>3 DEF Sendable
    <3> QED
      BY <1>5, <2>3, <3>1 DEF MaySend
  <2>4. CASE enc.next = "any" /\ enc.sent >= MaxCodes
    <3>1. c = Z_EOF
      BY <1>2, <2>4 DEF Sendable
    <3> QED
      BY <1>5, <2>4, <3>1 DEF MaySend
  <2>5. CASE enc.next = "any" /\ ~(enc.sent >= MaxCodes)
    <3>1. c \in 0 .. Literals - 1 \cup {CLEAR, Z_EOF} \cup
             (IF enc.prev THEN FIRST_FREE .. LesserOf(enc.free, 2 ^ enc.nbits - 1) ELSE {})
      BY <1>2, <2>5 DEF Sendable
    <3>2. CASE c \in 0 .. Literals - 1 \cup {CLEAR, Z_EOF}
      BY <1>5, <2>5, <3>2 DEF MaySend
    <3>3. CASE enc.prev /\ c \in FIRST_FREE .. LesserOf(enc.free, 2 ^ enc.nbits - 1)
      <4>1. c \in FIRST_FREE .. enc.free /\ c < 2 ^ k
        BY <1>0, <1>6, <2>1, <3>3 DEF LesserOf, k
      <4> QED
        BY <1>5, <2>5, <3>3, <4>1 DEF MaySend
    <3> QED
      BY <3>1, <3>2, <3>3
  <2>6. CASE enc.next = "nothing"
    <3>1. Sendable = {}
      BY <2>6 DEF Sendable
    <3> QED
      BY <1>2, <3>1
  <2> QED
    BY <2>2, <2>3, <2>4, <2>5, <2>6
<1>8. EncType' /\ Writer' = Past(w, c)
  <2>1. CASE c = CLEAR
    <3>1. enc' = [NewEncoder(enc.sent + 1) EXCEPT !.next = "literal"]
      BY <1>2, <2>1 DEF AfterSending
    <3>2. enc' = [free |-> FIRST_FREE, nbits |-> MinBits, next |-> "literal", prev |-> FALSE, sent |-> enc.sent + 1]
      BY <3>1 DEF NewEncoder
    <3>3. EncType'
      BY <1>0, <1>1, <3>2 DEF EncType
    <3>4. Writer' = Fresh("literal")
      BY <3>2 DEF Writer, Fresh
    <3> QED
      BY <2>1, <3>3, <3>4 DEF Past
  <2>2. CASE c = Z_EOF
    <3>1. enc' = [enc EXCEPT !.next = "nothing"] /\ c # CLEAR
      BY <1>0, <1>2, <2>2 DEF AfterSending
    <3>2. EncType' /\ enc'.free = enc.free /\ enc'.nbits = enc.nbits /\ enc'.prev = enc.prev /\ enc'.next = "nothing"
      BY <1>1, <3>1 DEF EncType
    <3>3. Writer' = Ended(w)
      BY <3>2 DEF Writer, Ended
    <3> QED
      BY <2>2, <3>1, <3>2, <3>3 DEF Past
  <2>3. CASE c # CLEAR /\ c # Z_EOF
    <3> DEFINE free == IF enc.prev /\ enc.free <= MAXMAX THEN enc.free + 1 ELSE enc.free
               wide == enc.prev /\ enc.free <= MAXMAX /\ free >= 2 ^ enc.nbits /\ enc.nbits < MAXBITS
               wid  == IF wide THEN enc.nbits + 1 ELSE enc.nbits
    <3>1. enc' = [free |-> free, nbits |-> wid, next |-> "any", prev |-> TRUE, sent |-> enc.sent + 1]
      BY <1>2, <2>3 DEF AfterSending
    <3>2. free \in Int /\ wid \in Int /\ enc.sent + 1 \in Int
      BY <1>1 DEF EncType
    <3>3. free = Grown(w).free /\ wid = Grown(w).nbits
      BY <1>5 DEF Grown, Makes
    <3> HIDE DEF free, wid
    <3>4. EncType'
      BY <3>1, <3>2 DEF EncType
    <3>5. Writer' = [free |-> free, nbits |-> wid, prev |-> TRUE, next |-> "any"]
      BY <3>1 DEF Writer
    <3>6. Writer' = Grown(w)
      BY <3>3, <3>5 DEF Grown
    <3> QED
      BY <2>3, <3>4, <3>6 DEF Past
  <2> QED
    BY <2>1, <2>2, <2>3
<1>9. B \in Seq(Bit) /\ wire \in Seq(Bit)
  <2>1. c \in Nat /\ k \in Nat
    BY <1>6, CodeFacts
  <2> HIDE DEF k
  <2>2. B \in Seq(Bit)
    BY <2>1, BitsType DEF Bit
  <2> QED
    BY <1>1, <2>2 DEF BitsInv
<1>10. pad \in Seq(Bit) /\ (pad = <<>> \/ (c = Z_EOF /\ Len(pad) < ByteBits))
  <2>1. CASE c = Z_EOF
    <3> DEFINE s == wire \o B
               m == ByteBits - (Len(s) % ByteBits)
               n == m % ByteBits
    <3>1. Len(s) \in Nat
      BY <1>9, ConcatProperties, LenProperties
    <3>2. Len(s) % ByteBits \in Int
      <4> DEFINE z == Len(s)
      <4>1. z \in Int
        BY <3>1
      <4> HIDE DEF s, z
      <4> QED
        BY <1>0, <4>1, ModRange DEF z
    <3>3. m \in Int
      BY <1>0, <3>2
    <3> HIDE DEF s, m
    <3>4. n \in 0 .. ByteBits - 1
      BY <1>0, <3>3, ModRange
    <3>5. pad = [b \in 1 .. n |-> 0]
      BY <2>1 DEF Padding, s, m
    <3> HIDE DEF n, pad
    <3>6. pad \in Seq(Bit) /\ Len(pad) = n
      BY <1>0, <3>4, <3>5 DEF Bit
    <3> QED
      BY <1>0, <2>1, <3>4, <3>6
  <2>2. CASE c # Z_EOF
    <3>1. pad = <<>>
      BY <2>2
    <3> HIDE DEF pad
    <3>2. pad \in Seq(Bit)
      BY <3>1
    <3> QED
      BY <3>1, <3>2
  <2> QED
    BY <2>1, <2>2
<1> HIDE DEF B, pad
<1>11. wire' = wire \o (B \o pad) /\ B \o pad \in Seq(Bit)
  <2>1. (wire \o B) \o pad = wire \o (B \o pad)
    <3> DEFINE T == Seq(Bit)
    <3>1. wire \in T /\ B \in T /\ pad \in T
      BY <1>9, <1>10
    <3>2. \A x, y, z \in T : (x \o y) \o z = x \o (y \o z)
      BY Regroup DEF Bit
    <3> HIDE DEF T
    <3> QED
      BY <3>1, <3>2, Zenon
  <2>2. CASE c = Z_EOF
    <3>1. wire' = (wire \o B) \o pad
      BY <1>2, <2>2 DEF Send, B, pad, k
    <3> QED
      BY <1>9, <1>10, <2>1, <3>1, ConcatProperties
  <2>3. CASE c # Z_EOF
    <3>1. wire' = wire \o B /\ pad = <<>>
      BY <1>2, <2>3 DEF Send, B, pad, k
    <3>2. B \o <<>> = B
      BY <1>9, ConcatEmptySeq
    <3> QED
      BY <1>9, <3>1, <3>2
  <2> QED
    BY <2>2, <2>3
<1> DEFINE e == B \o pad
<1>12. Bits' = Bits \o e
  <2> DEFINE u == bitbuf \o inp
  <2>1. u \in Seq(Bit) /\ wire \in Seq(Bit) /\ e \in Seq(Bit)
    BY <1>1, <1>11, ConcatProperties DEF BitsInv
  <2>2. Bits = u \o wire
    BY DEF Bits
  <2>3. Bits' = u \o (wire \o e)
    <3>1. Bits' = (bitbuf' \o inp') \o wire'
      BY DEF Bits
    <3> QED
      BY <1>2, <1>11, <3>1
  <2> HIDE DEF u, e
  <2>4. (u \o wire) \o e = u \o (wire \o e)
    <3> DEFINE T == Seq(Bit)
    <3>1. u \in T /\ wire \in T /\ e \in T
      BY <2>1
    <3>2. \A x, y, z \in T : (x \o y) \o z = x \o (y \o z)
      BY Regroup DEF Bit
    <3> HIDE DEF T
    <3> QED
      BY <3>1, <3>2, Zenon
  <2> QED
    BY <2>2, <2>3, <2>4
<1>13. Behind(Append(sent, c), Bits \o (BitsOf(c, w.nbits) \o pad), Reader(next), Past(w, c))
  <2> DEFINE s == Bits
             r == Reader(next)
  <2>1. s \in Seq({0, 1}) /\ pad \in Seq({0, 1}) /\ Behind(sent, s, r, w)
    BY <1>3, <1>4, <1>10 DEF Bit
  <2> HIDE DEF s, r, w
  <2>2. Behind(Append(sent, c), s \o (BitsOf(c, w.nbits) \o pad), r, Past(w, c))
    BY <1>1, <1>7, <1>10, <2>1, SendNext
  <2> QED
    BY <2>2 DEF s, r
<1>14. Synced'
  <2>1. Behind(Append(sent, c), Bits \o e, Reader(next), Past(w, c))
    BY <1>5, <1>13 DEF B
  <2> HIDE DEF e, w
  <2>2. Unread' = Append(sent, c) /\ ReaderAt(next)' = Reader(next) /\ pc' # "literal"
    BY <1>2 DEF Unread, ReaderAt, Reader
  <2>3. Behind(Unread', Bits', ReaderAt(next)', Writer')
    BY <1>8, <1>12, <2>1, <2>2
  <2> QED
    BY <2>2, <2>3 DEF Synced
<1>15. sent' \in Seq(0 .. MAXMAX)
  BY <1>1, <1>2
<1>16. BitsInv' /\ WidthInv' /\ CallInv' /\ DictInv' /\ ExpandInv'
  <2>1. wire' \in Seq(Bit)
    BY <1>9, <1>11, ConcatProperties
  <2>2. BitsInv' /\ WidthInv'
    BY <1>1, <1>2, <2>1 DEF BitsInv, WidthInv
  <2>3. CallInv' /\ DictInv' /\ ExpandInv'
    BY <1>1, <1>2 DEF CallInv, DictInv, ExpandInv
  <2> QED
    BY <2>2, <2>3
<1>17. ReturnsAreTrue'
  <2>1. status # DONE
    <3>1. SUFFICES ASSUME status = DONE PROVE FALSE
      OBVIOUS
    <3>2. enc.next = "nothing"
      BY <1>1, <1>2, <3>1 DEF ReturnsAreTrue
    <3> QED
      BY <1>5, <1>7, <3>2 DEF MaySend
  <2> QED
    BY <1>1, <1>2, <2>1 DEF ReturnsAreTrue
<1> QED
  BY <1>8, <1>14, <1>15, <1>16, <1>17 DEF LzdInv

-----------------------------------------------------------------------------
(* A chunk is fed: the bits in front of the wire become the input.         *)
LEMMA FeedKeeps ==
  ASSUME LzdInv, NEW bytes \in Chunks, Feed(bytes)
  PROVE  LzdInv'
<1> DEFINE w == bytes * ByteBits
<1>1. /\ EncType /\ sent \in Seq(0 .. MAXMAX) /\ BitsInv /\ WidthInv /\ Synced /\ CallInv /\ DictInv
      /\ ExpandInv /\ ReturnsAreTrue
  BY DEF LzdInv
<1>2. /\ pc = "idle" /\ status = NEED_INPUT /\ Len(wire) >= w
      /\ inp' = TakeBits(wire, w) /\ wire' = DropBits(wire, w) /\ status' = OK
      /\ enc' = enc /\ sent' = sent /\ head' = head /\ tail' = tail /\ nbits' = nbits /\ max_code' = max_code
      /\ free_code' = free_code /\ old_code' = old_code /\ have_old' = have_old
      /\ stack' = stack /\ bitbuf' = bitbuf /\ pc' = pc /\ code' = code /\ in_code' = in_code
      /\ outpos' = outpos /\ out_len' = out_len /\ out' = out
  BY DEF Feed, dictVars
<1>3. inp = <<>> /\ outpos = 0
  BY <1>1, <1>2 DEF ReturnsAreTrue
<1>4. w \in 0 .. Len(wire)
  <2>1. bytes \in Nat /\ ByteBits \in Nat /\ Len(wire) \in Nat
    BY <1>1, CodeFacts, LzdAssumption, LenProperties DEF BitsInv
  <2>2. w \in Nat
    BY <2>1
  <2> HIDE DEF w
  <2> QED
    BY <1>2, <2>1, <2>2
<1>5. w % ByteBits = 0
  <2>1. bytes \in Int /\ ByteBits \in Nat \ {0}
    BY CodeFacts, LzdAssumption
  <2>2. (ByteBits * bytes + 0) % ByteBits = 0
    BY <2>1, 0 \in 0 .. ByteBits - 1, ModUnique
  <2>3. ByteBits * bytes + 0 = w
    BY <2>1
  <2> HIDE DEF w
  <2> QED
    BY <2>2, <2>3
<1> HIDE DEF w
<1>6. /\ inp' \in Seq(Bit) /\ Len(inp') = w /\ wire' \in Seq(Bit) /\ inp' \o wire' = wire
  <2>1. wire \in Seq(Bit)
    BY <1>1 DEF BitsInv
  <2> QED
    BY <1>2, <1>4, <2>1, InFront
<1>7. Bits' = Bits
  <2>1. bitbuf \in Seq(Bit) /\ inp' \in Seq(Bit) /\ wire' \in Seq(Bit)
    BY <1>1, <1>6 DEF BitsInv
  <2>2. (bitbuf \o inp') \o wire' = bitbuf \o (inp' \o wire')
    <3> DEFINE T == Seq(Bit)
    <3>1. bitbuf \in T /\ inp' \in T /\ wire' \in T
      BY <2>1
    <3>2. \A x, y, z \in T : (x \o y) \o z = x \o (y \o z)
      BY Regroup DEF Bit
    <3> HIDE DEF T
    <3> QED
      BY <3>1, <3>2, Zenon
  <2>3. bitbuf \o <<>> = bitbuf
    BY <2>1, ConcatEmptySeq
  <2>4. Bits' = (bitbuf' \o inp') \o wire'
    BY DEF Bits
  <2> QED
    BY <1>2, <1>3, <1>6, <2>2, <2>3, <2>4 DEF Bits
<1>8. Synced'
  <2>1. PICK next \in {"literal", "any", "nothing"} : Behind(sent, Bits, Reader(next), Writer)
    BY <1>1, <1>2 DEF Synced, Unread, ReaderAt
  <2>2. Unread' = sent /\ ReaderAt(next)' = Reader(next) /\ Writer' = Writer /\ pc' # "literal"
    BY <1>2 DEF Unread, ReaderAt, Reader, Writer
  <2>3. Behind(Unread', Bits', ReaderAt(next)', Writer')
    BY <1>7, <2>1, <2>2
  <2> QED
    BY <2>2, <2>3 DEF Synced
<1>9. EncType' /\ sent' \in Seq(0 .. MAXMAX) /\ WidthInv' /\ DictInv' /\ ExpandInv'
  BY <1>1, <1>2 DEF EncType, WidthInv, DictInv, ExpandInv
<1>10. BitsInv'
  BY <1>1, <1>2, <1>5, <1>6 DEF BitsInv
<1>11. CallInv'
  BY <1>1, <1>2 DEF CallInv
<1>12. ReturnsAreTrue'
  BY <1>2, <1>3 DEF ReturnsAreTrue, OK, NEED_INPUT, DONE
<1> QED
  BY <1>8, <1>9, <1>10, <1>11, <1>12 DEF LzdInv

(* A call begins.                                                          *)
LEMMA DrainKeeps ==
  ASSUME LzdInv, NEW len \in OutLens, Drain(len)
  PROVE  LzdInv'
<1>1. CallInv /\ ExpandInv /\ out_len' = len /\ len \in Nat /\ outpos' = 0
      /\ pc = "idle" /\ pc' = "loop" /\ stack' = stack /\ code' = code /\ in_code' = in_code
      /\ status' = status /\ out' = out
  BY LzdAssumption DEF LzdInv, Drain
<1>2. Unmoved
  BY DEF Drain, Unmoved
<1>3. EncType' /\ sent' \in Seq(0 .. MAXMAX) /\ BitsInv' /\ WidthInv' /\ Synced' /\ DictInv'
  BY <1>1, <1>2, UnmovedKeeps
<1>4. CallInv' /\ ExpandInv' /\ ReturnsAreTrue'
  BY <1>1 DEF CallInv, ExpandInv, ReturnsAreTrue
<1> QED
  BY <1>3, <1>4 DEF LzdInv

(* The output buffer is full.                                              *)
LEMMA ReturnFullKeeps ==
  ASSUME LzdInv, ReturnFull
  PROVE  LzdInv'
<1>0. /\ MAXMAX \in Nat
  BY CodeFacts
<1>1. CallInv /\ ExpandInv /\ pc = "loop" /\ outpos >= out_len /\ outpos' = outpos /\ out_len' = out_len
      /\ pc' = "idle" /\ status' = OK /\ code' = 0 /\ in_code' = 0 /\ stack' = stack /\ out' = out
  BY DEF LzdInv, ReturnFull, Return
<1>2. Unmoved
  BY DEF ReturnFull, Unmoved
<1>3. EncType' /\ sent' \in Seq(0 .. MAXMAX) /\ BitsInv' /\ WidthInv' /\ Synced' /\ DictInv'
  BY <1>1, <1>2, UnmovedKeeps
<1>4. CallInv' /\ ExpandInv'
  BY <1>0, <1>1 DEF CallInv, ExpandInv
<1>5. ReturnsAreTrue'
  BY <1>1 DEF CallInv, ReturnsAreTrue, OK, NEED_INPUT, DONE
<1> QED
  BY <1>3, <1>4, <1>5 DEF LzdInv

(* A byte of the stack goes out.                                           *)
LEMMA PopKeeps ==
  ASSUME LzdInv, PopStack
  PROVE  LzdInv'
<1>0. MAXMAX \in Nat
  BY CodeFacts
<1>1. CallInv /\ ExpandInv /\ pc = "loop" /\ outpos < out_len /\ outpos' = outpos + 1 /\ out_len' = out_len
      /\ pc' = pc /\ status' = status /\ code' = code /\ in_code' = in_code /\ stack # <<>>
      /\ stack' = Tail(stack) /\ out' = Append(out, Head(stack))
  BY DEF LzdInv, PopStack, Produce
<1>2. Unmoved
  BY DEF PopStack, Unmoved
<1>3. EncType' /\ sent' \in Seq(0 .. MAXMAX) /\ BitsInv' /\ WidthInv' /\ Synced' /\ DictInv'
  BY <1>1, <1>2, UnmovedKeeps
<1>4. /\ Head(stack) \in Bytes /\ Tail(stack) \in Seq(Bytes) /\ Len(Tail(stack)) = Len(stack) - 1
      /\ Len(stack) \in Nat
  BY <1>1, HeadTailProperties, LenProperties DEF CallInv
<1>5. CallInv'
  <2>1. Append(out, Head(stack)) \in Seq(Bytes)
    BY <1>1, <1>4, AppendProperties DEF CallInv
  <2> QED
    BY <1>1, <1>4, <2>1 DEF CallInv
<1>6. ExpandInv'
  BY <1>0, <1>1, <1>4 DEF ExpandInv
<1>7. ReturnsAreTrue'
  BY <1>1 DEF ReturnsAreTrue
<1> QED
  BY <1>3, <1>5, <1>6, <1>7 DEF LzdInv

(* The input is used up.                                                   *)
LEMMA StarveKeeps ==
  ASSUME LzdInv, pc \in {"loop", "literal"}, stack = <<>>, Starve(nbits)
  PROVE  LzdInv'
<1>0. MAXMAX \in Nat
  BY CodeFacts
<1>1. /\ EncType /\ sent \in Seq(0 .. MAXMAX) /\ BitsInv /\ WidthInv /\ Synced /\ CallInv /\ DictInv
      /\ ExpandInv /\ ReturnsAreTrue
  BY DEF LzdInv
<1>2. /\ pc' = "idle" /\ status' = StarvedStatus /\ code' = 0 /\ in_code' = 0
      /\ enc' = enc /\ wire' = wire /\ sent' = sent /\ head' = head /\ tail' = tail /\ nbits' = nbits
      /\ max_code' = max_code /\ free_code' = free_code /\ old_code' = old_code
      /\ have_old' = have_old /\ stack' = stack /\ outpos' = outpos /\ out_len' = out_len /\ out' = out
  BY DEF Starve, Return, encVars, dictVars
<1>3. BitsInv' /\ Bits' = Bits /\ inp' = <<>>
  BY <1>1, StarveFacts
<1>4. Synced'
  <2>1. PICK next \in {"literal", "any", "nothing"} : Behind(sent, Bits, Reader(next), Writer)
    BY <1>1 DEF Synced, Unread, ReaderAt
  <2>2. Unread' = sent /\ ReaderAt(next)' = Reader(next) /\ Writer' = Writer /\ pc' # "literal"
    BY <1>2 DEF Unread, ReaderAt, Reader, Writer
  <2>3. Behind(Unread', Bits', ReaderAt(next)', Writer')
    BY <1>3, <2>1, <2>2
  <2> QED
    BY <2>2, <2>3 DEF Synced
<1>5. EncType' /\ sent' \in Seq(0 .. MAXMAX) /\ WidthInv' /\ DictInv'
  BY <1>1, <1>2 DEF EncType, WidthInv, DictInv
<1>6. status' \in {OK, NEED_INPUT} /\ (status' = NEED_INPUT => outpos = 0)
  BY <1>1, <1>2 DEF StarvedStatus, CallInv, OK, NEED_INPUT
<1>7. CallInv' /\ ExpandInv'
  BY <1>0, <1>1, <1>2, <1>6 DEF CallInv, ExpandInv
<1>8. ReturnsAreTrue'
  BY <1>2, <1>3, <1>6 DEF ReturnsAreTrue, OK, NEED_INPUT, DONE
<1> QED
  BY <1>3, <1>4, <1>5, <1>7, <1>8 DEF LzdInv

-----------------------------------------------------------------------------
(* Every code that is read is one that the encoder sent.                   *)
LEMMA ReadClearKeeps ==
  ASSUME LzdInv, ReadClear
  PROVE  LzdInv' /\ sent # <<>> /\ Head(sent) = CLEAR
<1>0. /\ MAXMAX \in Nat /\ FIRST_FREE \in Nat /\ FIRST_FREE <= MAXMAX + 1 /\ MinBits \in Nat /\ MAXBITS \in Nat
      /\ MinBits <= MAXBITS
  BY CodeFacts
<1>1. /\ EncType /\ sent \in Seq(0 .. MAXMAX) /\ BitsInv /\ WidthInv /\ Synced /\ CallInv /\ DictInv
      /\ ExpandInv /\ ReturnsAreTrue
  BY DEF LzdInv
<1>2. /\ pc = "loop" /\ outpos < out_len /\ stack = <<>> /\ ReadCode(CLEAR, nbits)
      /\ sent' = Tail(sent) /\ nbits' = MinBits /\ max_code' = 2 ^ MinBits /\ free_code' = FIRST_FREE
      /\ have_old' = FALSE /\ pc' = "literal"
      /\ enc' = enc /\ wire' = wire /\ head' = head /\ tail' = tail /\ old_code' = old_code
      /\ stack' = stack /\ code' = code /\ in_code' = in_code
      /\ outpos' = outpos /\ out_len' = out_len /\ status' = status /\ out' = out
  BY DEF ReadClear, AtCode, init_dict, encVars, callVars
<1>3. /\ sent # <<>> /\ CLEAR = Head(sent) /\ BitsInv'
      /\ \E next \in {"literal", "any", "nothing"} :
           Behind(Tail(sent), Bits', Past(Reader(next), CLEAR), Writer)
  BY <1>1, <1>2, ReadFacts
<1>4. Synced'
  <2>1. Behind(Tail(sent), Bits', Fresh("literal"), Writer)
    BY <1>3 DEF Past
  <2>2. ReaderAt("literal")' = Fresh("literal") /\ Unread' = Tail(sent) /\ Writer' = Writer
    BY <1>2 DEF Unread, ReaderAt, Reader, Fresh, Writer
  <2>3. Behind(Unread', Bits', ReaderAt("literal")', Writer')
    BY <2>1, <2>2
  <2> QED
    BY <2>3 DEF Synced
<1>5. EncType' /\ sent' \in Seq(0 .. MAXMAX) /\ WidthInv'
  <2>1. Tail(sent) \in Seq(0 .. MAXMAX)
    BY <1>1, <1>3, HeadTailProperties
  <2>2. EncType' /\ sent' \in Seq(0 .. MAXMAX)
    BY <1>1, <1>2, <2>1 DEF EncType
  <2>3. MinBits \in MinBits .. MAXBITS /\ FIRST_FREE \in FIRST_FREE .. MAXMAX + 1
    BY <1>0
  <2>4. WidthInv'
    BY <1>2, <2>3 DEF WidthInv
  <2> QED
    BY <2>2, <2>4
<1>6. DictInv'
  <2>1. Live(head, FIRST_FREE)
    BY <1>0 DEF Live
  <2> QED
    BY <1>1, <1>2, <2>1 DEF DictInv
<1>7. CallInv' /\ ExpandInv' /\ ReturnsAreTrue'
  BY <1>1, <1>2 DEF CallInv, ExpandInv, ReturnsAreTrue
<1> QED
  BY <1>2, <1>3, <1>4, <1>5, <1>6, <1>7 DEF LzdInv

(* After a CLEAR comes a literal, and it becomes the old code.             *)
LEMMA ReadLiteralKeeps ==
  ASSUME LzdInv, ReadLiteral
  PROVE  /\ LzdInv' /\ sent # <<>> /\ Head(sent) \in Bytes
         /\ old_code' = Head(sent) /\ out' = Append(out, Head(sent)) /\ ~have_old /\ stack = <<>>
<1>0. MAXMAX \in Nat /\ Literals \in Nat \ {0} /\ CLEAR = Literals /\ Z_EOF = Literals + 1
  BY CodeFacts
<1>1. /\ EncType /\ sent \in Seq(0 .. MAXMAX) /\ BitsInv /\ WidthInv /\ Synced /\ CallInv /\ DictInv
      /\ ExpandInv /\ ReturnsAreTrue
  BY DEF LzdInv
<1>2. PICK lit \in 0 .. MAXMAX :
        ReadCode(lit, nbits) /\ old_code' = lit /\ out' = Append(out, lit)
  BY DEF ReadLiteral, Produce
<1>3. /\ pc = "literal" /\ have_old' = TRUE /\ outpos' = outpos + 1 /\ sent' = Tail(sent) /\ pc' = "loop"
      /\ enc' = enc /\ wire' = wire /\ head' = head /\ tail' = tail /\ nbits' = nbits /\ max_code' = max_code
      /\ free_code' = free_code /\ stack' = stack /\ code' = code /\ in_code' = in_code
      /\ out_len' = out_len /\ status' = status
  BY DEF ReadLiteral, Produce, encVars
<1>4. ~have_old /\ stack = <<>> /\ outpos < out_len
  BY <1>1, <1>3 DEF CallInv
<1>5. /\ sent # <<>> /\ lit = Head(sent) /\ BitsInv'
      /\ MaySend(Reader("literal"), lit)
      /\ Behind(Tail(sent), Bits', Past(Reader("literal"), lit), Writer)
  BY <1>1, <1>2, <1>3, ReadFacts
<1>6. lit \in Bytes
  BY <1>5 DEF MaySend, Reader, Bytes
<1>7. Synced'
  <2>1. Past(Reader("literal"), lit) = Reader("any")'
    <3>1. lit # CLEAR /\ lit # Z_EOF
      BY <1>0, <1>6 DEF Bytes
    <3>2. Past(Reader("literal"), lit) = Grown(Reader("literal"))
      BY <3>1 DEF Past
    <3>3. Grown(Reader("literal")) = [free |-> free_code, nbits |-> nbits, prev |-> TRUE, next |-> "any"]
      BY <1>4 DEF Grown, Makes, Reader
    <3>4. Reader("any")' = [free |-> free_code, nbits |-> nbits, prev |-> TRUE, next |-> "any"]
      BY <1>3 DEF Reader
    <3> QED
      BY <3>2, <3>3, <3>4
  <2>2. ReaderAt("any")' = Reader("any")' /\ Unread' = Tail(sent) /\ Writer' = Writer
    BY <1>3 DEF Unread, ReaderAt, Writer
  <2>3. Behind(Unread', Bits', ReaderAt("any")', Writer')
    BY <1>5, <2>1, <2>2
  <2> QED
    BY <1>3, <2>3 DEF Synced
<1>8. EncType' /\ sent' \in Seq(0 .. MAXMAX) /\ WidthInv'
  <2>1. Tail(sent) \in Seq(0 .. MAXMAX)
    BY <1>1, <1>5, HeadTailProperties
  <2> QED
    BY <1>1, <1>3, <2>1 DEF EncType, WidthInv
<1>9. DictInv'
  BY <1>1, <1>2, <1>3, <1>6 DEF DictInv, Known
<1>10. CallInv' /\ ExpandInv' /\ ReturnsAreTrue'
  <2>1. Append(out, lit) \in Seq(Bytes)
    BY <1>1, <1>6, AppendProperties DEF CallInv
  <2> QED
    BY <1>1, <1>2, <1>3, <1>4, <2>1 DEF CallInv, ExpandInv, ReturnsAreTrue
<1> QED
  BY <1>2, <1>4, <1>5, <1>6, <1>7, <1>8, <1>9, <1>10 DEF LzdInv

(* The end comes when all is read, and after it nothing is sent.           *)
LEMMA ReadEofKeeps ==
  ASSUME LzdInv, ReadEof
  PROVE  LzdInv' /\ sent # <<>> /\ Head(sent) = Z_EOF
<1>0. /\ MAXMAX \in Nat /\ CLEAR # Z_EOF
  BY CodeFacts
<1>1. /\ EncType /\ sent \in Seq(0 .. MAXMAX) /\ BitsInv /\ WidthInv /\ Synced /\ CallInv /\ DictInv
      /\ ExpandInv /\ ReturnsAreTrue
  BY DEF LzdInv
<1>2. /\ pc = "loop" /\ outpos < out_len /\ stack = <<>> /\ ReadCode(Z_EOF, nbits)
      /\ sent' = Tail(sent) /\ pc' = "idle" /\ status' = DONE /\ code' = 0 /\ in_code' = 0
      /\ enc' = enc /\ wire' = wire /\ head' = head /\ tail' = tail /\ nbits' = nbits /\ max_code' = max_code
      /\ free_code' = free_code /\ old_code' = old_code /\ have_old' = have_old /\ stack' = stack
      /\ outpos' = outpos /\ out_len' = out_len /\ out' = out
  BY DEF ReadEof, AtCode, Return, encVars, dictVars
<1>3. /\ sent # <<>> /\ Z_EOF = Head(sent) /\ BitsInv'
      /\ \E next \in {"literal", "any", "nothing"} :
           Behind(Tail(sent), Bits', Past(Reader(next), Z_EOF), Writer)
  BY <1>1, <1>2, ReadFacts
<1>4. Tail(sent) \in Seq(0 .. MAXMAX)
  BY <1>1, <1>3, HeadTailProperties
<1>5. Behind(Tail(sent), Bits', Reader("nothing"), Writer)
  BY <1>0, <1>3 DEF Past, Ended, Reader
<1>6. Tail(sent) = <<>> /\ Writer = Reader("nothing")
  <2> DEFINE r == Reader("nothing")
             w == Writer
             b == Bits'
  <2>1. Behind(Tail(sent), b, r, w) /\ r.next = "nothing"
    BY <1>5 DEF Reader
  <2> HIDE DEF r, w, b
  <2>2. Tail(sent) = <<>> /\ w = r
    BY <1>4, <2>1, ReadAll
  <2> QED
    BY <2>2 DEF r, w
<1>7. enc.next = "nothing"
  BY <1>6 DEF Reader, Writer
<1>8. Synced'
  <2>1. ReaderAt("nothing")' = Reader("nothing") /\ Unread' = Tail(sent) /\ Writer' = Writer
    BY <1>2 DEF Unread, ReaderAt, Reader, Writer
  <2>2. Behind(Unread', Bits', ReaderAt("nothing")', Writer')
    BY <1>5, <2>1
  <2> QED
    BY <1>2, <2>2 DEF Synced
<1>9. EncType' /\ sent' \in Seq(0 .. MAXMAX) /\ WidthInv' /\ DictInv'
  BY <1>1, <1>2, <1>4 DEF EncType, WidthInv, DictInv
<1>10. CallInv' /\ ExpandInv'
  BY <1>0, <1>1, <1>2 DEF CallInv, ExpandInv
<1>11. ReturnsAreTrue'
  BY <1>2, <1>6, <1>7 DEF ReturnsAreTrue, OK, NEED_INPUT, DONE
<1> QED
  BY <1>3, <1>8, <1>9, <1>10, <1>11 DEF LzdInv

-----------------------------------------------------------------------------
(* The strings of the codes that may come fit on the stack.                *)
LEMMA Strings ==
  ASSUME WidthInv, DictInv
  PROVE  /\ \A c \in Known(free_code) :
              /\ Text(c) \in Seq(Bytes) /\ Text(c) # <<>> /\ FirstByte(c) = Head(Text(c))
              /\ FirstByte(c) \in Bytes /\ c < free_code /\ StringFor(c) = Text(c)
         /\ \A c : Expandable(c) =>
              /\ StringFor(c) \in Seq(Bytes) /\ StringFor(c) # <<>>
              /\ Len(StringFor(c)) <= MAXMAX + 1
         /\ Expandable(free_code) => Head(StringFor(free_code)) = FirstByte(old_code)
<1>0. /\ MAXMAX \in Nat /\ FIRST_FREE \in Nat
  BY CodeFacts
<1>1. /\ free_code \in FIRST_FREE .. MAXMAX + 1 /\ Descends(head) /\ Tails(tail) /\ Live(head, free_code)
      /\ (have_old => old_code \in Known(free_code))
  BY DEF WidthInv, DictInv
<1>2. \A x \in Known(free_code) :
        /\ TextIn(head, tail, x) \in Seq(Bytes) /\ TextIn(head, tail, x) # <<>>
        /\ Len(TextIn(head, tail, x)) <= x + 1
        /\ FirstIn(head, x) = Head(TextIn(head, tail, x))
  BY <1>1, KnownText
<1>3. \A c \in Known(free_code) : c \in Int /\ c < free_code
  BY <1>1, KnownFacts
<1>4. ASSUME NEW c \in Known(free_code)
      PROVE  /\ Text(c) \in Seq(Bytes) /\ Text(c) # <<>> /\ FirstByte(c) = Head(Text(c))
             /\ FirstByte(c) \in Bytes /\ c < free_code /\ StringFor(c) = Text(c)
             /\ Len(Text(c)) \in Nat /\ Len(Text(c)) <= c + 1
  <2>1. /\ Text(c) \in Seq(Bytes) /\ Text(c) # <<>> /\ FirstByte(c) = Head(Text(c))
        /\ Len(Text(c)) <= c + 1 /\ c < free_code
    BY <1>2, <1>3 DEF Text, FirstByte
  <2>2. Head(Text(c)) \in Bytes /\ Len(Text(c)) \in Nat
    BY <2>1, HeadTailProperties, LenProperties
  <2>3. StringFor(c) = Text(c)
    BY <2>1 DEF StringFor
  <2> QED
    BY <2>1, <2>2, <2>3
<1>5. ASSUME NEW c, Expandable(c)
      PROVE  /\ StringFor(c) \in Seq(Bytes) /\ StringFor(c) # <<>>
             /\ Len(StringFor(c)) <= MAXMAX + 1
             /\ c = free_code => Head(StringFor(c)) = FirstByte(old_code)
  <2>1. CASE c \in Known(free_code)
    <3>1. Len(Text(c)) <= MAXMAX + 1
      BY <1>0, <1>1, <1>3, <1>4, <2>1
    <3>2. c # free_code
      BY <1>0, <1>1, <1>3, <2>1
    <3> QED
      BY <1>4, <2>1, <3>1, <3>2
  <2>2. CASE c = free_code /\ have_old /\ free_code <= MAXMAX
    <3> DEFINE s == Text(old_code)
               e == FirstByte(old_code)
    <3>1. old_code \in Known(free_code) /\ old_code \in Int
      BY <1>1, <1>3, <2>2
    <3>2. s \in Seq(Bytes) /\ s # <<>> /\ e = Head(s) /\ e \in Bytes /\ old_code < free_code
          /\ Len(s) \in Nat /\ Len(s) <= old_code + 1
      BY <1>4, <3>1
    <3>3. StringFor(c) = Append(s, e)
      BY <1>0, <1>1, <2>2 DEF StringFor
    <3> HIDE DEF s, e
    <3>4. /\ Append(s, e) \in Seq(Bytes) /\ Len(Append(s, e)) = Len(s) + 1
          /\ Append(s, e) # <<>> /\ Head(Append(s, e)) = Head(s)
      BY <3>2, Longer
    <3>5. Len(s) + 1 <= MAXMAX + 1
      BY <1>0, <1>1, <2>2, <3>1, <3>2
    <3> QED
      BY <3>2, <3>3, <3>4, <3>5 DEF e
  <2> QED
    BY <1>5, <2>1, <2>2 DEF Expandable
<1> QED
  BY <1>4, <1>5

(* A code that is sent is one that the decoder knows, or is making.        *)
LEMMA ReadStringKeeps ==
  ASSUME LzdInv, ReadString
  PROVE  LzdInv' /\ pc' = "expand"
<1>0. /\ MAXMAX \in Nat /\ Literals \in Nat /\ FIRST_FREE = Literals + 2 /\ CLEAR = Literals
      /\ Z_EOF = Literals + 1
  BY CodeFacts
<1>1. /\ EncType /\ sent \in Seq(0 .. MAXMAX) /\ BitsInv /\ WidthInv /\ Synced /\ CallInv /\ DictInv
      /\ ExpandInv /\ ReturnsAreTrue
  BY DEF LzdInv
<1>2. PICK c \in 0 .. MAXMAX \ {CLEAR, Z_EOF} :
        /\ ReadCode(c, nbits)
        /\ in_code' = c
        /\ IF c < free_code
             THEN code' = c /\ pc' = "expand" /\ stack' = stack /\ status' = status
             ELSE IF have_old
               THEN /\ stack' = <<FirstByte(old_code)>>
                    /\ code' = old_code /\ pc' = "expand"
                    /\ status' = status
               ELSE pc' = "idle" /\ status' = DONE /\ code' = 0 /\ stack' = stack
  BY DEF ReadString
<1>3. /\ pc = "loop" /\ outpos < out_len /\ stack = <<>>
      /\ enc' = enc /\ wire' = wire /\ sent' = sent /\ head' = head /\ tail' = tail /\ nbits' = nbits
      /\ max_code' = max_code /\ free_code' = free_code /\ old_code' = old_code /\ have_old' = have_old
      /\ outpos' = outpos /\ out_len' = out_len /\ out' = out
  BY DEF ReadString, AtCode, encVars, dictVars
<1>4. PICK next \in {"literal", "any", "nothing"} :
        /\ sent # <<>> /\ c = Head(sent) /\ BitsInv'
        /\ MaySend(Reader(next), c)
        /\ Behind(Tail(sent), Bits', Past(Reader(next), c), Writer)
  BY <1>1, <1>2, <1>3, ReadFacts
<1>5. free_code \in FIRST_FREE .. MAXMAX + 1 /\ (have_old => old_code \in Known(free_code))
  BY <1>1 DEF WidthInv, DictInv
<1>6. Expandable(c)
  <2>1. CASE c \in 0 .. Literals - 1
    BY <2>1 DEF Expandable, Known, Bytes
  <2>2. CASE have_old /\ c \in FIRST_FREE .. free_code
    BY <1>0, <1>2, <1>5, <2>2 DEF Expandable, Known
  <2> QED
    BY <1>2, <1>4, <2>1, <2>2 DEF MaySend, Reader
<1>7. c < free_code <=> c \in Known(free_code)
  <2>1. c \in Known(free_code) => c < free_code
    BY <1>5, KnownFacts
  <2>2. c = free_code => ~(c < free_code)
    BY <1>0, <1>5
  <2> QED
    BY <1>6, <2>1, <2>2 DEF Expandable
<1>8. /\ \A x \in Known(free_code) :
           /\ Text(x) \in Seq(Bytes) /\ FirstByte(x) \in Bytes /\ StringFor(x) = Text(x)
  BY <1>1, Strings
<1>9. /\ pc' = "expand" /\ status' = status /\ code' \in Known(free_code) /\ stack' \in Seq(Bytes)
      /\ Len(stack') <= 1
      /\ Text(code') \o stack' = StringFor(c)
  <2>1. CASE c < free_code
    <3>1. pc' = "expand" /\ status' = status /\ code' = c /\ stack' = <<>> /\ c \in Known(free_code)
      BY <1>2, <1>3, <1>7, <2>1
    <3>2. Text(c) \o <<>> = StringFor(c)
      BY <1>8, <3>1, ConcatEmptySeq
    <3> QED
      BY <3>1, <3>2
  <2>2. CASE ~(c < free_code)
    <3> DEFINE e == FirstByte(old_code)
               s == Text(old_code)
    <3>1. c = free_code /\ have_old /\ free_code <= MAXMAX /\ old_code \in Known(free_code)
      BY <1>5, <1>6, <1>7, <2>2 DEF Expandable
    <3>2. pc' = "expand" /\ status' = status /\ code' = old_code /\ stack' = <<e>>
      BY <1>2, <2>2, <3>1
    <3>3. StringFor(c) = Append(s, e)
      BY <2>2 DEF StringFor
    <3>4. s \in Seq(Bytes) /\ e \in Bytes
      BY <1>8, <3>1
    <3>5. Text(code') = s
      BY <3>2
    <3> HIDE DEF e, s
    <3>6. Append(s, e) = s \o <<e>>
      BY <3>4, AppendIsConcat
    <3>7. <<e>> \in Seq(Bytes) /\ Len(<<e>>) = 1
      BY <3>4
    <3> QED
      BY <3>1, <3>2, <3>3, <3>5, <3>6, <3>7
  <2> QED
    BY <2>1, <2>2
<1>10. code' \in 0 .. MAXMAX
  <2>1. Known(free_code) \subseteq 0 .. MAXMAX
    BY <1>5, KnownFacts
  <2> QED
    BY <1>9, <2>1
<1>11. ExpandInv'
  <2>1. Len(stack') <= MAXMAX + 1 /\ in_code' \in 0 .. MAXMAX
    <3>1. Len(stack') \in Nat
      BY <1>9, LenProperties
    <3> QED
      BY <1>0, <1>2, <1>9, <3>1
  <2>2. Text(code)' = Text(code') /\ StringFor(in_code)' = StringFor(c)
    BY <1>2, <1>3 DEF Text, StringFor, FirstByte
  <2>3. Known(free_code)' = Known(free_code) /\ Expandable(c)
    BY <1>3, <1>6
  <2>4. sent' # <<>> /\ Head(sent') = in_code'
    BY <1>2, <1>3, <1>4
  <2> HIDE DEF Text, StringFor
  <2>5. (Text(code) \o stack)' = StringFor(in_code)'
    BY <1>9, <2>2
  <2>6. Expandable(in_code)'
    BY <1>2, <1>3, <1>6 DEF Expandable
  <2> QED
    BY <1>9, <1>10, <2>1, <2>3, <2>4, <2>5, <2>6 DEF ExpandInv
<1>12. Synced'
  <2>1. Past(Reader(next), c) = Grown(Reader(next))
    BY <1>2 DEF Past
  <2>2. ReaderAt(next)' = Grown(Reader(next)) /\ Unread' = Tail(sent) /\ Writer' = Writer
    BY <1>3, <1>9 DEF Unread, ReaderAt, Reader, Writer
  <2>3. Behind(Unread', Bits', ReaderAt(next)', Writer')
    BY <1>4, <2>1, <2>2
  <2> QED
    BY <1>9, <2>3 DEF Synced
<1>13. EncType' /\ sent' \in Seq(0 .. MAXMAX) /\ WidthInv' /\ DictInv'
  BY <1>1, <1>3 DEF EncType, WidthInv, DictInv
<1>14. CallInv' /\ ReturnsAreTrue'
  BY <1>1, <1>3, <1>9 DEF CallInv, ReturnsAreTrue
<1> QED
  BY <1>4, <1>9, <1>11, <1>12, <1>13, <1>14 DEF LzdInv

-----------------------------------------------------------------------------
(* The last byte of what is left of the string goes onto the stack.        *)
LEMMA PushKeeps ==
  ASSUME LzdInv, PushByte
  PROVE  LzdInv'
<1>0. /\ MAXMAX \in Nat /\ Literals \in Nat
  BY CodeFacts
<1>1. /\ EncType /\ sent \in Seq(0 .. MAXMAX) /\ BitsInv /\ WidthInv /\ Synced /\ CallInv /\ DictInv
      /\ ExpandInv /\ ReturnsAreTrue
  BY DEF LzdInv
<1>2. /\ pc = "expand" /\ code >= Literals /\ stack' = <<tail[code]>> \o stack /\ code' = head[code]
      /\ enc' = enc /\ wire' = wire /\ sent' = sent /\ head' = head /\ tail' = tail /\ nbits' = nbits
      /\ max_code' = max_code /\ free_code' = free_code /\ old_code' = old_code /\ have_old' = have_old
      /\ bitbuf' = bitbuf /\ inp' = inp /\ pc' = pc /\ in_code' = in_code
      /\ outpos' = outpos /\ out_len' = out_len /\ status' = status /\ out' = out
  BY DEF PushByte, encVars, dictVars, bitVars, callVars
<1>3. /\ sent # <<>> /\ Head(sent) = in_code /\ code \in Known(free_code) /\ Expandable(in_code)
      /\ Text(code) \o stack = StringFor(in_code)
  BY <1>1, <1>2 DEF ExpandInv
<1>4. /\ free_code \in FIRST_FREE .. MAXMAX + 1 /\ Descends(head) /\ Tails(tail) /\ Live(head, free_code)
      /\ stack \in Seq(Bytes)
  BY <1>1 DEF WidthInv, DictInv, CallInv
<1>5. code \in FIRST_FREE .. free_code - 1 /\ code \in Literals .. MAXMAX
  <2>1. code \in FIRST_FREE .. free_code - 1 /\ code \in 0 .. MAXMAX
    BY <1>2, <1>3, <1>4, KnownFacts
  <2> QED
    BY <1>0, <1>2, <2>1
<1>6. head[code] \in Known(free_code) /\ head[code] \in 0 .. MAXMAX
  <2>1. head[code] \in Known(code)
    BY <1>4, <1>5 DEF Live
  <2> QED
    BY <1>4, <1>5, <2>1, KnownFacts
<1> DEFINE s == Text(head[code])
           e == tail[code]
<1>7. s \in Seq(Bytes)
  BY <1>1, <1>6, Strings
<1>8. e \in Bytes
  <2>1. code \in 0 .. MAXMAX
    BY <1>0, <1>5
  <2> QED
    BY <1>4, <2>1 DEF Tails
<1>9. Text(code) = Append(s, e)
  BY <1>4, <1>5, TextSteps DEF Text
<1>10. stack' = <<e>> \o stack /\ Text(code') = s
  BY <1>2
<1> HIDE DEF s, e
<1>11. <<e>> \in Seq(Bytes) /\ <<e>> \o stack \in Seq(Bytes)
  <2>1. <<e>> \in Seq(Bytes)
    BY <1>8
  <2> QED
    BY <1>4, <2>1, ConcatProperties
<1>12. s \o stack' = StringFor(in_code)
  <2> DEFINE S == Bytes
             d == <<e>>
  <2>1. s \in Seq(S) /\ d \in Seq(S) /\ stack \in Seq(S)
    BY <1>4, <1>7, <1>11
  <2>2. Append(s, e) = s \o d
    BY <1>7, <1>8, AppendIsConcat
  <2> HIDE DEF S, d
  <2>3. (s \o d) \o stack = s \o (d \o stack)
    BY <2>1, ConcatAssociative
  <2> QED
    BY <1>3, <1>9, <1>10, <2>2, <2>3 DEF d
<1>13. stack' \in Seq(Bytes) /\ Len(stack') <= MAXMAX + 1
  <2>1. stack' \in Seq(Bytes)
    BY <1>10, <1>11
  <2>2. Len(s \o stack') = Len(s) + Len(stack') /\ Len(s) \in Nat /\ Len(stack') \in Nat
    BY <1>7, <2>1, ConcatProperties, LenProperties
  <2>3. Len(StringFor(in_code)) <= MAXMAX + 1
    BY <1>1, <1>3, Strings
  <2> QED
    BY <1>0, <1>12, <2>1, <2>2, <2>3
<1>14. ExpandInv'
  <2>1. Text(code)' = Text(code') /\ StringFor(in_code)' = StringFor(in_code)
    BY <1>2 DEF Text, StringFor, FirstByte
  <2>2. Known(free_code)' = Known(free_code) /\ Expandable(in_code)'
    BY <1>2, <1>3 DEF Expandable
  <2> HIDE DEF Text, StringFor
  <2>3. (Text(code) \o stack)' = StringFor(in_code)'
    BY <1>10, <1>12, <2>1
  <2>4. in_code' \in 0 .. MAXMAX
    BY <1>1, <1>2 DEF ExpandInv
  <2> QED
    BY <1>2, <1>3, <1>6, <1>13, <2>2, <2>3, <2>4 DEF ExpandInv
<1>15. Synced'
  <2>1. PICK next \in {"literal", "any", "nothing"} : Behind(Unread, Bits, ReaderAt(next), Writer)
    BY <1>1 DEF Synced
  <2>2. Unread' = Unread /\ ReaderAt(next)' = ReaderAt(next) /\ Writer' = Writer /\ Bits' = Bits
    BY <1>2 DEF Unread, ReaderAt, Reader, Writer, Bits
  <2>3. Behind(Unread', Bits', ReaderAt(next)', Writer')
    BY <2>1, <2>2
  <2> QED
    BY <1>2, <2>3 DEF Synced
<1>16. EncType' /\ sent' \in Seq(0 .. MAXMAX) /\ BitsInv' /\ WidthInv' /\ DictInv'
  BY <1>1, <1>2 DEF EncType, BitsInv, WidthInv, DictInv
<1>17. CallInv' /\ ReturnsAreTrue'
  BY <1>1, <1>2, <1>13 DEF CallInv, ReturnsAreTrue
<1> QED
  BY <1>14, <1>15, <1>16, <1>17 DEF LzdInv

(* The first byte of the string goes onto the stack, the whole string is   *)
(* there, and the dictionary has one entry more while there is room.       *)
LEMMA FinishKeeps ==
  ASSUME LzdInv, FinishCode
  PROVE  /\ LzdInv' /\ sent # <<>> /\ Head(sent) = in_code /\ Expandable(in_code)
         /\ stack' = StringFor(in_code) /\ TextIn(head', tail', in_code) = StringFor(in_code)
         /\ IF have_old /\ free_code <= MAXMAX
              THEN /\ free_code' = free_code + 1
                   /\ TextIn(head', tail', free_code) =
                        Append(Text(old_code), Head(StringFor(in_code)))
                   /\ \A x \in Known(free_code) : TextIn(head', tail', x) = Text(x)
              ELSE free_code' = free_code /\ head' = head /\ tail' = tail
<1>0. /\ MAXMAX \in Nat /\ Literals \in Nat /\ FIRST_FREE = Literals + 2 /\ MinBits \in Nat /\ MAXBITS \in Nat
  BY CodeFacts
<1>1. /\ EncType /\ sent \in Seq(0 .. MAXMAX) /\ BitsInv /\ WidthInv /\ Synced /\ CallInv /\ DictInv
      /\ ExpandInv /\ ReturnsAreTrue
  BY DEF LzdInv
<1> DEFINE makes == have_old /\ free_code <= MAXMAX
<1>2. /\ pc = "expand" /\ code < Literals /\ stack' = <<code>> \o stack
      /\ old_code' = in_code /\ have_old' = TRUE /\ sent' = Tail(sent)
      /\ pc' = "loop" /\ code' = 0 /\ in_code' = 0
      /\ enc' = enc /\ wire' = wire /\ bitbuf' = bitbuf /\ inp' = inp
      /\ outpos' = outpos /\ out_len' = out_len /\ status' = status /\ out' = out
  BY DEF FinishCode, encVars, bitVars, callVars
<1>3. IF makes
        THEN /\ tail' = [tail EXCEPT ![free_code] = code] /\ head' = [head EXCEPT ![free_code] = old_code]
             /\ free_code' = free_code + 1
             /\ IF free_code + 1 >= max_code /\ nbits < MAXBITS
                  THEN nbits' = nbits + 1 /\ max_code' = 2 * max_code
                  ELSE nbits' = nbits /\ max_code' = max_code
        ELSE head' = head /\ tail' = tail /\ free_code' = free_code /\ nbits' = nbits /\ max_code' = max_code
  BY DEF FinishCode, NewEntry, TableHasRoom, Wider
<1>4. /\ sent # <<>> /\ Head(sent) = in_code /\ code \in Known(free_code) /\ Expandable(in_code)
      /\ Text(code) \o stack = StringFor(in_code)
  BY <1>1, <1>2 DEF ExpandInv
<1>5. /\ free_code \in FIRST_FREE .. MAXMAX + 1 /\ Descends(head) /\ Tails(tail) /\ Live(head, free_code)
      /\ stack \in Seq(Bytes) /\ old_code \in 0 .. MAXMAX /\ (have_old => old_code \in Known(free_code))
      /\ have_old \in BOOLEAN
  BY <1>1 DEF WidthInv, DictInv, CallInv
<1>6. code \in Bytes
  BY <1>2, <1>4, <1>5, KnownFacts
<1>7. stack' = StringFor(in_code)
  <2>1. code \in -1 .. Literals - 1
    BY <1>0, <1>6 DEF Bytes
  <2>2. Text(code) = <<code>>
    BY <1>5, <2>1, TextSteps DEF Text
  <2> QED
    BY <1>2, <1>4, <2>2
<1>8. /\ StringFor(in_code) \in Seq(Bytes) /\ StringFor(in_code) # <<>>
      /\ Len(StringFor(in_code)) <= MAXMAX + 1
  BY <1>1, <1>4, Strings
<1>9. Head(StringFor(in_code)) = code
  <2>1. Head(<<code>> \o stack) = code
    <3> DEFINE d == <<code>>
    <3>1. d \in Seq(Bytes) /\ d # <<>> /\ Head(d) = code
      BY <1>6
    <3> HIDE DEF d
    <3>2. Head(d \o stack) = Head(d)
      BY <1>5, <3>1, ConcatProperties, HeadTailProperties, LenProperties, ElementOfSeq
    <3> QED
      BY <3>1, <3>2 DEF d
  <2> QED
    BY <1>2, <1>7, <2>1
<1>10. /\ Descends(head') /\ Tails(tail') /\ Live(head', free_code') /\ free_code' \in FIRST_FREE .. MAXMAX + 1
       /\ in_code \in Known(free_code')
       /\ TextIn(head', tail', in_code) = StringFor(in_code)
       /\ IF makes
            THEN /\ free_code' = free_code + 1
                 /\ TextIn(head', tail', free_code) = Append(Text(old_code), Head(StringFor(in_code)))
                 /\ \A x \in Known(free_code) : TextIn(head', tail', x) = Text(x)
            ELSE free_code' = free_code /\ head' = head /\ tail' = tail
  <2>1. CASE makes
    <3> DEFINE f == free_code
    <3>1. /\ tail' = [tail EXCEPT ![f] = code] /\ head' = [head EXCEPT ![f] = old_code] /\ free_code' = f + 1
      BY <1>3, <2>1
    <3>2. f \in FIRST_FREE .. MAXMAX /\ old_code \in Known(f) /\ old_code \in Int /\ old_code < f
      <4>1. f \in FIRST_FREE .. MAXMAX /\ old_code \in Known(f)
        BY <1>0, <1>5, <2>1
      <4> QED
        BY <1>5, <4>1, KnownFacts
    <3> HIDE DEF f
    <3>3. /\ head' \in [0 .. MAXMAX -> -1 .. MAXMAX] /\ head'[f] = old_code
          /\ \A x \in 0 .. MAXMAX : x # f => head'[x] = head[x]
      BY <1>0, <1>5, <3>1, <3>2 DEF Descends
    <3>4. /\ tail' \in [0 .. MAXMAX -> Bytes] /\ tail'[f] = code
          /\ \A x \in 0 .. MAXMAX : x # f => tail'[x] = tail[x]
      BY <1>0, <1>5, <1>6, <3>1, <3>2 DEF Tails
    <3>5. Descends(head') /\ Tails(tail')
      <4>1. ASSUME NEW x \in Literals .. MAXMAX
            PROVE  head'[x] < x
        <5>1. CASE x = f
          BY <3>2, <3>3, <5>1
        <5>2. CASE x # f
          <6>1. head'[x] = head[x] /\ head[x] < x
            BY <1>0, <1>5, <3>3, <4>1, <5>2 DEF Descends
          <6> QED
            BY <6>1
        <5> QED
          BY <5>1, <5>2
      <4>2. Descends(head')
        BY <3>3, <4>1 DEF Descends
      <4> QED
        BY <3>4, <4>2 DEF Tails
    <3>6. Live(head', f + 1)
      <4> DEFINE g == head'
      <4>1. ASSUME NEW x \in FIRST_FREE .. (f + 1) - 1
            PROVE  g[x] \in Known(x)
        <5>1. CASE x = f
          BY <3>2, <3>3, <5>1
        <5>2. CASE x # f
          <6>1. x \in FIRST_FREE .. f - 1 /\ x \in 0 .. MAXMAX
            BY <1>0, <3>2, <5>2
          <6>2. head[x] \in Known(x)
            BY <1>5, <6>1 DEF Live, f
          <6> QED
            BY <3>3, <5>2, <6>1, <6>2
        <5> QED
          BY <5>1, <5>2
      <4> HIDE DEF g
      <4>2. Live(g, f + 1)
        BY <4>1 DEF Live
      <4> QED
        BY <4>2 DEF g
    <3>7. f + 1 \in FIRST_FREE .. MAXMAX + 1
      BY <1>0, <3>2
    <3>8. \A x \in Known(f) : TextIn(head', tail', x) = Text(x)
      <4>1. \A x \in FIRST_FREE .. f - 1 : head'[x] = head[x] /\ tail'[x] = tail[x]
        BY <1>0, <3>2, <3>3, <3>4
      <4>2. f \in FIRST_FREE .. MAXMAX + 1 /\ Live(head, f)
        BY <1>5 DEF f
      <4>3. \A x \in Known(f) : TextIn(head', tail', x) = TextIn(head, tail, x)
        <5> DEFINE g == head'
                   u == tail'
        <5>1. Descends(g) /\ Tails(u) /\ \A x \in FIRST_FREE .. f - 1 : g[x] = head[x] /\ u[x] = tail[x]
          BY <3>5, <4>1
        <5> HIDE DEF g, u
        <5>2. \A x \in Known(f) : TextIn(g, u, x) = TextIn(head, tail, x)
          BY <1>5, <4>2, <5>1, SameText
        <5> QED
          BY <5>2 DEF g, u
      <4> QED
        BY <4>3 DEF Text
    <3>9. TextIn(head', tail', f) = Append(Text(old_code), code)
      <4>1. f \in Literals .. MAXMAX
        BY <1>0, <3>2
      <4>2. TextIn(head', tail', f) = Append(TextIn(head', tail', head'[f]), tail'[f])
        <5> DEFINE g == head'
                   u == tail'
        <5>1. Descends(g) /\ Tails(u)
          BY <3>5
        <5> HIDE DEF g, u
        <5>2. TextIn(g, u, f) = Append(TextIn(g, u, g[f]), u[f])
          BY <4>1, <5>1, TextSteps
        <5> QED
          BY <5>2 DEF g, u
      <4> QED
        BY <3>2, <3>3, <3>4, <3>8, <4>2
    <3>10. in_code \in Known(f + 1) /\ TextIn(head', tail', in_code) = StringFor(in_code)
      <4>1. CASE in_code \in Known(f)
        <5>1. in_code \in Known(f + 1)
          BY <1>0, <3>2, <4>1 DEF Known
        <5>2. StringFor(in_code) = Text(in_code)
          BY <1>1, <4>1, Strings DEF f
        <5> QED
          BY <3>8, <4>1, <5>1, <5>2
      <4>2. CASE ~(in_code \in Known(f))
        <5>1. in_code = f
          BY <1>4, <4>2 DEF Expandable, f
        <5>2. in_code \in Known(f + 1)
          BY <1>0, <3>2, <5>1 DEF Known
        <5>3. StringFor(f) = Append(Text(old_code), FirstByte(old_code))
          BY <1>0, <3>2 DEF StringFor, f
        <5>4. code = FirstByte(old_code)
          <6>1. Expandable(free_code)
            BY <1>4, <5>1 DEF f
          <6>2. Head(StringFor(free_code)) = FirstByte(old_code)
            BY <1>1, <6>1, Strings
          <6> QED
            BY <1>9, <5>1, <6>2 DEF f
        <5> QED
          BY <3>9, <5>1, <5>2, <5>3, <5>4
      <4> QED
        BY <4>1, <4>2
    <3> QED
      BY <1>9, <2>1, <3>1, <3>5, <3>6, <3>7, <3>8, <3>9, <3>10 DEF f
  <2>2. CASE ~makes
    <3>1. free_code' = free_code /\ head' = head /\ tail' = tail
      BY <1>3, <2>2
    <3>2. in_code \in Known(free_code)
      BY <1>4, <2>2 DEF Expandable
    <3>3. StringFor(in_code) = Text(in_code)
      BY <1>1, <3>2, Strings
    <3> QED
      BY <1>5, <2>2, <3>1, <3>2, <3>3 DEF Text
  <2> QED
    BY <2>1, <2>2
<1>11. DictInv'
  <2>1. in_code \in 0 .. MAXMAX
    BY <1>1 DEF ExpandInv
  <2> QED
    BY <1>2, <1>10, <2>1 DEF DictInv
<1>12. WidthInv'
  <2>1. nbits \in MinBits .. MAXBITS /\ max_code = 2 ^ nbits /\ nbits \in Nat
    BY <1>0, <1>1 DEF WidthInv
  <2>2. nbits' \in MinBits .. MAXBITS /\ max_code' = 2 ^ nbits'
    <3>1. CASE nbits' = nbits + 1 /\ max_code' = 2 * max_code /\ nbits < MAXBITS
      <4>1. max_code' = 2 ^ (nbits + 1)
        BY <2>1, <3>1, PowerStep
      <4>2. nbits + 1 \in MinBits .. MAXBITS
        BY <1>0, <2>1, <3>1
      <4> QED
        BY <3>1, <4>1, <4>2
    <3>2. CASE nbits' = nbits /\ max_code' = max_code
      BY <2>1, <3>2
    <3> QED
      BY <1>3, <3>1, <3>2
  <2> QED
    BY <1>2, <1>10, <2>2 DEF WidthInv
<1>13. Synced'
  <2>1. PICK next \in {"literal", "any", "nothing"} : Behind(Tail(sent), Bits, Grown(Reader(next)), Writer)
    BY <1>1, <1>2 DEF Synced, Unread, ReaderAt
  <2>2. Grown(Reader(next)) = Reader("any")'
    <3>1. max_code = 2 ^ nbits
      BY <1>1 DEF WidthInv
    <3> DEFINE f == IF makes THEN free_code + 1 ELSE free_code
               n == IF makes /\ free_code + 1 >= 2 ^ nbits /\ nbits < MAXBITS THEN nbits + 1 ELSE nbits
    <3>2. Grown(Reader(next)) = [free |-> f, nbits |-> n, prev |-> TRUE, next |-> "any"]
      BY DEF Grown, Makes, Reader
    <3>3. free_code' = f /\ nbits' = n
      BY <1>3, <3>1
    <3>4. Reader("any")' = [free |-> free_code', nbits |-> nbits', prev |-> TRUE, next |-> "any"]
      BY <1>2 DEF Reader
    <3> QED
      BY <3>2, <3>3, <3>4
  <2>3. Unread' = Tail(sent) /\ ReaderAt("any")' = Reader("any")' /\ Writer' = Writer /\ Bits' = Bits
    BY <1>2 DEF Unread, ReaderAt, Writer, Bits
  <2>4. Behind(Unread', Bits', ReaderAt("any")', Writer')
    BY <2>1, <2>2, <2>3
  <2> QED
    BY <1>2, <2>4 DEF Synced
<1>14. EncType' /\ sent' \in Seq(0 .. MAXMAX) /\ BitsInv'
  <2>1. Tail(sent) \in Seq(0 .. MAXMAX)
    BY <1>1, <1>4, HeadTailProperties
  <2> QED
    BY <1>1, <1>2, <2>1 DEF EncType, BitsInv
<1>15. CallInv' /\ ExpandInv' /\ ReturnsAreTrue'
  <2>1. stack' \in Seq(Bytes) /\ Len(stack') <= MAXMAX + 1
    BY <1>7, <1>8
  <2> QED
    BY <1>0, <1>1, <1>2, <2>1 DEF CallInv, ExpandInv, ReturnsAreTrue
<1>16. LzdInv'
  BY <1>11, <1>12, <1>13, <1>14, <1>15 DEF LzdInv
<1> QED
  BY <1>4, <1>7, <1>10, <1>16

-----------------------------------------------------------------------------
(* The invariant is inductive.                                             *)
LEMMA LzdStep == LzdInv /\ [Next]_vars => LzdInv'
<1> SUFFICES ASSUME LzdInv, [Next]_vars PROVE LzdInv'
  OBVIOUS
<1>1. ASSUME NEW c \in 0 .. MAXMAX, Send(c) PROVE LzdInv'
  BY <1>1, SendKeeps
<1>2. CASE CallFeed
  BY <1>2, FeedKeeps DEF CallFeed
<1>3. CASE CallDrain
  BY <1>3, DrainKeeps DEF CallDrain
<1>4. CASE Loop
  <2>1. CASE ReturnFull
    BY <2>1, ReturnFullKeeps
  <2>2. CASE PopStack
    BY <2>2, PopKeeps
  <2>3. CASE StarveAtCode
    BY <2>3, StarveKeeps DEF StarveAtCode, AtCode
  <2>4. CASE ReadClear
    BY <2>4, ReadClearKeeps
  <2>5. CASE StarveAtLiteral
    <3>1. pc = "literal" /\ Starve(nbits) /\ stack = <<>>
      BY <2>5 DEF StarveAtLiteral, LzdInv, CallInv
    <3> QED
      BY <3>1, StarveKeeps
  <2>6. CASE ReadLiteral
    BY <2>6, ReadLiteralKeeps
  <2>7. CASE ReadEof
    BY <2>7, ReadEofKeeps
  <2>8. CASE ReadString
    BY <2>8, ReadStringKeeps
  <2>9. CASE PushByte
    BY <2>9, PushKeeps
  <2>10. CASE FinishCode
    BY <2>10, FinishKeeps
  <2> QED
    BY <1>4, <2>1, <2>2, <2>3, <2>4, <2>5, <2>6, <2>7, <2>8, <2>9, <2>10 DEF Loop
<1>5. CASE UNCHANGED vars
  <2>1. /\ Unmoved /\ stack' = stack /\ pc' = pc /\ code' = code /\ in_code' = in_code
        /\ outpos' = outpos /\ out_len' = out_len /\ status' = status /\ out' = out
    BY <1>5 DEF vars, Unmoved, callVars
  <2>2. /\ enc' = enc /\ wire' = wire /\ sent' = sent /\ head' = head /\ tail' = tail /\ nbits' = nbits
        /\ max_code' = max_code /\ free_code' = free_code /\ old_code' = old_code
        /\ have_old' = have_old /\ bitbuf' = bitbuf /\ inp' = inp
    BY <2>1 DEF Unmoved, encVars, dictVars, bitVars
  <2>3. EncType' /\ sent' \in Seq(0 .. MAXMAX) /\ BitsInv' /\ WidthInv' /\ CallInv' /\ DictInv' /\ ReturnsAreTrue'
    BY <2>1, <2>2 DEF LzdInv, EncType, BitsInv, WidthInv, CallInv, DictInv, ReturnsAreTrue
  <2>4. ExpandInv'
    <3>1. /\ Text(code)' = Text(code) /\ StringFor(in_code)' = StringFor(in_code)
          /\ Known(free_code)' = Known(free_code) /\ (Expandable(in_code)' <=> Expandable(in_code))
      BY <2>1, <2>2 DEF Text, StringFor, FirstByte, Expandable
    <3> HIDE DEF Text, StringFor, Expandable
    <3>2. (Text(code) \o stack)' = Text(code) \o stack
      BY <2>1, <3>1
    <3> QED
      BY <2>1, <2>2, <3>1, <3>2 DEF LzdInv, ExpandInv
  <2>5. Synced'
    <3>1. PICK next \in {"literal", "any", "nothing"} :
            Behind(Unread, Bits, ReaderAt(next), Writer) /\ (pc = "literal" => next = "literal")
      BY DEF LzdInv, Synced
    <3>2. Unread' = Unread /\ ReaderAt(next)' = ReaderAt(next) /\ Writer' = Writer /\ Bits' = Bits
      BY <2>1, <2>2 DEF Unread, ReaderAt, Reader, Writer, Bits
    <3>3. Behind(Unread', Bits', ReaderAt(next)', Writer')
      BY <3>1, <3>2
    <3> QED
      BY <2>1, <3>1, <3>3 DEF Synced
  <2> QED
    BY <2>3, <2>4, <2>5 DEF LzdInv
<1> QED
  BY <1>1, <1>2, <1>3, <1>4, <1>5 DEF Next

(* It holds in every state.                                                *)
LEMMA Invariant == Spec => []LzdInv
  BY InitInv, LzdStep, PTL DEF Spec

-----------------------------------------------------------------------------
(* TypeOK for every width, byte, chunk and buffer size. The decoder's      *)
(* bounds are part of it: no string is longer than the MAXMAX + 1 bytes of *)
(* the stack, free_code does not pass the tables' end, and fill_bits       *)
(* leaves fewer than MAXBITS + ByteBits bits in bitbuf.                    *)
THEOREM TypeCorrect == Spec => []TypeOK
<1>1. LzdInv => TypeOK
  <2> SUFFICES ASSUME LzdInv PROVE TypeOK
    OBVIOUS
  <2>1. /\ head \in [0 .. MAXMAX -> -1 .. MAXMAX] /\ tail \in [0 .. MAXMAX -> 0 .. Literals - 1]
        /\ old_code \in 0 .. MAXMAX
    BY DEF LzdInv, DictInv, Descends, Tails, Bytes
  <2>2. /\ nbits \in MinBits .. MAXBITS /\ max_code = 2 ^ nbits
        /\ free_code \in FIRST_FREE .. MAXMAX + 1 /\ have_old \in BOOLEAN
    BY DEF LzdInv, WidthInv
  <2>3. /\ bitbuf \in Seq({0, 1}) /\ Len(bitbuf) < MAXBITS + ByteBits
        /\ inp \in Seq({0, 1}) /\ Len(inp) % ByteBits = 0
    BY DEF LzdInv, BitsInv, Bit
  <2>4. /\ stack \in Seq(0 .. Literals - 1) /\ out \in Seq(0 .. Literals - 1)
        /\ pc \in {"idle", "loop", "literal", "expand"} /\ outpos \in 0 .. out_len
        /\ status \in {OK, NEED_INPUT, DONE}
    BY DEF LzdInv, CallInv, Bytes
  <2>5. Len(stack) <= MAXMAX + 1 /\ code \in 0 .. MAXMAX /\ in_code \in 0 .. MAXMAX
    BY DEF LzdInv, ExpandInv
  <2> QED
    BY <2>1, <2>2, <2>3, <2>4, <2>5 DEF TypeOK
<1> QED
  BY <1>1, Invariant, PTL

(* ReturnsAreTrue for every cut of the input and the output: no chunk is   *)
(* overwritten before it is used up, and DONE comes only when the encoder  *)
(* has sent its last code and the caller has all of the text.              *)
THEOREM ReturnsCorrect == Spec => []ReturnsAreTrue
<1>1. LzdInv => ReturnsAreTrue
  BY DEF LzdInv
<1> QED
  BY <1>1, Invariant, PTL

-----------------------------------------------------------------------------
(* The abstract state of the decoder's.                                    *)
Entries == [k \in 1 .. free_code - FIRST_FREE |-> Text(FIRST_FREE + k - 1)]
Prev    == IF have_old THEN Text(old_code) ELSE <<>>
Said    == IF pc = "expand" THEN out ELSE out \o stack

(* The abstract actions, of it.                                            *)
LEMMA Mapped ==
  /\ Lzw!absVars = <<sent, Entries, Prev, Said>>
  /\ Lzw!AbsInit <=> (sent = <<>> /\ Entries = <<>> /\ Prev = <<>> /\ Said = <<>>)
  /\ \A c : Lzw!AbsSend(c) <=>
       (sent' = Append(sent, c) /\ Entries' = Entries /\ Prev' = Prev /\ Said' = Said)
  /\ Lzw!AbsClear <=>
       (sent # <<>> /\ Head(sent) = CLEAR /\ sent' = Tail(sent) /\ Entries' = <<>> /\ Prev' = <<>> /\ Said' = Said)
  /\ Lzw!AbsEof <=>
       (sent # <<>> /\ Head(sent) = Z_EOF /\ sent' = Tail(sent) /\ Entries' = Entries /\ Prev' = Prev /\ Said' = Said)
  /\ \A s : (/\ s = Lzw!StringOf(Head(sent)) /\ sent # <<>> /\ Head(sent) \notin {CLEAR, Z_EOF}
             /\ sent' = Tail(sent) /\ Said' = Said \o s /\ Prev' = s
             /\ Entries' = IF Prev # <<>> /\ FIRST_FREE + Len(Entries) <= MAXMAX
                             THEN Append(Entries, Append(Prev, Head(s))) ELSE Entries)
              => Lzw!AbsDecode
  /\ \A c : Lzw!StringOf(c) =
       CASE c < Literals -> <<c>>
         [] FIRST_FREE <= c /\ c < FIRST_FREE + Len(Entries) -> Entries[c - FIRST_FREE + 1]
         [] OTHER -> Append(Prev, Head(Prev))
<1>1. Lzw!absVars = <<sent, Entries, Prev, Said>>
  BY DEF Lzw!absVars, Entries, Prev, Said
<1>2. Lzw!AbsInit <=> (sent = <<>> /\ Entries = <<>> /\ Prev = <<>> /\ Said = <<>>)
  BY DEF Lzw!AbsInit, Entries, Prev, Said
<1>3. \A c : Lzw!AbsSend(c) <=>
        (sent' = Append(sent, c) /\ Entries' = Entries /\ Prev' = Prev /\ Said' = Said)
  BY DEF Lzw!AbsSend, Entries, Prev, Said
<1>4. Lzw!AbsClear <=>
        (sent # <<>> /\ Head(sent) = CLEAR /\ sent' = Tail(sent) /\ Entries' = <<>> /\ Prev' = <<>> /\ Said' = Said)
  BY DEF Lzw!AbsClear, Lzw!Clear, CLEAR, Entries, Prev, Said
<1>5. Lzw!AbsEof <=>
        (sent # <<>> /\ Head(sent) = Z_EOF /\ sent' = Tail(sent) /\ Entries' = Entries /\ Prev' = Prev /\ Said' = Said)
  BY DEF Lzw!AbsEof, Lzw!Eof, Z_EOF, Entries, Prev, Said
<1>6. ASSUME NEW s, s = Lzw!StringOf(Head(sent)), sent # <<>>, Head(sent) \notin {CLEAR, Z_EOF},
             sent' = Tail(sent), Said' = Said \o s, Prev' = s,
             Entries' = IF Prev # <<>> /\ FIRST_FREE + Len(Entries) <= MAXMAX
                          THEN Append(Entries, Append(Prev, Head(s))) ELSE Entries
      PROVE  Lzw!AbsDecode
  BY <1>6 DEF Lzw!AbsDecode, Lzw!NextFree, Lzw!FirstFree, Lzw!Clear, Lzw!Eof, CLEAR, Z_EOF, FIRST_FREE,
     Entries, Prev, Said
<1>7. ASSUME NEW c
      PROVE  Lzw!StringOf(c) =
               CASE c < Literals -> <<c>>
                 [] FIRST_FREE <= c /\ c < FIRST_FREE + Len(Entries) -> Entries[c - FIRST_FREE + 1]
                 [] OTHER -> Append(Prev, Head(Prev))
  BY DEF Lzw!StringOf, Lzw!NextFree, Lzw!FirstFree, FIRST_FREE, Entries, Prev
<1> QED
  BY <1>1, <1>2, <1>3, <1>4, <1>5, <1>6, <1>7

-----------------------------------------------------------------------------
(* The abstract decoder has as many entries as the tables, and none is     *)
(* empty.                                                                  *)
LEMMA EntryFacts ==
  ASSUME LzdInv
  PROVE  /\ Len(Entries) = free_code - FIRST_FREE /\ free_code - FIRST_FREE \in Nat
         /\ FIRST_FREE + Len(Entries) = free_code
         /\ \A x \in FIRST_FREE .. free_code - 1 : Entries[x - FIRST_FREE + 1] = Text(x)
         /\ Prev # <<>> <=> have_old
<1> DEFINE n == free_code - FIRST_FREE
<1>1. n \in Nat /\ FIRST_FREE \in Nat /\ free_code \in Int
  BY CodeFacts DEF LzdInv, WidthInv
<1>2. Entries = [k \in 1 .. n |-> Text(FIRST_FREE + k - 1)]
  BY DEF Entries
<1>3. Len(Entries) = n
  <2> HIDE DEF n
  <2> QED
    BY <1>1, <1>2
<1>4. ASSUME NEW x \in FIRST_FREE .. free_code - 1
      PROVE  Entries[x - FIRST_FREE + 1] = Text(x)
  <2> DEFINE k == x - FIRST_FREE + 1
  <2>1. k \in 1 .. n /\ FIRST_FREE + k - 1 = x
    BY <1>1
  <2> HIDE DEF k, n
  <2>2. Entries[k] = Text(FIRST_FREE + k - 1)
    BY <1>2, <2>1
  <2> QED
    BY <2>1, <2>2 DEF k
<1>5. Prev # <<>> <=> have_old
  <2>1. have_old => Text(old_code) # <<>>
    BY Strings DEF LzdInv, DictInv
  <2> QED
    BY <2>1 DEF Prev
<1> QED
  BY <1>1, <1>3, <1>4, <1>5

(* What the codes stand for is what the tables say.                        *)
LEMMA SameStrings ==
  ASSUME LzdInv, NEW c, Expandable(c)
  PROVE  Lzw!StringOf(c) = StringFor(c)
<1>0. Literals \in Nat /\ FIRST_FREE = Literals + 2
  BY CodeFacts
<1>1. /\ free_code \in FIRST_FREE .. MAXMAX + 1 /\ Descends(head) /\ Tails(tail)
      /\ (have_old => old_code \in Known(free_code))
      /\ WidthInv /\ DictInv
  BY DEF LzdInv, WidthInv, DictInv
<1>2. Lzw!StringOf(c) =
        CASE c < Literals -> <<c>>
          [] FIRST_FREE <= c /\ c < FIRST_FREE + Len(Entries) -> Entries[c - FIRST_FREE + 1]
          [] OTHER -> Append(Prev, Head(Prev))
  BY Mapped
<1>3. FIRST_FREE + Len(Entries) = free_code
  BY EntryFacts
<1>4. \A x \in Known(free_code) : StringFor(x) = Text(x) /\ FirstByte(x) = Head(Text(x))
  BY <1>1, Strings
<1>5. CASE c \in Bytes
  <2>1. c \in -1 .. Literals - 1 /\ c < Literals /\ ~(FIRST_FREE <= c) /\ c \in Known(free_code)
    BY <1>0, <1>5 DEF Bytes, Known
  <2>2. Text(c) = <<c>>
    BY <1>1, <2>1, TextSteps DEF Text
  <2>3. Lzw!StringOf(c) = <<c>>
    BY <1>2, <2>1
  <2>4. StringFor(c) = Text(c)
    BY <1>4, <2>1
  <2> QED
    BY <2>2, <2>3, <2>4
<1>6. CASE c \in FIRST_FREE .. free_code - 1
  <2>1. ~(c < Literals) /\ FIRST_FREE <= c /\ c < free_code /\ c \in Known(free_code)
    BY <1>0, <1>1, <1>6 DEF Known
  <2>2. Entries[c - FIRST_FREE + 1] = Text(c)
    BY <1>6, EntryFacts
  <2>3. Lzw!StringOf(c) = Entries[c - FIRST_FREE + 1]
    BY <1>2, <1>3, <2>1
  <2> QED
    BY <1>4, <2>1, <2>2, <2>3
<1>7. CASE c = free_code /\ have_old /\ free_code <= MAXMAX
  <2>1. ~(c < Literals) /\ ~(c < free_code)
    BY <1>0, <1>1, <1>7
  <2>2. Lzw!StringOf(c) = Append(Prev, Head(Prev))
    BY <1>2, <1>3, <2>1
  <2>3. StringFor(c) = Append(Text(old_code), FirstByte(old_code))
    BY <2>1 DEF StringFor
  <2>4. Prev = Text(old_code) /\ FirstByte(old_code) = Head(Text(old_code))
    BY <1>1, <1>4, <1>7 DEF Prev
  <2> QED
    BY <2>2, <2>3, <2>4
<1> QED
  BY <1>5, <1>6, <1>7 DEF Expandable, Known

(* A literal after a CLEAR is decoded.                                     *)
LEMMA LiteralDecodes ==
  ASSUME LzdInv, ReadLiteral
  PROVE  Lzw!AbsDecode
<1>0. Literals \in Nat /\ CLEAR = Literals /\ Z_EOF = Literals + 1
  BY CodeFacts
<1> DEFINE c == Head(sent)
           s == StringFor(c)
<1>1. /\ sent # <<>> /\ c \in Bytes /\ old_code' = c /\ out' = Append(out, c) /\ ~have_old /\ stack = <<>>
  BY ReadLiteralKeeps
<1>2. /\ pc = "literal" /\ pc' = "loop" /\ have_old' = TRUE /\ sent' = Tail(sent) /\ stack' = stack
      /\ head' = head /\ tail' = tail /\ free_code' = free_code
  BY DEF ReadLiteral
<1>3. c \notin {CLEAR, Z_EOF} /\ Expandable(c)
  BY <1>0, <1>1 DEF Bytes, Expandable, Known
<1>4. s = Lzw!StringOf(c)
  BY <1>3, SameStrings
<1>5. s = <<c>> /\ s = Text(c)
  <2>1. c \in -1 .. Literals - 1 /\ c \in Known(free_code)
    BY <1>0, <1>1 DEF Bytes, Known
  <2>2. Descends(head) /\ Tails(tail) /\ WidthInv /\ DictInv
    BY DEF LzdInv, DictInv
  <2>3. Text(c) = <<c>>
    BY <2>1, <2>2, TextSteps DEF Text
  <2>4. StringFor(c) = Text(c)
    BY <2>1, <2>2, Strings
  <2> QED
    BY <2>3, <2>4
<1>6. Said' = Said \o s
  <2>1. Said = out \o <<>> /\ Said' = Append(out, c) \o <<>>
    BY <1>1, <1>2 DEF Said
  <2>2. out \in Seq(Bytes) /\ Append(out, c) \in Seq(Bytes)
    BY <1>1, AppendProperties DEF LzdInv, CallInv
  <2>3. out \o <<>> = out /\ Append(out, c) \o <<>> = Append(out, c)
    BY <2>2, ConcatEmptySeq
  <2>4. Append(out, c) = out \o <<c>>
    BY <1>1, <2>2, AppendIsConcat
  <2> QED
    BY <1>5, <2>1, <2>3, <2>4
<1>7. Prev' = s
  BY <1>1, <1>2, <1>5 DEF Prev, Text
<1>8. Entries' = Entries
  BY <1>2 DEF Entries, Text
<1>9. ~(Prev # <<>> /\ FIRST_FREE + Len(Entries) <= MAXMAX)
  BY <1>1, EntryFacts
<1>10. Entries' = IF Prev # <<>> /\ FIRST_FREE + Len(Entries) <= MAXMAX
                    THEN Append(Entries, Append(Prev, Head(s))) ELSE Entries
  BY <1>8, <1>9, Zenon
<1> HIDE DEF c, s
<1>11. sent # <<>> /\ sent' = Tail(sent) /\ s = Lzw!StringOf(Head(sent)) /\ Head(sent) \notin {CLEAR, Z_EOF}
  BY <1>1, <1>2, <1>3, <1>4 DEF c
<1>12. (/\ s = Lzw!StringOf(Head(sent)) /\ sent # <<>> /\ Head(sent) \notin {CLEAR, Z_EOF}
        /\ sent' = Tail(sent) /\ Said' = Said \o s /\ Prev' = s
        /\ Entries' = IF Prev # <<>> /\ FIRST_FREE + Len(Entries) <= MAXMAX
                        THEN Append(Entries, Append(Prev, Head(s))) ELSE Entries)
          => Lzw!AbsDecode
  BY Mapped, Zenon
<1> QED
  BY <1>6, <1>7, <1>10, <1>11, <1>12, Zenon

(* A code whose string is on the stack is decoded, and the entry that is   *)
(* made of it is the abstract one.                                         *)
LEMMA FinishDecodes ==
  ASSUME LzdInv, FinishCode
  PROVE  Lzw!AbsDecode
<1>0. MAXMAX \in Nat /\ FIRST_FREE \in Nat
  BY CodeFacts
<1> DEFINE c == in_code
           s == StringFor(c)
<1>1. /\ sent # <<>> /\ Head(sent) = c /\ Expandable(c) /\ stack' = s
      /\ TextIn(head', tail', c) = s
      /\ IF have_old /\ free_code <= MAXMAX
           THEN /\ free_code' = free_code + 1
                /\ TextIn(head', tail', free_code) = Append(Text(old_code), Head(s))
                /\ \A x \in Known(free_code) : TextIn(head', tail', x) = Text(x)
           ELSE free_code' = free_code /\ head' = head /\ tail' = tail
  BY FinishKeeps
<1>2. /\ pc = "expand" /\ pc' = "loop" /\ old_code' = c /\ have_old' = TRUE /\ sent' = Tail(sent)
      /\ out' = out
  BY DEF FinishCode, callVars
<1>3. free_code \in FIRST_FREE .. MAXMAX + 1 /\ WidthInv /\ DictInv
  BY DEF LzdInv, WidthInv
<1>4. c \notin {CLEAR, Z_EOF}
  <2>1. CASE c \in Known(free_code)
    BY <1>3, <2>1, KnownFacts
  <2>2. CASE c = free_code
    BY <1>3, <2>2, CodeFacts
  <2> QED
    BY <1>1, <2>1, <2>2 DEF Expandable
<1>5. s = Lzw!StringOf(c)
  BY <1>1, SameStrings
<1> HIDE DEF s
<1>6. Said' = Said \o s
  BY <1>1, <1>2 DEF Said
<1>7. Prev' = s
  BY <1>1, <1>2 DEF Prev, Text
<1>8. Entries' = IF Prev # <<>> /\ FIRST_FREE + Len(Entries) <= MAXMAX
                   THEN Append(Entries, Append(Prev, Head(s))) ELSE Entries
  <2> DEFINE n == free_code - FIRST_FREE
  <2>1. /\ Len(Entries) = n /\ n \in Nat /\ FIRST_FREE + Len(Entries) = free_code
        /\ (Prev # <<>> <=> have_old)
    BY EntryFacts
  <2>2. Entries = [k \in 1 .. n |-> Text(FIRST_FREE + k - 1)]
    BY DEF Entries
  <2>3. CASE have_old /\ free_code <= MAXMAX
    <3> DEFINE e == Append(Prev, Head(s))
               E == Entries
               F == [k \in 1 .. n + 1 |-> TextIn(head', tail', FIRST_FREE + k - 1)]
    <3>1. Entries' = F
      <4>1. Entries' = [k \in 1 .. free_code' - FIRST_FREE |-> TextIn(head', tail', FIRST_FREE + k - 1)]
        BY DEF Entries, Text
      <4>2. free_code' - FIRST_FREE = n + 1
        BY <1>0, <1>1, <1>3, <2>3
      <4> QED
        BY <4>1, <4>2
    <3> DEFINE S == {Text(FIRST_FREE + k - 1) : k \in 1 .. n} \cup {e}
    <3>2. E \in [1 .. n -> S] /\ Len(E) = n /\ e \in S
      BY <2>1, <2>2
    <3>3. Append(E, e) = [k \in 1 .. n + 1 |-> IF k <= n THEN E[k] ELSE e]
      <4>1. n \in Nat
        BY <2>1
      <4> HIDE DEF e, E, n, S
      <4>2. E \in Seq(S)
        BY <3>2, <4>1
      <4>3. /\ Append(E, e) \in Seq(S) /\ Len(Append(E, e)) = n + 1
            /\ \A i \in 1 .. n + 1 : Append(E, e)[i] = IF i <= n THEN E[i] ELSE e
        BY <3>2, <4>2, AppendProperties
      <4> DEFINE A == Append(E, e)
      <4>4. A \in [1 .. n + 1 -> S] /\ \A i \in 1 .. n + 1 : A[i] = IF i <= n THEN E[i] ELSE e
        BY <4>3, LenProperties
      <4> HIDE DEF A
      <4>5. A = [k \in 1 .. n + 1 |-> IF k <= n THEN E[k] ELSE e]
        BY <4>4
      <4> QED
        BY <4>5 DEF A
    <3>4. ASSUME NEW k \in 1 .. n + 1
          PROVE  TextIn(head', tail', FIRST_FREE + k - 1) = IF k <= n THEN E[k] ELSE e
      <4>1. CASE k <= n
        <5> DEFINE x == FIRST_FREE + k - 1
        <5>1. x \in FIRST_FREE .. free_code - 1 /\ k \in 1 .. n
          BY <1>0, <1>3, <2>1, <4>1
        <5>2. x \in Known(free_code) /\ E[k] = Text(x)
          BY <2>2, <5>1 DEF Known
        <5> HIDE DEF x, n, E
        <5>3. TextIn(head', tail', x) = Text(x)
          BY <1>1, <2>3, <5>2
        <5> QED
          BY <4>1, <5>2, <5>3 DEF x
      <4>2. CASE ~(k <= n)
        <5>1. FIRST_FREE + k - 1 = free_code
          BY <1>0, <1>3, <2>1, <4>2
        <5>2. TextIn(head', tail', free_code) = Append(Text(old_code), Head(s)) /\ Prev = Text(old_code)
          BY <1>1, <2>3 DEF Prev
        <5> QED
          BY <4>2, <5>1, <5>2
      <4> QED
        BY <4>1, <4>2
    <3>5. F = Append(E, e)
      BY <3>3, <3>4
    <3> HIDE DEF e, F
    <3>6. Prev # <<>> /\ FIRST_FREE + Len(Entries) <= MAXMAX
      BY <2>1, <2>3
    <3> QED
      BY <3>1, <3>5, <3>6 DEF e
  <2>4. CASE ~(have_old /\ free_code <= MAXMAX)
    <3>1. free_code' = free_code /\ head' = head /\ tail' = tail
      BY <1>1, <2>4
    <3>2. Entries' = Entries
      BY <3>1 DEF Entries, Text
    <3>3. ~(Prev # <<>> /\ FIRST_FREE + Len(Entries) <= MAXMAX)
      BY <2>1, <2>4
    <3> QED
      BY <3>2, <3>3, Zenon
  <2> QED
    BY <2>3, <2>4
<1>9. s = Lzw!StringOf(Head(sent)) /\ Head(sent) \notin {CLEAR, Z_EOF}
  BY <1>1, <1>4, <1>5
<1> QED
  BY <1>1, <1>2, <1>6, <1>7, <1>8, <1>9, Mapped, Zenon

(* Steps that the abstract decoder does not see.                           *)
LEMMA Unseen ==
  ASSUME sent' = sent, UNCHANGED dictVars, Said' = Said
  PROVE  UNCHANGED Lzw!absVars
<1>1. head' = head /\ tail' = tail /\ free_code' = free_code /\ old_code' = old_code /\ have_old' = have_old
  BY DEF dictVars
<1>2. Entries' = Entries /\ Prev' = Prev
  BY <1>1 DEF Entries, Prev, Text
<1>3. Lzw!absVars = <<sent, Entries, Prev, Said>> /\ Lzw!absVars' = <<sent', Entries', Prev', Said'>>
  BY DEF Lzw!absVars, Entries, Prev, Said
<1> QED
  BY <1>2, <1>3

(* ImplementsLzw for the same: each step is one of the abstract decoder's, *)
(* or none of its business. The text is that of the codes that were sent,  *)
(* KwKwK included, and the tables hold the strings they should.            *)
THEOREM LzwCorrect == Spec => ImplementsLzw
<1>1. Init => Lzw!AbsInit
  <2> SUFFICES ASSUME Init PROVE Lzw!AbsInit
    OBVIOUS
  <2>1. sent = <<>> /\ free_code = FIRST_FREE /\ have_old = FALSE /\ pc = "idle" /\ out = <<>> /\ stack = <<>>
    BY DEF Init
  <2>2. Prev = <<>> /\ Said = <<>>
    BY <2>1 DEF Prev, Said
  <2>3. Entries = <<>>
    <3>1. FIRST_FREE \in Int
      BY CodeFacts
    <3>2. free_code - FIRST_FREE = 0
      BY <2>1, <3>1
    <3> QED
      BY <3>2 DEF Entries
  <2> QED
    BY <2>1, <2>2, <2>3, Mapped
<1>2. LzdInv /\ [Next]_vars => [Lzw!AbsNext]_(Lzw!absVars)
  <2> SUFFICES ASSUME LzdInv, [Next]_vars PROVE Lzw!AbsNext \/ UNCHANGED Lzw!absVars
    OBVIOUS
  <2>0. out \in Seq(Bytes) /\ stack \in Seq(Bytes)
    BY DEF LzdInv, CallInv
  <2>1. ASSUME NEW c \in 0 .. MAXMAX, Send(c) PROVE Lzw!AbsNext
    <3>1. sent' = Append(sent, c) /\ UNCHANGED dictVars /\ Said' = Said
      BY <2>1 DEF Send, Said
    <3>2. Entries' = Entries /\ Prev' = Prev
      BY <3>1 DEF dictVars, Entries, Prev, Text
    <3>3. Lzw!AbsSend(c)
      BY <3>1, <3>2, Mapped
    <3> QED
      BY <3>3 DEF Lzw!AbsNext
  <2>2. CASE CallFeed
    BY <2>2, Unseen DEF CallFeed, Feed, Said
  <2>3. CASE CallDrain
    BY <2>3, Unseen DEF CallDrain, Drain, Said
  <2>4. CASE ReturnFull
    BY <2>4, Unseen DEF ReturnFull, Return, Said
  <2>5. CASE PopStack
    <3>1. /\ stack # <<>> /\ stack' = Tail(stack) /\ out' = Append(out, Head(stack)) /\ pc = "loop" /\ pc' = pc
          /\ sent' = sent /\ UNCHANGED dictVars
      BY <2>5 DEF PopStack, Produce
    <3> DEFINE d == <<Head(stack)>>
               t == Tail(stack)
    <3>2. Head(stack) \in Bytes /\ t \in Seq(Bytes) /\ d \in Seq(Bytes)
      BY <2>0, <3>1, HeadTailProperties
    <3>3. out' = out \o d
      BY <2>0, <3>1, <3>2, AppendIsConcat
    <3>4. stack = d \o t
      BY <2>0, <3>1
    <3> HIDE DEF d, t
    <3>5. (out \o d) \o t = out \o (d \o t)
      <4> DEFINE S == Bytes
      <4>1. out \in Seq(S) /\ d \in Seq(S) /\ t \in Seq(S)
        BY <2>0, <3>2
      <4> HIDE DEF S
      <4> QED
        BY <4>1, ConcatAssociative
    <3>6. Said' = Said
      BY <3>1, <3>3, <3>4, <3>5 DEF Said, t
    <3> QED
      BY <3>1, <3>6, Unseen
  <2>6. CASE StarveAtCode \/ StarveAtLiteral
    <3>1. sent' = sent /\ UNCHANGED dictVars /\ stack' = stack /\ out' = out
          /\ pc \in {"loop", "literal"} /\ pc' = "idle"
      BY <2>6 DEF StarveAtCode, StarveAtLiteral, AtCode, Starve, Return
    <3>2. Said' = Said
      BY <3>1 DEF Said
    <3> QED
      BY <3>1, <3>2, Unseen
  <2>7. CASE ReadClear
    <3>1. sent # <<>> /\ Head(sent) = CLEAR
      BY <2>7, ReadClearKeeps
    <3>2. /\ sent' = Tail(sent) /\ pc = "loop" /\ pc' = "literal" /\ out' = out /\ stack' = stack
          /\ have_old' = FALSE /\ free_code' = FIRST_FREE
      BY <2>7 DEF ReadClear, AtCode, init_dict
    <3>3. Said' = Said /\ Prev' = <<>>
      BY <3>2 DEF Said, Prev
    <3>4. Entries' = <<>>
      <4>1. Entries' = [k \in 1 .. free_code' - FIRST_FREE |-> TextIn(head', tail', FIRST_FREE + k - 1)]
        BY DEF Entries, Text
      <4>2. FIRST_FREE \in Int
        BY CodeFacts
      <4>3. free_code' - FIRST_FREE = 0
        BY <3>2, <4>2
      <4> QED
        BY <4>1, <4>3
    <3>5. Lzw!AbsClear
      BY <3>1, <3>2, <3>3, <3>4, Mapped
    <3> QED
      BY <3>5 DEF Lzw!AbsNext
  <2>8. CASE ReadLiteral
    BY <2>8, LiteralDecodes DEF Lzw!AbsNext
  <2>9. CASE ReadEof
    <3>1. sent # <<>> /\ Head(sent) = Z_EOF
      BY <2>9, ReadEofKeeps
    <3>2. sent' = Tail(sent) /\ pc = "loop" /\ pc' = "idle" /\ out' = out /\ stack' = stack /\ UNCHANGED dictVars
      BY <2>9 DEF ReadEof, AtCode, Return
    <3>3. Said' = Said /\ Entries' = Entries /\ Prev' = Prev
      BY <3>2 DEF Said, Entries, Prev, Text, dictVars
    <3>4. Lzw!AbsEof
      BY <3>1, <3>2, <3>3, Mapped
    <3> QED
      BY <3>4 DEF Lzw!AbsNext
  <2>10. CASE ReadString
    <3>1. pc = "loop" /\ pc' = "expand" /\ stack = <<>> /\ out' = out /\ sent' = sent /\ UNCHANGED dictVars
      BY <2>10, ReadStringKeeps DEF ReadString, AtCode
    <3>2. out \o <<>> = out
      BY <2>0, ConcatEmptySeq
    <3>3. Said' = Said
      BY <3>1, <3>2 DEF Said
    <3> QED
      BY <3>1, <3>3, Unseen
  <2>11. CASE PushByte
    <3>1. pc = "expand" /\ pc' = pc /\ out' = out /\ sent' = sent /\ UNCHANGED dictVars
      BY <2>11 DEF PushByte, callVars
    <3>2. Said' = Said
      BY <3>1 DEF Said
    <3> QED
      BY <3>1, <3>2, Unseen
  <2>12. CASE FinishCode
    BY <2>12, FinishDecodes DEF Lzw!AbsNext
  <2>13. CASE UNCHANGED vars
    <3>1. pc' = pc /\ out' = out /\ stack' = stack /\ sent' = sent /\ UNCHANGED dictVars
      BY <2>13 DEF vars
    <3>2. Said' = Said
      BY <3>1 DEF Said
    <3> QED
      BY <3>1, <3>2, Unseen
  <2> QED
    BY <2>1, <2>2, <2>3, <2>4, <2>5, <2>6, <2>7, <2>8, <2>9, <2>10, <2>11, <2>12, <2>13 DEF Next, Loop
<1> QED
  BY <1>1, <1>2, Invariant, PTL DEF Spec, ImplementsLzw, Lzw!AbsSpec
=============================================================================
