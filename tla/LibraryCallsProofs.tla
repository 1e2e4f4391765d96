------------------------- MODULE LibraryCallsProofs -------------------------
(***************************************************************************)
(* The theorems on Library Calls: what a call returns is what became of    *)
(* its stream, for every text, stream, destination, and every way another  *)
(* library can cut its answers; and the callbacks deliver what they have,  *)
(* in order, whatever they are asked for.                                  *)
(*                                                                         *)
(* A call is done in a handful of steps; each loop has an invariant of its *)
(* own (LzipInv, FlacInv), which says how far what was written is what     *)
(* could be decoded.  A reader's is that it has delivered the beginning of *)
(* its text, a builder's that the entries behind it are built.             *)
(***************************************************************************)
EXTENDS LibraryCalls, LhaLzss, NatLemmas

CallType ==
  [entry : AtOnce \cup Turned, stream : Streams, cap : 1 .. MaxCap, memory : BOOLEAN, wide : BOOLEAN,
   pc : {"new", "turns", "drains", "again", "returns", "done"}, ret : {NoError, Failure, Unset}, size : Int,
   in : Int, max : Int, out : Int, taken : Nat, read : Nat, fatal : BOOLEAN, error : BOOLEAN]

(* What a call has done when it is done, and written by then.              *)
DoneInv == Delivered /\ FailuresAreTold /\ WritesFit

(* Only lzip_decode has states between.                                    *)
FreshInv == call.entry # "lzip" => call.pc \in {"new", "done"}

(* lzip_decode, until it returns: as long as lzlib met no damage its       *)
(* counters are true, nothing is read of an undamaged stream that is not   *)
(* in it, and the loops are left when nothing is missing.                  *)
LzipInv ==
  call.entry = "lzip" /\ call.pc # "done" =>
    /\ call.out <= call.read
    /\ ~call.fatal => call.in = call.taken /\ call.out = call.read
    /\ Whole(call.stream) => ~call.fatal /\ call.read <= Decoded(call.stream, call.taken)
    /\ call.taken <= call.stream.units
    /\ call.pc # "new" => call.memory
    /\ call.pc \in {"drains", "again"} => call.fatal \/ call.in >= call.stream.units
    /\ call.pc = "returns" =>
         \/ call.fatal \/ call.out >= call.cap \/ ~call.wide
         \/ call.in >= call.stream.units /\ Available(call) <= 0

(* FLAC's loops: blocks of a stream without damage become samples, until   *)
(* the destination is full.                                                *)
FlacInv ==
  call.entry \in {"flac", "frames"} /\ call.pc = "new" =>
    /\ call.stream.text % 2 = 0
    /\ call.read <= Samples(call.stream)
    /\ call.out % 2 = 0 /\ call.out <= call.cap + (call.cap % 2) /\ call.out <= 2 * call.read
    /\ Whole(call.stream) =>
         /\ ~call.error
         /\ call.out = 2 * call.read \/ (call.cap <= call.out /\ call.out < 2 * call.read)

CallInv == call \in CallType /\ DoneInv /\ FreshInv /\ LzipInv /\ FlacInv

(* A reader has delivered the beginning of its text, up to where it is,    *)
(* but for the byte it was given back; the source comes after all of the   *)
(* header.                                                                 *)
ReaderType ==
  [kind : {"none", "flac", "plain", "wavpack"}, hdr : 0 .. Len(Header), pos : 0 .. Len(Source),
   pushed : Seq(Int), reads : Nat, got : Seq(Int), ended : BOOLEAN]
TextOf(r) == HeaderOf(r) \o Source
ReaderInv ==
  /\ reader \in ReaderType
  /\ reader.hdr <= Len(HeaderOf(reader)) /\ (reader.pos > 0 => reader.hdr = Len(HeaderOf(reader)))
  /\ reader.got = SubSeq(TextOf(reader), 1, reader.hdr + reader.pos - Len(reader.pushed))
  /\ reader.pushed = <<>> \/ (reader.kind = "wavpack" /\ reader.pos > 0 /\ reader.pushed = <<Source[reader.pos]>>)
  /\ reader.ended /\ reader.kind # "wavpack" => reader.hdr = Len(HeaderOf(reader)) /\ reader.pos = Len(Source)

(* Whoever builds the tables has built what is behind it, and the flag is  *)
(* set behind the last entry.                                              *)
ThreadsType ==
  [pc : [Threads -> {"call", "builds", "uses"}], at : [Threads -> 1 .. TableEntries + 1],
   ready : BOOLEAN, table : [1 .. TableEntries -> BOOLEAN]]
ThreadsInv ==
  /\ threads \in ThreadsType
  /\ \A t \in Threads, e \in 1 .. TableEntries : e < threads.at[t] => threads.table[e]
  /\ threads.ready => \A e \in 1 .. TableEntries : threads.table[e]
  /\ TablesAreBuilt

LibraryInv == CallInv /\ ReaderInv /\ ThreadsInv

LEMMA BoundFacts == MaxText \in Nat /\ MaxCap \in Nat /\ MaxCap >= 1 /\ Block \in Nat /\ Block >= 1
BY LibraryCallsAssumption

(* A stream is text, units of which some are there and some are good, and  *)
(* a whole one is all there.                                               *)
LEMMA StreamFacts ==
  ASSUME NEW s \in Streams
  PROVE  /\ s.text \in Nat /\ s.units \in Nat /\ s.good \in Nat
         /\ s.good <= s.units /\ s.units <= s.text + 2
BY BoundFacts DEF Streams

LEMMA WholeFacts ==
  ASSUME NEW s \in Streams, Whole(s)
  PROVE  s.good = s.text + 2 /\ s.units = s.text + 2 /\ Decoded(s, s.units) = s.text
<1>1. s.good = s.text + 2 /\ s.units = s.text + 2 /\ s.text \in Nat
  BY StreamFacts DEF Whole
<1> QED
  BY <1>1 DEF Decoded, Least

(* The more was taken the more can be decoded, up to the text.             *)
LEMMA DecodedFacts ==
  ASSUME NEW s \in Streams, NEW taken \in Nat
  PROVE  Decoded(s, taken) \in Nat /\ Decoded(s, taken) <= s.text
<1> DEFINE g == s.good
<1> DEFINE t == s.text
<1>1. g \in Nat /\ t \in Nat
  BY StreamFacts
<1> HIDE DEF g, t
<1> QED
  BY <1>1 DEF Decoded, Least, g, t

LEMMA DecodedGrows ==
  ASSUME NEW s \in Streams, NEW taken \in Nat, NEW n \in Nat
  PROVE  Decoded(s, taken) <= Decoded(s, taken + n)
<1> DEFINE g == s.good
<1> DEFINE t == s.text
<1>1. g \in Nat /\ t \in Nat
  BY StreamFacts
<1> HIDE DEF g, t
<1> QED
  BY <1>1 DEF Decoded, Least, g, t

(* The fields of a call.                                                   *)
LEMMA CallFields ==
  ASSUME call \in CallType
  PROVE  /\ call.entry \in AtOnce \cup Turned /\ call.stream \in Streams /\ call.cap \in Nat /\ call.cap >= 1
         /\ call.pc \in {"new", "turns", "drains", "again", "returns", "done"} /\ call.size \in Int
         /\ call.memory \in BOOLEAN /\ call.wide \in BOOLEAN
         /\ call.in \in Int /\ call.max \in Int /\ call.out \in Int /\ call.taken \in Nat /\ call.read \in Nat
         /\ call.fatal \in BOOLEAN /\ call.error \in BOOLEAN
BY BoundFacts DEF CallType

(* A new call has done nothing.                                            *)
LEMMA NewCallStarts ==
  ASSUME NEW e \in AtOnce \cup Turned, NEW s \in Streams, NEW cap \in 1 .. MaxCap,
         NEW memory \in BOOLEAN, NEW wide \in BOOLEAN,
         call = NewCall(e, s, cap, memory, wide), e \in {"flac", "frames"} => s.text % 2 = 0
  PROVE  CallInv
<1>1. /\ call.entry = e /\ call.stream = s /\ call.cap = cap /\ call.pc = "new"
      /\ call.in = 0 /\ call.out = 0 /\ call.taken = 0 /\ call.read = 0
      /\ call.fatal = FALSE /\ call.error = FALSE
  BY DEF NewCall
<1>2. call \in CallType
  BY DEF NewCall, CallType
<1>3. DoneInv /\ FreshInv
  <2>1. 0 <= cap
    BY BoundFacts
  <2> QED
    BY <1>1, <2>1 DEF DoneInv, Delivered, FailuresAreTold, WritesFit, FreshInv
<1>4. LzipInv
  <2>1. Decoded(s, 0) \in Nat
    BY DecodedFacts, 0 \in Nat, Zenon
  <2>2. s.units \in Nat
    BY StreamFacts
  <2> QED
    BY <1>1, <2>1, <2>2 DEF LzipInv
<1>5. FlacInv
  <2>1. s.text \in Nat /\ cap \in Nat
    BY BoundFacts, StreamFacts
  <2> QED
    BY <1>1, <2>1 DEF FlacInv, Samples
<1> QED
  BY <1>2, <1>3, <1>4, <1>5 DEF CallInv

(* What a stream can be decoded to.                                        *)
LEMMA StreamDecodes ==
  ASSUME NEW s \in Streams
  PROVE  /\ s.text \in Nat /\ s.units \in Nat
         /\ Decoded(s, s.units) \in Nat /\ Decoded(s, s.units) <= s.text
         /\ Whole(s) => Decoded(s, s.units) = s.text
<1>1. s.text \in Nat /\ s.units \in Nat
  BY StreamFacts
<1>2. Decoded(s, s.units) \in Nat /\ Decoded(s, s.units) <= s.text
  BY <1>1, DecodedFacts
<1>3. Whole(s) => Decoded(s, s.units) = s.text
  BY WholeFacts
<1> QED
  BY <1>1, <1>2, <1>3

(* An answer that something is missing says no more than that.             *)
LEMMA PartialFacts ==
  ASSUME NEW s \in Streams, NEW cap \in Nat, NEW answer \in Partial(s, cap)
  PROVE  answer.ok = FALSE /\ answer.written \in Int
<1> DEFINE d == Decoded(s, s.units)
<1>1. d \in Nat
  BY StreamDecodes
<1> HIDE DEF d
<1>2. \A n \in 0 .. Least(d, cap) : n \in Int
  BY <1>1 DEF Least
<1>3. PICK n \in 0 .. Least(d, cap) : answer = Told(FALSE, n)
  BY DEF Partial, d
<1> QED
  BY <1>2, <1>3 DEF Told

(* What an answer is worth: if the library says it succeeded, so much was  *)
(* written; and it does say so of an undamaged stream.                     *)
GoodAnswer(e, whole, text, cap, ok, written) ==
  /\ ok \in BOOLEAN /\ written \in Int
  /\ (ok /\ (e = "lzo1" => text <= cap)) => written <= cap
  /\ (e \in {"keeps", "lzo"} /\ ok) => (whole /\ written = text)
  /\ (whole /\ text > 0) =>
       IF e \in Asking THEN text >= cap => ok /\ written = cap
       ELSE text <= cap => ok /\ written = text

LEMMA AnswersAreGood ==
  ASSUME NEW e \in AtOnce, NEW s \in Streams, NEW cap \in Nat, NEW answer \in Answers(e, s, cap)
  PROVE  GoodAnswer(e, Whole(s), s.text, cap, answer.ok, answer.written)
<1> DEFINE d == Decoded(s, s.units)
<1> DEFINE t == s.text
<1> DEFINE whole == Whole(s)
<1> DEFINE good == GoodAnswer(e, whole, t, cap, answer.ok, answer.written)
<1>1. t \in Nat /\ d \in Nat /\ d <= t /\ (whole => d = t) /\ whole \in BOOLEAN /\ t \in Int /\ cap \in Int
  BY StreamDecodes DEF Whole
<1>2. ASSUME NEW ok \in BOOLEAN, NEW n \in Int, answer = Told(ok, n),
             GoodAnswer(e, whole, t, cap, ok, n)
      PROVE  good
  <2>1. answer.ok = ok /\ answer.written = n
    BY <1>2 DEF Told
  <2> QED
    BY <1>2, <2>1
<1>13. ASSUME NEW n \in Int, answer = Told(TRUE, n), GoodAnswer(e, whole, t, cap, TRUE, n) PROVE good
  <2>1. answer.ok = TRUE /\ answer.written = n
    BY <1>13 DEF Told
  <2> QED
    BY <1>13, <2>1
<1>14. ASSUME answer = Told(FALSE, 0), GoodAnswer(e, whole, t, cap, FALSE, 0) PROVE good
  <2>1. answer.ok = FALSE /\ answer.written = 0
    BY <1>14 DEF Told
  <2> QED
    BY <1>14, <2>1
<1>3. ASSUME answer.ok = FALSE, answer.written \in Int, e \in AtOnce,
             ~(whole /\ e \in {"keeps", "lzo"} /\ t <= cap), ~(whole /\ e \in Asking /\ t >= cap),
             e \in {"keeps", "lzo", "lzma"}
      PROVE  good
  <2> HIDE DEF t, whole
  <2> QED
    BY <1>3 DEF GoodAnswer, Asking
<1>4. Least(d, cap) \in Int /\ Least(d, cap) <= cap /\ (d <= cap => Least(d, cap) = d)
  <2> HIDE DEF d
  <2> QED
    BY <1>1 DEF Least
<1>5. CASE e \in {"keeps", "lzo"}
  <2>1. answer \in Strict(s, cap)
    <3>1. CASE e = "keeps"
      BY <3>1 DEF Answers
    <3>2. CASE e = "lzo"
      BY <3>2 DEF Answers
    <3> QED
      BY <1>5, <3>1, <3>2
  <2>2. CASE whole /\ t <= cap
    <3>1. answer = Told(TRUE, t)
      BY <2>1, <2>2 DEF Strict
    <3>2. GoodAnswer(e, whole, t, cap, TRUE, t)
      <4>1. whole
        BY <2>2
      <4>2. t <= cap
        BY <2>2
      <4> HIDE DEF t, whole
      <4> QED
        BY <1>1, <1>5, <4>1, <4>2 DEF GoodAnswer, Asking
    <3> QED
      BY <1>1, <1>13, <3>1, <3>2
  <2>3. CASE ~(whole /\ t <= cap)
    <3>1. answer \in Partial(s, cap)
      BY <2>1, <2>3 DEF Strict
    <3>2. answer.ok = FALSE /\ answer.written \in Int
      BY <3>1, PartialFacts
    <3>3. e \notin Asking
      BY <1>5 DEF Asking
    <3> QED
      BY <1>3, <1>5, <2>3, <3>2, <3>3
  <2> QED
    BY <2>2, <2>3
<1>6. CASE e = "lzma"
  <2>1. answer \in Asked(s, cap)
    BY <1>6 DEF Answers
  <2>2. CASE d >= cap
    <3>1. answer = Told(TRUE, cap)
      BY <2>1, <2>2 DEF Asked
    <3>2. GoodAnswer(e, whole, t, cap, TRUE, cap)
      <4> HIDE DEF t, whole
      <4> QED
        BY <1>1, <1>6 DEF GoodAnswer, Asking
    <3> QED
      BY <1>1, <1>13, <3>1, <3>2
  <2>3. CASE d < cap
    <3>1. ~(d >= cap)
      <4> HIDE DEF d
      <4> QED
        BY <1>1, <2>3
    <3>2. answer \in Partial(s, cap) \cup (IF Whole(s) THEN {Told(TRUE, s.text)} ELSE {})
      BY <2>1, <3>1 DEF Asked
    <3>3. ~(whole /\ t >= cap)
      <4> HIDE DEF d, t, whole
      <4> QED
        BY <1>1, <2>3
    <3>4. CASE answer \in Partial(s, cap)
      <4>1. answer.ok = FALSE /\ answer.written \in Int
        BY <3>4, PartialFacts
      <4> QED
        BY <1>3, <1>6, <3>3, <4>1
    <3>5. CASE whole /\ answer = Told(TRUE, t)
      <4>1. GoodAnswer(e, whole, t, cap, TRUE, t)
        <5>1. whole /\ ~(t >= cap)
          BY <3>3, <3>5
        <5> HIDE DEF t, whole
        <5> QED
          BY <1>1, <1>6, <5>1 DEF GoodAnswer, Asking
      <4> QED
        BY <1>1, <1>13, <3>5, <4>1
    <3> QED
      BY <3>2, <3>4, <3>5
  <2> QED
    BY <1>1, <2>2, <2>3
<1>7. CASE e = "lzo1"
  <2>1. CASE whole
    <3>1. answer = Told(TRUE, t)
      BY <1>7, <2>1 DEF Answers
    <3>2. GoodAnswer(e, whole, t, cap, TRUE, t)
      <4> HIDE DEF t
      <4> QED
        BY <1>1, <1>7 DEF GoodAnswer, Asking
    <3> QED
      BY <1>1, <1>13, <3>1, <3>2
  <2>2. CASE ~whole
    <3>1. answer \in {Told(ok, n) : ok \in BOOLEAN, n \in 0 .. d}
      BY <1>7, <2>2 DEF Answers
    <3>2. PICK ok \in BOOLEAN, n \in 0 .. d : answer = Told(ok, n)
      BY <3>1
    <3>3. n \in Int /\ n <= t
      <4> HIDE DEF d, t
      <4> QED
        BY <1>1
    <3>4. GoodAnswer(e, whole, t, cap, ok, n)
      <4>1. ~whole
        BY <2>2
      <4> HIDE DEF t, whole
      <4> QED
        BY <1>1, <1>7, <3>3, <4>1 DEF GoodAnswer, Asking
    <3> QED
      BY <1>2, <3>2, <3>3, <3>4
  <2> QED
    BY <2>1, <2>2
<1>8. CASE e = "lzfse"
  <2> DEFINE n == IF whole THEN Least(t, cap) ELSE 0
  <2>1. answer = Told(TRUE, n)
    BY <1>8 DEF Answers
  <2>2. n \in Int /\ n <= cap /\ (whole /\ t <= cap => n = t)
    <3> HIDE DEF t, whole
    <3> QED
      BY <1>1 DEF Least
  <2>3. GoodAnswer(e, whole, t, cap, TRUE, n)
    <3> HIDE DEF t, whole, n
    <3> QED
      BY <1>1, <1>8, <2>2 DEF GoodAnswer, Asking
  <2> HIDE DEF n
  <2> QED
    BY <1>13, <2>1, <2>2, <2>3
<1>9. ASSUME e \in {"lzvn", "wavpack"} PROVE GoodAnswer(e, whole, t, cap, TRUE, Least(d, cap))
  <2> DEFINE n == Least(d, cap)
  <2>1. n \in Int /\ n <= cap /\ (whole /\ t <= cap => n = t)
    BY <1>1, <1>4
  <2> HIDE DEF n, t, whole
  <2> QED
    BY <1>1, <1>9, <2>1 DEF GoodAnswer, Asking, n
<1>10. CASE e = "lzvn"
  <2>1. answer = Told(TRUE, Least(d, cap))
    BY <1>10 DEF Answers
  <2> QED
    BY <1>13, <1>4, <1>9, <1>10, <2>1
<1>11. CASE e = "wavpack"
  <2>1. answer \in Unpacked(s, cap)
    BY <1>11 DEF Answers
  <2>2. CASE s.good = 0
    <3>1. answer = Told(FALSE, 0)
      BY <2>1, <2>2 DEF Unpacked
    <3>2. ~whole
      BY <1>1, <2>2 DEF Whole
    <3>3. GoodAnswer(e, whole, t, cap, FALSE, 0)
      <4> HIDE DEF t, whole
      <4> QED
        BY <1>11, <3>2 DEF GoodAnswer, Asking
    <3> QED
      BY <1>14, <3>1, <3>3
  <2>3. CASE s.good # 0
    <3>1. answer = Told(TRUE, Least(d, cap))
      BY <2>1, <2>3 DEF Unpacked
    <3> QED
      BY <1>13, <1>4, <1>9, <1>11, <3>1
  <2> QED
    BY <2>2, <2>3
<1>12. CASE e = "ppmd"
  <2> DEFINE enough == d >= cap
  <2>1. answer = Told(enough, cap)
    BY <1>12 DEF Answers
  <2>2. enough \in BOOLEAN /\ (whole /\ t >= cap => enough)
    <3> HIDE DEF d, t, whole
    <3> QED
      BY <1>1
  <2>3. GoodAnswer(e, whole, t, cap, enough, cap)
    <3> HIDE DEF t, whole, enough
    <3> QED
      BY <1>12, <2>2 DEF GoodAnswer, Asking
  <2> HIDE DEF enough
  <2> QED
    BY <1>2, <2>1, <2>2, <2>3
<1> QED
  BY <1>5, <1>6, <1>7, <1>8, <1>10, <1>11, <1>12 DEF AtOnce

(* A call that is done, by what it returns.                                *)
LEMMA DoneFields ==
  ASSUME call \in CallType, NEW ret \in {NoError, Failure}, NEW size \in Int,
         call' = Done(call, [ret |-> ret, size |-> size])
  PROVE  /\ call' \in CallType /\ call'.entry = call.entry /\ call'.stream = call.stream /\ call'.cap = call.cap
         /\ call'.memory = call.memory /\ call'.wide = call.wide
         /\ call'.pc = "done" /\ call'.ret = ret /\ call'.size = size
         /\ call'.out = call.out /\ call'.read = call.read /\ call'.fatal = call.fatal
<1>1. call' = [call EXCEPT !.pc = "done", !.ret = ret, !.size = size]
  BY DEF Done
<1>2. call' \in CallType
  BY <1>1 DEF CallType
<1>3. /\ call'.entry = call.entry /\ call'.stream = call.stream /\ call'.cap = call.cap
      /\ call'.memory = call.memory /\ call'.wide = call.wide
      /\ call'.out = call.out /\ call'.read = call.read /\ call'.fatal = call.fatal
  BY <1>1 DEF CallType
<1>4. call'.pc = "done" /\ call'.ret = ret /\ call'.size = size
  BY <1>1 DEF CallType
<1> QED
  BY <1>2, <1>3, <1>4

(* What another library answers becomes the return value and the size.     *)
LEMMA CallAtOnceKeeps ==
  ASSUME CallInv, CallAtOnce
  PROVE  CallInv'
<1> DEFINE e == call.entry
<1> DEFINE s == call.stream
<1> DEFINE cap == call.cap
<1>1. /\ call \in CallType /\ e \in AtOnce /\ s \in Streams /\ cap \in Nat /\ cap >= 1 /\ call.memory
      /\ s.text \in Nat /\ WritesFit
  BY CallFields, StreamFacts DEF CallInv, DoneInv, CallAtOnce
<1>2. PICK answer \in Answers(e, s, cap) : call' = Done(call, Returned(e, s, cap, answer))
  BY DEF CallAtOnce
<1> DEFINE passed == e \in {"lzma", "lzo", "lzo1"}
<1> DEFINE empty == e = "lzfse" /\ answer.written = 0 /\ s.units > 0
<1> DEFINE ret == IF answer.ok /\ ~empty THEN NoError ELSE Failure
<1> DEFINE size == IF passed \/ (answer.ok /\ ~empty) THEN answer.written ELSE cap
<1>3. GoodAnswer(e, Whole(s), s.text, cap, answer.ok, answer.written)
  BY <1>1, <1>2, AnswersAreGood
<1>4. Returned(e, s, cap, answer) = [ret |-> ret, size |-> size]
  BY DEF Returned, PassedOn, KeptIfDone
<1>5. ret \in {NoError, Failure} /\ size \in Int
  BY <1>1, <1>3 DEF GoodAnswer
<1>6. /\ call' \in CallType /\ call'.entry = e /\ call'.stream = s /\ call'.cap = cap
      /\ call'.memory = call.memory /\ call'.wide = call.wide
      /\ call'.pc = "done" /\ call'.ret = ret /\ call'.size = size /\ call'.out = call.out
  <2> HIDE DEF ret, size
  <2>1. call' = Done(call, [ret |-> ret, size |-> size])
    BY <1>2, <1>4
  <2> QED
    BY <1>1, <1>5, <2>1, DoneFields
<1>7. NoError # Failure
  BY DEF NoError, Failure
<1>8. Delivered'
  <2> SUFFICES ASSUME Whole(s), s.text > 0
               PROVE  IF e \in Asking THEN s.text >= cap => ret = NoError /\ size = cap
                      ELSE s.text <= cap => ret = NoError /\ size = s.text
    <3> HIDE DEF ret, size
    <3> QED
      BY <1>1, <1>6 DEF Delivered
  <2>1. CASE e \in Asking
    <3>1. ~empty
      BY <2>1 DEF Asking
    <3> QED
      BY <1>3, <2>1, <3>1 DEF GoodAnswer
  <2>2. CASE e \notin Asking
    <3>1. s.text <= cap => answer.ok /\ answer.written = s.text
      BY <1>3, <2>2 DEF GoodAnswer
    <3>2. s.text <= cap => ~empty
      BY <1>1, <3>1
    <3> QED
      BY <2>2, <3>1, <3>2
  <2> QED
    BY <2>1, <2>2
<1>9. FailuresAreTold'
  <2>1. ASSUME e \in {"keeps", "lzo"}, ret = NoError PROVE Whole(s) /\ size = s.text
    BY <1>3, <1>7, <2>1 DEF GoodAnswer
  <2>2. ASSUME ~passed, ret # NoError PROVE size = cap
    BY <2>2
  <2>3. e # "lzip"
    BY <1>1 DEF AtOnce
  <2> HIDE DEF ret, size
  <2> QED
    BY <1>1, <1>6, <2>1, <2>2, <2>3 DEF FailuresAreTold
<1>10. WritesFit'
  <2>1. ASSUME ret = NoError, ~(e = "lzo1" /\ s.text > cap) PROVE size <= cap
    <3>1. answer.ok
      BY <1>7, <2>1
    <3>2. e = "lzo1" => s.text <= cap
      BY <1>1, <2>1
    <3>3. answer.written <= cap
      BY <1>3, <3>1, <3>2 DEF GoodAnswer
    <3> QED
      BY <1>1, <3>1, <3>3
  <2> HIDE DEF ret, size
  <2> QED
    BY <1>1, <1>6, <2>1 DEF WritesFit, MayOverrun
<1> QED
  BY <1>1, <1>6, <1>8, <1>9, <1>10 DEF CallInv, DoneInv, FreshInv, LzipInv, FlacInv, AtOnce

(* A call that gets no memory fails.                                       *)
LEMMA CallRefusedKeeps ==
  ASSUME CallInv, CallRefused
  PROVE  CallInv'
<1> DEFINE e == call.entry
<1> DEFINE told == Told(e = "lzfse", 0)
<1> DEFINE taken == e = "lzfse" /\ call.stream.units = 0
<1> DEFINE ret == IF taken THEN NoError ELSE Failure
<1> DEFINE size == IF taken \/ e \in {"lzma", "lzo", "lzo1"} THEN 0 ELSE call.cap
<1>1. /\ call \in CallType /\ ~call.memory /\ WritesFit /\ call.cap \in Nat /\ call.cap >= 1 /\ call.stream \in Streams
      /\ call.stream.units \in Nat
  BY CallFields, StreamFacts DEF CallInv, DoneInv, CallRefused
<1>2. Returned(e, call.stream, call.cap, told) = [ret |-> ret, size |-> size]
  <2>1. /\ told.ok <=> e = "lzfse"
        /\ told.written = 0
    BY DEF Told
  <2> HIDE DEF told
  <2>2. CASE e = "lzfse"
    <3>1. call.stream.units > 0 <=> ~taken
      BY <1>1, <2>2
    <3> QED
      BY <2>1, <2>2, <3>1 DEF Returned, KeptIfDone
  <2>3. CASE e # "lzfse"
    <3>1. ~told.ok
      BY <2>1, <2>3
    <3> QED
      BY <2>1, <2>3, <3>1 DEF Returned, PassedOn, KeptIfDone
  <2> QED
    BY <2>2, <2>3
<1>3. ret \in {NoError, Failure} /\ size \in Int
  BY <1>1
<1>4. /\ call' \in CallType /\ call'.entry = e /\ call'.stream = call.stream /\ call'.cap = call.cap
      /\ call'.memory = call.memory /\ call'.wide = call.wide
      /\ call'.pc = "done" /\ call'.ret = ret /\ call'.size = size /\ call'.out = call.out
  <2> HIDE DEF ret, size
  <2>1. call' = Done(call, [ret |-> ret, size |-> size])
    BY <1>2 DEF CallRefused
  <2> QED
    BY <1>1, <1>3, <2>1, DoneFields
<1>5. NoError # Failure
  BY DEF NoError, Failure
<1>6. Delivered'
  BY <1>1, <1>4 DEF Delivered
<1>7. FailuresAreTold'
  BY <1>1, <1>4, <1>5 DEF FailuresAreTold
<1>8. WritesFit'
  <2>1. size <= call.cap
    BY <1>1
  <2> HIDE DEF size
  <2> QED
    BY <1>1, <1>4, <2>1 DEF WritesFit, MayOverrun
<1> QED
  BY <1>4, <1>6, <1>7, <1>8 DEF CallInv, DoneInv, FreshInv, LzipInv, FlacInv

(* lzip_decode gives n units: what could be decoded still can be.          *)
LEMMA GivenKeeps ==
  ASSUME call \in CallType, NEW most \in Int, NEW n \in Nat, n <= call.stream.units - call.in,
         call.out <= call.read, ~call.fatal => call.in = call.taken,
         Whole(call.stream) => call.read <= Decoded(call.stream, call.taken), call.taken <= call.stream.units,
         Whole(call.stream) => ~call.fatal
  PROVE  LET c == Given([call EXCEPT !.max = most], n)
         IN  /\ c \in CallType
             /\ c.entry = call.entry /\ c.stream = call.stream /\ c.cap = call.cap /\ c.pc = call.pc
             /\ c.memory = call.memory /\ c.wide = call.wide
             /\ c.out = call.out /\ c.read = call.read /\ c.fatal = call.fatal
             /\ ~c.fatal => c.in = c.taken
             /\ (Whole(c.stream) => c.read <= Decoded(c.stream, c.taken)) /\ c.taken <= c.stream.units
<1> DEFINE c == Given([call EXCEPT !.max = most], n)
<1>1. /\ call.in \in Int /\ call.taken \in Nat /\ call.stream \in Streams /\ call.read \in Nat
      /\ call.fatal \in BOOLEAN /\ call.stream.units \in Nat
      /\ Decoded(call.stream, call.taken) \in Int /\ Decoded(call.stream, call.taken + n) \in Int
      /\ Decoded(call.stream, call.taken) <= Decoded(call.stream, call.taken + n)
  <2>1. /\ call.in \in Int /\ call.taken \in Nat /\ call.stream \in Streams /\ call.read \in Nat
        /\ call.fatal \in BOOLEAN
    BY CallFields
  <2>2. call.stream.units \in Nat /\ call.taken + n \in Nat
    BY <2>1, StreamFacts
  <2>3. Decoded(call.stream, call.taken) \in Nat /\ Decoded(call.stream, call.taken + n) \in Nat
    BY <2>1, <2>2, DecodedFacts, Zenon
  <2>4. Decoded(call.stream, call.taken) <= Decoded(call.stream, call.taken + n)
    BY <2>1, DecodedGrows, Zenon
  <2> QED
    BY <2>1, <2>2, <2>3, <2>4
<1> DEFINE b == [call EXCEPT !.max = most]
<1>4. b \in CallType
  BY DEF CallType
<1>5. /\ b.memory = call.memory /\ b.wide = call.wide
      /\ b.entry = call.entry /\ b.stream = call.stream /\ b.cap = call.cap /\ b.pc = call.pc
      /\ b.in = call.in /\ b.out = call.out /\ b.taken = call.taken /\ b.read = call.read /\ b.fatal = call.fatal
  BY DEF CallType
<1> HIDE DEF b
<1>2. CASE call.fatal
  <2>1. c = [b EXCEPT !.in = @ - 1]
    BY <1>2, <1>5 DEF Given, b
  <2>2. c \in CallType
    <3> DEFINE k == b.in - 1
    <3>1. k \in Int /\ c = [b EXCEPT !.in = k]
      BY <1>1, <1>5, <2>1
    <3> HIDE DEF k, c
    <3> QED
      BY <1>4, <3>1 DEF CallType
  <2>3. /\ c.memory = b.memory /\ c.wide = b.wide
        /\ c.entry = b.entry /\ c.stream = b.stream /\ c.cap = b.cap /\ c.pc = b.pc
        /\ c.out = b.out /\ c.taken = b.taken /\ c.read = b.read /\ c.fatal = b.fatal
    BY <1>4, <2>1 DEF CallType
  <2> HIDE DEF c
  <2>4. (Whole(c.stream) => c.read <= Decoded(c.stream, c.taken)) /\ c.taken <= c.stream.units
    BY <1>5, <2>3
  <2> QED
    BY <1>2, <1>5, <2>2, <2>3, <2>4 DEF c
<1>3. CASE ~call.fatal
  <2>3. c = [b EXCEPT !.in = @ + n, !.taken = @ + n]
    BY <1>3, <1>5 DEF Given, b
  <2>4. c \in CallType
    <3> DEFINE k == b.in + n
    <3> DEFINE t == b.taken + n
    <3>1. k \in Int /\ t \in Nat
      <4>1. b.in \in Int /\ b.taken \in Nat
        BY <1>1, <1>5
      <4> QED
        BY <4>1
    <3>2. c = [b EXCEPT !.in = k, !.taken = t]
      BY <2>3
    <3> HIDE DEF k, t, c
    <3> QED
      BY <1>4, <3>1, <3>2 DEF CallType
  <2>1. /\ c.memory = call.memory /\ c.wide = call.wide
        /\ c.entry = call.entry /\ c.stream = call.stream /\ c.cap = call.cap /\ c.pc = call.pc
        /\ c.out = call.out /\ c.read = call.read /\ c.fatal = call.fatal
        /\ c.in = call.in + n /\ c.taken = call.taken + n
    <3> DEFINE k == b.in + n
    <3> DEFINE t == b.taken + n
    <3>1. c = [b EXCEPT !.in = k, !.taken = t]
      BY <2>3
    <3>2. k = call.in + n /\ t = call.taken + n
      BY <1>5
    <3> HIDE DEF k, t, c
    <3>3. /\ c.memory = b.memory /\ c.wide = b.wide
          /\ c.entry = b.entry /\ c.stream = b.stream /\ c.cap = b.cap /\ c.pc = b.pc
          /\ c.out = b.out /\ c.read = b.read /\ c.fatal = b.fatal /\ c.in = k /\ c.taken = t
      BY <1>4, <3>1 DEF CallType
    <3> QED
      BY <1>5, <3>2, <3>3
  <2> HIDE DEF c
  <2>2. Whole(c.stream) => c.read <= Decoded(c.stream, c.taken)
    BY <1>1, <1>3, <2>1
  <2>5. c.taken <= c.stream.units
    BY <1>1, <1>3, <2>1
  <2> QED
    BY <1>3, <2>1, <2>2, <2>4, <2>5 DEF c
<1> QED
  BY <1>1, <1>2, <1>3

(* ... and reads: what was read is written, or damage is met.              *)
LEMMA ReadsKeep ==
  ASSUME NEW c \in CallType, NEW finished \in BOOLEAN, NEW d \in ReadsFrom(c, finished),
         c.out <= c.read, ~c.fatal => c.out = c.read,
         Whole(c.stream) => ~c.fatal /\ c.read <= Decoded(c.stream, c.taken), c.taken <= c.stream.units
  PROVE  /\ d \in CallType
         /\ d.entry = c.entry /\ d.stream = c.stream /\ d.cap = c.cap /\ d.pc = c.pc
         /\ d.memory = c.memory /\ d.wide = c.wide /\ d.in = c.in /\ d.taken = c.taken
         /\ d.out <= d.read /\ (~d.fatal => d.out = d.read /\ ~c.fatal)
         /\ Whole(d.stream) => ~d.fatal /\ d.read <= Decoded(d.stream, d.taken)
         /\ ~(d.out > c.out) => d.fatal \/ Available(d) <= 0
<1>1. /\ c.out \in Int /\ c.read \in Nat /\ c.taken \in Nat /\ c.stream \in Streams /\ c.cap \in 1 .. MaxCap
      /\ c.fatal \in BOOLEAN
  BY DEF CallType
<1>2. /\ Decoded(c.stream, c.taken) \in Int /\ Available(c) = Decoded(c.stream, c.taken) - c.read
      /\ c.stream.good \in Nat /\ c.stream.units \in Nat /\ c.stream.text \in Nat
      /\ c.stream.good <= c.stream.units /\ c.stream.units <= c.stream.text + 2
  <2>1. Decoded(c.stream, c.taken) \in Nat
    BY <1>1, DecodedFacts, Zenon
  <2>2. /\ c.stream.good \in Nat /\ c.stream.units \in Nat /\ c.stream.text \in Nat
        /\ c.stream.good <= c.stream.units /\ c.stream.units <= c.stream.text + 2
    BY <1>1, StreamFacts
  <2> QED
    BY <2>1, <2>2 DEF Available
<1>3. CASE Available(c) > 0
  <2>1. PICK n \in 1 .. Least(Available(c), c.cap) : d = [c EXCEPT !.out = @ + n, !.read = @ + n]
    BY <1>3 DEF ReadsFrom, Got
  <2>2. n \in Nat /\ n >= 1 /\ n <= Available(c)
    BY <1>1, <1>2 DEF Least
  <2>3. d \in CallType
    <3> DEFINE o == c.out + n
    <3> DEFINE r == c.read + n
    <3>1. o \in Int /\ r \in Nat
      BY <1>1, <2>2
    <3>2. d = [c EXCEPT !.out = o, !.read = r]
      BY <2>1
    <3> HIDE DEF o, r
    <3> QED
      BY <3>1, <3>2 DEF CallType
  <2>4. /\ d.entry = c.entry /\ d.stream = c.stream /\ d.cap = c.cap /\ d.pc = c.pc
        /\ d.memory = c.memory /\ d.wide = c.wide /\ d.in = c.in /\ d.taken = c.taken /\ d.fatal = c.fatal
        /\ d.out = c.out + n /\ d.read = c.read + n
    BY <2>1 DEF CallType
  <2>5. c.read + n <= Decoded(c.stream, c.taken)
    BY <1>1, <1>2, <2>2
  <2>6. d.read <= Decoded(d.stream, d.taken)
    BY <2>4, <2>5
  <2>7. d.out <= d.read /\ d.out > c.out
    <3>1. c.out + n <= c.read + n /\ c.out + n > c.out
      BY <1>1, <2>2
    <3> QED
      BY <2>4, <3>1
  <2>8. ~d.fatal => d.out = d.read
    BY <2>4
  <2> QED
    BY <2>3, <2>4, <2>6, <2>7, <2>8
<1>4. CASE ~(Available(c) > 0) /\ (c.fatal \/ Breaks(c, finished))
  <2>1. d = [c EXCEPT !.out = @ - 1, !.fatal = TRUE]
    BY <1>4 DEF ReadsFrom
  <2>2. d \in CallType
    <3> DEFINE o == c.out - 1
    <3>1. o \in Int /\ d = [c EXCEPT !.out = o, !.fatal = TRUE]
      BY <1>1, <2>1
    <3> HIDE DEF o
    <3> QED
      BY <3>1 DEF CallType
  <2>3. /\ d.entry = c.entry /\ d.stream = c.stream /\ d.cap = c.cap /\ d.pc = c.pc
        /\ d.memory = c.memory /\ d.wide = c.wide /\ d.in = c.in /\ d.taken = c.taken /\ d.fatal
        /\ d.out = c.out - 1 /\ d.read = c.read
    BY <2>1 DEF CallType
  <2>4. ~Whole(c.stream)
    <3>1. CASE Breaks(c, finished)
      <4>1. ASSUME Whole(c.stream) PROVE c.stream.good >= c.taken /\ ~(c.stream.good < c.stream.text + 2)
        <5>1. c.stream.good = c.stream.text + 2
          BY <4>1 DEF Whole
        <5> DEFINE t == c.taken
        <5> DEFINE u == c.stream.units
        <5> DEFINE g == c.stream.good
        <5> DEFINE x == c.stream.text
        <5>2. t \in Nat /\ u \in Nat /\ g \in Nat /\ x \in Nat /\ t <= u /\ g <= u /\ u <= x + 2
          BY <1>1, <1>2
        <5>3. g = x + 2
          BY <5>1
        <5> HIDE DEF t, u, g, x
        <5>4. g >= t /\ ~(g < x + 2)
          BY <5>2, <5>3
        <5> QED
          BY <5>4 DEF t, u, g, x
      <4>2. c.taken > c.stream.good \/ c.stream.good < c.stream.text + 2
        BY <3>1 DEF Breaks
      <4>3. ~(c.stream.good >= c.taken /\ ~(c.stream.good < c.stream.text + 2))
        <5> DEFINE t == c.taken
        <5> DEFINE g == c.stream.good
        <5> DEFINE x == c.stream.text
        <5>1. t \in Nat /\ g \in Nat /\ x \in Nat
          BY <1>1, <1>2
        <5>2. t > g \/ g < x + 2
          BY <4>2
        <5> HIDE DEF t, g, x
        <5>3. ~(g >= t /\ ~(g < x + 2))
          BY <5>1, <5>2
        <5> QED
          BY <5>3 DEF t, g, x
      <4> QED
        BY <4>1, <4>3
    <3> QED
      BY <1>4, <3>1
  <2>5. d.out <= d.read
    BY <1>1, <2>3
  <2> QED
    BY <2>2, <2>3, <2>4, <2>5
<1>5. CASE ~(Available(c) > 0) /\ ~(c.fatal \/ Breaks(c, finished))
  <2>1. d = c
    BY <1>5 DEF ReadsFrom
  <2>2. Available(d) <= 0
    BY <1>1, <1>2, <1>5, <2>1
  <2> QED
    BY <1>5, <2>1, <2>2
<1> QED
  BY <1>3, <1>4, <1>5

(* The reads of a decoder whose mark of damage was overwritten.            *)
LEMMA StrayReadsKeep ==
  ASSUME NEW c \in CallType, NEW d \in StrayReads(c),
         c.out <= c.read, ~c.fatal => c.out = c.read, c.taken <= c.stream.units
  PROVE  /\ d \in CallType
         /\ d.entry = c.entry /\ d.stream = c.stream /\ d.cap = c.cap /\ d.pc = c.pc
         /\ d.memory = c.memory /\ d.wide = c.wide /\ d.in = c.in /\ d.taken = c.taken
         /\ d.out <= d.read /\ (~d.fatal => d.out = d.read /\ ~c.fatal)
         /\ ~Whole(d.stream) /\ d.out > c.out
<1>1. /\ c.out \in Int /\ c.read \in Nat /\ c.taken \in Nat /\ c.stream \in Streams /\ c.cap \in 1 .. MaxCap
      /\ c.fatal \in BOOLEAN
  BY DEF CallType
<1>2. Breaks(c, TRUE) /\ d \in {Got(c, n) : n \in 1 .. c.cap}
  BY DEF StrayReads
<1>3. PICK n \in 1 .. c.cap : d = [c EXCEPT !.out = @ + n, !.read = @ + n]
  BY <1>2 DEF Got
<1> DEFINE o == c.out + n
<1> DEFINE r == c.read + n
<1>4. n \in Nat /\ n >= 1 /\ o \in Int /\ r \in Nat /\ o > c.out /\ o <= r /\ (c.out = c.read => o = r)
  BY <1>1, BoundFacts
<1>5. d = [c EXCEPT !.out = o, !.read = r]
  BY <1>3
<1> HIDE DEF o, r
<1>6. d \in CallType
  BY <1>4, <1>5 DEF CallType
<1>7. /\ d.entry = c.entry /\ d.stream = c.stream /\ d.cap = c.cap /\ d.pc = c.pc
      /\ d.memory = c.memory /\ d.wide = c.wide /\ d.in = c.in /\ d.taken = c.taken /\ d.fatal = c.fatal
      /\ d.out = o /\ d.read = r
  BY <1>5 DEF CallType
<1>8. ~Whole(c.stream)
  <2>1. /\ c.stream.good \in Nat /\ c.stream.units \in Nat /\ c.stream.text \in Nat
        /\ c.stream.units <= c.stream.text + 2
    BY <1>1, StreamFacts
  <2>2. c.taken > c.stream.good \/ c.stream.good < c.stream.text + 2
    BY <1>2 DEF Breaks
  <2> SUFFICES ASSUME c.stream.good = c.stream.text + 2 PROVE FALSE
    BY DEF Whole
  <2> QED
    BY <1>1, <2>1, <2>2
<1> QED
  BY <1>4, <1>6, <1>7, <1>8

(* Everything but LzipInv of a call of lzip_decode that is not done: of an *)
(* undamaged stream no more is written than its text.                      *)
LEMMA LzipSuffices ==
  ASSUME call' \in CallType, call'.entry = "lzip", call'.pc # "done", LzipInv'
  PROVE  CallInv'
<1> DEFINE s == call'.stream
<1>1. s \in Streams /\ call'.out \in Int /\ call'.read \in Nat /\ call'.taken \in Nat /\ call'.cap \in Nat
  BY BoundFacts DEF CallType
<1>2. call'.out <= call'.read /\ (Whole(s) => call'.read <= Decoded(s, call'.taken))
  BY DEF LzipInv
<1>3. WritesFit'
  <2> SUFFICES ASSUME Whole(s), s.text <= call'.cap PROVE call'.out <= call'.cap
    BY <1>1, StreamFacts DEF WritesFit, MayOverrun
  <2>1. s.text \in Nat
    BY <1>1, StreamFacts
  <2>2. Decoded(s, call'.taken) \in Nat /\ Decoded(s, call'.taken) <= s.text
    BY <1>1, DecodedFacts, Zenon
  <2>3. call'.read <= Decoded(s, call'.taken)
    BY <1>2
  <2> QED
    BY <1>1, <1>2, <2>1, <2>2, <2>3
<1> QED
  BY <1>3 DEF CallInv, DoneInv, Delivered, FailuresAreTold, FreshInv, FlacInv

LEMMA LzipTurnKeeps ==
  ASSUME CallInv, FreshInv, LzipTurn
  PROVE  CallInv'
<1> DEFINE most == Least(call.max, call.stream.units - call.in)
<1>1. /\ call \in CallType /\ call.pc = "turns" /\ call.in < call.stream.units
      /\ call.out \in Int /\ call.in \in Int /\ call.max \in Int /\ call.stream \in Streams
      /\ call.fatal \in BOOLEAN
  BY CallFields DEF CallInv, LzipTurn
<1>2. call.entry = "lzip"
  BY <1>1 DEF FreshInv
<1>3. PICK n \in 1 .. most : call' \in ReadsFrom(Given([call EXCEPT !.max = most], n), FALSE)
  BY DEF LzipTurn
<1>4. most \in Int /\ n \in Nat /\ n <= call.stream.units - call.in
  BY <1>1, StreamFacts DEF Least
<1> DEFINE c == Given([call EXCEPT !.max = most], n)
<1>5. /\ call.out <= call.read
      /\ ~call.fatal => call.in = call.taken /\ call.out = call.read
      /\ Whole(call.stream) => ~call.fatal /\ call.read <= Decoded(call.stream, call.taken)
      /\ call.taken <= call.stream.units /\ call.memory
  BY <1>1, <1>2 DEF CallInv, LzipInv
<1> HIDE DEF most
<1>6. /\ c \in CallType /\ c.memory = call.memory
      /\ c.entry = call.entry /\ c.stream = call.stream /\ c.cap = call.cap /\ c.pc = call.pc
      /\ c.out = call.out /\ c.read = call.read /\ c.fatal = call.fatal
      /\ ~c.fatal => c.in = c.taken
      /\ (Whole(c.stream) => c.read <= Decoded(c.stream, c.taken)) /\ c.taken <= c.stream.units
  BY <1>1, <1>4, <1>5, GivenKeeps
<1>7. call' \in ReadsFrom(c, FALSE)
  BY <1>3
<1> HIDE DEF c
<1>8. /\ call' \in CallType
      /\ call'.entry = c.entry /\ call'.stream = c.stream /\ call'.cap = c.cap /\ call'.pc = c.pc
      /\ call'.in = c.in /\ call'.taken = c.taken /\ call'.memory = c.memory
      /\ call'.out <= call'.read /\ (~call'.fatal => call'.out = call'.read /\ ~c.fatal)
      /\ Whole(call'.stream) => ~call'.fatal /\ call'.read <= Decoded(call'.stream, call'.taken)
  <2>1. /\ c \in CallType /\ call' \in ReadsFrom(c, FALSE)
        /\ c.out <= c.read /\ (~c.fatal => c.out = c.read)
        /\ (Whole(c.stream) => ~c.fatal /\ c.read <= Decoded(c.stream, c.taken)) /\ c.taken <= c.stream.units
    BY <1>5, <1>6, <1>7
  <2> QED
    BY <2>1, ReadsKeep, FALSE \in BOOLEAN
<1>9. LzipInv'
  BY <1>1, <1>2, <1>5, <1>6, <1>8 DEF LzipInv
<1> QED
  BY <1>1, <1>2, <1>6, <1>8, <1>9, LzipSuffices

LEMMA LzipDrainKeeps ==
  ASSUME CallInv, LzipDrain
  PROVE  CallInv'
<1>1. /\ call \in CallType /\ call.pc \in {"drains", "again"} /\ call.out \in Int /\ call.in \in Int
      /\ call.stream \in Streams /\ call.fatal \in BOOLEAN /\ call.cap \in Nat
  BY CallFields DEF CallInv, LzipDrain
<1>2. call.entry = "lzip"
  BY <1>1 DEF CallInv, FreshInv
<1>3. PICK d \in ReadsFrom(call, TRUE) \cup StrayReads(call), finished \in FinishedAnswers(call) :
        call' = [d EXCEPT !.pc = IF MoreCame(call, d) /\ ~finished /\ d.out < d.cap THEN "again" ELSE "returns"]
  BY DEF LzipDrain
<1>4. finished => ~call.wide
  BY DEF FinishedAnswers
<1>5. /\ call.out <= call.read
      /\ ~call.fatal => call.in = call.taken /\ call.out = call.read
      /\ Whole(call.stream) => ~call.fatal /\ call.read <= Decoded(call.stream, call.taken)
      /\ call.taken <= call.stream.units /\ call.memory
      /\ call.fatal \/ call.in >= call.stream.units
  BY <1>1, <1>2 DEF CallInv, LzipInv
<1>6. /\ d \in CallType
      /\ d.entry = call.entry /\ d.stream = call.stream /\ d.cap = call.cap /\ d.pc = call.pc
      /\ d.memory = call.memory /\ d.wide = call.wide /\ d.in = call.in /\ d.taken = call.taken
      /\ d.out <= d.read /\ (~d.fatal => d.out = d.read /\ ~call.fatal)
      /\ Whole(d.stream) => ~d.fatal /\ d.read <= Decoded(d.stream, d.taken)
      /\ ~(d.out > call.out) => d.fatal \/ Available(d) <= 0
  <2>1. CASE d \in ReadsFrom(call, TRUE)
    BY <1>1, <1>5, <2>1, ReadsKeep, TRUE \in BOOLEAN
  <2>2. CASE d \in StrayReads(call)
    <3>1. /\ d \in CallType
          /\ d.entry = call.entry /\ d.stream = call.stream /\ d.cap = call.cap /\ d.pc = call.pc
          /\ d.memory = call.memory /\ d.wide = call.wide /\ d.in = call.in /\ d.taken = call.taken
          /\ d.out <= d.read /\ (~d.fatal => d.out = d.read /\ ~call.fatal)
          /\ ~Whole(d.stream) /\ d.out > call.out
      BY <1>1, <1>5, <2>2, StrayReadsKeep
    <3> QED
      BY <3>1
  <2> QED
    BY <1>3, <2>1, <2>2
<1>7. /\ call' \in CallType /\ call'.entry = d.entry /\ call'.stream = d.stream /\ call'.cap = d.cap
      /\ call'.in = d.in /\ call'.taken = d.taken /\ call'.out = d.out /\ call'.read = d.read
      /\ call'.fatal = d.fatal /\ call'.memory = d.memory /\ call'.wide = d.wide
      /\ call'.pc = IF d.out > call.out /\ ~finished /\ d.out < d.cap THEN "again" ELSE "returns"
  BY <1>3, <1>6 DEF CallType, MoreCame
<1>8. d.out \in Int /\ d.cap \in Nat
  BY <1>6, BoundFacts DEF CallType
<1>9. call'.pc \in {"again", "returns"} /\ Available(call') = Available(d)
  BY <1>7 DEF Available
<1>10. LzipInv'
  <2>1. ASSUME call'.pc = "returns"
        PROVE  d.fatal \/ d.out >= d.cap \/ ~d.wide \/ (d.in >= d.stream.units /\ Available(d) <= 0)
    <3>1. ~(d.out > call.out) \/ finished \/ d.out >= d.cap
      BY <1>7, <1>8, <2>1
    <3> QED
      BY <1>4, <1>5, <1>6, <3>1
  <2> QED
    BY <1>5, <1>6, <1>7, <1>9, <2>1 DEF LzipInv
<1> QED
  BY <1>2, <1>6, <1>7, <1>9, <1>10, LzipSuffices

LEMMA LzipMovesKeep ==
  ASSUME CallInv, LzipOpen \/ LzipFinish
  PROVE  CallInv'
<1>1. /\ call \in CallType /\ FreshInv /\ LzipInv
      /\ call.stream.units \in Nat /\ call.in \in Int /\ call.out \in Int /\ call.cap \in Nat
  BY CallFields, StreamFacts DEF CallInv
<1>2. call.entry = "lzip" /\ call.pc \in {"new", "turns"}
  BY <1>1 DEF LzipOpen, LzipFinish, FreshInv
<1>3. CASE LzipOpen
  <2>1. Least(WriteSize, call.stream.units) \in Int
    BY <1>1, LibraryCallsAssumption DEF Least
  <2>2. /\ call' \in CallType /\ call'.pc = "turns" /\ call'.entry = call.entry /\ call'.stream = call.stream
        /\ call'.cap = call.cap /\ call'.in = call.in /\ call'.taken = call.taken /\ call'.memory = call.memory
        /\ call'.out = call.out /\ call'.read = call.read /\ call'.fatal = call.fatal
    BY <1>1, <1>3, <2>1 DEF LzipOpen, CallType
  <2>4. call.memory
    BY <1>3 DEF LzipOpen
  <2>3. LzipInv'
    BY <1>1, <1>2, <2>2, <2>4 DEF LzipInv
  <2> QED
    BY <1>2, <2>2, <2>3, LzipSuffices
<1>4. CASE LzipFinish
  <2>1. /\ call' \in CallType /\ call'.entry = call.entry /\ call'.stream = call.stream
        /\ call'.cap = call.cap /\ call'.in = call.in /\ call'.taken = call.taken /\ call'.memory = call.memory
        /\ call'.out = call.out /\ call'.read = call.read /\ call'.fatal = call.fatal
        /\ call'.pc = IF call.out < call.cap THEN "drains" ELSE "returns"
    BY <1>1, <1>4 DEF LzipFinish, Drained, CallType
  <2>2. call.out < call.cap => call.in >= call.stream.units
    BY <1>1, <1>4 DEF LzipFinish
  <2>3. call'.pc = "returns" => call.out >= call.cap
    BY <1>1, <2>1
  <2>4. /\ call'.pc \in {"drains", "returns"} /\ call.pc # "done" /\ (call'.pc = "drains" => call.out < call.cap)
        /\ call.pc = "turns"
    BY <1>2, <1>4, <2>1 DEF LzipFinish
  <2>5. LzipInv'
    BY <1>1, <1>2, <2>1, <2>2, <2>3, <2>4 DEF LzipInv
  <2> QED
    BY <1>2, <2>1, <2>4, <2>5, LzipSuffices
<1> QED
  BY <1>3, <1>4

LEMMA LzipReturnKeeps ==
  ASSUME CallInv, LzipReturn
  PROVE  CallInv'
<1> DEFINE s == call.stream
<1>1. /\ call \in CallType /\ call.pc = "returns" /\ s \in Streams
      /\ call.in \in Int /\ call.out \in Int /\ call.cap \in Nat /\ call.read \in Nat /\ call.taken \in Nat
      /\ call.fatal \in BOOLEAN
  BY CallFields DEF CallInv, LzipReturn
<1>2. call.entry = "lzip" /\ WritesFit
  BY <1>1 DEF CallInv, DoneInv, FreshInv
<1>3. /\ call.out <= call.read /\ call.memory
      /\ ~call.fatal => call.in = call.taken /\ call.out = call.read
      /\ Whole(s) => ~call.fatal /\ call.read <= Decoded(s, call.taken)
      /\ call.taken <= s.units
      /\ \/ call.fatal \/ call.out >= call.cap \/ ~call.wide
         \/ call.in >= s.units /\ Decoded(s, call.taken) - call.read <= 0
  BY <1>1, <1>2 DEF CallInv, LzipInv, Available
<1> DEFINE ret == IF call.out <= 0 THEN Failure ELSE NoError
<1> DEFINE size == IF call.out <= 0 THEN call.cap ELSE call.out
<1>4. /\ call' \in CallType /\ call'.entry = call.entry /\ call'.stream = s /\ call'.cap = call.cap
      /\ call'.memory = call.memory /\ call'.wide = call.wide
      /\ call'.pc = "done" /\ call'.ret = ret /\ call'.size = size
      /\ call'.out = call.out /\ call'.read = call.read /\ call'.fatal = call.fatal
  <2>1. call' = Done(call, [ret |-> ret, size |-> size])
    BY DEF LzipReturn
  <2>2. ret \in {NoError, Failure} /\ size \in Int
    BY <1>1
  <2> HIDE DEF ret, size
  <2> QED
    BY <1>1, <2>1, <2>2, DoneFields
<1>5. NoError # Failure
  BY DEF NoError, Failure
<1>6. FailuresAreTold'
  BY <1>2, <1>3, <1>4, <1>5 DEF FailuresAreTold
<1>7. ASSUME Whole(s), s.text > 0, s.text <= call.cap, call.wide PROVE call.out = s.text
  <2>1. ~call.fatal /\ call.out = call.read /\ call.in = call.taken
    BY <1>1, <1>3, <1>7
  <2>2. /\ s.text \in Nat /\ s.units \in Nat /\ Decoded(s, call.taken) \in Int
        /\ Decoded(s, call.taken) <= s.text /\ Decoded(s, s.units) = s.text
    <3>1. s.text \in Nat /\ s.units \in Nat
      BY <1>1, StreamFacts
    <3>2. Decoded(s, call.taken) \in Nat /\ Decoded(s, call.taken) <= s.text
      BY <1>1, DecodedFacts, Zenon
    <3>3. Decoded(s, s.units) = s.text
      BY <1>1, <1>7, WholeFacts, Zenon
    <3> QED
      BY <3>1, <3>2, <3>3
  <2>3. CASE call.out >= call.cap
    BY <1>1, <1>3, <1>7, <2>1, <2>2, <2>3
  <2>4. CASE call.in >= s.units /\ Decoded(s, call.taken) - call.read <= 0
    <3>1. call.taken = s.units
      BY <1>1, <1>3, <2>1, <2>2, <2>4
    <3> QED
      BY <1>1, <1>3, <1>7, <2>1, <2>2, <2>4, <3>1
  <2> QED
    BY <1>3, <1>7, <2>1, <2>3, <2>4
<1>8. Delivered'
  <2>1. s.text \in Nat
    BY <1>1, StreamFacts
  <2> SUFFICES ASSUME Whole(s), s.text > 0, s.text <= call.cap, call.wide
               PROVE  ret = NoError /\ size = s.text
    <3> HIDE DEF ret, size
    <3> QED
      BY <1>2, <1>4 DEF Delivered, Asking
  <2> QED
    BY <1>7, <2>1
<1>9. WritesFit'
  <2>1. ret = NoError => size = call.out
    BY <1>5
  <2> HIDE DEF ret, size
  <2> QED
    BY <1>2, <1>4, <2>1 DEF WritesFit, MayOverrun
<1> QED
  BY <1>2, <1>4, <1>6, <1>8, <1>9 DEF CallInv, DoneInv, FreshInv, LzipInv, FlacInv

(* The callback of FLAC writes whole samples until the destination is      *)
(* full.                                                                   *)
LEMMA SamplesFit ==
  ASSUME NEW out \in Int, NEW cap \in Nat, NEW n \in Nat, out % 2 = 0, out <= cap + (cap % 2)
  PROVE  LET w == SamplesWritten(out, cap, n)
         IN  /\ w \in Int /\ out <= w /\ w % 2 = 0 /\ w <= cap + (cap % 2)
             /\ w = out + 2 * n \/ (cap <= w /\ w < out + 2 * n)
<1> DEFINE h == (cap - out + 1) \div 2
<1>1. CASE out >= cap
  <2>1. SamplesWritten(out, cap, n) = out
    BY <1>1 DEF SamplesWritten
  <2> QED
    BY <1>1, <2>1
<1>2. CASE out < cap
  <2>1. h \in Int /\ 2 * h <= cap - out + 1 /\ cap - out <= 2 * h
    OBVIOUS
  <2>2. out + 2 * h <= cap + (cap % 2)
    OBVIOUS
  <2> HIDE DEF h
  <2>3. SamplesWritten(out, cap, n) = out + 2 * Least(n, h)
    BY <1>2 DEF SamplesWritten, h
  <2>6. \A k \in Int : (out + 2 * k) % 2 = 0
    OBVIOUS
  <2>4. CASE n < h
    <3>1. SamplesWritten(out, cap, n) = out + 2 * n
      BY <2>1, <2>3, <2>4 DEF Least
    <3> QED
      BY <1>2, <2>1, <2>2, <2>4, <2>6, <3>1
  <2>5. CASE n >= h
    <3>1. SamplesWritten(out, cap, n) = out + 2 * h
      BY <2>1, <2>3, <2>5 DEF Least
    <3> QED
      BY <1>2, <2>1, <2>2, <2>5, <2>6, <3>1
  <2> QED
    BY <2>1, <2>4, <2>5
<1> QED
  BY <1>1, <1>2

(* A block of a stream without damage becomes samples.                     *)
LEMMA FlacBlockKeeps ==
  ASSUME CallInv, FlacBlock
  PROVE  CallInv'
<1> DEFINE s == call.stream
<1> DEFINE n == InBlock(call)
<1> DEFINE o == SamplesWritten(call.out, call.cap, n)
<1> DEFINE r == call.read + n
<1>1. /\ call \in CallType /\ call.pc = "new" /\ call.entry \in {"flac", "frames"} /\ s \in Streams
      /\ call.out \in Int /\ call.read \in Nat /\ call.cap \in Nat /\ WritesFit
  BY CallFields DEF CallInv, DoneInv, FlacBlock
<1>2. /\ s.text % 2 = 0 /\ call.read <= Samples(s)
      /\ call.out % 2 = 0 /\ call.out <= call.cap + (call.cap % 2) /\ call.out <= 2 * call.read
      /\ Whole(s) => ~call.error /\ (call.out = 2 * call.read \/ (call.cap <= call.out /\ call.out < 2 * call.read))
  BY <1>1 DEF CallInv, FlacInv
<1>3. s.text \in Nat /\ s.good \in Nat
  BY <1>1, StreamFacts
<1>4. n \in Nat /\ r \in Nat /\ r <= Samples(s) /\ 2 * Samples(s) = s.text
  <2> DEFINE t == s.text
  <2> DEFINE k == call.read
  <2>1. t \in Nat /\ t % 2 = 0 /\ k \in Nat /\ k <= t \div 2
    BY <1>1, <1>2, <1>3 DEF Samples
  <2>3. n = Least(Block, (t \div 2) - k) /\ r = k + n /\ Samples(s) = t \div 2
    BY DEF InBlock, Samples
  <2> HIDE DEF t, k, s, n, r
  <2>2. Least(Block, (t \div 2) - k) \in Nat /\ k + Least(Block, (t \div 2) - k) <= t \div 2 /\ 2 * (t \div 2) = t
    BY <2>1, BoundFacts DEF Least
  <2>4. r \in Nat /\ r <= t \div 2
    BY <2>1, <2>2, <2>3
  <2> QED
    BY <2>2, <2>3, <2>4 DEF t
<1>5. /\ o \in Int /\ call.out <= o /\ o % 2 = 0 /\ o <= call.cap + (call.cap % 2)
      /\ o = call.out + 2 * n \/ (call.cap <= o /\ o < call.out + 2 * n)
  BY <1>1, <1>2, <1>4, SamplesFit
<1>6. r = call.read + n /\ call' = WithBlock(call)
  BY DEF FlacBlock
<1> HIDE DEF n, o, r
<1>7. CASE BlockWhole(call)
  <2>1. call' = [call EXCEPT !.read = r, !.out = o]
    BY <1>6, <1>7 DEF WithBlock, n, o
  <2>2. call' \in CallType
    BY <1>1, <1>4, <1>5, <2>1 DEF CallType
  <2>3. /\ call'.entry = call.entry /\ call'.stream = s /\ call'.cap = call.cap /\ call'.pc = "new"
        /\ call'.read = r /\ call'.out = o /\ call'.error = call.error
    BY <1>1, <2>1 DEF CallType
  <2>4. Whole(s) => o = 2 * r \/ (call.cap <= o /\ o < 2 * r)
    <3>1. ASSUME call.out = 2 * call.read \/ (call.cap <= call.out /\ call.out < 2 * call.read)
          PROVE  o = 2 * r \/ (call.cap <= o /\ o < 2 * r)
      <4> DEFINE k == call.read
      <4> DEFINE w == call.out
      <4> DEFINE cap == call.cap
      <4>1. /\ k \in Nat /\ w \in Int /\ cap \in Nat /\ n \in Nat /\ r = k + n /\ o \in Int /\ w <= o
            /\ o = w + 2 * n \/ (cap <= o /\ o < w + 2 * n)
            /\ w = 2 * k \/ (cap <= w /\ w < 2 * k)
        BY <1>1, <1>4, <1>5, <1>6, <3>1
      <4> HIDE DEF k, w, cap
      <4>2. o = 2 * r \/ (cap <= o /\ o < 2 * r)
        <5>1. CASE w = 2 * k
          BY <4>1, <5>1
        <5>2. CASE cap <= w /\ w < 2 * k
          BY <4>1, <5>2
        <5> QED
          BY <4>1, <5>1, <5>2
      <4> QED
        BY <4>2 DEF cap
    <3> QED
      BY <1>2, <3>1
  <2>6. o <= 2 * r
    <3> DEFINE k == call.read
    <3> DEFINE w == call.out
    <3> DEFINE cap == call.cap
    <3>1. /\ k \in Nat /\ w \in Int /\ cap \in Nat /\ n \in Nat /\ r = k + n /\ o \in Int /\ w <= 2 * k
          /\ o = w + 2 * n \/ (cap <= o /\ o < w + 2 * n)
      BY <1>1, <1>2, <1>4, <1>5, <1>6
    <3> HIDE DEF k, w, cap
    <3> QED
      BY <3>1
  <2>5. FlacInv'
    <3> HIDE DEF s
    <3> QED
      BY <1>2, <1>4, <1>5, <2>3, <2>4, <2>6 DEF FlacInv
  <2>7. WritesFit'
    <3>1. o <= s.text /\ o <= call.cap + (call.cap % 2)
      <4> DEFINE m == Samples(s)
      <4> DEFINE x == s.text
      <4>1. o \in Int /\ r \in Nat /\ r <= m /\ 2 * m = x /\ m \in Int /\ x \in Nat /\ o <= 2 * r
        BY <1>3, <1>4, <1>5, <2>6 DEF Samples
      <4> HIDE DEF m, x
      <4>2. o <= x
        BY <4>1
      <4> QED
        BY <1>5, <4>2 DEF x
    <3>2. call.cap % 2 = 0 \/ call.cap % 2 = 1
      BY <1>1
    <3> QED
      BY <1>1, <1>3, <1>5, <2>3, <3>1, <3>2 DEF WritesFit, MayOverrun
  <2> QED
    BY <1>1, <2>2, <2>3, <2>5, <2>7 DEF CallInv, DoneInv, Delivered, FailuresAreTold, FreshInv, LzipInv
<1>8. CASE ~BlockWhole(call)
  <2>1. call' = [call EXCEPT !.read = r, !.error = TRUE]
    BY <1>6, <1>8 DEF WithBlock, n
  <2>2. call' \in CallType
    BY <1>1, <1>4, <2>1 DEF CallType
  <2>3. /\ call'.entry = call.entry /\ call'.stream = s /\ call'.cap = call.cap /\ call'.pc = "new"
        /\ call'.read = r /\ call'.out = call.out
    BY <1>1, <2>1 DEF CallType
  <2>4. ~Whole(s)
    <3>1. ~(2 * r < s.good)
      BY <1>6, <1>8 DEF BlockWhole, n
    <3>2. 2 * r <= s.text
      BY <1>3, <1>4 DEF Samples
    <3> QED
      BY <1>3, <1>4, <3>1, <3>2 DEF Whole
  <2>5. FlacInv'
    <3>1. call.out <= 2 * r
      BY <1>1, <1>2, <1>4, <1>6
    <3> HIDE DEF s
    <3> QED
      BY <1>2, <1>4, <2>3, <2>4, <3>1 DEF FlacInv
  <2>6. WritesFit'
    BY <1>1, <2>3 DEF WritesFit, MayOverrun
  <2> QED
    BY <1>1, <2>2, <2>3, <2>5, <2>6 DEF CallInv, DoneInv, Delivered, FailuresAreTold, FreshInv, LzipInv
<1> QED
  BY <1>7, <1>8

(* The loop of a stream without damage ends with all its samples, or with  *)
(* a full destination.                                                     *)
LEMMA FlacReturnKeeps ==
  ASSUME CallInv, FlacReturn
  PROVE  CallInv'
<1> DEFINE s == call.stream
<1> DEFINE n == InBlock(call)
<1> DEFINE bad == FlacFails(call)
<1>1. /\ call \in CallType /\ call.pc = "new" /\ call.entry \in {"flac", "frames"} /\ s \in Streams
      /\ call.out \in Int /\ call.read \in Nat /\ call.cap \in Nat /\ call.cap >= 1 /\ call.memory /\ WritesFit
  BY CallFields DEF CallInv, DoneInv, FlacReturn
<1>2. /\ s.text % 2 = 0 /\ call.read <= Samples(s)
      /\ call.out % 2 = 0 /\ call.out <= call.cap + (call.cap % 2)
      /\ Whole(s) => ~call.error /\ (call.out = 2 * call.read \/ (call.cap <= call.out /\ call.out < 2 * call.read))
  BY <1>1 DEF CallInv, FlacInv
<1>3. s.text \in Nat /\ s.good \in Nat /\ s.units \in Nat
  BY <1>1, StreamFacts
<1> DEFINE ret == IF bad THEN Failure ELSE NoError
<1> DEFINE size == IF bad THEN call.cap ELSE call.out
<1>4. /\ call' \in CallType /\ call'.entry = call.entry /\ call'.stream = s /\ call'.cap = call.cap
      /\ call'.memory = call.memory /\ call'.wide = call.wide /\ call'.out = call.out
      /\ call'.pc = "done" /\ call'.ret = ret /\ call'.size = size
  <2>1. call' = Done(call, [ret |-> ret, size |-> size])
    BY DEF FlacReturn
  <2>2. ret \in {NoError, Failure} /\ size \in Int
    BY <1>1
  <2> HIDE DEF ret, size
  <2> QED
    BY <1>1, <2>1, <2>2, DoneFields
<1>5. NoError # Failure
  BY DEF NoError, Failure
<1>6. FailuresAreTold'
  BY <1>1, <1>4, <1>5 DEF FailuresAreTold
<1>7. ~FlacGoesOn(call)
  BY DEF FlacReturn
<1>8. n \in Nat /\ call.read + n <= Samples(s) /\ 2 * Samples(s) = s.text
  <2> DEFINE t == s.text
  <2> DEFINE k == call.read
  <2>1. t \in Nat /\ t % 2 = 0 /\ k \in Nat /\ k <= t \div 2
    BY <1>1, <1>2, <1>3 DEF Samples
  <2> HIDE DEF t, k, s
  <2>2. Least(Block, (t \div 2) - k) \in Nat /\ k + Least(Block, (t \div 2) - k) <= t \div 2 /\ 2 * (t \div 2) = t
    BY <2>1, BoundFacts DEF Least
  <2> QED
    BY <2>2 DEF t, k, s, InBlock, Samples
<1> DEFINE x == s.text
<1> DEFINE k == call.read
<1> DEFINE o == call.out
<1> DEFINE cap == call.cap
<1> DEFINE m == Samples(s)
<1>9. m \in Int
  BY <1>3 DEF Samples
<1>10. ASSUME Whole(s) PROVE ~NoHeader(call) /\ 2 * (k + n) < s.units
  <2>1. s.good = x + 2 /\ s.units = x + 2
    BY <1>1, <1>10, WholeFacts
  <2>2. s.good # 0
    BY <1>3, <2>1
  <2>3. 2 * (k + n) <= x
    BY <1>1, <1>3, <1>8, <1>9
  <2>4. 2 * (k + n) < x + 2
    <3>1. k + n \in Int
      BY <1>1, <1>8
    <3> HIDE DEF k, n, x
    <3> QED
      BY <1>3, <2>3, <3>1 DEF x
  <2>5. ~NoHeader(call)
    BY <2>2 DEF NoHeader
  <2> QED
    BY <2>1, <2>4, <2>5
<1>11. ASSUME Whole(s) PROVE /\ ~call.error /\ ~NoHeader(call)
                             /\ k >= m \/ (call.entry = "frames" /\ o >= cap)
  BY <1>1, <1>2, <1>7, <1>9, <1>10, <1>11 DEF FlacGoesOn
<1>12. ASSUME Whole(s) PROVE o = 2 * k \/ (cap <= o /\ o < 2 * k)
  BY <1>2, <1>12
<1>13. /\ x \in Nat /\ x % 2 = 0 /\ k \in Nat /\ k <= m /\ 2 * m = x /\ m \in Int
       /\ o \in Int /\ o % 2 = 0 /\ o <= cap + (cap % 2) /\ cap \in Nat
  BY <1>1, <1>2, <1>3, <1>8, <1>9
<1>14. ASSUME Whole(s), call.entry = "flac", x <= cap PROVE ~bad /\ o = x
  <2>1. k >= m /\ (o = 2 * k \/ (cap <= o /\ o < 2 * k))
    BY <1>11, <1>12, <1>14
  <2> HIDE DEF x, k, o, cap, m
  <2>2. o = x
    BY <1>13, <1>14, <2>1
  <2> QED
    BY <1>11, <1>14, <2>2 DEF FlacFails
<1>15. ASSUME Whole(s), call.entry = "frames", x >= cap, cap % 2 = 0 PROVE ~bad /\ o = cap
  <2>1. (k >= m \/ o >= cap) /\ (o = 2 * k \/ (cap <= o /\ o < 2 * k))
    BY <1>11, <1>12, <1>15
  <2>2. o >= cap /\ o = cap
    <3> HIDE DEF x, k, o, cap, m
    <3>1. o >= cap
      BY <1>13, <1>15, <2>1
    <3> QED
      BY <1>13, <1>15, <3>1
  <2>3. ~(call.out < call.cap)
    BY <1>1, <2>2
  <2> QED
    BY <1>11, <1>15, <2>2, <2>3 DEF FlacFails
<1>16. Delivered'
  <2> HIDE DEF bad
  <2>1. CASE call.entry = "flac"
    BY <1>4, <1>14, <2>1 DEF Delivered, Asking
  <2>2. CASE call.entry = "frames"
    BY <1>4, <1>15, <2>2 DEF Delivered, Asking
  <2> QED
    BY <1>1, <2>1, <2>2
<1>17. WritesFit'
  <2>1. ret = NoError => size = call.out
    BY <1>5
  <2> HIDE DEF ret, size
  <2> QED
    BY <1>1, <1>4, <2>1 DEF WritesFit, MayOverrun
<1> QED
  BY <1>1, <1>4, <1>6, <1>16, <1>17 DEF CallInv, DoneInv, FreshInv, LzipInv, FlacInv

(* The table of work memories gives every compressor its own.              *)
LEMMA MemoryFits == WorkMemoryFits
<1> SUFFICES ASSUME NEW a \in Algorithms, NEW level \in LzoLevels
             PROVE  Compressor(a, level).memory = WorkMemory(a, level)
  BY DEF WorkMemoryFits
<1>1. Compressor(a, level).memory =
        IF a \in {"1", "1A", "1B", "1C"} /\ level = 99 THEN <<a, 99>>
        ELSE IF a \in {"1B", "1C", "1F", "1X", "1Y"} /\ level = 999 THEN <<a, 999>>
        ELSE IF a = "1X" /\ level \in {11, 12, 15} THEN <<a, level>>
        ELSE IF a \in {"1Z", "2A"} THEN <<a, 999>> ELSE <<a, 0>>
  BY DEF Compressor
<1>2. CASE a \in {"1", "1A"}
  <2>1. CASE level = 99
    BY <1>1, <1>2, <2>1 DEF WorkMemory
  <2>2. CASE level # 99
    BY <1>1, <1>2, <2>2 DEF WorkMemory
  <2> QED
    BY <2>1, <2>2
<1>3. CASE a \in {"1B", "1C"}
  <2>1. CASE level = 99
    BY <1>1, <1>3, <2>1 DEF WorkMemory
  <2>2. CASE level = 999
    BY <1>1, <1>3, <2>2 DEF WorkMemory
  <2>3. CASE level \notin {99, 999}
    BY <1>1, <1>3, <2>3 DEF WorkMemory
  <2> QED
    BY <2>1, <2>2, <2>3
<1>4. CASE a \in {"1F", "1Y"}
  <2>1. CASE level = 999
    BY <1>1, <1>4, <2>1 DEF WorkMemory
  <2>2. CASE level # 999
    BY <1>1, <1>4, <2>2 DEF WorkMemory
  <2> QED
    BY <2>1, <2>2
<1>5. CASE a = "1X"
  BY <1>1, <1>5 DEF WorkMemory
<1>6. CASE a \in {"1Z", "2A"}
  BY <1>1, <1>6 DEF WorkMemory
<1> QED
  BY <1>2, <1>3, <1>4, <1>5, <1>6 DEF Algorithms

LEMMA CallStepKeeps ==
  ASSUME CallInv, CallStep
  PROVE  CallInv'
BY CallAtOnceKeeps, CallRefusedKeeps, LzipMovesKeep, LzipTurnKeeps, LzipDrainKeeps, LzipReturnKeeps, FlacBlockKeeps, FlacReturnKeeps
   DEF CallStep, LzipStep, CallInv

-----------------------------------------------------------------------------
(* The beginning of a text, and how it grows.                              *)
LEMMA BeginningFacts ==
  ASSUME NEW s \in Seq(Int), NEW n \in 0 .. Len(s)
  PROVE  /\ Len(s) \in Nat /\ n \in Nat
         /\ SubSeq(s, 1, n) \in Seq(Int) /\ Len(SubSeq(s, 1, n)) = n
         /\ SubSeq(s, 1, 0) = <<>> /\ SubSeq(s, 1, Len(s)) = s
         /\ \A i \in 1 .. n : SubSeq(s, 1, n)[i] = s[i]
<1>1. Len(s) \in Nat
  BY LenProperties
<1>2. \A i \in 1 .. n : s[i] \in Int
  BY <1>1, ElementOfSeq
<1>3. /\ SubSeq(s, 1, n) \in Seq(Int) /\ Len(SubSeq(s, 1, n)) = (IF 1 <= n THEN n - 1 + 1 ELSE 0)
      /\ \A i \in 1 .. n - 1 + 1 : SubSeq(s, 1, n)[i] = s[1 + i - 1]
  <2> DEFINE m == 1
  <2>1. n \in Int /\ m \in Int /\ \A i \in m .. n : s[i] \in Int
    BY <1>1, <1>2
  <2> HIDE DEF m
  <2>2. /\ SubSeq(s, m, n) \in Seq(Int) /\ Len(SubSeq(s, m, n)) = (IF m <= n THEN n - m + 1 ELSE 0)
        /\ \A i \in 1 .. n - m + 1 : SubSeq(s, m, n)[i] = s[m + i - 1]
    BY <2>1, SubSeqProperties, SMTT(30)
  <2> QED
    BY <2>2 DEF m
<1>4. SubSeq(s, 1, 0) = <<>>
  BY SubSeqEmpty
<1>5. SubSeq(s, 1, Len(s)) = s
  BY SubSeqFull
<1>6. n \in Nat /\ n - 1 + 1 = n /\ (1 <= n \/ n = 0) /\ \A i \in 1 .. n : 1 + i - 1 = i
  BY <1>1
<1> QED
  BY <1>1, <1>3, <1>4, <1>5, <1>6

LEMMA BeginningGrows ==
  ASSUME NEW s \in Seq(Int), NEW p \in Nat, NEW n \in Nat, p + n <= Len(s)
  PROVE  SubSeq(s, 1, p) \o SubSeq(s, p + 1, p + n) = SubSeq(s, 1, p + n)
<1>1. Len(s) \in Nat
  BY LenProperties
<1>2. 1 \in 1 .. Len(s) + 1 /\ p \in 1 - 1 .. Len(s) /\ p + n \in p .. Len(s)
  BY <1>1
<1> QED
  BY <1>2, ConcatAdjacentSubSeq

(* Pieces of a header and of a source, in what they make together.         *)
LEMMA HeaderPieces ==
  ASSUME NEW h \in Seq(Int), NEW s \in Seq(Int), NEW m \in Nat \ {0}, NEW n \in Nat, n <= Len(h)
  PROVE  SubSeq(h, m, n) = SubSeq(h \o s, m, n)
<1>1. Len(h) \in Nat
  BY LenProperties
<1>2. CASE n < m
  BY <1>2, SubSeqEmpty
<1>3. CASE m <= n
  <2>1. m \in 1 .. Len(h) /\ n \in 1 .. Len(h)
    BY <1>1, <1>3
  <2> QED
    BY <2>1, SubSeqOfConcat1
<1> QED
  BY <1>2, <1>3

LEMMA SourcePieces ==
  ASSUME NEW h \in Seq(Int), NEW s \in Seq(Int), NEW p \in Nat, NEW b \in Nat, b <= Len(s),
         NEW p1 \in Nat, p1 = p + 1, NEW q \in Nat, q = Len(h) + p + 1, NEW e \in Nat, e = Len(h) + b
  PROVE  SubSeq(s, p1, b) = SubSeq(h \o s, q, e)
<1>1. Len(h) \in Nat /\ Len(s) \in Nat
  BY LenProperties
<1>2. CASE b < p1
  <2>1. e < q
    BY <1>1, <1>2
  <2>2. SubSeq(s, p1, b) = <<>>
    BY <1>2, SubSeqEmpty
  <2>3. SubSeq(h \o s, q, e) = <<>>
    BY <2>1, SubSeqEmpty
  <2> QED
    BY <2>2, <2>3
<1>3. CASE p1 <= b
  <2>1. q \in Len(h) + 1 .. Len(h) + Len(s) /\ e \in Len(h) + 1 .. Len(h) + Len(s) /\ q - Len(h) = p1 /\ e - Len(h) = b
    BY <1>1, <1>3
  <2>2. SubSeq(h \o s, q, e) = SubSeq(s, q - Len(h), e - Len(h))
    BY <2>1, SubSeqOfConcat2, SMTT(30)
  <2> QED
    BY <2>1, <2>2
<1>4. b < p1 \/ p1 <= b
  OBVIOUS
<1> QED
  BY <1>2, <1>3, <1>4, Zenon

(* What a reader delivers, and what it has delivered.                      *)
LEMMA TextFacts ==
  ASSUME reader \in ReaderType
  PROVE  /\ TextOf(reader) \in Seq(Int) /\ HeaderOf(reader) \in Seq(Int)
         /\ Len(HeaderOf(reader)) \in Nat /\ Len(Source) \in Nat /\ Len(Header) \in Nat
         /\ Len(TextOf(reader)) = Len(HeaderOf(reader)) + Len(Source)
         /\ reader.kind = "flac" => HeaderOf(reader) = Header
         /\ reader.kind # "flac" => HeaderOf(reader) = <<>> /\ Len(HeaderOf(reader)) = 0 /\ TextOf(reader) = Source
<1>1. HeaderOf(reader) \in Seq(Int) /\ Source \in Seq(Int) /\ Header \in Seq(Int)
  <2>1. <<>> \in Seq(Int)
    BY EmptySeq
  <2> QED
    BY <2>1, LibraryCallsAssumption DEF HeaderOf
<1>2. Len(HeaderOf(reader)) \in Nat /\ Len(Source) \in Nat /\ Len(Header) \in Nat
  BY <1>1, LenProperties
<1>3. TextOf(reader) \in Seq(Int) /\ Len(TextOf(reader)) = Len(HeaderOf(reader)) + Len(Source)
  BY <1>1, ConcatProperties DEF TextOf
<1>4. reader.kind = "flac" => HeaderOf(reader) = Header
  BY DEF HeaderOf
<1>5. reader.kind # "flac" => HeaderOf(reader) = <<>> /\ Len(HeaderOf(reader)) = 0 /\ TextOf(reader) = Source
  <2>1. <<>> \o Source = Source
    BY ConcatEmptySeq
  <2>2. Len(<<>>) = 0
    BY EmptySeq
  <2> QED
    BY <2>1, <2>2 DEF HeaderOf, TextOf
<1> QED
  BY <1>1, <1>2, <1>3, <1>4, <1>5

LEMMA ReaderDelivers ==
  ASSUME ReaderInv
  PROVE  ReadsAreInOrder
<1> DEFINE n == reader.hdr + reader.pos - Len(reader.pushed)
<1> DEFINE h == Len(HeaderOf(reader))
<1>1. reader \in ReaderType
  BY DEF ReaderInv
<1>2. /\ reader.hdr \in Nat /\ reader.hdr <= h /\ reader.pos \in 0 .. Len(Source)
      /\ h \in Nat /\ Len(Source) \in Nat /\ Len(TextOf(reader)) = h + Len(Source)
      /\ TextOf(reader) \in Seq(Int)
  BY <1>1, TextFacts DEF ReaderInv, ReaderType
<1>3. Len(reader.pushed) = 0 \/ (Len(reader.pushed) = 1 /\ reader.pos > 0)
  <2>1. CASE reader.pushed = <<>>
    BY <2>1, EmptySeq
  <2>2. CASE reader.pos > 0 /\ reader.pushed = <<Source[reader.pos]>>
    <3>1. \A x : Len(<<x>>) = 1
      OBVIOUS
    <3> QED
      BY <2>2, <3>1
  <2> QED
    BY <2>1, <2>2 DEF ReaderInv
<1>4. n \in 0 .. Len(TextOf(reader))
  <2> DEFINE a == reader.hdr
  <2> DEFINE b == reader.pos
  <2> DEFINE c == Len(reader.pushed)
  <2> DEFINE l == Len(Source)
  <2>1. a \in Nat /\ a <= h /\ b \in 0 .. l /\ h \in Nat /\ l \in Nat /\ (c = 0 \/ (c = 1 /\ b > 0))
    BY <1>2, <1>3
  <2> HIDE DEF a, b, c, l, h
  <2>2. a + b - c \in 0 .. h + l
    BY <2>1
  <2> QED
    BY <1>2, <2>2 DEF a, b, c, l
<1>5. reader.got = SubSeq(TextOf(reader), 1, n)
  BY DEF ReaderInv
<1> HIDE DEF n
<1>6. Len(reader.got) = n
  BY <1>2, <1>4, <1>5, BeginningFacts
<1>7. ASSUME reader.ended, reader.kind # "wavpack" PROVE reader.got = TextOf(reader)
  <2>1. reader.hdr = h /\ reader.pos = Len(Source) /\ reader.pushed = <<>>
    BY <1>7 DEF ReaderInv
  <2>2. n = Len(TextOf(reader))
    <3>1. Len(reader.pushed) = 0
      BY <2>1, EmptySeq
    <3> HIDE DEF h
    <3> QED
      BY <1>2, <2>1, <3>1 DEF n
  <2> QED
    BY <1>2, <1>5, <2>2, SubSeqFull
<1> QED
  BY <1>5, <1>6, <1>7 DEF ReadsAreInOrder, TextOf

(* The fields of a reader.                                                 *)
LEMMA ReaderFields ==
  ASSUME NEW r \in ReaderType
  PROVE  /\ r.kind \in {"none", "flac", "plain", "wavpack"} /\ r.hdr \in 0 .. Len(Header) /\ r.pos \in 0 .. Len(Source)
         /\ r.pushed \in Seq(Int) /\ r.reads \in Nat /\ r.got \in Seq(Int) /\ r.ended \in BOOLEAN
         /\ r.hdr \in Nat /\ r.pos \in Nat /\ Len(Header) \in Nat /\ Len(Source) \in Nat
<1>1. Len(Header) \in Nat /\ Len(Source) \in Nat
  BY LenProperties
<1>2. /\ r.kind \in {"none", "flac", "plain", "wavpack"} /\ r.hdr \in 0 .. Len(Header) /\ r.pos \in 0 .. Len(Source)
      /\ r.pushed \in Seq(Int) /\ r.reads \in Nat /\ r.got \in Seq(Int) /\ r.ended \in BOOLEAN
  BY DEF ReaderType
<1> QED
  BY <1>1, <1>2

(* A step that delivers up to hdr and pos.                                 *)
LEMMA ReaderSuffices ==
  ASSUME reader \in ReaderType, reader' \in ReaderType, reader'.kind = reader.kind,
         NEW hdr \in Nat, NEW pos \in Nat, reader'.hdr = hdr, reader'.pos = pos, reader'.pushed = <<>>,
         hdr <= Len(HeaderOf(reader)), pos > 0 => hdr = Len(HeaderOf(reader)),
         reader'.got = SubSeq(TextOf(reader), 1, hdr + pos),
         reader'.ended /\ reader.kind # "wavpack" => hdr = Len(HeaderOf(reader)) /\ pos = Len(Source)
  PROVE  ReaderInv'
<1>1. HeaderOf(reader)' = HeaderOf(reader) /\ TextOf(reader)' = TextOf(reader)
  BY DEF HeaderOf, TextOf
<1>2. Len(reader'.pushed) = 0
  BY EmptySeq
<1>3. hdr + pos - 0 = hdr + pos
  OBVIOUS
<1> QED
  BY <1>1, <1>2, <1>3 DEF ReaderInv

ReadBy(r) == reader' = [r EXCEPT !.reads = @ + 1]

(* The made-up header first, then as much of the source as is still asked  *)
(* for: how much of either that is, and what the pieces make together.     *)
LEMMA HeaderGrows ==
  ASSUME NEW X \in Seq(Int), NEW h \in Nat, NEW p \in Nat, NEW a \in Nat, h <= a, p > 0 => h = a,
         NEW h1 \in Nat, h1 = h + 1, NEW f \in Nat, f = h + p, NEW g \in Nat, g = a + p, g <= Len(X)
  PROVE  SubSeq(X, 1, f) \o SubSeq(X, h1, a) = SubSeq(X, 1, g)
<1>1. CASE p > 0
  <2>1. a < h1 /\ a \in Int /\ h1 \in Int /\ f = g
    BY <1>1
  <2>2. SubSeq(X, h1, a) = <<>>
    BY <2>1, SubSeqEmpty
  <2>3. f \in 0 .. Len(X)
    BY <2>1, LenProperties
  <2>4. SubSeq(X, 1, f) \in Seq(Int)
    BY <2>3, BeginningFacts
  <2>5. SubSeq(X, 1, f) \o <<>> = SubSeq(X, 1, f)
    BY <2>4, ConcatEmptySeq
  <2> QED
    BY <2>1, <2>2, <2>5
<1>2. CASE p = 0
  <2> DEFINE n == a - h
  <2>1. n \in Nat /\ f = h /\ g = a /\ h1 = h + 1 /\ a = h + n /\ h + n <= Len(X)
    BY <1>2
  <2> HIDE DEF n
  <2>2. SubSeq(X, 1, h) \o SubSeq(X, h + 1, h + n) = SubSeq(X, 1, h + n)
    BY <2>1, BeginningGrows
  <2> QED
    BY <2>1, <2>2
<1>3. p > 0 \/ p = 0
  OBVIOUS
<1> QED
  BY <1>1, <1>2, <1>3, Zenon

LEMMA SourceGrows ==
  ASSUME NEW X \in Seq(Int), NEW H \in Nat, NEW a \in Nat, NEW p \in Nat, NEW src \in Nat,
         H + p + src <= Len(X), src > 0 => a = H, a <= H,
         NEW f \in Nat, f = a + p, NEW q \in Nat, q = H + p + 1, NEW e \in Nat, e = H + p + src,
         NEW g \in Nat, g = a + (p + src)
  PROVE  SubSeq(X, 1, f) \o SubSeq(X, q, e) = SubSeq(X, 1, g)
<1>1. CASE src = 0
  <2>1. e < q /\ e \in Int /\ q \in Int /\ f = g
    BY <1>1
  <2>2. SubSeq(X, q, e) = <<>>
    BY <2>1, SubSeqEmpty
  <2>3. f \in 0 .. Len(X)
    BY <1>1, LenProperties
  <2>4. SubSeq(X, 1, f) \in Seq(Int)
    BY <2>3, BeginningFacts
  <2>5. SubSeq(X, 1, f) \o <<>> = SubSeq(X, 1, f)
    BY <2>4, ConcatEmptySeq
  <2> QED
    BY <2>1, <2>2, <2>5
<1>2. CASE src > 0
  <2>1. q = f + 1 /\ e = f + src /\ g = f + src /\ f + src <= Len(X)
    BY <1>2
  <2>2. SubSeq(X, 1, f) \o SubSeq(X, f + 1, f + src) = SubSeq(X, 1, f + src)
    BY <2>1, BeginningGrows
  <2> QED
    BY <2>1, <2>2
<1>3. src = 0 \/ src > 0
  OBVIOUS
<1> QED
  BY <1>1, <1>2, <1>3, Zenon

LEMMA PiecesJoin ==
  ASSUME NEW X \in Seq(Int), NEW H \in Nat, NEW N \in Nat, Len(X) = H + N,
         NEW h \in Nat, NEW p \in Nat, NEW a \in Nat, NEW b \in Nat, h <= a, p <= b,
         a <= H, b <= N, p > 0 => h = a, b > p => a = H,
         NEW h1 \in Nat, h1 = h + 1, NEW q \in Nat, q = H + p + 1, NEW e2 \in Nat, e2 = H + b,
         NEW f \in Nat, f = h + p, NEW e \in Nat, e = a + b
  PROVE  /\ SubSeq(X, 1, f) \o SubSeq(X, h1, a) \o SubSeq(X, q, e2) = SubSeq(X, 1, e)
         /\ SubSeq(X, 1, e) \in Seq(Int)
<1> DEFINE src == b - p
<1> DEFINE f2 == a + p
<1>1. /\ src \in Nat /\ e2 = H + p + src /\ e = a + (p + src) /\ H + p + src <= Len(X)
      /\ f2 \in Nat /\ f2 = a + p /\ f2 <= Len(X)
      /\ e \in 0 .. Len(X)
  OBVIOUS
<1>2. src > 0 => a = H
  OBVIOUS
<1> HIDE DEF src, f2
<1>3. SubSeq(X, 1, f) \o SubSeq(X, h1, a) = SubSeq(X, 1, f2)
  BY <1>1, HeaderGrows
<1>4. SubSeq(X, 1, f2) \o SubSeq(X, q, e2) = SubSeq(X, 1, e)
  BY <1>1, <1>2, SourceGrows
<1>5. SubSeq(X, 1, e) \in Seq(Int)
  BY <1>1, BeginningFacts
<1> QED
  BY <1>3, <1>4, <1>5

LEMMA FlacReadKeeps ==
  ASSUME ReaderInv, reader.kind = "flac", NEW requested \in Nat \ {0},
         ReadBy(FlacRead(reader, requested))
  PROVE  ReaderInv'
<1> DEFINE H == Len(Header)
<1> DEFINE N == Len(Source)
<1> DEFINE h == reader.hdr
<1> DEFINE p == reader.pos
<1> DEFINE hdr == Least(H - h, requested)
<1> DEFINE src == Least(N - p, requested - hdr)
<1> DEFINE X == TextOf(reader)
<1>1. reader \in ReaderType
  BY DEF ReaderInv
<1>2. H \in Nat /\ N \in Nat /\ h \in 0 .. H /\ p \in 0 .. N
  BY <1>1, ReaderFields
<1>3. /\ X = Header \o Source /\ HeaderOf(reader) = Header /\ Header \in Seq(Int) /\ Source \in Seq(Int)
  BY <1>1, TextFacts DEF TextOf
<1>4. p > 0 => h = H
  BY <1>3 DEF ReaderInv
<1>20. X \in Seq(Int) /\ Len(X) = H + N
  BY <1>1, TextFacts
<1>5. reader.pushed = <<>> /\ reader.got = SubSeq(X, 1, h + p)
  <2>1. reader.pushed = <<>>
    BY DEF ReaderInv
  <2>2. Len(reader.pushed) = 0
    BY <2>1, EmptySeq
  <2>3. h + p - 0 = h + p
    BY <1>2
  <2> QED
    BY <2>1, <2>2, <2>3 DEF ReaderInv
<1>6. requested \in Nat /\ requested >= 1
  OBVIOUS
<1>7. hdr = Least(H - h, requested) /\ src = Least(N - p, requested - hdr)
  OBVIOUS
<1> DEFINE h1 == h + 1
<1> DEFINE p1 == p + 1
<1> DEFINE f == h + p
<1> DEFINE a == h + hdr
<1> DEFINE b == p + src
<1> DEFINE e == a + b
<1> DEFINE got == SubSeq(X, 1, f) \o SubSeq(Header, h1, a) \o SubSeq(Source, p1, b)
<1> DEFINE ended == hdr + src = 0
<1>8. reader' = [reader EXCEPT !.hdr = a, !.pos = b, !.ended = ended, !.got = got, !.reads = @ + 1]
  BY <1>5 DEF ReadBy, FlacRead, RestOf
<1>9. a = h + hdr /\ b = p + src /\ h1 = h + 1 /\ p1 = p + 1 /\ f = h + p /\ e = a + b
  OBVIOUS
<1>10. (ended <=> hdr + src = 0) /\ ended \in BOOLEAN
  OBVIOUS
<1>19. got = SubSeq(X, 1, f) \o SubSeq(Header, h1, a) \o SubSeq(Source, p1, b)
  OBVIOUS
<1> HIDE DEF H, N, h, p, h1, p1, f, hdr, src, a, b, e, ended, got, X
<1>11. h \in Nat /\ p \in Nat /\ h <= H /\ p <= N
  BY <1>2
<1>12. /\ hdr \in Nat /\ src \in Nat /\ a <= H /\ b <= N
       /\ hdr < requested => a = H
       /\ src > 0 => hdr < requested
       /\ hdr + src = 0 => a = H /\ b = N
       /\ p > 0 => hdr = 0
  <2>1. /\ hdr \in Nat /\ hdr <= requested /\ a <= H /\ (hdr < requested => a = H)
    BY <1>2, <1>6, <1>7, <1>9, <1>11 DEF Least
  <2>2. src \in Nat /\ src <= requested - hdr /\ b <= N /\ (src < requested - hdr => b = N)
    BY <1>2, <1>6, <1>7, <1>9, <1>11, <2>1 DEF Least
  <2>3. p > 0 => hdr = 0
    BY <1>2, <1>4, <1>9, <1>11, <2>1
  <2>4. ASSUME src > 0 PROVE hdr < requested
    BY <1>6, <2>1, <2>2, <2>4
  <2>5. ASSUME hdr + src = 0 PROVE a = H /\ b = N
    <3>1. hdr = 0 /\ src = 0
      BY <2>1, <2>2, <2>5
    <3> QED
      BY <1>6, <2>1, <2>2, <3>1
  <2> QED
    BY <2>1, <2>2, <2>3, <2>4, <2>5, Zenon
<1>13. /\ a \in Nat /\ b \in Nat /\ e \in Nat /\ f \in Nat /\ h1 \in Nat /\ p1 \in Nat
       /\ h <= a /\ p <= b
       /\ p > 0 => h = a
       /\ b > p => a = H
       /\ b > 0 => a = H
  <2>1. a \in Nat /\ b \in Nat /\ e \in Nat /\ f \in Nat /\ h1 \in Nat /\ p1 \in Nat /\ h <= a /\ p <= b
    BY <1>9, <1>11, <1>12
  <2>2. p > 0 => h = a
    BY <1>9, <1>11, <1>12
  <2>3. b > p => a = H
    BY <1>9, <1>11, <1>12
  <2>4. b > 0 => a = H
    <3>1. b > 0 => p > 0 \/ b > p
      BY <1>11, <2>1
    <3> QED
      BY <1>4, <2>2, <2>3, <3>1
  <2> QED
    BY <2>1, <2>2, <2>3, <2>4
<1>14. got = SubSeq(X, 1, e) /\ got \in Seq(Int)
  <2> DEFINE q == H + p + 1
  <2> DEFINE e2 == H + b
  <2>1. SubSeq(Header, h1, a) = SubSeq(X, h1, a)
    <3>1. h1 \in Nat \ {0} /\ a \in Nat /\ a <= Len(Header)
      BY <1>9, <1>11, <1>12, <1>13 DEF H
    <3>2. SubSeq(Header, h1, a) = SubSeq(Header \o Source, h1, a)
      BY <1>3, <3>1, HeaderPieces
    <3> QED
      BY <1>3, <3>2
  <2>3. q \in Nat /\ q = H + p + 1 /\ e2 \in Nat /\ e2 = H + b
    BY <1>2, <1>11, <1>13
  <2> HIDE DEF q, e2
  <2>2. SubSeq(Source, p1, b) = SubSeq(X, q, e2)
    <3>1. /\ p \in Nat /\ b \in Nat /\ b <= Len(Source) /\ p1 \in Nat /\ p1 = p + 1
          /\ q \in Nat /\ q = Len(Header) + p + 1 /\ e2 \in Nat /\ e2 = Len(Header) + b
      BY <1>9, <1>11, <1>12, <1>13, <2>3 DEF H, N
    <3>2. SubSeq(Source, p1, b) = SubSeq(Header \o Source, q, e2)
      <4>1. Header \in Seq(Int) /\ Source \in Seq(Int)
        BY <1>3
      <4> QED
        BY <3>1, <4>1, SourcePieces, SMTT(30)
    <3> QED
      BY <1>3, <3>2
  <2>4. /\ X \in Seq(Int) /\ H \in Nat /\ N \in Nat /\ Len(X) = H + N
        /\ h \in Nat /\ p \in Nat /\ a \in Nat /\ b \in Nat /\ h <= a /\ p <= b
        /\ a <= H /\ b <= N /\ (p > 0 => h = a) /\ (b > p => a = H)
        /\ h1 \in Nat /\ h1 = h + 1 /\ q \in Nat /\ q = H + p + 1 /\ e2 \in Nat /\ e2 = H + b
        /\ f \in Nat /\ f = h + p /\ e \in Nat /\ e = a + b
    BY <1>2, <1>9, <1>11, <1>12, <1>13, <1>20, <2>3
  <2>5. /\ SubSeq(X, 1, f) \o SubSeq(X, h1, a) \o SubSeq(X, q, e2) = SubSeq(X, 1, e)
        /\ SubSeq(X, 1, e) \in Seq(Int)
    BY <2>4, PiecesJoin
  <2> QED
    BY <1>19, <2>1, <2>2, <2>5
<1>15. a \in 0 .. H /\ b \in 0 .. N /\ (b > 0 => a = H) /\ (ended => a = H /\ b = N)
  BY <1>2, <1>10, <1>12, <1>13
<1>16. reader' \in ReaderType
  <2> DEFINE k == reader.reads + 1
  <2>1. k \in Nat
    BY <1>1, ReaderFields
  <2>2. reader' = [reader EXCEPT !.hdr = a, !.pos = b, !.ended = ended, !.got = got, !.reads = k]
    BY <1>8
  <2>3. a \in 0 .. Len(Header) /\ b \in 0 .. Len(Source)
    BY <1>15 DEF H, N
  <2> HIDE DEF k
  <2> QED
    BY <1>1, <1>10, <1>14, <2>1, <2>2, <2>3 DEF ReaderType
<1>17. /\ reader'.kind = reader.kind /\ reader'.hdr = a /\ reader'.pos = b /\ reader'.pushed = <<>>
       /\ reader'.got = got /\ reader'.ended = ended
  BY <1>1, <1>5, <1>8 DEF ReaderType
<1>18. a \in Nat /\ b \in Nat /\ a <= H
  BY <1>2, <1>15
<1> QED
  BY <1>1, <1>3, <1>9, <1>14, <1>15, <1>16, <1>17, <1>18, ReaderSuffices DEF H, N, X

(* The other readers have no header.                                       *)
LEMMA PlainFacts ==
  ASSUME ReaderInv, reader.kind # "flac"
  PROVE  /\ reader \in ReaderType /\ Source \in Seq(Int) /\ Len(Source) \in Nat
         /\ reader.hdr = 0 /\ reader.pos \in 0 .. Len(Source) /\ reader.got \in Seq(Int) /\ reader.reads \in Nat
         /\ reader.pushed = <<>> => reader.got = SubSeq(Source, 1, reader.pos)
         /\ reader.pushed # <<>> =>
              /\ reader.pos > 0 /\ reader.pushed = <<Source[reader.pos]>>
              /\ reader.got = SubSeq(Source, 1, reader.pos - 1)
<1>1. reader \in ReaderType
  BY DEF ReaderInv
<1>2. /\ TextOf(reader) = Source /\ Len(HeaderOf(reader)) = 0
  BY <1>1, TextFacts
<1>3. /\ reader.hdr \in Nat /\ reader.pos \in 0 .. Len(Source) /\ reader.got \in Seq(Int) /\ reader.reads \in Nat
      /\ Len(Source) \in Nat /\ Source \in Seq(Int)
  BY <1>1, ReaderFields, LibraryCallsAssumption
<1>4. reader.hdr = 0
  <2>1. reader.hdr <= 0
    BY <1>2 DEF ReaderInv
  <2> QED
    BY <1>3, <2>1
<1>5. reader.got = SubSeq(Source, 1, 0 + reader.pos - Len(reader.pushed))
  BY <1>2, <1>4 DEF ReaderInv
<1>6. ASSUME reader.pushed = <<>> PROVE reader.got = SubSeq(Source, 1, reader.pos)
  <2>1. Len(reader.pushed) = 0
    BY <1>6, EmptySeq
  <2>2. 0 + reader.pos - 0 = reader.pos
    BY <1>3
  <2> QED
    BY <1>5, <2>1, <2>2
<1>7. ASSUME reader.pushed # <<>>
      PROVE  reader.pos > 0 /\ reader.pushed = <<Source[reader.pos]>> /\ reader.got = SubSeq(Source, 1, reader.pos - 1)
  <2>1. reader.pos > 0 /\ reader.pushed = <<Source[reader.pos]>>
    BY <1>7 DEF ReaderInv
  <2>2. \A x : Len(<<x>>) = 1
    OBVIOUS
  <2>3. Len(reader.pushed) = 1
    BY <2>1, <2>2
  <2>4. 0 + reader.pos - 1 = reader.pos - 1
    BY <1>3
  <2> QED
    BY <1>5, <2>1, <2>3, <2>4
<1> QED
  BY <1>1, <1>3, <1>4, <1>6, <1>7

LEMMA PlainSuffices ==
  ASSUME reader \in ReaderType, reader' \in ReaderType, reader'.kind = reader.kind, reader.kind # "flac",
         reader'.hdr = 0, NEW pos \in Nat, reader'.pos = pos,
         \/ reader'.pushed = <<>> /\ reader'.got = SubSeq(Source, 1, pos)
         \/ /\ reader.kind = "wavpack" /\ pos > 0 /\ reader'.pushed = <<Source[pos]>>
            /\ reader'.got = SubSeq(Source, 1, pos - 1),
         reader'.ended /\ reader.kind # "wavpack" => pos = Len(Source)
  PROVE  ReaderInv'
<1>1. TextOf(reader) = Source /\ Len(HeaderOf(reader)) = 0 /\ Len(Source) \in Nat
  BY TextFacts
<1>2. HeaderOf(reader)' = HeaderOf(reader) /\ TextOf(reader)' = TextOf(reader)
  BY DEF HeaderOf, TextOf
<1>3. \A x : Len(<<x>>) = 1
  OBVIOUS
<1>4. Len(<<>>) = 0
  BY EmptySeq
<1>5. 0 + pos - 0 = pos /\ 0 + pos - 1 = pos - 1
  OBVIOUS
<1>6. reader'.got = SubSeq(Source, 1, 0 + pos - Len(reader'.pushed))
  <2>1. CASE reader'.pushed = <<>> /\ reader'.got = SubSeq(Source, 1, pos)
    BY <1>4, <1>5, <2>1
  <2>2. CASE /\ reader.kind = "wavpack" /\ pos > 0 /\ reader'.pushed = <<Source[pos]>>
             /\ reader'.got = SubSeq(Source, 1, pos - 1)
    BY <1>3, <1>5, <2>2
  <2> QED
    BY <2>1, <2>2
<1>7. 0 <= 0
  OBVIOUS
<1> QED
  BY <1>1, <1>2, <1>6, <1>7 DEF ReaderInv

(* What remains of the source, as much as is asked for.                    *)
LEMMA PlainReadKeeps ==
  ASSUME ReaderInv, reader.kind # "flac", reader.pushed = <<>>, NEW requested \in Nat \ {0},
         ReadBy(PlainRead(reader, requested))
  PROVE  ReaderInv'
<1> DEFINE N == Len(Source)
<1> DEFINE p == reader.pos
<1> DEFINE n == Least(N - p, requested)
<1> DEFINE b == p + n
<1> DEFINE k == reader.reads + 1
<1> DEFINE ended == n = 0
<1> DEFINE got == SubSeq(Source, 1, p) \o SubSeq(Source, p + 1, p + n)
<1>1. /\ reader \in ReaderType /\ Source \in Seq(Int) /\ N \in Nat /\ reader.hdr = 0 /\ p \in 0 .. N
      /\ reader.reads \in Nat /\ reader.got = SubSeq(Source, 1, p)
  BY PlainFacts
<1>2. k \in Nat
  BY <1>1
<1>3. reader' = [reader EXCEPT !.pos = b, !.ended = ended, !.got = got, !.reads = k]
  BY <1>1 DEF ReadBy, PlainRead
<1>4. b = p + n /\ (ended <=> n = 0) /\ ended \in BOOLEAN /\ n = Least(N - p, requested)
  OBVIOUS
<1>5. got = SubSeq(Source, 1, p) \o SubSeq(Source, p + 1, p + n)
  OBVIOUS
<1> HIDE DEF N, p, n, b, k, ended, got
<1>6. p \in Nat /\ n \in Nat /\ b \in 0 .. N /\ (n = 0 => b = N)
  BY <1>1, <1>4 DEF Least
<1>7. got = SubSeq(Source, 1, b)
  <2>1. Source \in Seq(Int) /\ p \in Nat /\ n \in Nat /\ p + n <= Len(Source)
    BY <1>1, <1>4, <1>6 DEF N
  <2>2. SubSeq(Source, 1, p) \o SubSeq(Source, p + 1, p + n) = SubSeq(Source, 1, p + n)
    BY <2>1, BeginningGrows
  <2> QED
    BY <1>4, <1>5, <2>2
<1>8. b \in 0 .. Len(Source)
  BY <1>6 DEF N
<1>9. got \in Seq(Int)
  BY <1>1, <1>7, <1>8, BeginningFacts
<1>10. reader' \in ReaderType
  BY <1>1, <1>2, <1>3, <1>4, <1>8, <1>9 DEF ReaderType
<1>11. /\ reader'.kind = reader.kind /\ reader'.hdr = 0 /\ reader'.pos = b /\ reader'.pushed = <<>>
       /\ reader'.got = got /\ reader'.ended = ended
  BY <1>1, <1>3 DEF ReaderType
<1>12. b \in Nat
  BY <1>1, <1>6
<1> QED
  BY <1>1, <1>4, <1>6, <1>7, <1>10, <1>11, <1>12, PlainSuffices DEF N

(* The byte given back is read again before what remains; at the end of    *)
(* the source it is not.                                                   *)
LEMMA PushedReadKeeps ==
  ASSUME ReaderInv, reader.kind = "wavpack", reader.pushed # <<>>, NEW requested \in Nat \ {0},
         ReadBy(WavpackRead(reader, requested))
  PROVE  ReaderInv'
<1> DEFINE N == Len(Source)
<1> DEFINE p == reader.pos
<1> DEFINE n == Least(N - p, requested)
<1> DEFINE k == reader.reads + 1
<1>1. /\ reader \in ReaderType /\ Source \in Seq(Int) /\ N \in Nat /\ reader.hdr = 0 /\ p \in 0 .. N
      /\ reader.reads \in Nat /\ reader.got \in Seq(Int)
      /\ p > 0 /\ reader.pushed = <<Source[p]>> /\ reader.got = SubSeq(Source, 1, p - 1)
  BY PlainFacts
<1>2. k \in Nat
  BY <1>1
<1>3. n \in Nat /\ p + n <= N /\ p \in Nat
  <2>1. n = Least(N - p, requested)
    OBVIOUS
  <2> HIDE DEF N, p, n
  <2> QED
    BY <1>1, <2>1 DEF Least
<1>4. CASE n > 0
  <2> DEFINE m == n - 1
  <2> DEFINE b == p + m
  <2> DEFINE rest == SubSeq(Source, p + 1, p + m)
  <2> DEFINE got == reader.got \o <<Source[p]>> \o rest
  <2>1. reader' = [reader EXCEPT !.pushed = <<>>, !.pos = b, !.got = got, !.reads = k]
    BY <1>1, <1>4 DEF ReadBy, WavpackRead
  <2>2. m \in Nat /\ b = p + m /\ b \in 0 .. N /\ b \in Nat
    <3>1. m = n - 1
      OBVIOUS
    <3> HIDE DEF N, p, n, m
    <3> QED
      BY <1>1, <1>3, <1>4, <3>1
  <2>3. SubSeq(Source, 1, p - 1) \o <<Source[p]>> = SubSeq(Source, 1, p)
    <3> DEFINE one == 1
    <3>1. one \in 1 .. Len(Source) /\ p \in one .. Len(Source)
      BY <1>1
    <3> HIDE DEF one, p
    <3>2. SubSeq(Source, one, p) = SubSeq(Source, one, p - 1) \o <<Source[p]>>
      BY <1>1, <3>1, SubSeqRecursiveSecond
    <3> QED
      BY <3>2 DEF one
  <2> HIDE DEF k, m
  <2>4. got = SubSeq(Source, 1, b)
    <3>1. p + m <= Len(Source)
      BY <2>2
    <3>2. SubSeq(Source, 1, p) \o rest = SubSeq(Source, 1, p + m)
      <4>1. Source \in Seq(Int) /\ p \in Nat /\ m \in Nat /\ p + m <= Len(Source)
        BY <1>1, <1>3, <2>2, <3>1
      <4>2. rest = SubSeq(Source, p + 1, p + m)
        OBVIOUS
      <4> HIDE DEF p, rest
      <4> QED
        BY <4>1, <4>2, BeginningGrows
    <3> QED
      BY <1>1, <2>3, <3>2
  <2>5. b \in 0 .. Len(Source)
    BY <2>2
  <2> HIDE DEF got, b
  <2>6. got \in Seq(Int)
    BY <1>1, <2>4, <2>5, BeginningFacts
  <2>7. reader' \in ReaderType
    <3>1. <<>> \in Seq(Int)
      BY EmptySeq
    <3> QED
      BY <1>1, <1>2, <2>1, <2>5, <2>6, <3>1 DEF ReaderType, k
  <2>8. /\ reader'.kind = reader.kind /\ reader'.hdr = 0 /\ reader'.pos = b /\ reader'.pushed = <<>>
        /\ reader'.got = got
    BY <1>1, <2>1 DEF ReaderType
  <2> QED
    BY <1>1, <2>2, <2>4, <2>7, <2>8, PlainSuffices
<1>5. CASE n = 0
  <2> DEFINE got == reader.got \o SubSeq(Source, p + 1, p + n)
  <2>1. reader' = [reader EXCEPT !.pos = p + n, !.ended = (n = 0), !.got = got, !.reads = k]
    <3>1. ~(n > 0)
      BY <1>5
    <3>2. WavpackRead(reader, requested) = PlainRead(reader, requested)
      BY <3>1 DEF WavpackRead
    <3> QED
      BY <3>2 DEF ReadBy, PlainRead
  <2>2. p + n = p
    BY <1>3, <1>5
  <2>3. got = reader.got
    <3>1. p + n < p + 1 /\ p + n \in Int /\ p + 1 \in Int
      BY <1>3, <1>5
    <3>2. SubSeq(Source, p + 1, p + n) = <<>>
      BY <3>1, SubSeqEmpty
    <3>3. reader.got \o <<>> = reader.got
      BY <1>1, ConcatEmptySeq
    <3> QED
      BY <3>2, <3>3
  <2> DEFINE ended == n = 0
  <2>4. ended \in BOOLEAN
    OBVIOUS
  <2>5. reader' = [reader EXCEPT !.pos = p, !.ended = ended, !.got = reader.got, !.reads = k]
    BY <2>1, <2>2, <2>3
  <2> HIDE DEF ended, k
  <2>6. reader' \in ReaderType
    BY <1>1, <1>2, <2>4, <2>5 DEF ReaderType, k
  <2>7. /\ reader'.kind = reader.kind /\ reader'.hdr = 0 /\ reader'.pos = p /\ reader'.pushed = reader.pushed
        /\ reader'.got = reader.got
    BY <1>1, <2>5 DEF ReaderType
  <2> QED
    BY <1>1, <1>3, <2>6, <2>7, PlainSuffices
<1> QED
  BY <1>3, <1>4, <1>5

LEMMA ReadKeeps ==
  ASSUME ReaderInv, Read
  PROVE  ReaderInv'
<1>1. PICK n \in Requests :
        ReadBy(IF reader.kind = "flac" THEN FlacRead(reader, n)
               ELSE IF reader.kind = "wavpack" THEN WavpackRead(reader, n) ELSE PlainRead(reader, n))
  BY DEF Read, ReadBy
<1>2. n \in Nat \ {0}
  BY LibraryCallsAssumption
<1>3. CASE reader.kind = "flac"
  <2>1. ReadBy(FlacRead(reader, n))
    BY <1>1, <1>3
  <2> QED
    BY <1>2, <1>3, <2>1, FlacReadKeeps
<1>4. CASE reader.kind = "wavpack" /\ reader.pushed # <<>>
  <2>1. ReadBy(WavpackRead(reader, n))
    BY <1>1, <1>4
  <2> QED
    BY <1>2, <1>4, <2>1, PushedReadKeeps
<1>5. CASE reader.kind = "wavpack" /\ reader.pushed = <<>>
  <2>1. ReadBy(WavpackRead(reader, n))
    BY <1>1, <1>5
  <2>2. WavpackRead(reader, n) = PlainRead(reader, n)
    BY <1>5 DEF WavpackRead
  <2>3. ReadBy(PlainRead(reader, n)) /\ reader.kind # "flac"
    BY <1>5, <2>1, <2>2
  <2> QED
    BY <1>2, <1>5, <2>3, PlainReadKeeps
<1>6. CASE reader.kind \notin {"flac", "wavpack"}
  <2>1. ReadBy(PlainRead(reader, n)) /\ reader.pushed = <<>>
    BY <1>1, <1>6 DEF ReaderInv
  <2> QED
    BY <1>2, <1>6, <2>1, PlainReadKeeps
<1> QED
  BY <1>3, <1>4, <1>5, <1>6

(* The last byte read is given back, and one can seek.                     *)
LEMMA PushBackKeeps ==
  ASSUME ReaderInv, PushBack
  PROVE  ReaderInv'
<1> DEFINE N == Len(Source)
<1> DEFINE p == reader.pos
<1> DEFINE rest == Len(reader.got) - 1
<1> DEFINE byte == reader.got[rest + 1]
<1> DEFINE got == SubSeq(reader.got, 1, rest)
<1> DEFINE k == reader.reads + 1
<1>1. reader.kind = "wavpack" /\ reader.pushed = <<>> /\ reader.got # <<>>
  BY DEF PushBack
<1>2. reader' = [reader EXCEPT !.pushed = <<byte>>, !.got = got, !.reads = k]
  BY DEF PushBack
<1>3. /\ reader \in ReaderType /\ Source \in Seq(Int) /\ N \in Nat /\ reader.hdr = 0 /\ p \in 0 .. N
      /\ reader.reads \in Nat /\ reader.got \in Seq(Int) /\ reader.got = SubSeq(Source, 1, p)
  BY <1>1, PlainFacts
<1>4. Len(reader.got) = p /\ \A i \in 1 .. p : reader.got[i] = Source[i]
  BY <1>3, BeginningFacts
<1>5. p > 0 /\ rest = p - 1 /\ p \in Nat
  <2>1. p # 0
    BY <1>1, <1>3, BeginningFacts
  <2> QED
    BY <1>3, <1>4, <2>1
<1>6. byte = Source[p] /\ byte \in Int
  <2>1. rest + 1 = p /\ p \in 1 .. p /\ p \in 1 .. N
    <3> HIDE DEF rest, p, N
    <3> QED
      BY <1>3, <1>5
  <2>2. Source[p] \in Int
    BY <1>3, <2>1, ElementOfSeq
  <2> QED
    BY <1>4, <2>1, <2>2
<1>7. got = SubSeq(Source, 1, p - 1) /\ got \in Seq(Int)
  <2> DEFINE q == p - 1
  <2>1. q \in 0 .. Len(Source) /\ q \in 0 .. Len(reader.got) /\ rest = q
    BY <1>3, <1>4, <1>5
  <2> HIDE DEF q, p, rest
  <2>2. /\ SubSeq(reader.got, 1, q) \in Seq(Int) /\ Len(SubSeq(reader.got, 1, q)) = q
        /\ \A i \in 1 .. q : SubSeq(reader.got, 1, q)[i] = reader.got[i]
    BY <1>3, <2>1, BeginningFacts
  <2>3. /\ SubSeq(Source, 1, q) \in Seq(Int) /\ Len(SubSeq(Source, 1, q)) = q
        /\ \A i \in 1 .. q : SubSeq(Source, 1, q)[i] = Source[i]
    BY <1>3, <2>1, BeginningFacts
  <2>4. \A i \in 1 .. q : reader.got[i] = Source[i]
    <3>1. \A i \in 1 .. q : i \in 1 .. p
      BY <1>5 DEF q
    <3> QED
      BY <1>4, <3>1
  <2>5. \A i \in 1 .. Len(SubSeq(Source, 1, q)) : SubSeq(reader.got, 1, q)[i] = SubSeq(Source, 1, q)[i]
    BY <2>2, <2>3, <2>4
  <2>6. SubSeq(reader.got, 1, q) = SubSeq(Source, 1, q)
    BY <2>2, <2>3, <2>5, SeqEqual
  <2> QED
    BY <2>1, <2>3, <2>6 DEF q
<1>8. <<byte>> \in Seq(Int) /\ k \in Nat
  <2>1. \A x \in Int : <<x>> \in Seq(Int)
    OBVIOUS
  <2>2. k \in Nat
    BY <1>3
  <2> HIDE DEF byte, k
  <2> QED
    BY <1>6, <2>1, <2>2
<1> HIDE DEF byte, got, k
<1>9. reader' \in ReaderType
  BY <1>2, <1>3, <1>7, <1>8 DEF ReaderType
<1>10. /\ reader'.kind = reader.kind /\ reader'.hdr = 0 /\ reader'.pos = p /\ reader'.pushed = <<Source[p]>>
       /\ reader'.got = got
  BY <1>2, <1>3, <1>6 DEF ReaderType
<1> QED
  BY <1>1, <1>3, <1>5, <1>7, <1>9, <1>10, PlainSuffices

LEMMA SeekKeeps ==
  ASSUME ReaderInv, Seek
  PROVE  ReaderInv'
<1> DEFINE k == reader.reads + 1
<1>1. PICK pos \in 0 .. Len(Source) :
        reader' = [reader EXCEPT !.pos = pos, !.pushed = <<>>, !.got = SubSeq(Source, 1, pos), !.reads = k]
  BY DEF Seek
<1>2. reader.kind = "wavpack"
  BY DEF Seek
<1>3. reader \in ReaderType /\ Source \in Seq(Int) /\ reader.hdr = 0 /\ k \in Nat /\ Len(Source) \in Nat
  BY <1>2, PlainFacts
<1> DEFINE got == SubSeq(Source, 1, pos)
<1>4. got \in Seq(Int) /\ pos \in Nat /\ <<>> \in Seq(Int)
  BY <1>3, BeginningFacts, EmptySeq
<1>5. reader' = [reader EXCEPT !.pos = pos, !.pushed = <<>>, !.got = got, !.reads = k]
  BY <1>1
<1>6. got = SubSeq(Source, 1, pos)
  OBVIOUS
<1> HIDE DEF got, k
<1>7. reader' \in ReaderType
  BY <1>3, <1>4, <1>5 DEF ReaderType
<1>8. /\ reader'.kind = reader.kind /\ reader'.hdr = 0 /\ reader'.pos = pos /\ reader'.pushed = <<>>
      /\ reader'.got = got
  BY <1>3, <1>5 DEF ReaderType
<1> QED
  BY <1>2, <1>3, <1>4, <1>6, <1>7, <1>8, PlainSuffices

LEMMA NewReaderStarts ==
  ASSUME NEW kind \in {"none", "flac", "plain", "wavpack"}, reader = NewReader(kind)
  PROVE  ReaderInv
<1>1. /\ reader.kind = kind /\ reader.hdr = 0 /\ reader.pos = 0 /\ reader.pushed = <<>> /\ reader.got = <<>>
      /\ ~reader.ended
  BY DEF NewReader
<1>2. Len(Header) \in Nat /\ Len(Source) \in Nat /\ <<>> \in Seq(Int) /\ Len(<<>>) = 0
  BY LibraryCallsAssumption, LenProperties, EmptySeq
<1>3. reader \in ReaderType
  <2>1. 0 \in 0 .. Len(Header) /\ 0 \in 0 .. Len(Source)
    BY <1>2
  <2> QED
    BY <1>2, <2>1 DEF NewReader, ReaderType
<1>4. TextOf(reader) \in Seq(Int) /\ Len(HeaderOf(reader)) \in Nat /\ Len(TextOf(reader)) \in Nat
  BY <1>3, TextFacts, LenProperties
<1>5. 0 + 0 - 0 = 0 /\ ~(0 > 0) /\ 0 <= Len(HeaderOf(reader)) /\ 0 \in 0 .. Len(TextOf(reader))
  BY <1>4
<1>6. SubSeq(TextOf(reader), 1, 0) = <<>>
  BY <1>4, <1>5, BeginningFacts
<1> QED
  BY <1>1, <1>2, <1>3, <1>5, <1>6 DEF ReaderInv

LEMMA ReaderStepKeeps ==
  ASSUME ReaderInv, ReaderStep
  PROVE  ReaderInv'
BY ReadKeeps, PushBackKeeps, SeekKeeps DEF ReaderStep

-----------------------------------------------------------------------------
(* A thread builds entry by entry, and sets the flag behind the last.      *)
LEMMA NewThreadsStart ==
  ASSUME threads = NewThreads
  PROVE  ThreadsInv
<1>1. TableEntries \in Nat /\ 1 \in 1 .. TableEntries + 1
  BY LibraryCallsAssumption
<1>2. /\ threads.pc = [t \in Threads |-> "call"] /\ threads.at = [t \in Threads |-> 1]
      /\ threads.ready = FALSE /\ threads.table = [e \in 1 .. TableEntries |-> FALSE]
  BY DEF NewThreads, Empty
<1>3. threads \in ThreadsType
  BY <1>1 DEF NewThreads, Empty, ThreadsType
<1>4. \A t \in Threads, e \in 1 .. TableEntries : ~(e < threads.at[t])
  BY <1>1, <1>2
<1>5. TablesAreBuilt
  BY <1>2 DEF TablesAreBuilt
<1> QED
  BY <1>2, <1>3, <1>4, <1>5 DEF ThreadsInv

LEMMA ThreadStepKeeps ==
  ASSUME ThreadsInv, ThreadStep
  PROVE  ThreadsInv'
<1>1. PICK t \in Threads : TestFlag(t) \/ Build(t) \/ SetFlag(t)
  BY DEF ThreadStep
<1>2. /\ threads \in ThreadsType /\ TableEntries \in Nat
      /\ \A u \in Threads, e \in 1 .. TableEntries : e < threads.at[u] => threads.table[e]
      /\ threads.ready => \A e \in 1 .. TableEntries : threads.table[e]
      /\ \A u \in Threads, e \in 1 .. TableEntries : threads.pc[u] = "uses" => threads.table[e]
  BY LibraryCallsAssumption DEF ThreadsInv, TablesAreBuilt
<1>3. CASE TestFlag(t)
  <2> DEFINE new == IF threads.ready THEN "uses" ELSE "builds"
  <2>1. threads' = [threads EXCEPT !.pc = [@ EXCEPT ![t] = new]]
    BY <1>3 DEF TestFlag
  <2>2. new \in {"builds", "uses"} /\ (new = "uses" => threads.ready)
    OBVIOUS
  <2> HIDE DEF new
  <2>3. threads' \in ThreadsType
    BY <1>2, <2>1, <2>2 DEF ThreadsType
  <2>4. /\ threads'.at = threads.at /\ threads'.ready = threads.ready /\ threads'.table = threads.table
        /\ \A u \in Threads : threads'.pc[u] = IF u = t THEN new ELSE threads.pc[u]
    BY <1>2, <2>1 DEF ThreadsType
  <2>5. TablesAreBuilt'
    BY <1>2, <2>2, <2>4 DEF TablesAreBuilt
  <2> QED
    BY <1>2, <2>3, <2>4, <2>5 DEF ThreadsInv
<1>4. CASE Build(t)
  <2> DEFINE i == threads.at[t]
  <2> DEFINE j == i + 1
  <2>1. i \in 1 .. TableEntries /\ j \in 1 .. TableEntries + 1
    <3>1. i \in 1 .. TableEntries + 1 /\ i <= TableEntries
      BY <1>2, <1>4 DEF Build, ThreadsType
    <3> HIDE DEF i
    <3> QED
      BY <1>2, <3>1
  <2>2. threads' = [threads EXCEPT !.table = [threads.table EXCEPT ![i] = TRUE], !.at = [@ EXCEPT ![t] = j]]
    BY <1>4 DEF Build, Built
  <2>3. j = i + 1
    OBVIOUS
  <2> HIDE DEF j
  <2>4. threads' \in ThreadsType
    BY <1>2, <2>1, <2>2 DEF ThreadsType
  <2>5. /\ threads'.pc = threads.pc /\ threads'.ready = threads.ready
        /\ \A e \in 1 .. TableEntries : threads'.table[e] = (threads.table[e] \/ e = i)
        /\ \A u \in Threads : threads'.at[u] = IF u = t THEN j ELSE threads.at[u]
    BY <1>2, <2>1, <2>2 DEF ThreadsType
  <2>6. \A u \in Threads, e \in 1 .. TableEntries : e < threads'.at[u] => threads'.table[e]
    <3> SUFFICES ASSUME NEW u \in Threads, NEW e \in 1 .. TableEntries, e < threads'.at[u]
                 PROVE  threads.table[e] \/ e = i
      BY <2>5
    <3>1. CASE u = t
      <4>1. e < j
        BY <2>5, <3>1
      <4>2. e < i \/ e = i
        <5> HIDE DEF i
        <5> QED
          BY <1>2, <2>1, <2>3, <4>1
      <4> QED
        BY <1>2, <4>2
    <3>2. CASE u # t
      BY <1>2, <2>5, <3>2
    <3> QED
      BY <3>1, <3>2
  <2>7. TablesAreBuilt'
    BY <1>2, <2>5 DEF TablesAreBuilt
  <2> QED
    BY <1>2, <2>4, <2>5, <2>6, <2>7 DEF ThreadsInv
<1>5. CASE SetFlag(t)
  <2>1. threads' = [threads EXCEPT !.ready = TRUE, !.pc = [@ EXCEPT ![t] = "uses"]]
    BY <1>5 DEF SetFlag
  <2>2. \A e \in 1 .. TableEntries : threads.table[e]
    <3>1. threads.at[t] \in 1 .. TableEntries + 1 /\ threads.at[t] > TableEntries
      BY <1>2, <1>5 DEF SetFlag, ThreadsType
    <3>2. \A e \in 1 .. TableEntries : e < threads.at[t]
      BY <1>2, <3>1
    <3> QED
      BY <1>2, <3>2
  <2>3. threads' \in ThreadsType
    BY <1>2, <2>1 DEF ThreadsType
  <2>4. threads'.table = threads.table /\ threads'.at = threads.at
    BY <1>2, <2>1 DEF ThreadsType
  <2>5. TablesAreBuilt'
    BY <2>2, <2>4 DEF TablesAreBuilt
  <2> QED
    BY <2>2, <2>3, <2>4, <2>5 DEF ThreadsInv
<1> QED
  BY <1>1, <1>3, <1>4, <1>5

-----------------------------------------------------------------------------
LEMMA InvariantStarts == LibraryInit => LibraryInv
<1>1. NoCall = NewCall("keeps", [text |-> 0, units |-> 2, good |-> 2], 1, TRUE, TRUE)
  BY DEF NoCall
<1>2. [text |-> 0, units |-> 2, good |-> 2] \in Streams /\ 1 \in 1 .. MaxCap
  BY BoundFacts DEF Streams
<1>3. ASSUME call = NoCall PROVE CallInv
  BY <1>1, <1>2, <1>3, NewCallStarts DEF AtOnce
<1>4. ASSUME call \in {c \in Calls : Possible(c)} PROVE CallInv
  <2>1. PICK e \in AtOnce \cup Turned, s \in Streams, cap \in 1 .. MaxCap, memory \in BOOLEAN, wide \in BOOLEAN :
          call = NewCall(e, s, cap, memory, wide)
    BY <1>4 DEF Calls
  <2>2. call.entry = e /\ call.stream = s
    BY <2>1 DEF NewCall
  <2>3. e \in {"flac", "frames"} => s.text % 2 = 0
    BY <1>4, <2>2 DEF Possible
  <2> QED
    BY <2>1, <2>3, NewCallStarts
<1> QED
  BY <1>3, <1>4, NewReaderStarts, NewThreadsStart DEF LibraryInit, LibraryInv

LEMMA InvariantHolds == LibraryInv /\ [LibraryNext]_callVars => LibraryInv'
<1> SUFFICES ASSUME LibraryInv, [LibraryNext]_callVars PROVE LibraryInv'
  OBVIOUS
<1>1. ASSUME UNCHANGED call PROVE CallInv'
  BY <1>1 DEF LibraryInv, CallInv, DoneInv, Delivered, FailuresAreTold, WritesFit, MayOverrun, FreshInv, LzipInv, FlacInv, Available
<1>2. ASSUME UNCHANGED reader PROVE ReaderInv'
  BY <1>2 DEF LibraryInv, ReaderInv, TextOf, HeaderOf
<1>3. ASSUME UNCHANGED threads PROVE ThreadsInv'
  BY <1>3 DEF LibraryInv, ThreadsInv, TablesAreBuilt
<1>4. CASE reader.kind = "none" /\ CallStep /\ UNCHANGED <<reader, threads>>
  BY <1>2, <1>3, <1>4, CallStepKeeps DEF LibraryInv
<1>5. CASE reader.kind # "none" /\ ReaderStep /\ UNCHANGED <<call, threads>>
  BY <1>1, <1>3, <1>5, ReaderStepKeeps DEF LibraryInv
<1>6. CASE call = NoCall /\ reader = NewReader("flac") /\ ThreadStep /\ UNCHANGED <<call, reader>>
  BY <1>1, <1>2, <1>6, ThreadStepKeeps DEF LibraryInv
<1>7. CASE UNCHANGED callVars
  BY <1>1, <1>2, <1>3, <1>7 DEF callVars, LibraryInv
<1> QED
  BY <1>4, <1>5, <1>6, <1>7 DEF LibraryNext

(* Every exported call keeps its word: an undamaged text that fits arrives *)
(* whole, counted exactly, however another library's answers come in       *)
(* pieces, a call that got no memory fails, failure is not taken for       *)
(* success where a verdict was asked for, nothing is written beyond the    *)
(* destination but by the calls MayOverrun names, and each LZO compressor  *)
(* has the work memory made for it.                                        *)
THEOREM CallsCorrect == LibrarySpec => []CallsKeepTheirWord
<1>1. LibraryInv => CallsKeepTheirWord
  BY MemoryFits DEF LibraryInv, CallInv, DoneInv, CallsKeepTheirWord
<1> QED
  BY InvariantStarts, InvariantHolds, <1>1, PTL DEF LibrarySpec

(* The callbacks deliver header and source in order whatever sizes they    *)
(* are asked for, and no thread uses a checksum table before it is built.  *)
THEOREM CallbacksCorrect == LibrarySpec => []CallbacksServe
<1>1. LibraryInv => CallbacksServe
  BY ReaderDelivers DEF LibraryInv, ThreadsInv, CallbacksServe
<1> QED
  BY InvariantStarts, InvariantHolds, <1>1, PTL DEF LibrarySpec
-----------------------------------------------------------------------------
(***************************************************************************)
(* The LHA window, which the codecs behind other calls share, and which    *)
(* moves its position only when a match is over, holds the tail of the     *)
(* stream at every iteration, for every size, prefill, set of offsets and  *)
(* capacity; and the caller's buffer holds the beginning of that stream    *)
(* and nothing else.                                                       *)
(***************************************************************************)
USE SizeAssumption, BoundsAssumption

LEMMA SlotRange == ASSUME NEW p \in Int PROVE Slot(p) \in 0 .. Size - 1
BY ModRange DEF Slot

(* Inside the loop: the fields of the match, and the length of the stream. *)
LEMMA CopyFields ==
  ASSUME TypeOK, CopyByte
  PROVE  /\ copy.offset \in Offsets \cup {0}
         /\ copy.offset \in Nat
         /\ copy.length \in 1 .. MaxMatch
         /\ copy.i \in 0 .. copy.length - 1
         /\ Len(hist) = position + copy.i
         /\ position \in Nat
<1>1. /\ copy.offset \in Offsets \cup {0}
      /\ copy.length \in 0 .. MaxMatch
      /\ copy.i \in 0 .. MaxMatch
      /\ copy.length > 0
      /\ copy.i < copy.length
  BY DEF TypeOK, CopyByte
<1>2. copy.offset \in Nat
  <2>1. CASE copy.offset \in Offsets
    BY <2>1, OffsetsAssumption
  <2>2. CASE copy.offset = 0
    BY <2>2
  <2>3. QED
    BY <1>1, <2>1, <2>2
<1>3. Len(hist) = position + copy.i /\ position \in Nat
  BY DEF TypeOK
<1>4. QED
  BY <1>1, <1>2, <1>3

(* The two indices of the loop, computed from the slot the match began at, *)
(* are the slots of the stream's end and of the byte to copy.              *)
LEMMA CopySlots ==
  ASSUME TypeOK, CopyByte
  PROVE  /\ Slot(Slot(position) + copy.i) = Slot(Len(hist))
         /\ Slot(Slot(position) + copy.i - copy.offset) = Slot(Len(hist) - copy.offset)
<1> DEFINE c == copy.i
<1> DEFINE d == copy.i - copy.offset
<1>1. position \in Int /\ c \in Int /\ d \in Int
  BY CopyFields
<1>2. Len(hist) = position + c /\ Len(hist) - copy.offset = position + d
  BY CopyFields
<1>3. Slot(position) \in Int
  BY <1>1, SlotRange
<1>4. Slot(position) + copy.i - copy.offset = Slot(position) + d
  BY <1>1, <1>3, CopyFields
<1> HIDE DEF d
<1>5. ((position % Size) + c) % Size = (position + c) % Size
  BY <1>1, ModSum
<1>6. ((position % Size) + d) % Size = (position + d) % Size
  BY <1>1, ModSum
<1>7. QED
  BY <1>2, <1>4, <1>5, <1>6 DEF Slot

(* What one iteration does, said of the stream.                            *)
LEMMA CopyByteEffect ==
  ASSUME TypeOK, CopyByte
  PROVE  LET byte == window[Slot(Len(hist) - copy.offset)]
         IN  /\ byte \in Byte
             /\ window' = [window EXCEPT ![Slot(Len(hist))] = byte]
             /\ hist' = Append(hist, byte)
             /\ Output(byte)
<1>1. Len(hist) \in Int /\ copy.offset \in Int
  BY CopyFields
<1>2. Slot(Len(hist) - copy.offset) \in 0 .. Size - 1
  <2>1. Len(hist) - copy.offset \in Int
    BY <1>1
  <2>2. QED
    BY <2>1, SlotRange
<1>3. window[Slot(Len(hist) - copy.offset)] \in Byte
  BY <1>2 DEF TypeOK
<1>4. QED
  BY <1>3, CopySlots DEF CopyByte

(* The loop either goes on with the next index or is over and has moved    *)
(* position past what it wrote.                                            *)
LEMMA CopyByteProgress ==
  ASSUME TypeOK, CopyByte
  PROVE  \/ /\ position' = position
            /\ copy' = [offset |-> copy.offset, length |-> copy.length, i |-> copy.i + 1]
            /\ copy.i + 1 < copy.length
         \/ /\ position' = position + copy.i + 1
            /\ copy' = [offset |-> copy.offset, length |-> 0, i |-> 0]
            /\ copy.i + 1 = copy.length
<1>1. copy = [offset |-> copy.offset, length |-> copy.length, i |-> copy.i]
  BY DEF TypeOK
<1>2. CASE copy.i + 1 = copy.length
  <2>1. position' = position + copy.length
    BY <1>2 DEF CopyByte
  <2>2. copy' = [offset |-> copy.offset, length |-> 0, i |-> 0]
    BY <1>2 DEF CopyByte, Idle
  <2>3. QED
    BY <1>2, <2>1, <2>2, CopyFields
<1>3. CASE copy.i + 1 # copy.length
  <2>1. position' = position
    BY <1>3 DEF CopyByte
  <2>2. copy' = [copy EXCEPT !.i = copy.i + 1]
    BY <1>3 DEF CopyByte
  <2>3. copy' = [offset |-> copy.offset, length |-> copy.length, i |-> copy.i + 1]
    BY <1>1, <2>2
  <2>4. QED
    BY <1>3, <2>1, <2>3, CopyFields
<1>4. QED
  BY <1>2, <1>3

(* Every variable keeps its type, and position lags the stream by the      *)
(* iterations the running match has done.                                  *)
THEOREM TypeCorrect == Spec => []TypeOK
<1>1. Init => TypeOK
  BY PrefillAssumption DEF Init, TypeOK, Idle
<1>2. TypeOK /\ [Next]_vars => TypeOK'
  <2> SUFFICES ASSUME TypeOK, [Next]_vars PROVE TypeOK'
    OBVIOUS
  <2>1. ASSUME NEW byte \in Byte, EmitLiteral(byte) PROVE TypeOK'
    <3>1. copy.i = 0 /\ position = Len(hist) /\ position \in Nat
      BY <2>1 DEF TypeOK, EmitLiteral
    <3>2. hist' \in Seq(Byte) /\ Len(hist') = Len(hist) + 1
      BY <2>1 DEF TypeOK, EmitLiteral
    <3>3. window' \in [0 .. Size - 1 -> Byte]
      BY <2>1 DEF TypeOK, EmitLiteral
    <3>4. QED
      BY <2>1, <3>1, <3>2, <3>3 DEF TypeOK, EmitLiteral
  <2>2. ASSUME NEW offset \in Offsets, NEW length \in 1 .. MaxMatch,
               BeginMatch(offset, length)
        PROVE  TypeOK'
    <3>1. copy.i = 0 /\ copy' = [offset |-> offset, length |-> length, i |-> 0]
      BY <2>2 DEF TypeOK, BeginMatch
    <3>2. QED
      BY <2>2, <3>1 DEF TypeOK, BeginMatch
  <2>3. ASSUME CopyByte PROVE TypeOK'
    <3>1. window' \in [0 .. Size - 1 -> Byte]
      BY <2>3, CopyByteEffect DEF TypeOK
    <3>2. hist' \in Seq(Byte) /\ Len(hist') = Len(hist) + 1
      <4>1. PICK byte \in Byte : hist' = Append(hist, byte)
        BY <2>3, CopyByteEffect
      <4>2. hist \in Seq(Byte)
        BY DEF TypeOK
      <4>3. QED
        BY <4>1, <4>2
    <3>3. position' \in Nat /\ position' + copy'.i = Len(hist')
      BY <2>3, <3>2, CopyByteProgress, CopyFields, SMTT(30)
    <3>4. /\ copy' \in [offset : Offsets \cup {0}, length : 0 .. MaxMatch, i : 0 .. MaxMatch]
          /\ copy'.i < copy'.length \/ (copy'.i = 0 /\ copy'.length = 0)
      BY <2>3, CopyByteProgress, CopyFields, SMTT(30)
    <3>5. QED
      BY <3>1, <3>2, <3>3, <3>4 DEF TypeOK
  <2>4. CASE UNCHANGED vars
    BY <2>4 DEF TypeOK, vars
  <2>5. QED
    BY <2>1, <2>2, <2>3, <2>4 DEF Next
<1>3. QED
  BY <1>1, <1>2, PTL DEF Spec

(* Storing one byte at the end of the stream overwrites only the byte that *)
(* leaves the window.                                                      *)
LEMMA StoreKeepsTail ==
  ASSUME window \in [0 .. Size - 1 -> Byte], hist \in Seq(Byte), WindowIsTail,
         NEW byte \in Byte,
         window' = [window EXCEPT ![Slot(Len(hist))] = byte],
         hist' = Append(hist, byte)
  PROVE  WindowIsTail'
<1> DEFINE end == Len(hist)
<1>1. end \in Nat /\ Len(hist') = end + 1
  OBVIOUS
<1> SUFFICES ASSUME NEW p \in end + 1 - Size .. end
             PROVE  window'[Slot(p)] = HistAt(p)'
  BY <1>1 DEF WindowIsTail
<1>2. p \in Int /\ p <= end /\ p >= end + 1 - Size
  BY <1>1
<1>3. CASE p = end
  <2>1. Slot(end) \in 0 .. Size - 1
    BY <1>1, SlotRange
  <2>2. window'[Slot(p)] = byte
    BY <1>3, <2>1
  <2>3. HistAt(p)' = byte
    BY <1>1, <1>3 DEF HistAt
  <2>4. QED
    BY <2>2, <2>3
<1>4. CASE p < end
  <2>1. Slot(p) # Slot(end)
    <3>1. end \in Int /\ p < end /\ end < p + Size
      BY <1>1, <1>2, <1>4
    <3> HIDE DEF end
    <3>2. QED
      BY <1>2, <3>1, ModInjective DEF Slot
  <2>2. window'[Slot(p)] = window[Slot(p)]
    BY <1>2, <2>1, SlotRange
  <2>3. window[Slot(p)] = HistAt(p)
    <3>1. p \in Len(hist) - Size .. Len(hist) - 1
      BY <1>1, <1>2, <1>4
    <3>2. QED
      BY <3>1 DEF WindowIsTail
  <2>4. HistAt(p)' = HistAt(p)
    BY <1>1, <1>2, <1>4 DEF HistAt
  <2>5. QED
    BY <2>2, <2>3, <2>4
<1>5. QED
  BY <1>1, <1>2, <1>3, <1>4

(* The ring is the tail of the stream in the middle of a match, too.       *)
THEOREM WindowCorrect == Spec => []WindowIsTail
<1>1. Init => WindowIsTail
  BY DEF Init, WindowIsTail, HistAt, Slot
<1>2. TypeOK /\ WindowIsTail /\ [Next]_vars => WindowIsTail'
  <2> SUFFICES ASSUME TypeOK, WindowIsTail, [Next]_vars PROVE WindowIsTail'
    OBVIOUS
  <2>0. window \in [0 .. Size - 1 -> Byte] /\ hist \in Seq(Byte)
    BY DEF TypeOK
  <2>1. ASSUME NEW byte \in Byte, EmitLiteral(byte) PROVE WindowIsTail'
    <3>1. position = Len(hist)
      BY <2>1 DEF TypeOK, EmitLiteral
    <3>2. QED
      BY <2>0, <2>1, <3>1, StoreKeepsTail DEF EmitLiteral
  <2>2. ASSUME NEW offset \in Offsets, NEW length \in 1 .. MaxMatch,
               BeginMatch(offset, length)
        PROVE  WindowIsTail'
    BY <2>2 DEF BeginMatch, WindowIsTail, HistAt
  <2>3. CASE CopyByte
    BY <2>0, <2>3, CopyByteEffect, StoreKeepsTail
  <2>4. CASE UNCHANGED vars
    BY <2>4 DEF WindowIsTail, HistAt, vars
  <2>5. QED
    BY <2>1, <2>2, <2>3, <2>4 DEF Next
<1>3. QED
  BY <1>1, <1>2, TypeCorrect, PTL DEF Spec

(* Every step of the ring appends to the stream the byte that an unbounded *)
(* history would copy, and to the buffer the same byte while it has room.  *)
LEMMA OutputAppends ==
  ASSUME out_buf \in Seq(Byte), hist \in Seq(Byte), OutputIsStreamPrefix,
         NEW byte \in Byte, Output(byte), hist' = Append(hist, byte)
  PROVE  out_buf' \in Seq(Byte) /\ OutputIsStreamPrefix'
<1>0. /\ Len(Append(out_buf, byte)) = Len(out_buf) + 1
      /\ Append(out_buf, byte) \in Seq(Byte)
      /\ \A n \in 1 .. Len(out_buf) : Append(out_buf, byte)[n] = out_buf[n]
      /\ Append(out_buf, byte)[Len(out_buf) + 1] = byte
  BY AppendProperties
<1>1. /\ Len(hist) \in Nat /\ Len(hist') = Len(hist) + 1
      /\ hist'[Len(hist) + 1] = byte
  OBVIOUS
<1>2. \A n \in 1 .. Len(hist) : hist'[n] = hist[n]
  OBVIOUS
<1> DEFINE room == IF Len(hist) <= OutSize THEN Len(hist) ELSE OutSize
<1>3. /\ out_pos = Len(out_buf) /\ out_pos = room /\ out_pos \in Nat
      /\ \A n \in 1 .. out_pos : out_buf[n] = hist[n]
  BY DEF OutputIsStreamPrefix
<1>4. CASE out_pos < OutSize
  <2>1. out_buf' = Append(out_buf, byte) /\ out_pos' = out_pos + 1
    BY <1>4 DEF Output
  <2>2. out_pos = Len(out_buf) /\ out_pos = Len(hist)
    BY <1>1, <1>3, <1>4
  <2>3. out_buf' \in Seq(Byte) /\ Len(out_buf') = out_pos'
    BY <1>0, <1>3, <2>1
  <2>4. \A n \in 1 .. out_pos : out_buf'[n] = hist'[n]
    <3> SUFFICES ASSUME NEW n \in 1 .. out_pos PROVE out_buf'[n] = hist'[n]
      OBVIOUS
    <3>1. out_buf'[n] = out_buf[n]
      BY <1>0, <1>3, <2>1, <2>2
    <3>2. hist'[n] = hist[n]
      BY <1>2, <2>2
    <3>3. QED
      BY <1>3, <3>1, <3>2
  <2>5. out_buf'[out_pos + 1] = byte /\ hist'[out_pos + 1] = byte
    <3>1. out_buf'[out_pos + 1] = byte
      BY <1>0, <1>3, <2>1, <2>2
    <3>2. hist'[out_pos + 1] = byte
      BY <1>1, <2>2
    <3>3. QED
      BY <3>1, <3>2
  <2>6. \A n \in 1 .. out_pos' : out_buf'[n] = hist'[n]
    <3> SUFFICES ASSUME NEW n \in 1 .. out_pos' PROVE out_buf'[n] = hist'[n]
      OBVIOUS
    <3>1. n \in 1 .. out_pos \/ n = out_pos + 1
      BY <1>3, <2>1
    <3>2. QED
      BY <2>4, <2>5, <3>1
  <2>7. out_pos' = Len(hist') /\ Len(hist') <= OutSize
    BY <1>1, <1>3, <1>4, <2>1, <2>2
  <2>8. QED
    BY <2>3, <2>6, <2>7 DEF OutputIsStreamPrefix
<1>5. CASE out_pos >= OutSize
  <2>1. UNCHANGED <<out_buf, out_pos>>
    BY <1>3, <1>5 DEF Output
  <2>2. out_pos = OutSize /\ OutSize <= Len(hist)
    BY <1>1, <1>3, <1>5
  <2>3. \A n \in 1 .. out_pos' : out_buf'[n] = hist'[n]
    BY <1>1, <1>2, <1>3, <2>1, <2>2
  <2>4. out_pos' = IF Len(hist') <= OutSize THEN Len(hist') ELSE OutSize
    BY <1>1, <2>1, <2>2
  <2>5. QED
    BY <1>3, <2>1, <2>3, <2>4 DEF OutputIsStreamPrefix
<1>6. QED
  BY <1>3, <1>4, <1>5

(* The caller's buffer never holds anything but the beginning of the       *)
(* stream, and never more than its capacity.                               *)
THEOREM OutputCorrect == Spec => []OutputIsStreamPrefix
<1> DEFINE Inv == out_buf \in Seq(Byte) /\ OutputIsStreamPrefix
<1>1. Init => Inv
  BY DEF Init, OutputIsStreamPrefix
<1>2. TypeOK /\ Inv /\ [Next]_vars => Inv'
  <2> SUFFICES ASSUME TypeOK, Inv, [Next]_vars PROVE Inv'
    OBVIOUS
  <2>0. hist \in Seq(Byte)
    BY DEF TypeOK
  <2>1. ASSUME NEW byte \in Byte, EmitLiteral(byte) PROVE Inv'
    BY <2>0, <2>1, OutputAppends DEF EmitLiteral
  <2>2. ASSUME NEW offset \in Offsets, NEW length \in 1 .. MaxMatch,
               BeginMatch(offset, length)
        PROVE  Inv'
    BY <2>2 DEF BeginMatch, OutputIsStreamPrefix
  <2>3. CASE CopyByte
    BY <2>0, <2>3, CopyByteEffect, OutputAppends
  <2>4. CASE UNCHANGED vars
    BY <2>4 DEF OutputIsStreamPrefix, vars
  <2>5. QED
    BY <2>1, <2>2, <2>3, <2>4 DEF Next
<1>3. Inv => OutputIsStreamPrefix
  OBVIOUS
<1>4. QED
  BY <1>1, <1>2, <1>3, TypeCorrect, PTL DEF Spec

(* An offset and the distance it stands for lead to the same slot.         *)
LEMMA DistanceSlot ==
  ASSUME NEW p \in Int, NEW offset \in Nat
  PROVE  /\ History!Distance(offset) \in 1 .. Size
         /\ Slot(p - History!Distance(offset)) = Slot(p - offset)
<1> DEFINE q == offset \div Size
<1> DEFINE r == offset % Size
<1>1. q \in Int /\ offset = Size * q + r /\ r \in 0 .. Size - 1
  BY DivMod, ModRange
<1>2. History!Distance(offset) = IF r = 0 THEN Size ELSE r
  BY DEF History!Distance
<1> HIDE DEF q, r
<1>3. CASE r = 0
  <2>1. p - Size = (p - offset) + Size * (q - 1) /\ p - offset \in Int /\ q - 1 \in Int
    BY <1>1, <1>3
  <2>2. (p - Size) % Size = (p - offset) % Size
    <3>1. Size \in Nat \ {0}
      BY SizeAssumption
    <3> QED
      BY <2>1, <3>1, ModTurns
  <2>3. QED
    BY <1>2, <1>3, <2>2 DEF Slot
<1>4. CASE r # 0
  <2>1. p - r = (p - offset) + Size * q /\ p - offset \in Int
    BY <1>1
  <2>2. (p - r) % Size = (p - offset) % Size
    BY <1>1, <2>1, ModTurns
  <2>3. QED
    BY <1>1, <1>2, <1>4, <2>2 DEF Slot
<1>5. QED
  BY <1>3, <1>4

(* The match of the history: the iterations still to do.                   *)
Match == [offset |-> copy.offset, left |-> copy.length - copy.i]

(* An iteration of the loop copies the byte the unbounded history would.   *)
LEMMA CopyByteRefines ==
  ASSUME TypeOK, WindowIsTail, CopyByte
  PROVE  History!AbsCopyByte
<1> DEFINE d == History!Distance(copy.offset)
<1>1. Len(hist) \in Nat /\ Len(hist) \in Int /\ copy.offset \in Nat
  BY CopyFields
<1>2. d \in 1 .. Size /\ Slot(Len(hist) - d) = Slot(Len(hist) - copy.offset)
  BY <1>1, DistanceSlot
<1>3. window[Slot(Len(hist) - d)] = HistAt(Len(hist) - d)
  <2> HIDE DEF d
  <2>1. Len(hist) - d \in Len(hist) - Size .. Len(hist) - 1
    BY <1>1, <1>2
  <2>2. QED
    BY <2>1 DEF WindowIsTail
<1>4. HistAt(Len(hist) - d) = History!ByteAt(Len(hist) - d)
  BY DEF HistAt, History!ByteAt
<1>5. hist' = Append(hist, History!ByteAt(Len(hist) - d))
  BY <1>2, <1>3, <1>4, CopyByteEffect
<1>6. Match.left > 0
  BY CopyFields DEF Match
<1>7. Match' = [offset |-> Match.offset, left |-> Match.left - 1]
  BY CopyByteProgress, CopyFields, SMTT(30) DEF Match
<1>8. Match' = [Match EXCEPT !.left = @ - 1]
  BY <1>7 DEF Match
<1>9. QED
  BY <1>5, <1>6, <1>8 DEF Match, History!AbsCopyByte

(* Every step of the LHA window is a step of the unbounded history or none *)
(* of its, and never takes the stream more than MaxMatch past the buffer.  *)
THEOREM WindowImplementsHistory == Spec => ImplementsHistory
<1>1. Init => History!AbsInit
  BY DEF Init, Idle, History!AbsInit, History!NoMatch
<1>2. TypeOK /\ WindowIsTail /\ OutputIsStreamPrefix /\ [Next]_vars
        => [History!AbsNext]_(History!absVars)
  <2> SUFFICES ASSUME TypeOK, WindowIsTail, OutputIsStreamPrefix, [Next]_vars
               PROVE  [History!AbsNext]_(History!absVars)
    OBVIOUS
  <2>0. Len(hist) \in Nat /\ (out_pos < OutSize => Len(hist) < OutSize)
    BY DEF TypeOK, OutputIsStreamPrefix
  <2>1. ASSUME NEW byte \in Byte, EmitLiteral(byte) PROVE History!AbsNext
    <3>1. copy.length = 0 /\ copy.i = 0 /\ copy' = copy /\ hist' = Append(hist, byte)
      BY <2>1 DEF EmitLiteral, TypeOK
    <3>2. Len(hist) < OutSize + MaxMatch
      BY <2>0, <2>1 DEF EmitLiteral
    <3>3. History!AbsLiteral(byte)
      BY <3>1, <3>2 DEF History!AbsLiteral
    <3>4. QED
      BY <3>3 DEF History!AbsNext
  <2>2. ASSUME NEW offset \in Offsets, NEW length \in 1 .. MaxMatch,
               BeginMatch(offset, length)
        PROVE  History!AbsNext
    <3>1. /\ copy.length = 0 /\ copy.i = 0 /\ UNCHANGED hist
          /\ copy' = [offset |-> offset, length |-> length, i |-> 0]
      BY <2>2 DEF BeginMatch, TypeOK
    <3>2. Len(hist) + length <= OutSize + MaxMatch
      BY <2>0, <2>2 DEF BeginMatch
    <3>3. History!AbsBeginMatch(offset, length)
      BY <3>1, <3>2 DEF History!AbsBeginMatch
    <3>4. QED
      BY <3>3 DEF History!AbsNext
  <2>3. CASE CopyByte
    BY <2>3, CopyByteRefines DEF History!AbsNext
  <2>4. CASE UNCHANGED vars
    BY <2>4 DEF vars, History!absVars
  <2>5. QED
    BY <2>1, <2>2, <2>3, <2>4 DEF Next
<1>3. QED
  BY <1>1, <1>2, TypeCorrect, WindowCorrect, OutputCorrect, PTL
  DEF Spec, ImplementsHistory, History!AbsSpec
=============================================================================
