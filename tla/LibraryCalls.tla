---------------------------- MODULE LibraryCalls ----------------------------
(***************************************************************************)
(* The calls the library exports that another library does the work for    *)
(* (library.c, lzip.c, flac.c, zip/zip.c): the loops and callbacks that    *)
(* hand bytes to it, what becomes of its answer, and the tables built on   *)
(* the first call.                                                         *)
(*                                                                         *)
(* A stream stands for text units of output.  It has a unit for its        *)
(* header, one for each unit of the text and a trailer; only the first     *)
(* units are there, and the library finds nothing wrong with the first     *)
(* good of them (damage it cannot notice makes another text).              *)
(***************************************************************************)
EXTENDS Integers, Sequences

CONSTANTS
  MaxText,      \* the longest text
  MaxCap,       \* the largest destination
  WriteSize,    \* what lzlib takes at once
  CountLimit,   \* the counters of lzip_decode overflow below minus this
  Block,        \* samples in a block of FLAC
  Header, Source,      \* what the callbacks deliver
  Requests, MaxReads,  \* how much they are asked for at once, and how often
  Threads, TableEntries     \* the threads that decode XZ, and the entries of its tables

ASSUME LibraryCallsAssumption ==
  /\ {MaxText, MaxCap, WriteSize, CountLimit, Block} \subseteq Nat \ {0}
  /\ Header \in Seq(Int) /\ Source \in Seq(Int)
  /\ Requests \subseteq Nat \ {0} /\ MaxReads \in Nat /\ TableEntries \in Nat

VARIABLES call, reader, threads
callVars == <<call, reader, threads>>

Least(a, b) == IF a < b THEN a ELSE b
NoError    == 0   \* AARU_ERROR_NONE
Failure == -3  \* AARU_ERROR_FAILURE
Unset   == 99

Streams == {s \in [text : 0 .. MaxText, units : 0 .. MaxText + 2, good : 0 .. MaxText + 2] :
              s.good <= s.units /\ s.units <= s.text + 2}
Whole(s) == s.good = s.text + 2
(* What can be decoded once so many units have been taken.                 *)
Decoded(s, taken) == IF Least(taken, s.good) = 0 THEN 0 ELSE Least(s.text, Least(taken, s.good) - 1)

-----------------------------------------------------------------------------
(* The calls that give the library everything at once.  What it answers is *)
(* whether it succeeded and how much it wrote; what it says of a stream    *)
(* that does not fit is its own affair.                                    *)
Told(ok, written) == [ok |-> ok, written |-> written]
Partial(s, cap) == {Told(FALSE, n) : n \in 0 .. Least(Decoded(s, s.units), cap)}
Strict(s, cap) == IF Whole(s) /\ s.text <= cap THEN {Told(TRUE, s.text)} ELSE Partial(s, cap)

(* LZMA is asked for cap bytes, and is content with fewer only if an end   *)
(* mark is in the stream.                                                  *)
Asked(s, cap) ==
  IF Decoded(s, s.units) >= cap THEN {Told(TRUE, cap)}
  ELSE Partial(s, cap) \cup (IF Whole(s) THEN {Told(TRUE, s.text)} ELSE {})

(* WavPack is asked for more samples than fit, once it could be opened.    *)
Unpacked(s, cap) == IF s.good = 0 THEN {Told(FALSE, 0)} ELSE {Told(TRUE, Least(Decoded(s, s.units), cap))}

(* The decompressors of LZO1 and LZO1A never look at the capacity.  LZFSE  *)
(* says how much it wrote, nothing when the stream is damaged; LZVN stops  *)
(* where it can go no further.  PPMd gives cap bytes or fails.             *)
Answers(entry, s, cap) ==
  CASE entry \in {"keeps", "lzo"} -> Strict(s, cap)
    [] entry = "lzma"  -> Asked(s, cap)
    [] entry = "lzo1"  -> IF Whole(s) THEN {Told(TRUE, s.text)}
                          ELSE {Told(ok, n) : ok \in BOOLEAN, n \in 0 .. Decoded(s, s.units)}
    [] entry = "lzfse" -> {Told(TRUE, IF Whole(s) THEN Least(s.text, cap) ELSE 0)}
    [] entry = "lzvn"  -> {Told(TRUE, Least(Decoded(s, s.units), cap))}
    [] entry = "wavpack" -> Unpacked(s, cap)
    [] OTHER -> {Told(Decoded(s, s.units) >= cap, cap)}

(* What becomes of it: the value returned and *dst_size.                   *)
(* Faulty: the size is set whatever was answered.                          *)
KeptAlways(answer, cap) == [ret |-> IF answer.ok THEN NoError ELSE Failure, size |-> answer.written]
KeptIfDone(answer, cap) ==
  IF answer.ok THEN [ret |-> NoError, size |-> answer.written] ELSE [ret |-> Failure, size |-> cap]
PassedOn(answer) == [ret |-> IF answer.ok THEN NoError ELSE Failure, size |-> answer.written]
Returned(entry, s, cap, answer) ==
  IF entry \in {"lzma", "lzo", "lzo1"} THEN PassedOn(answer)
  ELSE IF entry = "lzfse" /\ answer.written = 0 /\ s.units > 0 THEN [ret |-> Failure, size |-> cap]
  ELSE KeptIfDone(answer, cap)

AtOnce == {"keeps", "lzma", "lzo", "lzo1", "lzfse", "lzvn", "wavpack", "ppmd"}
Turned == {"lzip", "flac", "frames"}
Allocating == (AtOnce \cup Turned) \ {"lzo", "lzo1", "lzvn"}

(* memory: the call gets what it allocates before it decodes.  wide:       *)
(* pointers have eight bytes.                                              *)
NewCall(entry, s, cap, memory, wide) ==
  [entry |-> entry, stream |-> s, cap |-> cap, memory |-> memory, wide |-> wide, pc |-> "new", ret |-> Unset, size |-> cap,
   in |-> 0, max |-> 0, out |-> 0, taken |-> 0, read |-> 0, fatal |-> FALSE, error |-> FALSE]
Done(c, r) == [c EXCEPT !.pc = "done", !.ret = r.ret, !.size = r.size]

CallAtOnce ==
  /\ call.pc = "new" /\ call.entry \in AtOnce /\ call.memory
  /\ \E answer \in Answers(call.entry, call.stream, call.cap) :
       call' = Done(call, Returned(call.entry, call.stream, call.cap, answer))

(* Without memory nothing is decoded; LZFSE can only say that it wrote     *)
(* nothing.                                                                *)
CallRefused ==
  /\ call.pc = "new" /\ ~call.memory
  /\ call' = Done(call, Returned(call.entry, call.stream, call.cap, Told(call.entry = "lzfse", 0)))

-----------------------------------------------------------------------------
(* lzip_decode gives what it can and takes what there is, in turns; it     *)
(* lets lzlib write the whole capacity, wherever it stands.  lzlib answers *)
(* -1 once it has met damage and everything before it was read; both       *)
(* counters take that for a number of bytes.                               *)
Given(c, n) == IF c.fatal THEN [c EXCEPT !.in = @ - 1] ELSE [c EXCEPT !.in = @ + n, !.taken = @ + n]

Available(c) == Decoded(c.stream, c.taken) - c.read
Breaks(c, finished) == c.taken > c.stream.good \/ (finished /\ c.stream.good < c.stream.text + 2)
Got(c, n) == [c EXCEPT !.out = @ + n, !.read = @ + n]
ReadsFrom(c, finished) ==
  IF Available(c) > 0 THEN {Got(c, n) : n \in 1 .. Least(Available(c), c.cap)}
  ELSE IF c.fatal \/ Breaks(c, finished) THEN {[c EXCEPT !.out = @ - 1, !.fatal = TRUE]} ELSE {c}

LzipOpen ==
  /\ call.pc = "new" /\ call.entry = "lzip" /\ call.memory
  /\ call' = [call EXCEPT !.pc = "turns", !.max = Least(WriteSize, call.stream.units)]

(* The way out of this loop when lzlib has finished is never taken: it     *)
(* finishes only after LZ_decompress_finish.                               *)
LzipTurn ==
  /\ call.pc = "turns" /\ call.in < call.stream.units /\ call.out < call.cap
  /\ LET most == Least(call.max, call.stream.units - call.in)
     IN  \E n \in 1 .. most : call' \in ReadsFrom(Given([call EXCEPT !.max = most], n), FALSE)
  /\ call.in >= -CountLimit

(* What is left inside the library is read until nothing comes.            *)
(* Faulty: it stays there.                                                 *)
NothingLeft(c) == [c EXCEPT !.pc = "returns"]
Drained(c) == IF c.out < c.cap THEN [c EXCEPT !.pc = "drains"] ELSE [c EXCEPT !.pc = "returns"]
LzipFinish ==
  /\ call.pc = "turns" /\ ~(call.in < call.stream.units /\ call.out < call.cap)
  /\ call' = Drained(call)

(* After each read the loop asks LZ_compress_finished, which takes the     *)
(* decoder for an encoder.  With pointers of eight bytes the decoder is    *)
(* not accepted, which overwrites its mark that it met damage: it goes on  *)
(* decoding.  With pointers of four bytes it is, and what lies behind its  *)
(* range decoder is the answer.                                            *)
FinishedAnswers(c) == IF c.wide THEN {FALSE} ELSE BOOLEAN
StrayReads(c) == IF c.pc = "again" /\ c.wide /\ Breaks(c, TRUE) THEN {Got(c, n) : n \in 1 .. c.cap} ELSE {}

(* Faulty: it is enough that nothing went wrong.                           *)
NoErrorCame(before, next) == next.out >= before.out
MoreCame(before, next) == next.out > before.out
LzipDrain ==
  /\ call.pc \in {"drains", "again"}
  /\ \E next \in ReadsFrom(call, TRUE) \cup StrayReads(call), finished \in FinishedAnswers(call) :
       call' = [next EXCEPT !.pc = IF MoreCame(call, next) /\ ~finished /\ next.out < next.cap THEN "again" ELSE "returns"]

LzipReturn ==
  /\ call.pc = "returns"
  /\ call' = Done(call, IF call.out <= 0 THEN [ret |-> Failure, size |-> call.cap] ELSE [ret |-> NoError, size |-> call.out])

-----------------------------------------------------------------------------
(* FLAC: text and capacity are in half samples of two bytes each.  A block *)
(* that is damaged is reported and passed over, one that is not all there  *)
(* is the end; the callback writes whole samples as long as it is not at   *)
(* the end of the destination.  Bare frames have no header.                *)
(* Faulty: the callback writes all it was given.                           *)
SamplesUnclipped(out, cap, n) == out + 2 * n
SamplesWritten(out, cap, n) ==
  IF out >= cap THEN out ELSE out + 2 * Least(n, (cap - out + 1) \div 2)

Samples(s)  == s.text \div 2
InBlock(c)  == Least(Block, Samples(c.stream) - c.read)
BlockWhole(c) == 2 * (c.read + InBlock(c)) < c.stream.good
WithBlock(c) ==
  IF BlockWhole(c) THEN [c EXCEPT !.read = @ + InBlock(c), !.out = SamplesWritten(@, c.cap, InBlock(c))]
  ELSE [c EXCEPT !.read = @ + InBlock(c), !.error = TRUE]

NoHeader(c) == c.entry = "flac" /\ c.stream.good = 0
FlacGoesOn(c) == /\ c.read < Samples(c.stream) /\ 2 * (c.read + InBlock(c)) < c.stream.units /\ ~NoHeader(c)
                 /\ c.entry = "frames" => c.out < c.cap /\ ~c.error
FlacBlock ==
  /\ call.pc = "new" /\ call.entry \in {"flac", "frames"} /\ call.memory /\ FlacGoesOn(call)
  /\ call' = WithBlock(call)

(* One call decodes everything, and fails if anything was damaged; the     *)
(* other stops when the destination is full, and fails if it never is.     *)
FlacFails(c) == c.error \/ (NoHeader(c) /\ c.stream.units > 0) \/ (c.entry = "frames" /\ c.out < c.cap)
FlacReturn ==
  /\ call.pc = "new" /\ call.entry \in {"flac", "frames"} /\ call.memory /\ ~FlacGoesOn(call)
  /\ call' = Done(call, IF FlacFails(call) THEN [ret |-> Failure, size |-> call.cap]
                        ELSE [ret |-> NoError, size |-> call.out])

-----------------------------------------------------------------------------
(* LZO's compressors take work memory of the size made for them; the       *)
(* algorithms are those of library.h, each with its special levels.        *)
Algorithms == {"1", "1A", "1B", "1C", "1F", "1X", "1Y", "1Z", "2A"}
LzoLevels == {0, 1, 9, 11, 12, 15, 99, 999}
WorkMemory(a, level) ==
  IF \/ a \in {"1", "1A"} /\ level = 99
     \/ a \in {"1B", "1C"} /\ level \in {99, 999}
     \/ a \in {"1F", "1Y"} /\ level = 999
     \/ a = "1X" /\ level \in {11, 12, 15, 999}
    THEN <<a, level>>
  ELSE IF a \in {"1Z", "2A"} THEN <<a, 999>> ELSE <<a, 0>>
(* The compressor called, as its own work memory and the level it is told. *)
Compressor(a, level) ==
  [memory |-> IF a \in {"1", "1A", "1B", "1C"} /\ level = 99 THEN <<a, 99>>
              ELSE IF a \in {"1B", "1C", "1F", "1X", "1Y"} /\ level = 999 THEN <<a, 999>>
              ELSE IF a = "1X" /\ level \in {11, 12, 15} THEN <<a, level>>
              ELSE IF a \in {"1Z", "2A"} THEN <<a, 999>> ELSE <<a, 0>>,
   level  |-> IF a \in {"1B", "1C"} /\ level \notin {99, 999} THEN IF level \in 1 .. 9 THEN level ELSE -1 ELSE Unset]
WorkMemoryFits == \A a \in Algorithms, level \in LzoLevels : Compressor(a, level).memory = WorkMemory(a, level)

-----------------------------------------------------------------------------
(* The callbacks: a header that was made up, if there is one, then the     *)
(* source.  WavPack may also give its last byte back, and seek.            *)
NewReader(kind) == [kind |-> kind, hdr |-> 0, pos |-> 0, pushed |-> <<>>, reads |-> 0, got |-> <<>>, ended |-> FALSE]
HeaderOf(r) == IF r.kind = "flac" THEN Header ELSE <<>>

(* Faulty: the source is asked for as much again as the header gave.       *)
RestForgotten(requested, given) == requested
RestOf(requested, given) == requested - given

FlacRead(r, requested) ==
  LET hdr == Least(Len(Header) - r.hdr, requested)
      src == Least(Len(Source) - r.pos, RestOf(requested, hdr))
  IN  [r EXCEPT !.hdr = @ + hdr, !.pos = @ + src, !.ended = hdr + src = 0,
                !.got = @ \o SubSeq(Header, r.hdr + 1, r.hdr + hdr) \o SubSeq(Source, r.pos + 1, r.pos + src)]
PlainRead(r, requested) ==
  LET n == Least(Len(Source) - r.pos, requested)
  IN  [r EXCEPT !.pos = @ + n, !.ended = n = 0, !.got = @ \o SubSeq(Source, r.pos + 1, r.pos + n)]
(* The byte given back counts as one of those that remain.                 *)
WavpackRead(r, requested) ==
  LET n == Least(Len(Source) - r.pos, requested)
  IN  IF r.pushed # <<>> /\ n > 0
        THEN [r EXCEPT !.pushed = <<>>, !.pos = @ + (n - 1),
                       !.got = @ \o r.pushed \o SubSeq(Source, r.pos + 1, r.pos + (n - 1))]
      ELSE PlainRead(r, requested)

Read ==
  /\ reader.reads < MaxReads
  /\ \E n \in Requests :
       reader' = [(IF reader.kind = "flac" THEN FlacRead(reader, n)
                   ELSE IF reader.kind = "wavpack" THEN WavpackRead(reader, n) ELSE PlainRead(reader, n))
                  EXCEPT !.reads = @ + 1]
PushBack ==
  /\ reader.kind = "wavpack" /\ reader.reads < MaxReads /\ reader.pushed = <<>> /\ reader.got # <<>>
  /\ LET rest == Len(reader.got) - 1
     IN  reader' = [reader EXCEPT !.pushed = <<reader.got[rest + 1]>>, !.got = SubSeq(@, 1, rest), !.reads = @ + 1]
(* A seek forgets the byte given back; what was read before is not         *)
(* compared with what comes after.                                         *)
Seek ==
  /\ reader.kind = "wavpack" /\ reader.reads < MaxReads
  /\ \E pos \in 0 .. Len(Source) :
       reader' = [reader EXCEPT !.pos = pos, !.pushed = <<>>, !.got = SubSeq(Source, 1, pos), !.reads = @ + 1]

-----------------------------------------------------------------------------
(* Threads that decode XZ: the first builds the tables of the checksums,   *)
(* entry by entry, behind a flag nobody guards.                            *)
Empty == [e \in 1 .. TableEntries |-> FALSE]
NewThreads == [pc |-> [t \in Threads |-> "call"], at |-> [t \in Threads |-> 1], ready |-> FALSE, table |-> Empty]

TestFlag(t) ==
  /\ threads.pc[t] = "call"
  /\ threads' = [threads EXCEPT !.pc[t] = IF threads.ready THEN "uses" ELSE "builds"]
(* Faulty: an entry is cleared before it is counted up, as blast.c's are.  *)
BuiltFromZero(t, at) == [e \in 1 .. TableEntries |-> e = at - 1 \/ (e < at - 1 /\ threads.table[e])]
Built(t, at) == [threads.table EXCEPT ![at] = TRUE]
Build(t) ==
  /\ threads.pc[t] = "builds" /\ threads.at[t] <= TableEntries
  /\ threads' = [threads EXCEPT !.table = Built(t, threads.at[t]), !.at[t] = @ + 1]
SetFlag(t) ==
  /\ threads.pc[t] = "builds" /\ threads.at[t] > TableEntries
  /\ threads' = [threads EXCEPT !.ready = TRUE, !.pc[t] = "uses"]

-----------------------------------------------------------------------------
NoCall == NewCall("keeps", [text |-> 0, units |-> 2, good |-> 2], 1, TRUE, TRUE)

Calls == {NewCall(e, s, cap, memory, wide) :
            e \in AtOnce \cup Turned, s \in Streams, cap \in 1 .. MaxCap, memory \in BOOLEAN, wide \in BOOLEAN}
Possible(c) ==
  /\ c.entry \in {"flac", "frames"} => c.stream.text % 2 = 0
  /\ c.memory \/ c.entry \in Allocating
  /\ c.wide \/ c.entry = "lzip"
LibraryInit ==
  \/ /\ call \in {c \in Calls : Possible(c)}
     /\ reader = NewReader("none") /\ threads = NewThreads
  \/ call = NoCall /\ reader \in {NewReader(k) : k \in {"flac", "plain", "wavpack"}} /\ threads = NewThreads

LzipStep   == LzipOpen \/ LzipTurn \/ LzipFinish \/ LzipDrain \/ LzipReturn
CallStep   == CallAtOnce \/ CallRefused \/ LzipStep \/ FlacBlock \/ FlacReturn
ReaderStep == Read \/ PushBack \/ Seek
ThreadStep == \E t \in Threads : TestFlag(t) \/ Build(t) \/ SetFlag(t)

LibraryNext ==
  \/ reader.kind = "none" /\ CallStep /\ UNCHANGED <<reader, threads>>
  \/ reader.kind # "none" /\ ReaderStep /\ UNCHANGED <<call, threads>>
  \/ call = NoCall /\ reader = NewReader("flac") /\ ThreadStep /\ UNCHANGED <<call, reader>>

(* The loops run to their end.                                             *)
CallLoop == reader.kind = "none" /\ CallStep /\ UNCHANGED <<reader, threads>>
LibrarySpec == LibraryInit /\ [][LibraryNext]_callVars /\ WF_callVars(CallLoop)

CallsAreNew == call = NoCall /\ reader = NewReader("plain") /\ threads = NewThreads

-----------------------------------------------------------------------------
(* An undamaged stream that fits arrives, whole and counted, whatever      *)
(* library does the work and however its answers come in pieces.  The      *)
(* calls that ask for so many bytes get exactly those if the text has as   *)
(* many (bare frames of FLAC: if whole samples fill the destination).      *)
(* Pointers of four bytes may make lzip_decode stop early.                 *)
Asking == {"frames", "lzma", "ppmd"}
Delivered ==
  call.pc = "done" /\ Whole(call.stream) /\ call.stream.text > 0 /\ call.memory /\ call.wide =>
    IF call.entry \in Asking
      THEN call.stream.text >= call.cap /\ (call.entry = "frames" => call.cap % 2 = 0)
             => call.ret = NoError /\ call.size = call.cap
      ELSE call.stream.text <= call.cap => call.ret = NoError /\ call.size = call.stream.text

(* What fails is not taken for done by the calls that ask their library    *)
(* for a verdict, and *dst_size is then as the caller left it, except      *)
(* where the library was given the caller's own.  lzip_decode counts what  *)
(* was written, less what it took the answers to damage for.               *)
FailuresAreTold ==
  call.pc = "done" =>
    /\ ~call.memory => call.ret # NoError \/ (call.entry = "lzfse" /\ call.stream.units = 0)
    /\ call.entry \in {"keeps", "lzo"} /\ call.ret = NoError => Whole(call.stream) /\ call.size = call.stream.text
    /\ call.entry \notin {"lzma", "lzo", "lzo1"} /\ call.ret # NoError => call.size = call.cap
    /\ call.entry = "lzip" /\ call.ret = NoError => call.size <= call.read /\ (call.fatal \/ call.size = call.read)

(* Nothing is written, nor said to be, beyond the destination, except by   *)
(* the loops that do not ask what is left of it: lzlib's reads once damage *)
(* set them back or the text does not fit, the samples of FLAC at the end  *)
(* of a destination that is not whole samples, and LZO1's decompressors.   *)
MayOverrun(c) ==
  \/ c.entry = "lzip" /\ (~Whole(c.stream) \/ c.stream.text > c.cap)
  \/ c.entry \in {"flac", "frames"} /\ c.cap % 2 = 1 /\ c.stream.text > c.cap
  \/ c.entry = "lzo1" /\ c.stream.text > c.cap
WritesFit ==
  ~MayOverrun(call) => call.out <= call.cap /\ (call.pc = "done" /\ call.ret = NoError => call.size <= call.cap)

(* The library reads the made-up header and then the source, in order,     *)
(* whatever sizes it asks for, and is told of the end when all was read.   *)
ReadsAreInOrder ==
  /\ reader.got = SubSeq(HeaderOf(reader) \o Source, 1, Len(reader.got))
  /\ reader.ended /\ reader.kind # "wavpack" => reader.got = HeaderOf(reader) \o Source

(* A thread that decodes XZ finds the checksum tables built, whoever built *)
(* them, and nobody takes an entry of another's away.                      *)
TablesAreBuilt == \A t \in Threads, e \in 1 .. TableEntries : threads.pc[t] = "uses" => threads.table[e]

CallsKeepTheirWord == Delivered /\ FailuresAreTold /\ WritesFit /\ WorkMemoryFits
CallbacksServe     == ReadsAreInOrder /\ TablesAreBuilt

(* The capacity that library.h speaks of ("On entry *dst_size holds the    *)
(* capacity of dst_buffer; on successful return it holds the number of     *)
(* bytes actually written.", library.h:67) holds for the calls whose loops *)
(* are the library's own: lzip_decode and the two of flac.c, of which one  *)
(* "stops as soon as the destination buffer is full" (flac.c:325).         *)
SizesFit == call.pc = "done" /\ call.entry \in Turned /\ call.ret = NoError => call.size <= call.cap

(* A call on an undamaged stream returns.                                  *)
EveryCallReturns == [](reader.kind = "none" /\ Whole(call.stream) => <>(call.pc = "done"))
=============================================================================
