----------------------------- MODULE MatchTexts ------------------------------
(***************************************************************************)
(* The loops of the LZ77 decoders, which turn literals and matches into a  *)
(* text: RAR 2 (rar/rar20.c), Deflate64, Implode and PKWARE's library      *)
(* (zip/), StuffIt X Deflate and Darkhorse, StuffIt 13 and 14 (stuffit/),  *)
(* LHA -lh4- to -lh7-, LArc and PMarc 1 (lha/), ARJ (arj/), ACE 1 (ace/),  *)
(* PAK Distill (pak/), Compact Pro (cpt/), Zoo's LH5 (zoo/), DART's LZH    *)
(* (apple_lzh.c) and KenCode (kencode.c); and how they read the lists of   *)
(* code widths that stand before a block.                                  *)
(*                                                                         *)
(* A stream is a sequence of tokens, each of them what one turn of a loop  *)
(* reads: [kind] is "literal" [byte], "match" [dist, len], "end", "bad" (a *)
(* symbol that cannot be read) or a header.  MatchCodes has the numbers    *)
(* in them.  A decoder that would read one kind of token as another is     *)
(* lost.                                                                   *)
(***************************************************************************)
EXTENDS Integers, Sequences, TLC
LOCAL INSTANCE SequencesExt
LOCAL INSTANCE FiniteSetsExt

CONSTANTS
  RingSize,  \* the window of the decoders that have one, and Zoo's DICSIZ
  BlockCost  \* CPT_BLOCK_SIZE

(* What the output is, whether the loop goes on, and what the call returns.*)
New(cap) == [out |-> <<>>, cap |-> cap, more |-> TRUE, result |-> 0, lost |-> FALSE]
NewRing(cap) == New(cap) @@ [ring |-> [i \in 0 .. RingSize - 1 |-> 0], at |-> 0]
Stop(s) == [s EXCEPT !.more = FALSE]
Fail(s) == [s EXCEPT !.more = FALSE, !.result = -1]
Lose(s) == [s EXCEPT !.more = FALSE, !.lost = TRUE]
Full(s) == Len(s.out) = s.cap

Run(Turn(_, _), s, tokens) == FoldLeft(LAMBDA r, t : IF r.more THEN Turn(r, t) ELSE r, s, tokens)
Repeated(Step(_), s, n) == FoldLeft(LAMBDA r, k : Step(r), s, [k \in 1 .. n |-> k])

Put(s, b) == IF Full(s) THEN s ELSE [s EXCEPT !.out = Append(@, b)]
Before(s, dist) == IF dist > Len(s.out) THEN 0 ELSE s.out[Len(s.out) + 1 - dist]
Copy(s, dist, len) == Repeated(LAMBDA r : Put(r, Before(r, dist)), s, len)

RingPut(s, b) == IF Full(s) THEN s ELSE [Put(s, b) EXCEPT !.ring[s.at] = b, !.at = (@ + 1) % RingSize]
RingCopy(s, dist, len) == Repeated(LAMBDA r : RingPut(r, r.ring[(r.at - dist) % RingSize]), s, len)

(* A literal or a match, for the decoders that do nothing else with them.  *)
Plain(s, t) == IF t.kind = "literal" THEN Put(s, t.byte) ELSE IF t.kind = "match" THEN Copy(s, t.dist, t.len) ELSE Lose(s)
PlainRing(s, t) ==
  IF t.kind = "literal" THEN RingPut(s, t.byte) ELSE IF t.kind = "match" THEN RingCopy(s, t.dist, t.len) ELSE Lose(s)

-----------------------------------------------------------------------------
(* RAR 2: new tables may turn to sound, of one to four channels in turn,   *)
(* where a byte is what is added to what its channel expects.              *)
Rar20New(cap) == New(cap) @@ [audio |-> FALSE, numchannels |-> 0, channel |-> 0, expected |-> [c \in 0 .. 3 |-> 0]]

(* Faulty: the channel goes on where it was, though there are fewer.       *)
Rar20TablesKeepChannel(s, t) ==
  IF ~t.ok THEN Fail(s)
  ELSE [s EXCEPT !.audio = t.audio, !.numchannels = IF t.audio THEN t.channels ELSE @]

Rar20Tables(s, t) ==
  IF ~t.ok THEN Fail(s)
  ELSE [s EXCEPT !.audio = t.audio, !.numchannels = IF t.audio THEN t.channels ELSE @,
                 !.channel = IF t.audio /\ @ >= t.channels THEN 0 ELSE @]

Sample(s, delta) ==
  [Put(s, (s.expected[s.channel] + delta) % 256) EXCEPT
     !.expected[s.channel] = (@ + delta) % 256,
     !.channel = IF @ + 1 >= s.numchannels THEN 0 ELSE @ + 1]

Rar20Turn(s, t) ==
  IF Full(s) THEN Stop(s)
  ELSE CASE t.kind = "bad" -> Fail(s)
         [] t.kind = "tables" -> Rar20Tables(s, t)
         [] t.kind = "sample" /\ s.audio -> Sample(s, t.delta)
         [] t.kind = "match" /\ ~s.audio /\ (t.dist <= 0 \/ t.dist > Len(s.out)) -> Fail(s)
         [] t.kind \in {"literal", "match"} /\ ~s.audio -> Plain(s, t)
         [] OTHER -> Lose(s)

-----------------------------------------------------------------------------
(* Deflate: blocks, of which one says that it is the last.  The one stops  *)
(* in a block when the output is full or a symbol is bad; for the other a  *)
(* bad symbol only ends the block, and matches are read on without effect. *)
Deflate64New(cap) == New(cap) @@ [inBlock |-> FALSE, final |-> FALSE]

Stored(s, t) == [FoldLeft(Put, s, t.bytes) EXCEPT !.final = t.final]
Coded(s, t) == IF t.ok THEN [s EXCEPT !.inBlock = TRUE, !.final = t.final] ELSE Fail(s)

Deflate64Turn(s, t) ==
  IF Full(s) \/ (~s.inBlock /\ s.final) THEN Stop(s)
  ELSE CASE ~s.inBlock /\ t.kind = "stored" -> Stored(s, t)
         [] ~s.inBlock /\ t.kind = "block" -> Coded(s, t)
         [] s.inBlock /\ t.kind = "end" -> [s EXCEPT !.inBlock = FALSE]
         [] s.inBlock /\ t.kind = "bad" -> Fail(s)
         [] s.inBlock -> Plain(s, t)
         [] OTHER -> Lose(s)

SitxNew(cap) == NewRing(cap) @@ [inBlock |-> FALSE, final |-> FALSE]

SitxTurn(s, t) ==
  IF ~s.inBlock /\ (Full(s) \/ s.final) THEN Stop(s)
  ELSE CASE ~s.inBlock /\ t.kind = "stored" -> [FoldLeft(RingPut, s, t.bytes) EXCEPT !.final = t.final]
         [] ~s.inBlock /\ t.kind = "block" -> Coded(s, t)
         [] s.inBlock /\ (t.kind \in {"end", "bad"} \/ (t.kind = "literal" /\ Full(s))) -> [s EXCEPT !.inBlock = FALSE]
         [] s.inBlock -> PlainRing(s, t)
         [] OTHER -> Lose(s)

(* Implode: until the output is full or the input ends.                    *)
ImplodeTurn(s, t) == IF Full(s) THEN Stop(s) ELSE IF t.kind = "bad" THEN Fail(s) ELSE Plain(s, t)

-----------------------------------------------------------------------------
(* LHA and ARJ: before a symbol beyond the size of the last block comes    *)
(* the next header.                                                        *)
CountedNew(cap) == NewRing(cap) @@ [size |-> 0, pos |-> 0, headed |-> FALSE]

LhStaticTurn(s, t) ==
  LET due == s.pos >= s.size /\ ~s.headed IN
  IF Full(s) THEN Stop(s)
  ELSE CASE due /\ t.kind = "block" -> IF t.ok THEN [s EXCEPT !.size = t.size, !.pos = 0, !.headed = TRUE] ELSE Fail(s)
         [] ~due /\ t.kind = "bad" -> Stop(s)
         [] ~due -> PlainRing([s EXCEPT !.pos = @ + 1, !.headed = FALSE], t)
         [] OTHER -> Lose(s)

ArjTurn(s, t) == LhStaticTurn(s, t)
FastestTurn(s, t) == IF Full(s) THEN Stop(s) ELSE PlainRing(s, t)
AppleLzhTurn(s, t) == IF Full(s) THEN Stop(s) ELSE PlainRing(s, t)

(* LArc sends the place in the window, counted from one the encoder fills  *)
(* first; -lz5- has a byte of flags for eight tokens.                      *)
LzsTurn(s, t) == IF Full(s) THEN Stop(s)
                 ELSE IF t.kind = "place" THEN RingCopy(s, s.at - t.place - 17, t.len) ELSE PlainRing(s, t)

Lz5New(cap) == NewRing(cap) @@ [flags |-> <<>>]
Lz5Turn(s, t) ==
  IF Full(s) THEN Stop(s)
  ELSE CASE s.flags = <<>> /\ t.kind = "flags" -> [s EXCEPT !.flags = t.flags]
         [] s.flags # <<>> /\ Head(s.flags) = 1 /\ t.kind = "literal" -> RingPut([s EXCEPT !.flags = Tail(@)], t.byte)
         [] s.flags # <<>> /\ Head(s.flags) = 0 /\ t.kind = "place" ->
              RingCopy([s EXCEPT !.flags = Tail(@)], s.at - t.place - 18, t.len)
         [] OTHER -> Lose(s)

(* PMarc 1: a block of bytes is followed by a match without a bit to say   *)
(* so, unless it is as long as a block can be.                             *)
Pm1New(cap) == NewRing(cap) @@ [bytes_left |-> 0, next_is_match |-> FALSE]
Pm1Turn(s, t, longest) ==
  IF Full(s) THEN Stop(s)
  ELSE CASE s.bytes_left > 0 /\ t.kind = "literal" -> RingPut([s EXCEPT !.bytes_left = @ - 1], t.byte)
         [] s.bytes_left = 0 /\ t.kind = "match" /\ t.bit = ~s.next_is_match ->
              RingCopy([s EXCEPT !.next_is_match = FALSE], t.dist, t.len)
         [] s.bytes_left = 0 /\ t.kind = "bytes" /\ ~s.next_is_match ->
              [s EXCEPT !.bytes_left = t.n, !.next_is_match = t.n < longest]
         [] OTHER -> Lose(s)

-----------------------------------------------------------------------------
(* StuffIt 13: the code for a symbol is the one for what came before it.   *)
M13New(cap) == NewRing(cap) @@ [curr |-> "first"]
M13Turn(s, t) ==
  IF Full(s) \/ t.kind \in {"end", "bad"} THEN Stop(s)
  ELSE IF t.code # s.curr THEN Lose(s)
  ELSE PlainRing([s EXCEPT !.curr = IF t.kind = "literal" THEN "first" ELSE "second"], t)

(* StuffIt 14: so many blocks of so many bytes; a match beyond the last    *)
(* byte of its block makes the count of what is left wrap around.          *)
M14New(cap, blocks) == NewRing(cap) @@ [blocks |-> blocks, left |-> 0]
M14Turn(s, t) ==
  IF Full(s) \/ (s.left = 0 /\ s.blocks = 0) THEN Stop(s)
  ELSE CASE s.left = 0 /\ t.kind = "block" -> [s EXCEPT !.blocks = @ - 1, !.left = t.size]
         [] s.left # 0 /\ t.kind = "literal" -> PlainRing([s EXCEPT !.left = @ - 1], t)
         [] s.left # 0 /\ t.kind = "match" -> PlainRing([s EXCEPT !.left = @ - t.len], t)
         [] OTHER -> Lose(s)

(* PAK Distill: a match is copied into the window to its end.              *)
WindowPut(s, b) == [Put(s, b) EXCEPT !.ring[s.at] = b, !.at = (@ + 1) % RingSize]
DistillTurn(s, t) ==
  IF Full(s) \/ t.kind \in {"end", "bad"} THEN Stop(s)
  ELSE IF t.kind = "literal" THEN WindowPut(s, t.byte)
  ELSE Repeated(LAMBDA r : WindowPut(r, r.ring[(r.at - t.dist) % RingSize]), s, t.len)

(* Darkhorse: the first literal after a match is read with a guess, the    *)
(* byte that would have come next; no guess after that.                    *)
DarkhorseNew(cap) == NewRing(cap) @@ [next |-> -1]
(* Faulty: the place is taken from after the match.                        *)
NextAfterMatch(s, t) == [s EXCEPT !.next = s.ring[(s.at - t.dist + (t.len % t.dist)) % RingSize]]
NextGuess(s, t) == [s EXCEPT !.next = s.ring[(s.at - t.len - t.dist + (t.len % t.dist)) % RingSize]]
DarkhorseTurn(s, t) ==
  CASE Full(s) \/ t.kind = "end" -> Stop(s)
    [] t.kind = "literal" /\ t.guess = s.next -> [RingPut(s, t.byte) EXCEPT !.next = -1]
    [] t.kind = "match" -> NextGuess(RingCopy(s, t.dist, t.len), t)
    [] OTHER -> Lose(s)

-----------------------------------------------------------------------------
(* Compact Pro: a block ends when its symbols have cost enough, then its   *)
(* last byte is filled up and two bytes follow, or three, to an even       *)
(* number; text that finds no room is an error.                            *)
CptNew(cap) == NewRing(cap) @@ [cost |-> BlockCost, started |-> FALSE]
RingPutOrFail(s, b) == IF Full(s) THEN Fail(s) ELSE RingPut(s, b)
CptTurn(s, t) ==
  LET due == s.cost >= BlockCost IN
  CASE due /\ t.kind = "block" ->
         IF s.started /\ t.skipped # (IF t.consumed % 2 = 1 THEN 3 ELSE 2) THEN Lose(s)
         ELSE IF t.ok THEN [s EXCEPT !.cost = 0, !.started = TRUE] ELSE Fail(s)
    [] ~due /\ t.kind = "bad" -> Fail(s)
    [] ~due /\ t.kind = "literal" -> RingPutOrFail([s EXCEPT !.cost = @ + 2], t.byte)
    [] ~due /\ t.kind = "match" ->
         Repeated(LAMBDA r : IF r.more THEN RingPutOrFail(r, r.ring[(r.at - t.dist) % RingSize]) ELSE r,
                  [s EXCEPT !.cost = @ + 3], t.len)
    [] OTHER -> Lose(s)

-----------------------------------------------------------------------------
(* Zoo: decode gives as much as the buffer takes, which is the window too, *)
(* and the rest of a match in the next call; i and j are its statics.      *)
ZooNew == [buffer |-> [k \in 0 .. RingSize - 1 |-> 0], r |-> 0, i |-> 0, j |-> 0, blocksize |-> 0, decoded |-> FALSE,
           out |-> <<>>, lost |-> FALSE]

ZooReturn(s) == [s EXCEPT !.out = @ \o [k \in 1 .. s.r |-> s.buffer[k - 1]], !.r = 0]
ZooByte(s, b) == LET t == [s EXCEPT !.buffer[s.r] = b, !.r = @ + 1] IN IF t.r = RingSize THEN ZooReturn(t) ELSE t
ZooCopyByte(s) == [ZooByte(s, s.buffer[s.i]) EXCEPT !.i = (@ + 1) % RingSize, !.j = @ - 1]

DecodeC(s, t) ==
  CASE s.blocksize = 0 /\ t.kind = "block" -> [s EXCEPT !.blocksize = t.size, !.decoded = t.size = 0]
    [] s.blocksize > 0 /\ t.kind = "literal" -> [s EXCEPT !.blocksize = @ - 1]
    [] s.blocksize > 0 /\ t.kind = "match" ->
         [s EXCEPT !.blocksize = @ - 1, !.j = t.len, !.i = (s.r - (t.dist - 1) - 1) % RingSize]
    [] OTHER -> [s EXCEPT !.lost = TRUE]

Decode(s, t) ==
  LET c == DecodeC(s, t) IN
  IF s.decoded \/ s.lost THEN s
  ELSE IF c.decoded THEN ZooReturn(c)
  ELSE IF t.kind = "literal" /\ ~c.lost THEN ZooByte(c, t.byte)
  ELSE Repeated(ZooCopyByte, c, c.j)

(* The window goes to the destination, and one byte too many is an error.  *)
LzhDecode(tokens, cap) ==
  LET s == FoldLeft(Decode, ZooNew, tokens)
  IN  [out |-> SubSeq(s.out, 1, Min({cap, Len(s.out)})), result |-> IF Len(s.out) > cap THEN -1 ELSE 0,
       lost |-> s.lost \/ ~s.decoded]

-----------------------------------------------------------------------------
(* PKWARE's library: full windows are given to outfun, which takes a       *)
(* window whole or not at all, the last one with what it has; err is       *)
(* blast's, 2 if the input ends too early.                                 *)
BlastNew(cap) == [New(cap) EXCEPT !.result = 2] @@ [win |-> [k \in 0 .. RingSize - 1 |-> 0], next |-> 0, first |-> TRUE]

OutFun(s, n) ==
  IF Len(s.out) + n > s.cap THEN [s EXCEPT !.more = FALSE, !.result = 1]
  ELSE [s EXCEPT !.out = @ \o [k \in 1 .. n |-> s.win[k - 1]]]
BlastByte(s, b) ==
  LET w == [s EXCEPT !.win[s.next] = b, !.next = @ + 1] IN
  IF ~s.more THEN s
  ELSE IF w.next < RingSize THEN w
  ELSE LET f == OutFun(w, RingSize) IN IF f.more THEN [f EXCEPT !.next = 0, !.first = FALSE] ELSE f

BlastTurn(s, t) ==
  CASE t.kind = "end" -> [s EXCEPT !.more = FALSE, !.result = 0]
    [] t.kind = "literal" -> BlastByte(s, t.byte)
    [] t.kind = "match" /\ s.first /\ t.dist > s.next -> [s EXCEPT !.more = FALSE, !.result = -3]
    [] t.kind = "match" -> Repeated(LAMBDA r : BlastByte(r, r.win[(r.next - t.dist) % RingSize]), s, t.len)
    [] OTHER -> Lose(s)

Blast(tokens, cap) ==
  LET s == Run(BlastTurn, BlastNew(cap), tokens)
      f == OutFun(s, s.next)
  IN  IF s.result = 1 \/ s.next = 0 THEN s
      ELSE [s EXCEPT !.out = f.out, !.result = IF f.result = 1 /\ s.result = 0 THEN 1 ELSE s.result]

-----------------------------------------------------------------------------
(* ACE 1: the dictionary fills up to what is wanted or a little less than  *)
(* itself, matches may overshoot; what came is copied out if it all fits.  *)
AceNew(cap, maxLen) ==
  New(cap) @@ [ring |-> [k \in 0 .. RingSize - 1 |-> 0], at |-> 0, file_size |-> cap, total |-> 0,
               old |-> 0, count |-> 0, block_size |-> 0, headed |-> FALSE, room |-> Min({cap, RingSize - maxLen})]

AceByte(s, b) == [s EXCEPT !.ring[s.at] = b, !.at = (@ + 1) % RingSize, !.count = @ + 1]
AceCopied(s) == [k \in 1 .. s.count |-> s.ring[(s.old + k - 1) % RingSize]]
AceFlush(s, maxLen) ==
  LET left == s.file_size - s.count IN
  [s EXCEPT !.out = IF s.count > 0 /\ s.total + s.count <= s.cap THEN @ \o AceCopied(s) ELSE @,
            !.total = @ + s.count, !.file_size = left, !.count = 0, !.old = s.at,
            !.room = Min({left, RingSize - maxLen}), !.more = s.more /\ left > 0]

AceSymbol(s, t) ==
  CASE s.block_size = 0 /\ ~s.headed /\ t.kind = "block" ->
         IF t.ok THEN [s EXCEPT !.block_size = t.size, !.headed = TRUE] ELSE Fail(s)
    [] s.block_size > 0 /\ t.kind = "literal" -> AceByte([s EXCEPT !.block_size = @ - 1, !.headed = FALSE], t.byte)
    [] s.block_size > 0 /\ t.kind = "match" ->
         Repeated(LAMBDA r : AceByte(r, r.ring[(r.at - t.dist) % RingSize]), [s EXCEPT !.block_size = @ - 1, !.headed = FALSE], t.len)
    [] OTHER -> Lose(s)

AceTurn(s, t, maxLen) == LET r == AceSymbol(s, t) IN IF r.count >= r.room \/ ~r.more THEN AceFlush(r, maxLen) ELSE r

-----------------------------------------------------------------------------
(* KenCode: lengths are counted from three after a run of literals, which  *)
(* then cannot be followed by another unless it was as long as a run gets. *)
KenNew(cap) == New(cap) @@ [had_literals |-> TRUE]
KenTurn(s, t, longest) ==
  CASE Full(s) -> Stop(s)
    [] t.raw = 0 /\ s.had_literals ->
         IF t.kind # "bytes" THEN Lose(s)
         ELSE IF Len(s.out) + Len(t.bytes) > s.cap THEN [Stop(s) EXCEPT !.result = -4]
         ELSE [FoldLeft(Put, s, t.bytes) EXCEPT !.had_literals = Len(t.bytes) >= longest]
    [] OTHER ->
         LET n == t.raw + IF s.had_literals THEN 2 ELSE 3 IN
         IF t.kind # "match" THEN Lose(s)
         ELSE IF Len(s.out) + n > s.cap \/ t.dist > Len(s.out) THEN [Stop(s) EXCEPT !.result = -4]
         ELSE [Copy(s, t.dist, n) EXCEPT !.had_literals = TRUE]
=============================================================================
