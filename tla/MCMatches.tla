------------------------------ MODULE MCMatches ------------------------------
(***************************************************************************)
(* What the encoders of the LZ77 formats send, and that the decoders make  *)
(* the same of it: every number has one code, and matches come back        *)
(* whichever of the ways to say them the encoder prefers.                  *)
(***************************************************************************)
EXTENDS MatchCodes, MatchTexts
LOCAL INSTANCE SequencesExt
LOCAL INSTANCE FiniteSetsExt

(* The numbers of the codes are those from one bound to another, each once.*)
EndOf(code) == code.base + 2^code.bits
Tiles(table, from, to) ==
  LET bases == {table[i].base : i \in DOMAIN table} IN
  /\ from \in bases /\ Cardinality(bases) = Len(table)
  /\ \A i \in DOMAIN table : from <= table[i].base /\ EndOf(table[i]) \in bases \cup {to + 1}
  /\ \A i, j \in DOMAIN table : table[i].base < table[j].base => EndOf(table[i]) <= table[j].base

(* The tree's leaves are the ranges 0 to n, each at the end of one path.   *)
IsPrefixCode(tree) ==
  LET walks == {PmWalk(tree, bits) : bits \in [1 .. 5 -> {0, 1}]}
      leaves(i) == {w \in walks : w.index = i}
      n == Cardinality({w.index : w \in walks}) - 1
  IN  /\ {w.index : w \in walks} = 0 .. n
      /\ \A i \in 0 .. n : \E w \in walks : leaves(i) = {w} /\
           Cardinality({bits \in [1 .. 5 -> {0, 1}] : PmWalk(tree, bits) = w}) = 2^(5 - w.used)

PmPositions == UNION {{x - 1, x, x + 1} : x \in {64, 320, 576, 832, 1088, 1600, 2624, 2880, 3136, 3648, 4672, 6720, 10816}}
PmReach(pos, ranges) == {t \in PmTypes(pos) : t.range \in ranges}
PmIn(pos, t, d) == d \in Numbers(PmDistances(t.range, pos).base, PmDistances(t.range, pos).bits)

EveryNumberHasOneCode ==
  /\ Tiles(RarLengths, 0, 255) /\ Tiles(RarShortDistances, 0, 255)
  /\ Tiles(Rar20Distances, 0, 2^20 - 1) /\ Tiles(Rar30Distances, 0, 2^22 - 1)
  /\ Tiles(Rar50Lengths, 2, 4097) /\ Tiles(Rar50Distances, 1, 2^30)
  /\ Tiles(SubSeq(Deflate64Lengths, 1, 28), 3, 258) /\ Deflate64Lengths[29] = Code(3, 16)
  /\ Tiles(Deflate64Distances, 1, 65536) /\ Tiles(SitxDistances, 1, 32768)
  (* What is counted in 4 or 5 bits suffices for windows of 2^w bytes.     *)
  /\ \A w \in {12, 13, 15, 16} : Tiles(LhDistances(w + 1), 1, 2^w) /\ w + 1 < 2^(IF w < 15 THEN 4 ELSE 5)
  /\ \A w \in {15, 16} : Tiles(ArjDistances(w + 1), 1, 2^w)
  /\ Tiles(M13Distances, 1, 65536) /\ Tiles(SubSeq(M13Lengths, 1, 63), 3, 65 + 1023)
  /\ Tiles(AceDistances, 0, 2^22 - 1)
  /\ Tiles(M14Lengths, 4, 16387) /\ Tiles(M14Distances, 1, 1048575)
  /\ Tiles(FastestLengths, 0, 254) /\ Tiles(FastestPointers, 0, 15871)
  /\ \A more \in BOOLEAN : Tiles(ImplodeLengths(more), IF more THEN 3 ELSE 2, IF more THEN 321 ELSE 320)
  /\ \A large \in BOOLEAN : Tiles(ImplodeDistances(large), 1, IF large THEN 8192 ELSE 4096)
  /\ Tiles(BlastLengths, 2, BlastEnd) /\ Tiles(BlastDistances(2, 6), 1, 256) /\ Tiles(BlastDistances(3, 6), 1, 4096)
  /\ Tiles(DarkhorseLengths, 2, DarkhorseEnd) /\ Tiles(DarkhorseDistances, 0, 2^30 - 1)
  /\ Tiles(PmCopyCounts, 3, 244) /\ Tiles(PmBlockCounts, 1, MAX_BYTE_BLOCK_LEN) /\ Tiles(PmByteRanges, 0, 255)
  (* PAK and PMarc 1 reach as far back as there is anything.               *)
  /\ \A size \in 1 .. 200 : \E i \in DOMAIN DistillDistances(size) : i \in CodesOf(DistillDistances(size), size)
  /\ CodesOf(DistillDistances(9000), 8192) # {}
  /\ \A pos \in PmPositions : \A d \in {0, pos - 1} \cup {r.base : r \in {PmRanges[i] : i \in DOMAIN PmRanges}} : d < pos =>
       /\ d < 10816 => Cardinality({t \in PmReach(pos, 2 .. 5) : PmIn(pos, t, d)}) = 1
       /\ d < 320 => Cardinality({t \in PmReach(pos, 0 .. 1) : PmIn(pos, t, d)}) = 1
  /\ \A pos \in PmPositions : \A s, t \in PmTypes(pos) : s # t => ~IsPrefix(s.bits, t.bits)
  (* One tree of PMarc 1 misses its own fourth node.                       *)
  /\ \A i \in DOMAIN PmTrees : IsPrefixCode(PmTrees[i]) <=> i # 18

-----------------------------------------------------------------------------
(* An encoder's choices for a match, given the matches it sent before.     *)
Spellings(table, x) == IF CodesOf(table, x) = {} THEN {} ELSE {Spelt(table, x)}
If(condition, tokens) == IF condition THEN tokens ELSE {}

Again(st, m) == If(st.last = m, {[kind |-> "again"]})
Olds(st, m, lens) == {[kind |-> "old", k |-> k, len |-> c] : k \in {k \in 1 .. 4 : st.old[k] = m.offs}, c \in lens}
Shorts(m) == If(m.len = 2, {[kind |-> "short", offs |-> c] : c \in Spellings(RarShortDistances, m.offs - 1)})
Fulls(offs, lens) == {[kind |-> "full", offs |-> o, len |-> l] : o \in offs, l \in lens}
From(offs, bounds) == Cardinality({b \in bounds : offs >= b})

Rar20Tokens(st, m, rest) ==
  Again(st, m) \cup Shorts(m)
    \cup Olds(st, m, Spellings(RarLengths, m.len - 2 - From(m.offs, {257, 8192, 262144})))
    \cup Fulls(Spellings(Rar20Distances, m.offs - 1), Spellings(RarLengths, m.len - 3 - From(m.offs, {8192, 262144})))

(* Low bits are said to be those of before if all that follow have them.   *)
LowOf(m) == (m.offs - 1) % 16
Rar30Tokens(st, m, rest) ==
  LET same == \A i \in DOMAIN rest : LowOf(rest[i]) = LowOf(m)
      low  == IF st.repeats > 0 THEN -1 ELSE IF st.low = LowOf(m) /\ same THEN 16 ELSE LowOf(m)
  IN  Again(st, m) \cup Shorts(m) \cup Olds(st, m, Spellings(RarLengths, m.len - 2))
        \cup {[kind |-> "full", offs |-> t.offs, len |-> t.len, low |-> low, high |-> t.offs.extra \div 16] :
                t \in Fulls(Spellings(Rar30Distances, m.offs - 1), Spellings(RarLengths, m.len - 3 - From(m.offs, {8192, 262144})))}
        \cup If(m.len >= 32, {[kind |-> "far", offs |-> m.offs - 2, len |-> m.len - 32]})
        \cup If(m.offs = 1 /\ m.len >= 4, {[kind |-> "near", len |-> m.len - 4]})

Rar50Tokens(st, m, rest) ==
  Again(st, m) \cup Olds(st, m, Spellings(Rar50Lengths, m.len))
    \cup Fulls(Spellings(Rar50Distances, m.offs), Spellings(Rar50Lengths, m.len - From(m.offs, {257, 8193, 262145})))

AceTokens(st, m, rest) ==
  {[t EXCEPT !.len = m.len - IF t.k > 2 THEN 3 ELSE 2] : t \in Olds(st, m, {0})}
    \cup {[kind |-> "full", k |-> 0, offs |-> o, len |-> m.len - 2 - From(m.offs, {257, 8193})] : o \in Spellings(AceDistances, m.offs - 1)}

DarkhorseTokens(st, m, rest) ==
  If(m.len = 1 /\ st.old[1] = m.offs, {[kind |-> "again", k |-> 0]})
    \cup Olds(st, m, Spellings(DarkhorseLengths, m.len))
    \cup Fulls(Spellings(DarkhorseDistances, m.offs - 1), Spellings(DarkhorseLengths, m.len))

(* The encoder's own list of distances: where matches go in it.            *)
MovedUp(list, k) == [i \in 1 .. 4 |-> IF i = 1 THEN list[k] ELSE IF i <= k THEN list[i - 1] ELSE list[i]]
AfterSending(st, m, t, all) ==
  LET low == IF t.kind # "full" \/ "low" \notin DOMAIN t \/ m.offs <= 32 THEN [low |-> st.low, repeats |-> st.repeats]
             ELSE [low |-> LowOf(m), repeats |-> IF t.low = -1 THEN st.repeats - 1 ELSE IF t.low = 16 THEN 15 ELSE 0]
  IN  [old     |-> IF all \/ t.kind \in {"full", "short"} THEN <<m.offs>> \o SubSeq(st.old, 1, 3)
                   ELSE IF t.kind = "old" THEN MovedUp(st.old, t.k) ELSE st.old,
       last    |-> IF t.kind \in {"far", "near"} THEN st.last ELSE m,
       low     |-> low.low, repeats |-> low.repeats, tokens |-> Append(st.tokens, t)]

Eager == <<"again", "old", "short", "near", "far", "full">>
Preferred(tokens, order) ==
  LET rank(t) == CHOOSE i \in DOMAIN order : order[i] = t.kind
  IN  CHOOSE t \in tokens : \A u \in tokens : rank(t) <= rank(u)

Sent(matches, Tokens(_, _, _), order, all) ==
  FoldLeft(LAMBDA st, i :
             AfterSending(st, matches[i], Preferred(Tokens(st, matches[i], SubSeq(matches, i + 1, Len(matches))), order), all),
           [old |-> <<0, 0, 0, 0>>, last |-> [offs |-> 0, len |-> 0], low |-> 0, repeats |-> 0, tokens |-> <<>>],
           [i \in DOMAIN matches |-> i]).tokens

Received(first, Take(_, _), tokens) ==
  FoldLeft(LAMBDA acc, t : LET m == Take(acc.hist, t)
                           IN  [hist |-> m.hist, out |-> Append(acc.out, [offs |-> m.offs, len |-> m.len])],
           [hist |-> first, out |-> <<>>], tokens).out

(* The matches that a list of digits means: distances about the bounds     *)
(* where a match grows longer, several with the same low bits.             *)
MatchFor(digit, edge) ==
  CASE digit = 0 -> [offs |-> 1, len |-> IF edge = 0 THEN 1 ELSE 6]
    [] digit = 1 -> [offs |-> 256 + edge, len |-> IF edge = 0 THEN 2 ELSE 7]
    [] digit = 2 -> [offs |-> 8191 + edge, len |-> 9]
    [] digit = 3 -> [offs |-> 262143 + edge, len |-> 40]
    [] digit = 4 -> [offs |-> 4352 + edge, len |-> 12]
MatchesOf(digits, edge) == [i \in DOMAIN digits |-> MatchFor(digits[i], edge)]

(* Matches come back whichever way the encoder says them.                  *)
Rar30Agrees(digits) ==
  \A edge \in 0 .. 2 : \A order \in {Eager, Reverse(Eager)} :
    LET matches == SelectSeq(MatchesOf(digits, edge), LAMBDA m : m.len > 1)
    IN  Received(Rar30History, Rar30Match, Sent(matches, Rar30Tokens, order, FALSE)) = matches
HistoriesAgree(digits) ==
  \A edge \in 0 .. 2 : \A order \in {Eager, Reverse(Eager)} :
    LET matches == SelectSeq(MatchesOf(digits, edge), LAMBDA m : m.len > 1)
        ones    == MatchesOf(digits, edge)
        ace     == Sent(matches, AceTokens, order, FALSE)
        mixed   == FoldLeft(LAMBDA all, t : all \o <<t, [kind |-> "literal"]>>, <<>>, ace)
    IN  /\ Received(Rar20History, Rar20Match, Sent(matches, Rar20Tokens, order, TRUE)) = matches
        /\ Received(Rar50History, Rar50Match, Sent(matches, Rar50Tokens, order, FALSE)) = matches
        /\ Received(AceHistory, AceV1Match, ace) = matches
        /\ \A part \in 1 .. 3 : AceBlock(AceHistory, mixed, part) = matches
        /\ Received(DarkhorseHistory, DarkhorseMatch, Sent(matches, DarkhorseTokens, order, FALSE)) = matches
-----------------------------------------------------------------------------
(* The texts that come of literals and matches, before which there are     *)
(* zeros.  The lists of digits mean pieces, three of them matches, the     *)
(* longest further back than a text begins with.                           *)
Literal(b) == [kind |-> "literal", byte |-> b]
Copied(dist, len) == [kind |-> "match", dist |-> dist, len |-> len]
Piece(digit) == <<Literal(5), Literal(7), Copied(1, 3), Copied(3, 4), Copied(6, 5)>>[digit + 1]
Pieces(digits) == FoldLeft(LAMBDA all, d : Append(all, Piece(d)), <<Literal(1), Literal(2)>>, digits)
LongestMatch == 5

Grown(text, p) ==
  IF p.kind = "literal" THEN Append(text, p.byte)
  ELSE text \o [k \in 1 .. p.len |->
                  LET i == Len(text) - p.dist + 1 + ((k - 1) % p.dist) IN IF i > 0 THEN text[i] ELSE 0]
TextOf(pieces) == FoldLeft(Grown, <<>>, pieces)
Upto(pieces, i) == SubSeq(pieces, 1, i)
StartOf(pieces, i) == Len(TextOf(Upto(pieces, i - 1)))
FarOnes(pieces) == {i \in DOMAIN pieces : pieces[i].kind = "match" /\ pieces[i].dist > StartOf(pieces, i)}
Near(pieces) == IF FarOnes(pieces) = {} THEN pieces ELSE Upto(pieces, Min(FarOnes(pieces)) - 1)

(* Streams: a header before every so many pieces, or a tail behind them.   *)
Expanded(pieces, Tokens(_)) == FoldLeft(LAMBDA all, i : all \o Tokens(i), <<>>, [i \in DOMAIN pieces |-> i])
Chunk(pieces, i, k) == SubSeq(pieces, i, Min({i + k - 1, Len(pieces)}))
InBlocks(pieces, k, Header(_)) ==
  Expanded(pieces, LAMBDA i : (IF i % k = 1 % k THEN <<Header(Chunk(pieces, i, k))>> ELSE <<>>) \o <<pieces[i]>>)
Sized(chunk) == [kind |-> "block", ok |-> TRUE, size |-> Len(chunk)]
End == [kind |-> "end"]

AllLiterals(chunk) == \A i \in DOMAIN chunk : chunk[i].kind = "literal"
BytesOf(chunk) == [i \in DOMAIN chunk |-> chunk[i].byte]
DeflateChunk(chunk, last) ==
  IF AllLiterals(chunk) THEN <<[kind |-> "stored", bytes |-> BytesOf(chunk), final |-> last]>>
  ELSE <<[kind |-> "block", ok |-> TRUE, final |-> last]>> \o chunk \o <<End>>
DeflateStream(pieces, k) ==
  Expanded(pieces, LAMBDA i : IF i % k = 1 % k THEN DeflateChunk(Chunk(pieces, i, k), i + k > Len(pieces)) ELSE <<>>)

Rar20Header(audio, channels) == [kind |-> "tables", ok |-> TRUE, audio |-> audio, channels |-> channels]
Rar20Stream(pieces, k) == InBlocks(pieces, k, LAMBDA chunk : Rar20Header(FALSE, 0))
(* Sound: one table for three channels, the next for two; the first goes   *)
(* on where it was, if that channel is still there.                        *)
SoundOf(values, start, channels) ==
  FoldLeft(LAMBDA acc, v : [acc EXCEPT !.tokens = Append(@, [kind |-> "sample", delta |-> (v - acc.old[acc.channel]) % 256]),
                                       !.old[acc.channel] = v, !.channel = (@ + 1) % channels],
           [start EXCEPT !.tokens = Append(@, Rar20Header(TRUE, channels)), !.channel = IF @ < channels THEN @ ELSE 0], values)
SoundStream(first, second) ==
  SoundOf(second, SoundOf(first, [tokens |-> <<>>, old |-> [c \in 0 .. 3 |-> 0], channel |-> 0], 3), 2).tokens

PlaceStream(pieces, base) ==
  Expanded(pieces, LAMBDA i : IF pieces[i].kind = "literal" THEN <<pieces[i]>>
                              ELSE <<[kind |-> "place", len |-> pieces[i].len,
                                      place |-> (StartOf(pieces, i) - pieces[i].dist - base) % RingSize]>>)
Flags(chunk) == [kind |-> "flags", flags |-> [i \in 1 .. 8 |-> IF i \in DOMAIN chunk /\ chunk[i].kind = "literal" THEN 1 ELSE 0]]
Lz5Stream(tokens) == InBlocks(tokens, 8, Flags)

(* How many literals there are from i on; where they begin, in blocks.     *)
RunOf(pieces, i) == CHOOSE n \in 0 .. Len(pieces) + 1 - i :
                      /\ AllLiterals(SubSeq(pieces, i, i + n - 1))
                      /\ i + n > Len(pieces) \/ pieces[i + n].kind = "match"
Into(pieces, i) == Cardinality({j \in 1 .. i - 1 : AllLiterals(SubSeq(pieces, j, i - 1))})
Begins(pieces, i, longest) == pieces[i].kind = "literal" /\ Into(pieces, i) % longest = 0
AfterShort(pieces, i, longest) == i > 1 /\ pieces[i - 1].kind = "literal" /\ Into(pieces, i) % longest # 0
Pm1Stream(pieces, longest) ==
  Expanded(pieces, LAMBDA i :
    IF pieces[i].kind = "match" THEN <<pieces[i] @@ [bit |-> ~AfterShort(pieces, i, longest)]>>
    ELSE (IF Begins(pieces, i, longest) THEN <<[kind |-> "bytes", n |-> Min({longest, RunOf(pieces, i)})]>> ELSE <<>>) \o <<pieces[i]>>)
KenStream(pieces, longest) ==
  Expanded(pieces, LAMBDA i :
    IF pieces[i].kind = "match" THEN <<pieces[i] @@ [raw |-> pieces[i].len - IF AfterShort(pieces, i, longest) THEN 3 ELSE 2]>>
    ELSE IF ~Begins(pieces, i, longest) THEN <<>>
    ELSE <<[kind |-> "bytes", raw |-> 0, bytes |-> BytesOf(Chunk(pieces, i, Min({longest, RunOf(pieces, i)})))]>>)

M13Stream(pieces) ==
  Expanded(pieces, LAMBDA i : <<pieces[i] @@ [code |-> IF i > 1 /\ pieces[i - 1].kind = "match" THEN "second" ELSE "first"]>>)
M14Stream(pieces, k) ==
  InBlocks(pieces, k, LAMBDA chunk : [kind |-> "block", size |-> FoldLeft(LAMBDA n, p : n + IF p.kind = "match" THEN p.len ELSE 1, 0, chunk)])

(* The guess is the byte that would come next if the match went on.        *)
GuessAt(pieces, i, text) ==
  IF i > 1 /\ pieces[i - 1].kind = "match"
    THEN LET from == Len(text) + 1 - pieces[i - 1].dist IN IF from > 0 THEN text[from] ELSE 0
    ELSE -1
DarkhorseStream(pieces) ==
  Expanded(pieces, LAMBDA i : IF pieces[i].kind = "match" THEN <<pieces[i]>>
                              ELSE <<pieces[i] @@ [guess |-> GuessAt(pieces, i, TextOf(Upto(pieces, i - 1)))]>>)

CptTokens(acc, p) ==
  LET due == acc.cost >= BlockCost IN
  [cost   |-> (IF due THEN 0 ELSE acc.cost) + IF p.kind = "literal" THEN 2 ELSE 3, odd |-> IF due THEN 1 - acc.odd ELSE acc.odd,
   tokens |-> (IF due THEN Append(acc.tokens, [kind |-> "block", ok |-> TRUE, consumed |-> acc.odd, skipped |-> 2 + acc.odd])
               ELSE acc.tokens) \o <<p>>]
CptStream(pieces) == FoldLeft(CptTokens, [cost |-> BlockCost, odd |-> 0, tokens |-> <<>>], pieces).tokens

-----------------------------------------------------------------------------
Arrives(s, text, result) == ~s.lost /\ s.out = text /\ s.result = result

(* Some refuse a match that comes from before the text, where there are    *)
(* zeros for the others.                                                   *)
StrictArrives(pieces, nearText, text, cap, s, refusal) ==
  IF Len(nearText) >= cap \/ nearText = text THEN Arrives(s, SubSeq(text, 1, Min({cap, Len(text)})), 0)
  ELSE Arrives(s, nearText, refusal)

LenientArrive(pieces, part, cap, k) ==
  /\ Arrives(Run(Deflate64Turn, Deflate64New(cap), DeflateStream(pieces, k)), part, 0)
  /\ Arrives(Run(SitxTurn, SitxNew(cap), DeflateStream(pieces, k)), part, 0)
  /\ Arrives(Run(ImplodeTurn, New(cap), pieces), part, 0)
  /\ Arrives(Run(LhStaticTurn, CountedNew(cap), InBlocks(pieces, k, Sized)), part, 0)
  /\ Arrives(Run(ArjTurn, CountedNew(cap), InBlocks(pieces, k, Sized)), part, 0)
  /\ Arrives(Run(FastestTurn, NewRing(cap), pieces), part, 0)
  /\ Arrives(Run(AppleLzhTurn, NewRing(cap), pieces), part, 0)
  /\ Arrives(Run(LzsTurn, NewRing(cap), PlaceStream(pieces, 17)), part, 0)
  /\ Arrives(Run(Lz5Turn, Lz5New(cap), Lz5Stream(PlaceStream(pieces, 18))), part, 0)
  /\ Arrives(Run(LAMBDA s, t : Pm1Turn(s, t, k), Pm1New(cap), Pm1Stream(pieces, k)), part, 0)
  /\ Arrives(Run(M13Turn, M13New(cap), M13Stream(pieces)), part, 0)
  /\ Arrives(Run(M14Turn, M14New(cap, (Len(pieces) + k - 1) \div k), M14Stream(pieces, k)), part, 0)
  /\ Arrives(Run(DistillTurn, NewRing(cap), Append(pieces, End)), part, 0)
  /\ Arrives(Run(DarkhorseTurn, DarkhorseNew(cap), Append(DarkhorseStream(pieces), End)), part, 0)

(* Compact Pro, Zoo and PKWARE refuse a text for which there is no room;   *)
(* ACE gives all of it if the room is exact, and otherwise a part.         *)
WholeArrive(pieces, text, cap, k, near) ==
  /\ LET s == Run(CptTurn, CptNew(cap), CptStream(pieces))
     IN  Arrives(s, SubSeq(text, 1, cap), IF Len(text) > cap THEN -1 ELSE 0)
  /\ near => Arrives(LzhDecode(Append(InBlocks(pieces, k, Sized), Sized(<<>>)), cap), SubSeq(text, 1, cap), IF Len(text) > cap THEN -1 ELSE 0)
  /\ LET s == Blast(Append(pieces, End), cap)
     IN  /\ ~s.lost /\ (near => s.result = IF Len(text) > cap THEN 1 ELSE 0)
         /\ IF s.result = 0 THEN s.out = text ELSE IsPrefix(s.out, text)
         /\ s.result = -3 => ~near
  /\ LET s == Run(LAMBDA r, t : AceTurn(r, t, LongestMatch), AceNew(cap, LongestMatch), InBlocks(pieces, k, Sized))
     IN  ~s.lost /\ IsPrefix(s.out, text) /\ (Len(text) = cap => s.out = text)

PiecesArrive(pieces, text, nearText, cap, k) ==
  /\ StrictArrives(pieces, nearText, text, cap, Run(Rar20Turn, Rar20New(cap), Rar20Stream(pieces, k)), -1)
  /\ LenientArrive(pieces, SubSeq(text, 1, cap), cap, k)
  /\ WholeArrive(pieces, text, cap, k, nearText = text)
  /\ cap = Len(text) => StrictArrives(pieces, nearText, text, cap, Run(LAMBDA s, t : KenTurn(s, t, k), KenNew(cap), KenStream(pieces, k)), -4)

(* Every format's decoder makes of the stream the text that was meant, as  *)
(* far as there is room, however the stream is cut into blocks; and sound. *)
PiecesArriveAt(pieces, text, nearText) ==
  \A cap \in {Len(text), Len(text) - 2} : PiecesArrive(pieces, text, nearText, cap, IF cap = Len(text) THEN 2 ELSE 3)
TextsArriveFrom(digits) ==
  /\ PiecesArriveAt(Pieces(digits), TextOf(Pieces(digits)), TextOf(Near(Pieces(digits))))
  /\ \A n \in 0 .. Len(digits) :
       Arrives(Run(Rar20Turn, Rar20New(20), SoundStream(Upto(digits, n), Reverse(digits))), Upto(digits, n) \o Reverse(digits), 0)
=============================================================================
