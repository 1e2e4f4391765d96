----------------------------- MODULE MatchCodes ------------------------------
(***************************************************************************)
(* The codes that stand for lengths and distances, and the distances that  *)
(* decoders remember.                                                      *)
(*                                                                         *)
(* A symbol of the stream gives the first of the numbers it stands for,    *)
(* and as many bits follow as tell them apart.  RAR 2, 3 and 5             *)
(* (rar/rar20.c, rar/rar30.c, rar/rar50.c), Deflate64 and Implode (zip/),  *)
(* StuffIt X Deflate and Darkhorse, StuffIt 13 and 14 (stuffit/), LHA      *)
(* -lh4- to -lh7- and PMarc 1 (lha/), ARJ (arj/), ACE (ace/), PKWARE's     *)
(* library (zip/blast.c) and PAK (pak/distill.c).                          *)
(***************************************************************************)
EXTENDS Integers, Sequences, FiniteSets
LOCAL INSTANCE SequencesExt

Numbers(base, bits) == base .. base + 2^bits - 1
Code(base, bits)    == [base |-> base, bits |-> bits]
Table(bases, bits)  == [i \in DOMAIN bases |-> Code(bases[i], bits[i])]
(* The table for every number raised by n.                                 *)
Raised(table, n)    == [i \in DOMAIN table |-> Code(table[i].base + n, table[i].bits)]

(* The symbol and the bits after it that stand for a number.               *)
CodesOf(table, x) == {i \in DOMAIN table : x \in Numbers(table[i].base, table[i].bits)}
Spelt(table, x) == LET i == CHOOSE i \in CodesOf(table, x) : TRUE IN [symbol |-> i - 1, extra |-> x - table[i].base]
Number(table, spelt) == table[spelt.symbol + 1].base + spelt.extra

-----------------------------------------------------------------------------
(* RAR: lengths less their smallest, distances less one.                   *)
RarLengths ==
  Table(<<0, 1, 2, 3, 4, 5, 6, 7, 8, 10, 12, 14, 16, 20, 24, 28, 32, 40, 48, 56, 64, 80, 96, 112, 128, 160, 192, 224>>,
        <<0, 0, 0, 0, 0, 0, 0, 0, 1, 1, 1, 1, 2, 2, 2, 2, 3, 3, 3, 3, 4, 4, 4, 4, 5, 5, 5, 5>>)
RarShortDistances == Table(<<0, 4, 8, 16, 32, 64, 128, 192>>, <<2, 2, 3, 4, 5, 6, 6, 6>>)
Rar20Distances ==
  Table(<<0, 1, 2, 3, 4, 6, 8, 12, 16, 24, 32, 48, 64, 96, 128, 192, 256, 384, 512, 768, 1024, 1536, 2048, 3072,
          4096, 6144, 8192, 12288, 16384, 24576, 32768, 49152, 65536, 98304, 131072, 196608,
          262144, 327680, 393216, 458752, 524288, 589824, 655360, 720896, 786432, 851968, 917504, 983040>>,
        <<0, 0, 0, 0, 1, 1, 2, 2, 3, 3, 4, 4, 5, 5, 6, 6, 7, 7, 8, 8, 9, 9, 10, 10, 11, 11, 12, 12, 13, 13, 14, 14,
          15, 15, 16, 16, 16, 16, 16, 16, 16, 16, 16, 16, 16, 16, 16, 16>>)
(* RAR 3 goes on from there.                                               *)
Rar30Distances == Rar20Distances \o [i \in 1 .. 12 |-> Code(1048576 + 262144 * (i - 1), 18)]
(* RAR 5 computes them; the model leaves out distances of 2^30 and more.   *)
Rar50Lengths ==
  [i \in 1 .. 44 |-> LET s == i - 1 IN IF s < 8 THEN Code(s + 2, 0)
                                       ELSE Code((4 + (s % 4)) * 2^(s \div 4 - 1) + 2, s \div 4 - 1)]
Rar50Distances ==
  [i \in 1 .. 60 |-> LET s == i - 1 IN IF s < 4 THEN Code(s + 1, 0)
                                       ELSE Code((2 + (s % 2)) * 2^(s \div 2 - 1) + 1, s \div 2 - 1)]

-----------------------------------------------------------------------------
(* Deflate: the longest length has a symbol of its own, which Deflate64    *)
(* follows by 16 bits.                                                     *)
Deflate64Lengths ==
  Table(<<3, 4, 5, 6, 7, 8, 9, 10, 11, 13, 15, 17, 19, 23, 27, 31, 35, 43, 51, 59, 67, 83, 99, 115, 131, 163, 195, 227, 3>>,
        <<0, 0, 0, 0, 0, 0, 0, 0, 1, 1, 1, 1, 2, 2, 2, 2, 3, 3, 3, 3, 4, 4, 4, 4, 5, 5, 5, 5, 16>>)
Deflate64Distances ==
  Table(<<1, 2, 3, 4, 5, 7, 9, 13, 17, 25, 33, 49, 65, 97, 129, 193, 257, 385, 513, 769, 1025, 1537,
          2049, 3073, 4097, 6145, 8193, 12289, 16385, 24577, 32769, 49153>>,
        <<0, 0, 0, 0, 1, 1, 2, 2, 3, 3, 4, 4, 5, 5, 6, 6, 7, 7, 8, 8, 9, 9, 10, 10, 11, 11, 12, 12, 13, 13, 14, 14>>)
SitxLengths   == SubSeq(Deflate64Lengths, 1, 28) \o <<Code(258, 0)>>
SitxDistances == SubSeq(Deflate64Distances, 1, 30)

-----------------------------------------------------------------------------
(* A symbol that is the width of the distance.                             *)
(* Faulty: the distances of a width begin one short.                       *)
LhDistancesOneShort(symbols) ==
  [i \in 1 .. symbols |-> LET bit == i - 1 IN IF bit = 0 THEN Code(1, 0) ELSE IF bit = 1 THEN Code(2, 0)
                                              ELSE Code(2^(bit - 1), bit - 1)]
LhDistances(symbols) ==
  [i \in 1 .. symbols |-> LET bit == i - 1 IN IF bit = 0 THEN Code(1, 0) ELSE IF bit = 1 THEN Code(2, 0)
                                              ELSE Code(2^(bit - 1) + 1, bit - 1)]
ArjDistances(symbols) == LhDistances(symbols)
M13Distances == LhDistances(17)
M13Lengths == [i \in 1 .. 64 |-> IF i <= 62 THEN Code(i + 2, 0) ELSE Code(65, IF i = 63 THEN 10 ELSE 15)]
AceDistances == [i \in 1 .. 23 |-> LET c == i - 1 IN IF c < 2 THEN Code(c, 0) ELSE Code(2^(c - 1), c - 1)]

(* StuffIt 14 adds its tables up.                                          *)
Summed(first, bits) ==
  FoldLeft(LAMBDA table, b : Append(table, Code(IF table = <<>> THEN first ELSE Last(table).base + 2^Last(table).bits, b)),
           <<>>, bits)
M14Lengths   == Raised(Summed(0, [i \in 1 .. 52 |-> IF i > 4 THEN (i - 5) \div 4 ELSE 0]), 4)
M14Distances == Summed(1, [i \in 1 .. 75 |-> IF i > 3 THEN (i - 4) \div 4 ELSE 0])

(* ARJ 4: a one for each width that is passed over, then so many bits.     *)
ArjFastest(start, stop) ==
  [i \in 1 .. stop - start + 1 |-> Code(FoldLeft(LAMBDA n, k : n + 2^(start + k - 1), 0, [k \in 1 .. i - 1 |-> k]), start + i - 1)]
FastestLengths   == ArjFastest(0, 7)
FastestPointers  == ArjFastest(9, 13)

(* Implode: the last length has eight bits more; the high bits of a        *)
(* distance have a code, the low ones follow.  PKWARE's library is alike,  *)
(* with fewer low bits for the shortest matches.                           *)
ImplodeLengths(literals) == Raised([i \in 1 .. 64 |-> Code(i + 1, IF i = 64 THEN 8 ELSE 0)], IF literals THEN 1 ELSE 0)
HighAndLow(low)          == [i \in 1 .. 64 |-> Code((i - 1) * 2^low + 1, low)]
ImplodeDistances(large)  == HighAndLow(IF large THEN 7 ELSE 6)
BlastLengths ==
  Table(<<3, 2, 4, 5, 6, 7, 8, 9, 10, 12, 16, 24, 40, 72, 136, 264>>, <<0, 0, 0, 0, 0, 0, 0, 0, 1, 2, 3, 4, 5, 6, 7, 8>>)
BlastEnd == 519
BlastDistances(len, dict) == HighAndLow(IF len = 2 THEN 2 ELSE dict)

(* PAK's distances grow with what has been written.                        *)
Distances8(size) == {e \in 0 .. 7 : e = 0 \/ size >= 2^(e + 5) - 60}
DistillDistances(size) == HighAndLow(CHOOSE e \in Distances8(size) : \A d \in Distances8(size) : d <= e)

(* Darkhorse: lengths in four bits or eight, distances from 0.             *)
DarkhorseLengths == <<Code(2, 4), Code(18, 8)>>
DarkhorseEnd     == 273
DarkhorseDistances ==
  [i \in 1 .. 60 |-> LET s == i - 1 IN IF s < 4 THEN Code(s, 0) ELSE Code((2 + (s % 2)) * 2^(s \div 2 - 1), s \div 2 - 1)]

-----------------------------------------------------------------------------
(* PMarc 1: which distances a copy may have depends on how much there is   *)
(* to copy from; threshold is what keeps a bit from being read at all.     *)
PmRanges ==
  <<Code(0, 6), Code(64, 8), Code(0, 6), Code(64, 9), Code(576, 11), Code(2624, 13), Code(64, 8), Code(576, 8),
    Code(576, 9), Code(576, 10), Code(2624, 8), Code(2624, 9), Code(2624, 10), Code(2624, 11), Code(2624, 12)>>

(* The bits that lead to a range, in the order they are read.              *)
PmTypes(pos) ==
  LET bit(threshold, default) == IF pos >= threshold THEN {0, 1} ELSE {default}
      at(threshold, b) == IF pos >= threshold THEN <<b>> ELSE <<>>
  IN  {[bits |-> <<0>> \o at(576, 1), range |-> 4] : b \in bit(576, 0) \cap {1}}
      \cup {[bits |-> <<0>> \o at(576, 0) \o at(64, b), range |-> b] : b \in bit(64, 0)}
      \cup {[bits |-> <<1>> \o at(64, 0), range |-> 3] : b \in bit(64, 1) \cap {0}}
      \cup {[bits |-> <<1>> \o at(64, 1) \o at(2624, b), range |-> IF b = 1 THEN 2 ELSE 5] : b \in bit(2624, 1)}

PmOverride(range, pos) ==
  LET first(bounds, from) ==
        LET below == {k \in DOMAIN bounds : pos < bounds[k]}
        IN  IF below = {} THEN range ELSE from + (CHOOSE k \in below : \A j \in below : k <= j) - 1
  IN  CASE range = 3 -> first(<<320>>, 6)
        [] range = 4 -> first(<<832, 1088, 1600>>, 7)
        [] range = 5 -> first(<<2880, 3136, 3648, 4672, 6720>>, 10)
        [] OTHER -> range
PmDistances(range, pos) == PmRanges[PmOverride(range, pos) + 1]

PmCopyCounts  == Table(<<3, 4, 5, 6, 7, 8, 9, 10, 11, 15>> \o [x \in 1 .. 62 |-> x + 22] \o <<85, 117>>,
                       <<0, 0, 0, 0, 0, 0, 0, 0, 2, 3>> \o [x \in 1 .. 62 |-> 0] \o <<5, 7>>)
PmBlockCounts == Table([x \in 1 .. 24 |-> x] \o <<25, 89>>, [x \in 1 .. 24 |-> 0] \o <<6, 7>>)
MAX_BYTE_BLOCK_LEN == 216
PmByteRanges  == <<Code(0, 4), Code(16, 4), Code(32, 5), Code(64, 6), Code(128, 6), Code(192, 6)>>

(* The trees over the byte ranges: a byte is a node, its halves the sons:  *)
(* how far on the next node is, or 10 and more for a range.                *)
PmTrees ==
  <<<<18, 45, 239, 28, 171>>, <<18, 35, 222, 171, 207>>, <<18, 44, 210, 171, 239>>, <<18, 162, 210, 188, 239>>,
    <<18, 162, 194, 189, 239>>, <<18, 162, 205, 177, 239>>, <<18, 171, 18, 205, 239>>, <<18, 171, 29, 193, 239>>,
    <<18, 171, 193, 209, 239>>, <<161, 18, 44, 222, 191>>, <<161, 29, 28, 177, 239>>, <<161, 18, 45, 239, 188>>,
    <<161, 18, 178, 222, 207>>, <<161, 18, 188, 209, 239>>, <<161, 28, 177, 209, 239>>, <<161, 177, 18, 205, 239>>,
    <<161, 177, 193, 209, 239>>, <<18, 28, 222, 171, 0>>, <<18, 162, 205, 190, 0>>, <<18, 171, 193, 222, 0>>,
    <<161, 29, 28, 190, 0>>, <<161, 18, 188, 222, 0>>, <<161, 28, 177, 222, 0>>, <<161, 177, 193, 222, 0>>,
    <<29, 28, 171, 0, 0>>, <<28, 161, 189, 0, 0>>, <<18, 171, 205, 0, 0>>, <<161, 28, 189, 0, 0>>,
    <<161, 177, 205, 0, 0>>, <<161, 188, 0, 0, 0>>, <<171, 0, 0, 0, 0>>, <<0, 0, 0, 0, 0>>>>

(* What the bits lead to, from a node on; -1 if they end before.           *)
PmWalk(tree, bits) ==
  LET step(acc, bit) ==
        LET child == IF bit = 0 THEN tree[acc.node] \div 16 ELSE tree[acc.node] % 16
        IN  IF acc.index # -1 THEN acc
            ELSE IF child >= 10 THEN [acc EXCEPT !.index = child - 10, !.used = @ + 1]
            ELSE [acc EXCEPT !.node = @ + child, !.used = @ + 1]
  IN  FoldLeft(step, [node |-> 1, index |-> IF tree[1] = 0 THEN 0 ELSE -1, used |-> 0], bits)

-----------------------------------------------------------------------------
(* The decoders that remember the distances of earlier matches: RAR 2      *)
(* (rar/rar20.c), RAR 3 (rar/rar30.c), RAR 5 (rar/rar50.c), ACE 1 and 2    *)
(* (ace/v1.c, ace/lz77.c) and StuffIt X Darkhorse (stuffit/darkhorse.c).   *)
(* Each turns one token of the stream and the history into a match.        *)
(*                                                                         *)
(* A token is [kind] with what follows it: "literal", "again" (the last    *)
(* match), "old" (the distance that came k matches ago), "short", "full",  *)
(* "far" and "near" (RAR 3 in a PPMd block).                               *)

Over(offs, bounds) == Cardinality({b \in bounds : offs > b})
Match(hist, offs, len) == [hist |-> hist, offs |-> offs, len |-> len]

(* The k-th of the distances comes first, those before it move down.       *)
(* Faulty: it only takes the first one's place.                            *)
ToFrontExchanging(old, k) == [old EXCEPT ![1] = old[k], ![k] = old[1]]
ToFrontOf(old, k) == <<old[k]>> \o RemoveAt(old, k)
Pushed(old, offs) == <<offs>> \o Front(old)

-----------------------------------------------------------------------------
(* RAR 2: a ring of four, into which every match goes.                     *)
Rar20History == [last |-> [offs |-> 0, len |-> 0], ring |-> [i \in 0 .. 3 |-> 0], index |-> 0]

Rar20Bonus(offs) == Over(offs, {262143, 8191})

Rar20Match(h, token) ==
  LET oldoffs == h.ring[(h.index - token.k) % 4]
      m == CASE token.kind = "again" -> h.last
             [] token.kind = "old"   -> [offs |-> oldoffs,
                                         len  |-> Number(RarLengths, token.len) + 2 + Over(oldoffs, {262143, 8191, 256})]
             [] token.kind = "short" -> [offs |-> Number(RarShortDistances, token.offs) + 1, len |-> 2]
             [] token.kind = "full"  ->
                  LET offs == Number(Rar20Distances, token.offs) + 1
                  IN  [offs |-> offs, len |-> Number(RarLengths, token.len) + 3 + Rar20Bonus(offs)]
  IN  Match([last |-> m, ring |-> [h.ring EXCEPT ![h.index % 4] = m.offs], index |-> h.index + 1], m.offs, m.len)

-----------------------------------------------------------------------------
(* RAR 3: the low four bits of a far distance may be said to be those of   *)
(* the one before, and then are for the fifteen after that.                *)
Rar30History == [last |-> [offs |-> 0, len |-> 0], old |-> <<0, 0, 0, 0>>, low |-> 0, repeats |-> 0]
LowRepeats == 15

Rar30Offset(h, token) ==
  LET code == Rar30Distances[token.offs.symbol + 1]
      kept(n) == [low |-> h.low, repeats |-> n]
      low  == IF h.repeats > 0 THEN kept(h.repeats - 1)
              ELSE IF token.low = 16 THEN kept(LowRepeats) ELSE [low |-> token.low, repeats |-> 0]
  IN  IF token.offs.symbol > 9
        THEN [offs |-> code.base + 1 + 16 * token.high + low.low, low |-> low.low, repeats |-> low.repeats]
        ELSE [offs |-> code.base + 1 + token.offs.extra, low |-> h.low, repeats |-> h.repeats]

Rar30Match(h, token) ==
  LET after(g, offs, len) == Match([g EXCEPT !.last = [offs |-> offs, len |-> len]], offs, len)
  IN  CASE token.kind = "again" -> IF h.last.len = 0 THEN Match(h, 0, 0) ELSE after(h, h.last.offs, h.last.len)
        [] token.kind = "old"   -> after([h EXCEPT !.old = ToFrontOf(@, token.k)], h.old[token.k], Number(RarLengths, token.len) + 2)
        [] token.kind = "short" -> LET offs == Number(RarShortDistances, token.offs) + 1
                                   IN  after([h EXCEPT !.old = Pushed(@, offs)], offs, 2)
        [] token.kind = "full"  -> LET o == Rar30Offset(h, token)
                                   IN  after([h EXCEPT !.old = Pushed(@, o.offs), !.low = o.low, !.repeats = o.repeats],
                                             o.offs, Number(RarLengths, token.len) + 3 + Rar20Bonus(o.offs))
        [] token.kind = "far"   -> Match(h, token.offs + 2, token.len + 32)
        [] token.kind = "near"  -> Match(h, 1, token.len + 4)

-----------------------------------------------------------------------------
(* RAR 5: the first distance is that of the last match.                    *)
Rar50History == [len |-> 0, old |-> <<0, 0, 0, 0>>]

Rar50Match(h, token) ==
  LET after(old, len) == Match([len |-> len, old |-> old], old[1], len)
  IN  CASE token.kind = "again" -> IF h.len = 0 THEN Match(h, 0, 0) ELSE after(h.old, h.len)
        [] token.kind = "old"   -> after(ToFrontOf(h.old, token.k), Number(Rar50Lengths, token.len))
        [] token.kind = "full"  -> LET offs == Number(Rar50Distances, token.offs)
                                   IN  after(Pushed(h.old, offs), Number(Rar50Lengths, token.len) + Over(offs, {262144, 8192, 256}))

-----------------------------------------------------------------------------
(* ACE: a ring whose slots move one back when one of them is taken out; a  *)
(* length is a symbol.                                                     *)
AceHistory == [pos |-> 0, ring |-> [i \in 0 .. 3 |-> 0]]

AceTake(h, token, far) ==
  LET full    == token.kind = "full"
      slot(c) == (h.pos - c) % 4
      down    == FoldLeft(LAMBDA ring, c : [ring EXCEPT ![slot(c)] = ring[slot(c - 1)]], h.ring,
                          Reverse([i \in 1 .. token.k |-> i - 1]))
      dist    == IF full THEN far ELSE h.ring[slot(token.k - 1)]
      base    == IF full THEN 2 + Over(dist, {255, 8191}) ELSE IF token.k > 2 THEN 3 ELSE 2
      pos     == IF full THEN (h.pos + 1) % 4 ELSE h.pos
  IN  Match([pos |-> pos, ring |-> [(IF full THEN h.ring ELSE down) EXCEPT ![pos] = dist]], dist + 1, token.len + base)

AceV1Match(h, token) == AceTake(h, token, IF token.kind = "full" THEN Number(AceDistances, token.offs) ELSE 0)

(* ACE 2 reads some symbols at a time: their lengths and distances wait in *)
(* two lists until the matches are made.                                   *)
AceReadSymbols(tokens) ==
  LET matches == SelectSeq(tokens, LAMBDA token : token.kind # "literal")
  IN  [main |-> tokens, len |-> [i \in DOMAIN matches |-> matches[i].len],
       dist |-> [i \in DOMAIN matches |-> IF matches[i].kind = "full" THEN Number(AceDistances, matches[i].offs) ELSE 0]]

AceBlock(h, tokens, part) ==
  LET turn(acc, k) ==
        LET bufs == AceReadSymbols(SubSeq(tokens, part * k + 1, Min({part * k + part, Len(tokens)})))
            step(state, token) ==
              LET m == AceTake(state.h, [token EXCEPT !.len = bufs.len[state.at]], bufs.dist[state.at])
              IN  IF token.kind = "literal" THEN state
                  ELSE [h |-> m.hist, at |-> state.at + 1, out |-> Append(state.out, [offs |-> m.offs, len |-> m.len])]
        IN  FoldLeft(step, [acc EXCEPT !.at = 1], bufs.main)
  IN  FoldLeft(turn, [h |-> h, at |-> 1, out |-> <<>>], [k \in 1 .. (Len(tokens) + part - 1) \div part |-> k - 1]).out

-----------------------------------------------------------------------------
(* Darkhorse: a distance of the history, or one byte from the last.        *)
DarkhorseHistory == <<0, 0, 0, 0>>

DarkhorseMatch(table, token) ==
  LET len == Number(DarkhorseLengths, token.len)
      new == Number(DarkhorseDistances, token.offs)
  IN  CASE token.kind = "full"  -> Match(Pushed(table, new), new + 1, len)
        [] token.kind = "again" -> Match(table, table[1] + 1, 1)
        [] token.kind = "old"   -> Match(ToFrontOf(table, token.k), table[token.k] + 1, len)

(* The byte Darkhorse expects after a match: where in the window it is, if *)
(* the window ends with the match.                                         *)
DarkhorseNext(winpos, offs, len) == winpos - len - offs + (len % offs)
=============================================================================
