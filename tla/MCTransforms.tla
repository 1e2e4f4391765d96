---------------------------- MODULE MCTransforms -----------------------------
(***************************************************************************)
(* The decoders that are functions of their input, over every small input: *)
(* a list of widths for PrefixCodes, a text for the others, for which the  *)
(* encoder, or what the encoded stream means, is defined here.  The        *)
(* programs of MCRarVm run beside the empty input.                         *)
(***************************************************************************)
EXTENDS PrefixCodes, RunLengths, BlockSort, MCRarVm

LOCAL INSTANCE SequencesExt

VARIABLE input

(* Longer inputs have two symbols only.                                    *)
Longer ==
  \/ Len(input) < 5 /\ \E x \in 0 .. 4 : input' = Append(input, x)
  \/ Len(input) \in 5 .. 7 /\ \A i \in DOMAIN input : input[i] < 2
       /\ \E x \in 0 .. 1 : input' = Append(input, x)

TransformsInit == input = <<>> /\ VmInit
TransformsNext ==
  \/ count = 0 /\ Longer /\ UNCHANGED vmVars
  \/ input = <<>> /\ VmNext /\ UNCHANGED input

transformsVars == <<input, vmVars>>
TransformsAreNew == TransformsInit

N == Len(input)

-----------------------------------------------------------------------------
(* A canonical code gives the symbols, shortest code first, consecutive    *)
(* intervals of the bit strings.                                           *)
Share(w) == IF w = 0 THEN 0 ELSE 2^(MaxLength - w)
Kraft(lengths) == LET upto[s \in 0 .. Len(lengths)] == IF s = 0 THEN 0 ELSE upto[s - 1] + Share(lengths[s])
                  IN  upto[Len(lengths)]

CodeStart(lengths, s) ==
  Kraft([r \in DOMAIN lengths |->
           IF lengths[r] < lengths[s] \/ (lengths[r] = lengths[s] /\ r < s) THEN lengths[r] ELSE 0])

Canonical(lengths, bits) ==
  LET owner == {s \in DOMAIN lengths : HasCode(lengths, s) /\ Index(bits) - CodeStart(lengths, s) \in 0 .. Share(lengths[s]) - 1}
  IN  IF owner = {} THEN Reject ELSE LET s == CHOOSE x \in owner : TRUE IN Symbol(s - 1, lengths[s])

Complement(bits) == [k \in DOMAIN bits |-> 1 - bits[k]]

(* Lists of widths as encoders send them: runs as long as they get, the    *)
(* last of them, if over, longer than the list.                            *)
RunAt(list, k) == CHOOSE n \in 1 .. Len(list) + 1 - k :
                    /\ \A j \in k .. k + n - 1 : list[j] = list[k]
                    /\ k + n > Len(list) \/ list[k + n] # list[k]
Lesser(a, b) == IF a < b THEN a ELSE b

(* Codes(k, n) are those for the n widths from k on, or the first [used].  *)
SendRuns(list, Codes(_, _)) ==
  FoldLeft(LAMBDA acc, k : IF k < acc.next THEN acc
                           ELSE LET c == Codes(k, RunAt(list, k))
                                IN  [next |-> k + c.used, codes |-> acc.codes \o c.codes],
           [next |-> 1, codes |-> <<>>], [k \in DOMAIN list |-> k]).codes
One(sym) == [codes |-> <<[sym |-> sym, extra |-> 0]>>, used |-> 1]
Many(sym, fewest, most, n, more) ==
  [codes |-> <<[sym |-> sym, extra |-> (IF more THEN most ELSE Lesser(n, most)) - fewest]>>, used |-> Lesser(n, most)]

MostOf(runs, s) == IF runs[s].fewest = 11 THEN 138 ELSE IF runs = DeflateRuns /\ s = 16 THEN 6 ELSE 10
SendWidths(list, old, runs, over) ==
  SendRuns(list, LAMBDA k, n :
    LET fit  == {s \in DOMAIN runs : /\ n >= runs[s].fewest
                                     /\ IF runs[s].zero THEN list[k] = 0 ELSE k > 1 /\ list[k - 1] = list[k]}
        best == CHOOSE s \in fit : \A r \in fit : runs[r].fewest <= runs[s].fewest
    IN  IF fit = {} THEN One((list[k] - old[k]) % 16)
        ELSE Many(best, runs[best].fewest, MostOf(runs, best), n, over /\ k + n > Len(list)))

SendPrelengths(list) ==
  SendRuns(list, LAMBDA k, n : IF list[k] = 0 /\ n > 2 THEN Many(15, 2, 17, n, FALSE) ELSE One(list[k]))
ZerosAfter(list, k) == IF k < Len(list) /\ list[k + 1] = 0 THEN Lesser(3, RunAt(list, k + 1)) ELSE 0
SendCode(list, special) ==
  SendRuns(list, LAMBDA k, n : LET z == IF k = special THEN ZerosAfter(list, k) ELSE 0
                               IN  [codes |-> <<[sym |-> list[k], extra |-> z]>>, used |-> z + 1])
SendLiteralCode(list, over) ==
  SendRuns(list, LAMBDA k, n :
    IF list[k] > 0 THEN One(list[k] + 2)
    ELSE IF n > 19 THEN Many(2, 20, 100, n, over /\ k + n > Len(list))
    ELSE IF n > 2 THEN Many(1, 3, 18, n, over /\ k + n > Len(list)) ELSE One(0))
SendGroups(list) == SendRuns(list, LAMBDA k, n : [codes |-> <<[length |-> list[k], count |-> Lesser(n, 16)]>>, used |-> Lesser(n, 16)])
SendDeltas(delta, upper) ==
  SendRuns(delta, LAMBDA k, n : IF delta[k] = 0 /\ n > 3 THEN Many(upper, 4, 19, n, k + n > Len(delta)) ELSE One(delta[k]))
Deltas(less, upper) == [k \in DOMAIN less |-> IF k = 1 THEN less[1] ELSE (less[k] - less[k - 1]) % upper]
Lowered(list, lower) == [k \in DOMAIN list |-> IF list[k] = 0 THEN 0 ELSE list[k] - lower]
SendAce(list, lower, upper) == SendDeltas(Deltas(Lowered(list, lower), upper), upper)
Change(list, k, near) ==
  CASE list[k] = -1 -> 31
    [] near /\ k > 1 /\ list[k] = list[k - 1] + 1 -> 32
    [] near /\ k > 1 /\ list[k] = list[k - 1] - 1 -> 33
    [] OTHER -> list[k] - 1
SendM13(list, near) ==
  SendRuns(list, LAMBDA k, n :
    LET more == CASE n > 11 -> <<[sym |-> 36, extra |-> n - 12]>>
                  [] n \in 4 .. 11 -> <<[sym |-> 35, extra |-> n - 4]>>
                  [] n \in 2 .. 3 -> <<[sym |-> 34, extra |-> n - 2]>>
                  [] OTHER -> <<>>
    IN  [codes |-> One(Change(list, k, near)).codes \o more, used |-> n])
SendM14(list) ==
  SendRuns(list, LAMBDA k, n : IF k > 1 /\ list[k - 1] = list[k] /\ n > 2 THEN Many(7, 3, 10, n, k + n > Len(list))
                               ELSE One(IF list[k] = 0 THEN 6 ELSE list[k] - 1))

WidthsArriveFrom(list, old, zero, none, lower, n) ==
  /\ \A over \in BOOLEAN :
       /\ Rar20Widths(SendWidths(list, old, DeflateRuns, over), old, n) = [ok |-> TRUE, list |-> list \o SubSeq(old, n + 1, n + 2)]
       /\ Rar30Widths(SendWidths(list, old, RarRuns, over), SubSeq(old, 1, n)).list = list
       /\ Rar50Widths(SendWidths(list, zero, RarRuns, over), n).list = list
       /\ Deflate64Widths(SendWidths(list, zero, DeflateRuns, over), n - 2, 2) = [ok |-> TRUE, list |-> list]
       /\ SitxWidths(SendWidths(list, zero, DeflateRuns, over), n - 2, 2) = list
       /\ ParseLiteralCode(SendLiteralCode(list, over), n) = list
       /\ ArjParseLiteralCode(SendLiteralCode(list, over), n) = list
       /\ ReadCLen(SendLiteralCode(list, over), n, n + 2) = list \o <<0, 0>>
       /\ M13DynamicCode(SendM13(none, over), n).list = none
  /\ Rar30Prelengths(SendPrelengths(Append(list, 15)), n + 1) = Append(list, 15)
  /\ Rar50Prelengths(SendPrelengths(Append(list, 15)), n + 1) = Append(list, 15)
  /\ \A special \in {1, 3} :
       /\ ParseCode(SendCode(list, special), n, special) = list
       /\ ArjParseCode(SendCode(list, special), n, special) = list
       /\ ReadPtLen(SendCode(list, special), n, n + 2, special) = list \o <<0, 0>>
  /\ ImplodeWidths(SendGroups(list), n) = list
  /\ CptWidths([k \in 1 .. n \div 2 |-> <<list[2 * k - 1], list[2 * k]>>], n).list =
       SubSeq(list, 1, 2 * (n \div 2)) \o [k \in 1 .. n % 2 |-> 0]
  /\ AceWidths(SendAce(list, lower, 5), lower, 5, n - 1) = list
  /\ M14Widths(SendM14(list), 3, 1, TRUE, n) = list
WidthsArriveAs(list, n) ==
  WidthsArriveFrom(list, [k \in 1 .. n + 2 |-> (5 * k) % 16], [k \in 1 .. n |-> 0],
                   [k \in 1 .. n |-> IF list[k] = 0 THEN -1 ELSE list[k]],
                   IF \A k \in 1 .. n : list[k] # 1 THEN 1 ELSE 0, n)
WidthsArrive(few) ==
  /\ WidthsArriveAs(few \o [k \in 1 .. 19 |-> 0] \o Reverse(few), 19 + 2 * Len(few))
  /\ WidthsArriveAs(few \o [k \in 1 .. 13 |-> 3] \o Reverse(few), 13 + 2 * Len(few))

(* Trees that are sent, or made while they are sent: every string of bits  *)
(* leads to a symbol, in as many steps as its width says.                  *)
NodesOf(result, codesize, numnodes) ==
  [x \in 1 .. numnodes |->
     LET b    == (x - 1) % 2
         next == result[numnodes - 2 - (x - 1 - b) + b]
     IN  IF next >= 2 * codesize THEN numnodes + next - 2 * codesize ELSE numnodes - 2 - next]

WithCode(lengths) == {s \in DOMAIN lengths : HasCode(lengths, s)}
Strings == [1 .. MaxLength -> {0, 1}]
M14Decodes(lengths, result, n) ==
  LET walks == [bits \in Strings |-> M14Walk(result, n, bits)] IN
  \A s \in WithCode(lengths) :
    Cardinality({bits \in Strings : walks[bits] = [l |-> 2 * n + s - 1, used |-> lengths[s]]}) = Share(lengths[s])
DistillDecodes(lengths, nodes) ==
  LET walks == [bits \in Strings |-> DistillWalk(nodes, bits)] IN
  \A s \in WithCode(lengths) :
    Cardinality({bits \in Strings : walks[bits] = [node |-> Len(nodes) + s - 1, used |-> lengths[s]]}) = Share(lengths[s])

BothDecode(lengths, result, n) ==
  /\ M14Decodes(lengths, result, n)
  /\ DistillDecodes(lengths, NodesOf(result, n, 2 * (Cardinality(WithCode(lengths)) - 1)))
SentTreesDecode(lengths) == BothDecode(lengths, M14Tree(lengths), Len(lengths))

(* Widths that leave room are decoded alike by RAR, LHA and PAK, whichever *)
(* of their table and tree serves a code, and by Zoo and ACE as far as the *)
(* room is used; PAK refuses the widths exactly when there is no room.     *)
(* The widths themselves, and trees, come as they were sent.               *)
Alike(bits, meant, rar, rarTable, zeros, zerosTable, ones, onesTable, pakTable, size) ==
  /\ RarDecode(rarTable, rar, bits) = meant
  /\ LhaDecode(zerosTable, size, zeros, bits) = meant
  /\ LhaDecode(onesTable, size, ones, Complement(bits)) = meant
  /\ PakDecodeLE(pakTable, size, zeros, bits) = meant

EachAlike(lengths, rar, rarTable, zeros, zerosTable, ones, onesTable, pakTable, size, zoo) ==
  \A bits \in Strings :
    LET meant == Canonical(lengths, bits) IN
    /\ Alike(bits, meant, rar, rarTable, zeros, zerosTable, ones, onesTable, pakTable, size)
    /\ Kraft(lengths) = 2^MaxLength => ZooDecode(lengths, zoo, bits) = meant
AllAlike(lengths, rar, zeros, ones, pak, size, zoo) ==
  EachAlike(lengths, rar, RarTable(rar), zeros, MakeTable(zeros, <<>>, size), ones, MakeTable(ones, <<>>, size),
            MakeTableLE(pak, <<>>, size), size, zoo)

SharesOut(lengths, ace, kraft) ==
  \A s \in WithCode(lengths) :
    LET own == {x \in 1 .. kraft : ace.codes[x] = s - 1} IN
    /\ Cardinality(own) = Share(lengths[s])
    /\ \A x, y \in own : \A z \in x .. y : z \in own
    /\ \A r \in WithCode(lengths) : lengths[r] < lengths[s] =>
         \A x \in own, z \in 1 .. kraft : ace.codes[z] = r - 1 => z < x

Decodable(lengths, kraft, zeros, ones, ace) ==
  /\ zeros.bad <=> kraft > 2^MaxLength
  /\ ones.bad <=> kraft > 2^MaxLength
  /\ kraft = 2^MaxLength => SentTreesDecode(lengths)
  /\ kraft <= 2^MaxLength =>
       /\ AllAlike(lengths, RarTree(lengths), zeros.tree, ones.tree, PakFromLengths(lengths).tree, TableSize(lengths),
                   ZooCells(lengths))
       /\ lengths # <<>> => ace.ok
       /\ Cardinality(WithCode(lengths)) > 1 => SharesOut(lengths, ace, kraft)

CodesAreCanonical ==
  /\ N = 2 /\ input[2] = 0 => WidthsArrive(input)
  /\ N \in 1 .. 5 => Decodable(input, Kraft(input), FromLengths(input, TRUE), FromLengths(input, FALSE), AceMakeCodes(input))

-----------------------------------------------------------------------------
(* The positions of a text sorted by what follows them (dir 1) or comes    *)
(* before them (dir -1), the text being a circle.                          *)
At(i) == input[((i - 1) % N) + 1]
Precedes(i, j, dir, depth) ==
  \E k \in 1 .. depth : /\ At(i + dir * k) < At(j + dir * k)
                        /\ \A m \in 1 .. k - 1 : At(i + dir * m) = At(j + dir * m)
Row(i, dir, depth) ==
  1 + Cardinality({j \in 1 .. N : Precedes(j, i, dir, depth) \/ (~Precedes(i, j, dir, depth) /\ j < i)})
LastColumn(dir, depth) ==
  FoldLeft(LAMBDA column, r : Append(column, At(CHOOSE i \in 1 .. N : Row(i, dir, depth) = r)), <<>>, Count(N))

(* The symbol of a byte is how many others came since it came last; one    *)
(* that never came stands behind those that did, in the order of values.   *)
Seen(i) == {input[j] : j \in 1 .. i}
Recency(i) ==
  LET last == {j \in 1 .. i - 1 : input[j] = input[i]} IN
  IF last = {} THEN Cardinality(Seen(i - 1) \cup (0 .. input[i] - 1))
  ELSE Cardinality({input[j] : j \in {k \in 1 .. i - 1 : \A l \in last : l < k}})

(* The other scheme, as its encoder keeps the list: a byte from further    *)
(* down moves to second place, the second to the front, unless the front   *)
(* byte came among the last order symbols.                                 *)
M1ffEncode(text, order) ==
  LET place(list, x) == CHOOSE k \in DOMAIN list : list[k] = x
      others(list, x) == SelectSeq(list, LAMBDA y : y # x)
      step(acc, x) ==
        LET k == place(acc.list, x) - 1
            rest == others(acc.list, x)
            age == acc.age + 1
        IN  [out  |-> Append(acc.out, k),
             age  |-> IF k = 0 THEN 0 ELSE age,
             list |-> IF k = 0 \/ (k = 1 /\ acc.age + 1 < order) THEN acc.list
                      ELSE IF k = 1 THEN <<x>> \o rest ELSE <<Head(rest), x>> \o Tail(rest)]
  IN  FoldLeft(step, [out |-> <<>>, age |-> order - 2, list |-> [v \in 1 .. Values |-> v - 1]], text).out

(* The sorted text, taken apart again, is the text.                        *)
SortsAreInverted ==
  N > 0 =>
    LET bwt == UnsortBwt(LastColumn(1, N), Row(N, 1, N))
        st4 == UnsortSt4(LastColumn(-1, 4), Row(N, -1, 4))
    IN  /\ bwt = input
        /\ ~st4.failed /\ st4.dest = input
        /\ DecodeMtfBlock([i \in 1 .. N |-> Recency(i)]) = input
        /\ \A order \in 0 .. 2 : DecodeM1ffBlock(M1ffEncode(input, order), order) = input

-----------------------------------------------------------------------------
(* Iron's ranking: ia1 and ia2 are inverse, no byte weighs more than what  *)
(* its occurrences of each age leave it, and the search for a byte's place *)
(* ends in the table as long as some byte weighs nothing.                  *)
AgeWeight(age) == FirstWeight - FoldLeft(LAMBDA n, j : n + IF 2^(j - 1) <= age THEN Loss(j - 1) ELSE 0, 0, Count(Levels))
Weight(block, b) ==
  FoldLeft(LAMBDA n, i : n + IF block[i] = b THEN AgeWeight(Len(block) - i) ELSE 0, 0, Count(Len(block)))

RanksStayInverse ==
  LET end == FoldLeft(IronByte, IronStart, input)
      bytes == 0 .. Values - 1
  IN  /\ end.beyond => \A b \in bytes : b \in Range(end.block)
      /\ ~end.beyond =>
           \A b \in bytes : end.ia1[end.ia2[b]] = b /\ end.ia2[b] \in bytes /\ end.ia3[b] = Weight(end.block, b)

(* A sorted or ranked text is the text again: for the two block sorts, the *)
(* two move-to-front codes and Iron's ranking.                             *)
SortedTextsComeBack == SortsAreInverted /\ RanksStayInverse

-----------------------------------------------------------------------------
(* A text as runs of the same byte, and what an encoder makes of a run:    *)
(* itself, or from three bytes on the byte and its count.                  *)
RunsIn(text) ==
  FoldLeft(LAMBDA runs, x : IF runs # <<>> /\ Last(runs).byte = x
                              THEN Front(runs) \o <<[byte |-> x, n |-> Last(runs).n + 1]>>
                              ELSE Append(runs, [byte |-> x, n |-> 1]), <<>>, text)
Runs == RunsIn(input)

Encoded(Unit(_, _)) == FoldLeft(LAMBDA code, k : code \o Unit(Runs[k], k), <<>>, Count(Len(Runs)))

ArcUnit(run, k) ==
  IF run.byte = Escape THEN FoldLeft(LAMBDA code, i : code \o <<Escape, 0>>, <<>>, Count(run.n))
  ELSE IF run.n < 3 THEN Repeat(run.byte, run.n) ELSE <<run.byte, Escape, run.n>>

Rle90Unit(run, k) ==
  LET byte == IF run.byte = Escape THEN <<Escape, 0>> ELSE <<run.byte>>
  IN  IF run.n < 3 THEN FoldLeft(LAMBDA code, i : code \o byte, <<>>, Count(run.n)) ELSE byte \o <<Escape, run.n>>

CptUnit(run, k) ==
  LET after == k > 1 /\ Runs[k - 1].byte = Escape
  IN  IF run.byte = Escape THEN Repeat(Escape, run.n + IF k = Len(Runs) THEN 1 ELSE 0)
      ELSE <<run.byte>> \o (IF run.byte = Second /\ after THEN <<0>> ELSE <<>>)
             \o (IF run.n < 3 THEN Repeat(run.byte, run.n - 1) ELSE <<Escape, Second, run.n>>)

Leaf(v) == -(v + 1)
(* A tree with one byte at each level and the end of file at the bottom.   *)
Teeth == 9
Comb == [v \in 1 .. Teeth |-> <<Leaf(v - 1), IF v = Teeth THEN Leaf(EndOfFile) ELSE v>>]
CombBits(v) == Append(Repeat(1, v), 0)

(* StuffIt's method 1: what has no counts comes back as it was, what has   *)
(* counts as the same runs of bytes, none of them longer; a smaller        *)
(* destination gets the beginning of what a larger one does.  How much     *)
(* longer than its byte a count makes a run is not asked.                  *)
CountedRunsComeBack ==
  LET out(cap) == Rle90Decode(Encoded(Rle90Unit), cap)
      runs     == RunsIn(out(N))
  IN  /\ (\A k \in DOMAIN Runs : Runs[k].n < 3) => out(N) = input
      /\ Len(runs) = Len(Runs)
      /\ \A k \in DOMAIN Runs : runs[k].byte = Runs[k].byte /\ runs[k].n <= Runs[k].n
      /\ \A cap \in 0 .. N : out(cap) = SubSeq(out(N), 1, Lesser(cap, Len(out(N))))

(* The packed text is the text again, as much of it as the destination     *)
(* takes; half as much room again as the text needs is enough for the      *)
(* squeezed one.                                                           *)
RunsComeBack ==
  LET arc == Encoded(ArcUnit)
      squeezed == FoldLeft(LAMBDA bits, v : bits \o CombBits(v), <<>>, arc) \o Repeat(1, Teeth)
  IN  /\ \A cap \in 0 .. N : /\ ArcUnpack(arc, cap) = SubSeq(input, 1, cap)
                              /\ ArcUnsqueeze(Comb, squeezed, cap) = SubSeq(input, 1, cap)
                              /\ CptRleDecode(Encoded(CptUnit), cap) = SubSeq(input, 1, cap)
      /\ CountedRunsComeBack

-----------------------------------------------------------------------------
(* Where a text has a copy of n bytes from dist before; zeros stand before *)
(* the text for ZIP.                                                       *)
Earlier(i) == IF i < 1 THEN 0 ELSE input[i]
Copies(from) == {c \in [at : from .. N, n : 3 .. N, dist : 1 .. N] :
                   /\ c.at + c.n - 1 <= N
                   /\ from > 1 => c.dist < c.at
                   /\ \A i \in c.at .. c.at + c.n - 1 : input[i] = Earlier(i - c.dist)}

Literals(text) == FoldLeft(LAMBDA code, x : code \o IF x = Escape THEN <<Escape, 0>> ELSE <<x>>, <<>>, text)

ReduceCopy(c, lenbits) ==
  LET mask == 2^lenbits - 1 IN
  <<Escape, Min({c.n - 3, mask})>> \o (IF c.n - 3 >= mask THEN <<c.n - 3 - mask>> ELSE <<>>) \o <<c.dist - 1>>

ReduceBytes(c, lenbits) ==
  Literals(SubSeq(input, 1, c.at - 1)) \o ReduceCopy(c, lenbits) \o Literals(SubSeq(input, c.at + c.n, N))

(* An even byte has the bytes that come after it as its followers.         *)
FollowersIn(bytes) ==
  [b \in 0 .. 255 |-> IF b % 2 = 1 THEN <<>>
                      ELSE SelectSeq(Count(9), LAMBDA x : \E i \in 1 .. Len(bytes) - 1 : bytes[i] = b /\ bytes[i + 1] = x)]

Coded(bytes, followers) ==
  FoldLeft(LAMBDA acc, x :
             LET set == followers[acc.last]
                 at  == {k \in DOMAIN set : set[k] = x}
             IN  [last  |-> x,
                  codes |-> Append(acc.codes, IF at = {} THEN [follows |-> FALSE, value |-> x]
                                              ELSE [follows |-> TRUE, value |-> (CHOOSE k \in at : TRUE) - 1])],
           [last |-> 0, codes |-> <<>>], bytes).codes

AdcChunks(c) ==
  LET plain(from, to) == IF from > to THEN <<>> ELSE <<[plain |-> TRUE, bytes |-> SubSeq(input, from, to)]>>
  IN  plain(1, c.at - 1) \o <<[plain |-> FALSE, size |-> c.n, offset |-> c.dist - 1]>> \o plain(c.at + c.n, N)

(* The place of the last chunk of the text that ends within the room.      *)
ChunkEnd(c, cap) == IF cap = N THEN N ELSE IF cap >= c.at + c.n - 1 THEN c.at + c.n - 1
                    ELSE IF cap >= c.at - 1 THEN c.at - 1 ELSE 0

DartUnit(text) ==
  LET pairs == Len(text) \div 2 IN
  IF \A i \in 1 .. Len(text) - 2 : text[i] = text[i + 2] THEN <<-pairs, text[1], text[2]>> ELSE <<pairs>> \o text

(* A text is the same again when one of its copies is coded as a copy, cut *)
(* off where the destination ends (ADC: at the chunk that does not fit),   *)
(* and every follower fits the bits it is given.                           *)
CopiesComeBack ==
  /\ \A lenbits \in 1 .. 2 : \A c \in Copies(1) : c.n > 3 =>
       LET bytes     == ReduceBytes(c, lenbits)
           followers == FollowersIn(bytes)
           codes     == Coded(bytes, followers)
       IN  \A cap \in 0 .. N : ReduceExpand(codes, followers, lenbits, cap).out = SubSeq(input, 1, cap)
  /\ \A n \in 1 .. 32 : n <= 2^BValue(n)
  /\ \A c \in Copies(2) : \A cap \in 0 .. N :
       AdcDecode(AdcChunks(c), cap) = SubSeq(input, 1, ChunkEnd(c, cap))

(* DART: one stream after the other comes back, each call from the statics *)
(* the last one left, if each had room for its own; what a smaller         *)
(* destination holds is the beginning of the text.                         *)
DartCallsAreSeparate ==
  \A m \in 2 .. N - 2 : m % 2 = 0 /\ N % 2 = 0 =>
    LET one   == SubSeq(input, 1, m)
        two   == SubSeq(input, m + 1, N)
        first(cap) == AppleCall(<<0>> \o DartUnit(one), AppleStatics, cap)
        second == AppleCall(DartUnit(two), first(m).statics, N - m)
    IN  /\ first(m).out = one /\ second.out = two
        /\ ~first(m).beyond /\ ~second.beyond
        /\ \A cap \in 1 .. m : SubSeq(first(cap).out, 1, cap) = SubSeq(one, 1, cap)

(* What the packing decoders make of an encoder's stream is the text.      *)
PackedTextsComeBack == RunsComeBack /\ CopiesComeBack /\ DartCallsAreSeparate

-----------------------------------------------------------------------------
Matches == INSTANCE MCMatches WITH RingSize <- 8, BlockCost <- 5

(* Every length and distance of the LZ77 formats has one code, and matches *)
(* that an encoder sends one after the other, whichever of the ways to say *)
(* them it prefers, come back as they were: the decoders' lists of         *)
(* distances, last lengths and low bits stay those of the encoder.         *)
MatchesComeBack ==
  /\ N = 1 /\ input[1] = 0 => Matches!EveryNumberHasOneCode
  /\ N \in 1 .. 3 => /\ Matches!Rar30Agrees(FoldLeft(LAMBDA all, k : all \o input, <<>>, Count(6)))
                     /\ Matches!HistoriesAgree(FoldLeft(LAMBDA all, k : all \o input, <<>>, Count(3)))

(* The decoders of the LZ77 formats make of literals and matches the text  *)
(* that was meant, as far as there is room, however the stream is cut into *)
(* blocks, and never take one kind of thing for another: the guess of a    *)
(* literal, the code after a match, the channel of a sample are those of   *)
(* the encoder.                                                            *)
TextsArrive == N = 3 => Matches!TextsArriveFrom(input)
=============================================================================
