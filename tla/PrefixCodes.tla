----------------------------- MODULE PrefixCodes -----------------------------
(***************************************************************************)
(* The prefix codes of RAR (rar/huffman.c), LHA (lha/huffman.c), PAK       *)
(* (pak/prefixcode.c), Zoo (zoo/maketbl.c) and ACE (ace/huffman.c): each   *)
(* turns the widths it read from the stream into a table for the short     *)
(* codes and, but for ACE, a tree for the long ones, and each has its own  *)
(* idea of what to do with widths that are no code.                        *)
(*                                                                         *)
(* Bits are sequences of 0 and 1; a node of a tree is the path to it.      *)
(* lengths[s] is the width of symbol s - 1, 0 if it has no code.           *)
(***************************************************************************)
EXTENDS Integers, Sequences, FiniteSets
LOCAL INSTANCE SequencesExt

CONSTANTS
  TableBits, \* RAR_HUFF_TABLE_BITS, LHA_HUFFMAN_TABLE_SIZE, TABLE_MAX_SIZE: 10
  MaxLength  \* the longest code: 15 or 16

Path(code, len) == [k \in 1 .. len |-> (code \div 2^(len - k)) % 2]
Index(bits)     == FoldLeft(LAMBDA n, b : 2 * n + b, 0, bits)
First(bits, k)  == SubSeq(bits, 1, k)

Reject            == [symbol |-> -1, used |-> 0]
Symbol(sym, used) == [symbol |-> sym, used |-> used]

HasCode(lengths, s) == lengths[s] > 0

EmptyTree == [nodes |-> {<<>>}, leaf |-> [path \in {} |-> 0]]
IsLeaf(tree, path) == path \in DOMAIN tree.leaf

SetLeaf(tree, path, sym) ==
  [nodes |-> tree.nodes \cup Prefixes(path),
   leaf  |-> [p \in DOMAIN tree.leaf \cup {path} |-> IF p = path THEN sym ELSE tree.leaf[p]]]

(* Where a walk along the bits ends, at the latest after upto of them.     *)
Walk(tree, bits, upto) ==
  LET ends == {k \in 0 .. upto : First(bits, k) \notin tree.nodes \/ IsLeaf(tree, First(bits, k))}
  IN  IF ends = {} THEN upto ELSE CHOOSE k \in ends : \A j \in ends : k <= j

-----------------------------------------------------------------------------
(* RAR: a code is added to the tree wherever that leads.                   *)
(* Faulty: the codes of a width begin right after the shorter ones.        *)
NextCodeWithoutShift(lengths) ==
  LET count(b) == Cardinality({s \in DOMAIN lengths : b > 0 /\ lengths[s] = b})
      next[b \in 0 .. MaxLength] == IF b = 0 THEN 0 ELSE next[b - 1] + count(b - 1)
  IN  next

RarNextCode(lengths) ==
  LET count(b) == Cardinality({s \in DOMAIN lengths : b > 0 /\ lengths[s] = b})
      next[b \in 0 .. MaxLength] == IF b = 0 THEN 0 ELSE 2 * (next[b - 1] + count(b - 1))
  IN  next

RarTree(lengths) ==
  LET next == RarNextCode(lengths)
      code(s) == next[lengths[s]] + Cardinality({r \in 1 .. s - 1 : lengths[r] = lengths[s]})
      add(tree, s) == IF HasCode(lengths, s)
                        THEN SetLeaf(tree, Path(code(s), lengths[s]), s - 1) ELSE tree
  IN  FoldLeft(add, EmptyTree, [s \in DOMAIN lengths |-> s])

RarTable(tree) ==
  [bits \in [1 .. TableBits -> {0, 1}] |->
     LET k == Walk(tree, bits, TableBits)
     IN  IF IsLeaf(tree, First(bits, k)) THEN Symbol(tree.leaf[First(bits, k)], k) ELSE Reject]

RarDecode(table, tree, bits) ==
  LET entry == table[First(bits, TableBits)]
      k     == Walk(tree, bits, MaxLength)
  IN  IF entry # Reject THEN entry
      ELSE IF k > TableBits /\ IsLeaf(tree, First(bits, k)) THEN Symbol(tree.leaf[First(bits, k)], k)
      ELSE Reject

-----------------------------------------------------------------------------
(* LHA and PAK: a code that leads through a leaf, or to a node that is not *)
(* new, is dropped by the one and ends the other.  For codes whose         *)
(* shortest is all ones the bits are complemented.                         *)
InOrder(lengths) ==
  FoldLeft(LAMBDA order, w : order \o SelectSeq([s \in DOMAIN lengths |-> s], LAMBDA s : lengths[s] = w),
           <<>>, [w \in 1 .. MaxLength |-> w])

Collides(tree, path) == path \in tree.nodes \/ \E p \in Prefixes(path) : IsLeaf(tree, p)

FromLengths(lengths, zeros) ==
  LET add(acc, s) ==
        LET code == acc.code * 2^(lengths[s] - acc.length)
            bits == Path(code, lengths[s])
            path == IF zeros THEN bits ELSE [k \in DOMAIN bits |-> 1 - bits[k]]
            bad  == Collides(acc.tree, path)
        IN  [code |-> code + 1, length |-> lengths[s], bad |-> acc.bad \/ bad,
             tree |-> IF bad THEN acc.tree ELSE SetLeaf(acc.tree, path, s - 1)]
  IN  FoldLeft(add, [code |-> 0, length |-> 0, tree |-> EmptyTree, bad |-> FALSE], InOrder(lengths))

(* PAK's only order; LHA has both.                                          *)
PakFromLengths(lengths) == FromLengths(lengths, TRUE)

TableSize(lengths) ==
  LET used == {lengths[s] : s \in DOMAIN lengths} \ {0}
  IN  IF used = {} \/ \E w \in used : w >= TableBits THEN TableBits
      ELSE CHOOSE w \in used : \A v \in used : v <= w

(* An entry is the depth of a leaf and its value, or the node to go on at, *)
(* one deeper than the table.                                              *)
NoEntry == <<-1, <<>>>>

RECURSIVE MakeTable(_, _, _)
MakeTable(tree, node, size) ==
  LET fill == 1 .. 2^(size - Len(node))
  IN  IF node \notin tree.nodes THEN [i \in fill |-> NoEntry]
      ELSE IF IsLeaf(tree, node) THEN [i \in fill |-> <<Len(node), node>>]
      ELSE IF Len(node) = size THEN <<<<size + 1, node>>>>
      ELSE MakeTable(tree, Append(node, 0), size) \o MakeTable(tree, Append(node, 1), size)

RECURSIVE MakeTableLE(_, _, _)
MakeTableLE(tree, node, size) ==
  LET fill == 1 .. 2^(size - Len(node))
  IN  IF node \notin tree.nodes THEN [i \in fill |-> NoEntry]
      ELSE IF IsLeaf(tree, node) THEN [i \in fill |-> <<Len(node), node>>]
      ELSE IF Len(node) = size THEN <<<<size + 1, node>>>>
      ELSE LET left  == MakeTableLE(tree, Append(node, 0), size)
               right == MakeTableLE(tree, Append(node, 1), size)
           IN  [i \in fill |-> IF i % 2 = 1 THEN left[(i + 1) \div 2] ELSE right[i \div 2]]

DecodeAt(entry, tree, bits, size) ==
  LET k == Walk(tree, bits, Len(bits))
  IN  IF entry[1] = -1 THEN Reject
      ELSE IF entry[1] <= size THEN Symbol(tree.leaf[entry[2]], entry[1])
      ELSE IF IsLeaf(tree, First(bits, k)) THEN Symbol(tree.leaf[First(bits, k)], k)
      ELSE Reject

LhaDecode(table, size, tree, bits)   == DecodeAt(table[Index(First(bits, size)) + 1], tree, bits, size)
PakDecodeLE(table, size, tree, bits) == DecodeAt(table[Index(Reverse(First(bits, size))) + 1], tree, bits, size)

-----------------------------------------------------------------------------
(* Zoo: a cell of the table or of the tree holds a symbol, the number of a *)
(* node, or 0 for neither; symbol 0 is no different from neither.          *)
ANode == -2

ZooStart(lengths) ==
  LET count(w) == Cardinality({s \in DOMAIN lengths : lengths[s] = w})
      start[w \in 1 .. MaxLength + 1] ==
        IF w = 1 THEN 0 ELSE start[w - 1] + count(w - 1) * 2^(MaxLength - (w - 1))
      shifted[w \in 1 .. MaxLength] ==
        IF w <= TableBits THEN start[w] \div 2^(MaxLength - TableBits) ELSE start[w]
  IN  shifted

ZooPlace(cells, len, from, ch) ==
  LET long == First(Path(from, MaxLength), len)
  IN  IF len <= TableBits
        THEN [c \in DOMAIN cells |->
                IF Len(c) = TableBits /\ Index(c) \in from .. from + 2^(TableBits - len) - 1
                  THEN ch ELSE cells[c]]
        ELSE [c \in DOMAIN cells |->
                IF c = long THEN ch
                ELSE IF Len(c) < len /\ c = First(long, Len(c)) /\ cells[c] = 0 THEN ANode
                ELSE cells[c]]

ZooCells(lengths) ==
  LET weight(w) == IF w <= TableBits THEN 2^(TableBits - w) ELSE 2^(MaxLength - w)
      place(acc, s) ==
        IF ~HasCode(lengths, s) THEN acc
        ELSE [start |-> [acc.start EXCEPT ![lengths[s]] = @ + weight(lengths[s])],
              cells |-> ZooPlace(acc.cells, lengths[s], acc.start[lengths[s]], s - 1)]
      paths == UNION {[1 .. n -> {0, 1}] : n \in TableBits .. MaxLength}
  IN  FoldLeft(place, [start |-> ZooStart(lengths), cells |-> [p \in paths |-> 0]],
               [s \in DOMAIN lengths |-> s]).cells

ZooDecode(lengths, cells, bits) ==
  LET k == CHOOSE n \in TableBits .. MaxLength :
             cells[First(bits, n)] # ANode /\ \A m \in TableBits .. n - 1 : cells[First(bits, m)] = ANode
      j == cells[First(bits, k)]
  IN  Symbol(j, lengths[j + 1])

-----------------------------------------------------------------------------
(* ACE sorts the widths itself, the largest first, and carries the symbols *)
(* along; keys[i] and elements[i], from 0.                                 *)
Exchange(a, i, j) == [a EXCEPT !.keys[i] = a.keys[j], !.keys[j] = a.keys[i],
                               !.elements[i] = a.elements[j], !.elements[j] = a.elements[i]]

RECURSIVE Partition(_, _, _, _)
PartitionFrom(a, l, r, hyphen) ==
  IF l > r THEN [a |-> a, left |-> l, right |-> r]
  ELSE IF l + 1 < r - 1 THEN Partition(Exchange(a, l, r), l + 1, r - 1, hyphen)
  ELSE [a |-> Exchange(a, l, r), left |-> l + 1, right |-> r - 1]

Partition(a, left, right, hyphen) ==
  PartitionFrom(a,
    CHOOSE x \in left .. Cardinality(DOMAIN a.keys) - 1 :
      a.keys[x] <= hyphen /\ \A y \in left .. x - 1 : a.keys[y] > hyphen,
    CHOOSE x \in 0 .. right : a.keys[x] >= hyphen /\ \A y \in x + 1 .. right : a.keys[y] < hyphen,
    hyphen)

RECURSIVE SortRange(_, _, _)
SortPart(a, i, j) ==
  IF i >= j THEN a
  ELSE IF i < j - 1 THEN SortRange(a, i, j)
  ELSE IF a.keys[i] < a.keys[j] THEN Exchange(a, i, j) ELSE a

SortParts(p, left, right) == SortPart(SortPart(p.a, left, p.right), p.left, right)

SortRange(a, left, right) == SortParts(Partition(a, left, right, a.keys[right]), left, right)

Sorted(widths) ==
  LET a == [keys |-> [i \in 0 .. Len(widths) - 1 |-> widths[i + 1]], elements |-> [i \in 0 .. Len(widths) - 1 |-> i]]
  IN  IF Len(widths) > 1 THEN SortRange(a, 0, Len(widths) - 1) ELSE a

(* The table of codes, filled from the shortest code on, and the widths as *)
(* they are afterwards; not ok when the codes do not fit.                  *)
AceMakeCodes(widths) ==
  LET a      == Sorted(widths)
      actual == Cardinality({i \in DOMAIN a.keys : a.keys[i] > 0})
      used   == IF actual = 0 THEN 1 ELSE actual
      size(i) == 2^(MaxLength - a.keys[i])
      fill(acc, k) ==
        LET i == used - k IN
        IF ~acc.ok \/ Len(acc.codes) >= 2^MaxLength THEN acc
        ELSE IF Len(acc.codes) + size(i) > 2^MaxLength THEN [acc EXCEPT !.ok = FALSE]
        ELSE [acc EXCEPT !.codes = @ \o [x \in 1 .. size(i) |-> a.elements[i]]]
      filled == FoldLeft(fill, [ok |-> TRUE, codes |-> <<>>], [k \in 1 .. used |-> k])
  IN  [ok     |-> filled.ok,
       codes  |-> filled.codes \o [x \in 1 .. 2^MaxLength - Len(filled.codes) |-> 0],
       widths |-> IF actual < 2 THEN [widths EXCEPT ![a.elements[0] + 1] = 1] ELSE widths]

AceDecode(made, bits) ==
  LET sym == made.codes[Index(First(bits, MaxLength)) + 1] IN Symbol(sym, made.widths[sym + 1])

-----------------------------------------------------------------------------
(* How the lists of widths are read.  A list is sent as symbols [sym], a   *)
(* run's with the number of more than the fewest [extra]: of the width     *)
(* before, or of zeros.  What runs beyond the end of a list is cut off.    *)
Clipped(list, w, n, count) == list \o [k \in 1 .. (IF n < count - Len(list) THEN n ELSE count - Len(list)) |-> w]
Padded(list, count) == Clipped(list, 0, count, count)

WidthRuns(syms, zero, fewest) == [s \in syms |-> [zero |-> s \in zero, fewest |-> IF s \in fewest THEN 11 ELSE 3]]
DeflateRuns == WidthRuns(16 .. 18, {17, 18}, {18})
RarRuns  == WidthRuns(16 .. 19, {18, 19}, {17, 19})

(* Before the first width stands start, or nothing that could be repeated. *)
TakeRun(acc, run, extra, count, start) ==
  IF run.zero THEN [acc EXCEPT !.list = Clipped(@, 0, run.fewest + extra, count)]
  ELSE IF acc.list = <<>> /\ start = -1 THEN [acc EXCEPT !.ok = FALSE]
  ELSE [acc EXCEPT !.list = Clipped(@, IF @ = <<>> THEN start ELSE @[Len(@)], run.fewest + extra, count)]

TakeWidth(acc, c, old, runs, count, start) ==
  IF ~acc.ok \/ Len(acc.list) = count THEN acc
  ELSE IF c.sym < 0 THEN [acc EXCEPT !.ok = FALSE]
  ELSE IF c.sym \in DOMAIN runs THEN TakeRun(acc, runs[c.sym], c.extra, count, start)
  ELSE [acc EXCEPT !.list = Append(@, (old[Len(@) + 1] + c.sym) % 16)]

NoWidths == [ok |-> TRUE, list |-> <<>>]
ReadWidths(codes, old, runs, count, start) ==
  FoldLeft(LAMBDA acc, c : TakeWidth(acc, c, old, runs, count, start), NoWidths, codes)

(* RAR 2 and 3 send differences to the widths before; a RAR 2 table of     *)
(* fewer widths leaves the rest as they were.                              *)
Rar20Widths(codes, old, count) ==
  LET new == ReadWidths(codes, old, DeflateRuns, count, -1)
  IN  [new EXCEPT !.list = @ \o SubSeq(old, Len(@) + 1, Len(old))]
Rar30Widths(codes, old) == ReadWidths(codes, old, RarRuns, Len(old), -1)
Rar50Widths(codes, count) == ReadWidths(codes, Padded(<<>>, count), RarRuns, count, -1)
Deflate64Widths(codes, hlit, hdist) == ReadWidths(codes, Padded(<<>>, hlit + hdist), DeflateRuns, hlit + hdist, 0)
SitxWidths(codes, hlit, hdist) == Padded(Deflate64Widths(codes, hlit, hdist).list, hlit + hdist)

(* The widths of the code for these symbols: 15 with 0 more is itself.     *)
Rar30Prelengths(codes, count) ==
  FoldLeft(LAMBDA list, c : IF c.sym = 15 /\ c.extra > 0 THEN Clipped(list, 0, c.extra + 2, count)
                            ELSE Clipped(list, c.sym, 1, count), <<>>, codes)
Rar50Prelengths(codes, count) == Rar30Prelengths(codes, count)

(* LHA and ARJ: after so many widths comes how many zeros follow.  Zoo has *)
(* them run beyond the last width that was sent, to the end of the list.   *)
TakeLhaWidth(list, c, num, count, special) ==
  LET zeros == IF Len(list) + 1 = special THEN c.extra ELSE 0
  IN  IF Len(list) >= num THEN list ELSE Clipped(Append(list, c.sym), 0, zeros, count)
ParseCode(codes, num, special) == FoldLeft(LAMBDA list, c : TakeLhaWidth(list, c, num, num, special), <<>>, codes)
ArjParseCode(codes, num, special) == ParseCode(codes, num, special)
ReadPtLen(codes, n, nn, special) ==
  Padded(FoldLeft(LAMBDA list, c : TakeLhaWidth(list, c, n, nn, special), <<>>, codes), nn)

ZerosOf(c) == CASE c.sym = 0 -> 1 [] c.sym = 1 -> c.extra + 3 [] c.sym = 2 -> c.extra + 20 [] OTHER -> 0
TakeLiteralWidth(list, c, num, count) ==
  IF Len(list) >= num THEN list
  ELSE IF c.sym <= 2 THEN Clipped(list, 0, ZerosOf(c), count)
  ELSE Append(list, c.sym - 2)
ParseLiteralCode(codes, num) == FoldLeft(LAMBDA list, c : TakeLiteralWidth(list, c, num, num), <<>>, codes)
ArjParseLiteralCode(codes, num) == ParseLiteralCode(codes, num)
ReadCLen(codes, n, nc) == Padded(FoldLeft(LAMBDA list, c : TakeLiteralWidth(list, c, n, nc), <<>>, codes), nc)

(* Implode: how many of one width after the other; Compact Pro: two to a   *)
(* byte, not more than there are symbols.                                  *)
ImplodeWidths(groups, num_symbols) ==
  FoldLeft(LAMBDA list, g : Clipped(list, g.length, g.count, num_symbols), <<>>, groups)
CptWidths(pairs, size) ==
  IF 2 * Len(pairs) > size THEN [ok |-> FALSE, list |-> <<>>]
  ELSE [ok |-> TRUE, list |-> Padded(FlattenSeq(pairs), size)]

(* ACE: differences, and all widths but 0 are made larger by the lowest.   *)
AceRead(codes, upper, count) ==
  FoldLeft(LAMBDA list, c : IF c.sym < upper THEN Clipped(list, c.sym, 1, count) ELSE Clipped(list, 0, c.extra + 4, count),
           <<>>, codes)
AceSummed(list, upper) ==
  IF upper = 0 THEN list
  ELSE FoldLeft(LAMBDA sums, w : Append(sums, IF sums = <<>> THEN w ELSE (w + sums[Len(sums)]) % upper), <<>>, list)
AceWidths(codes, lower, upper, num_widths) ==
  LET sums == AceSummed(AceRead(codes, upper, num_widths + 1), upper)
  IN  [i \in DOMAIN sums |-> IF sums[i] = 0 THEN 0 ELSE sums[i] + lower]

(* StuffIt 13 says how the width changes, and then that it stands; nothing *)
(* stops a run at the end of the list.                                     *)
M13Length(length, sym) ==
  CASE sym = 31 -> -1 [] sym = 32 -> length + 1 [] sym = 33 -> length - 1 [] sym \in 34 .. 36 -> length [] OTHER -> sym + 1
M13More(c) == CASE c.sym = 34 -> c.extra [] c.sym = 35 -> c.extra + 2 [] c.sym = 36 -> c.extra + 10 [] OTHER -> 0
M13Width(acc, c, num_codes) ==
  IF ~acc.ok \/ Len(acc.list) >= num_codes THEN acc
  ELSE IF c.sym < 0 THEN [acc EXCEPT !.ok = FALSE]
  ELSE LET length == M13Length(acc.length, c.sym)
       IN  [acc EXCEPT !.length = length, !.list = @ \o [k \in 1 .. M13More(c) + 1 |-> length]]
M13DynamicCode(codes, num_codes) ==
  FoldLeft(LAMBDA acc, c : M13Width(acc, c, num_codes), NoWidths @@ [length |-> 0], codes)

(* StuffIt 14: numbers of j bits, the largest a run and, if there is a     *)
(* code for it, the one before a zero.                                     *)
M14Widths(codes, j, o, zeros, codesize) ==
  LET m == 2^j - 1 IN
  FoldLeft(LAMBDA list, c : IF zeros /\ c.sym = m - 1 THEN Clipped(list, 0, 1, codesize)
                            ELSE IF c.sym = m THEN Clipped(list, list[Len(list)], c.extra + 3, codesize)
                            ELSE Clipped(list, c.sym + o, 1, codesize), <<>>, codes)

-----------------------------------------------------------------------------
(* StuffIt 14 sorts the widths, the least first, and counts codes upwards. *)
(* a[i] is [code, freq], i from 0; result has two cells for a node, where  *)
(* the next node is or, from 2 * codesize, a symbol.                       *)
M14Swap(a, i, j) == [a EXCEPT ![i] = a[j], ![j] = a[i]]

RECURSIVE M14Partition(_, _, _, _)
M14PartitionFrom(a, first, i, j) == IF j > i THEN M14Partition(M14Swap(a, i, j), first, i, j) ELSE [a |-> a, j |-> j]
M14Partition(a, first, i, j) ==
  M14PartitionFrom(a, first,
    CHOOSE x \in i + 1 .. j : (x = j \/ a[first].code <= a[x].code) /\ \A y \in i + 1 .. x - 1 : a[first].code > a[y].code,
    CHOOSE x \in first .. j - 1 : (x = first \/ a[first].code >= a[x].code) /\ \A y \in x + 1 .. j - 1 : a[first].code < a[y].code)

RECURSIVE M14Update(_, _, _)
M14Halves(p, first, last) ==
  IF p.j = first THEN M14Update(p.a, first + 1, last)
  ELSE M14Update(M14Update(M14Swap(p.a, first, p.j), p.j + 1, last), first, p.j)
M14Update(a, first, last) == IF last - first <= 1 THEN a ELSE M14Halves(M14Partition(a, first, first, last), first, last)

M14Sorted(code) == M14Update([i \in 0 .. Len(code) - 1 |-> [code |-> code[i + 1], freq |-> i]], 0, Len(code))

(* Each symbol's path: the low bits of the count, the highest first.       *)
M14Count(acc, e) ==
  IF e.code = 0 THEN acc
  ELSE LET j == acc.next * 2^(e.code - acc.code)
       IN  [next |-> j + 1, code |-> e.code, paths |-> [acc.paths EXCEPT ![e.freq] = Path(j, e.code)]]
M14Paths(code) ==
  LET a == M14Sorted(code)
  IN  FoldLeft(LAMBDA acc, i : M14Count(acc, a[i - 1]),
               [next |-> 0, code |-> 0, paths |-> [i \in DOMAIN a |-> <<>>]], [i \in DOMAIN code |-> i]).paths

M14Bit(acc, bit, last, leaf) ==
  LET l == acc.l + bit IN
  IF last THEN [acc EXCEPT !.result[l] = leaf]
  ELSE IF acc.result[l] # 0 THEN [acc EXCEPT !.l = acc.result[l]]
  ELSE [acc EXCEPT !.result[l] = acc.j, !.j = @ + 2, !.l = acc.j]
M14Insert(acc, path, leaf) ==
  FoldLeft(LAMBDA r, k : M14Bit(r, path[k], k = Len(path), leaf), [acc EXCEPT !.l = 0], [k \in DOMAIN path |-> k])
M14Tree(code) ==
  LET paths == M14Paths(code)
      n     == Len(code)
  IN  FoldLeft(LAMBDA acc, i : M14Insert(acc, paths[i - 1], 2 * n + i - 1),
               [result |-> [x \in 0 .. 2 * n - 1 |-> 0], j |-> 2, l |-> 0], [i \in 1 .. n |-> i]).result

(* A walk that comes to an empty cell begins again.                        *)
M14Walk(result, codesize, bits) ==
  FoldLeft(LAMBDA w, b : IF w.l >= 2 * codesize THEN w ELSE [l |-> result[w.l + b], used |-> w.used + 1],
           [l |-> 0, used |-> 0], bits)

(* PAK Distill sends the tree itself, the root last.                       *)
DistillWalk(nodes, bits) ==
  FoldLeft(LAMBDA w, b : IF w.node >= Len(nodes) THEN w ELSE [node |-> nodes[w.node + b + 1], used |-> w.used + 1],
           [node |-> Len(nodes) - 2, used |-> 0], bits)
=============================================================================
