------------------------------ MODULE BlockSort ------------------------------
(***************************************************************************)
(* What StuffIt does to a block after its entropy decoder                  *)
(* (stuffit/bwt.c): the inverse of the Burrows-Wheeler sort, of the sort   *)
(* that looks at four bytes only, and the two move-to-front schemes.       *)
(* Cells of a block are numbered from 1 here, from 0 in the code.          *)
(***************************************************************************)
EXTENDS Integers, Sequences, FiniteSets
LOCAL INSTANCE SequencesExt

CONSTANT Values \* a byte is one of 0 .. Values - 1

Count(n) == [k \in 1 .. n |-> k]

(* The cells of each value in turn, from the first to the last.            *)
CellsInOrder(block, values) ==
  FoldLeft(LAMBDA order, v : order \o SelectSeq(Count(Len(block)), LAMBDA i : block[i] = v - 1),
           <<>>, Count(values))

Column(block, values) ==
  FoldLeft(LAMBDA column, v : column \o SelectSeq(block, LAMBDA x : x = v - 1), <<>>, Count(values))

UnsortBwt(src, firstindex) ==
  LET transform == CellsInOrder(src, Values)
      next(acc, i) == LET idx == transform[acc.idx] IN [idx |-> idx, dest |-> Append(acc.dest, src[idx])]
  IN  FoldLeft(next, [idx |-> firstindex, dest |-> <<>>], Count(Len(src))).dest

-----------------------------------------------------------------------------
(* The sort by four bytes.  The first two order the cells; bits are where  *)
(* a group with the same four begins.                                      *)
Pairs(src) == LET lo == Column(src, Values) IN [k \in 1 .. Len(src) |-> src[k] * Values + lo[k]]

Smaller(src, v) == Len(SelectSeq(src, LAMBDA x : x < v))

(* Faulty: a group for each byte instead of each four bytes.               *)
ByteStarts(src) ==
  {Smaller(src, src[i]) + 1 : i \in 1 .. Len(src)}

GroupStarts(src) ==
  LET group   == Column(Pairs(src), Values * Values)
      same(i) == {j \in 1 .. i - 1 : src[j] = src[i]}
  IN  {Smaller(src, src[i]) + Cardinality(same(i)) + 1 :
         i \in {j \in 1 .. Len(src) : \A k \in same(j) : group[k] # group[j]}}

(* A cell leads on to the next cell of its byte, or shares the way of the  *)
(* last cell of its byte in the same group.                                *)
Transform4(src) ==
  LET starts  == GroupStarts(src)
      entry(acc, i) ==
        LET v     == src[i]
            index == IF i \in starts THEN i ELSE acc.index
            own   == index > acc.seen[v]
        IN  [index |-> index,
             seen  |-> IF own THEN [acc.seen EXCEPT ![v] = i] ELSE acc.seen,
             count |-> [acc.count EXCEPT ![v] = @ + 1],
             cells |-> Append(acc.cells, [shared |-> ~own, to |-> IF own THEN acc.count[v] ELSE acc.seen[v]])]
  IN  FoldLeft(entry, [index |-> 1, cells |-> <<>>, seen |-> [v \in 0 .. Values - 1 |-> 0],
                       count |-> [v \in 0 .. Values - 1 |-> Smaller(src, v) + 1]],
               Count(Len(src))).cells

(* Each use of a cell's own way moves it on by one; tval is the entry as   *)
(* it was when it was reached.  A way out of the block ends the decoder.   *)
UnsortSt4(src, firstindex) ==
  LET cells == Transform4(src)
      step(acc, i) ==
        LET owner == IF acc.tval.shared THEN acc.tval.to ELSE acc.index
            index == IF acc.tval.shared THEN acc.cells[owner].to ELSE acc.tval.to
            moved == [acc.cells EXCEPT ![owner].to = @ + 1]
        IN  IF acc.failed \/ index > Len(src) THEN [acc EXCEPT !.failed = TRUE]
            ELSE [index |-> index, cells |-> moved, tval |-> moved[index],
                  dest |-> Append(acc.dest, src[index]), failed |-> FALSE]
  IN  FoldLeft(step, [index |-> firstindex, cells |-> cells, tval |-> cells[firstindex],
                      dest |-> <<>>, failed |-> FALSE], Count(Len(src)))

-----------------------------------------------------------------------------
(* Tables of the bytes by recency; table[k] is the byte of symbol k.       *)
Identity == [k \in 0 .. Values - 1 |-> k]

ToFront(table, k) ==
  [j \in DOMAIN table |-> IF j = 0 THEN table[k] ELSE IF j <= k THEN table[j - 1] ELSE table[j]]

DecodeMtfBlock(block) ==
  FoldLeft(LAMBDA acc, symbol : [table |-> ToFront(acc.table, symbol),
                                 out   |-> Append(acc.out, acc.table[symbol])],
           [table |-> Identity, out |-> <<>>], block).out

ToSecond(table, k) ==
  [j \in DOMAIN table |-> IF j = 1 THEN table[k] ELSE IF j \in 2 .. k THEN table[j - 1] ELSE table[j]]

M1ffTable(table, symbol, lasthead, order) ==
  IF symbol = 0 \/ (symbol = 1 /\ lasthead < order) THEN table
  ELSE IF symbol = 1 THEN [table EXCEPT ![0] = table[1], ![1] = table[0]]
  ELSE ToSecond(table, symbol)

DecodeM1ffBlock(block, order) ==
  FoldLeft(LAMBDA acc, symbol :
             [table    |-> M1ffTable(acc.table, symbol, acc.lasthead, order),
              lasthead |-> (IF symbol = 0 THEN 0 ELSE acc.lasthead) + 1,
              out      |-> Append(acc.out, acc.table[symbol])],
           [table |-> Identity, lasthead |-> order - 1, out |-> <<>>], block).out

-----------------------------------------------------------------------------
(***************************************************************************)
(* The ranking of bytes in the "fancy" move-to-front of StuffIt X Iron     *)
(* (stuffit/iron.c): a byte comes to the front with a weight that it loses *)
(* as it gets 1, 2, 4 ... bytes old, and sinks below heavier ones.  ia1    *)
(* lists the bytes by rank, ia2 is the rank of each, ia3 its weight; the   *)
(* last place belongs to a mark whose weight is (uint32_t)-1.              *)
(***************************************************************************)
CONSTANTS
  Levels, \* 12: the ages are 1, 2, ... 2^(Levels - 1)
  Largest \* 2^32 - 1, more than any weight

Mark == Values
FirstWeight == 2^(Levels + 2)                                         \* 0x4000
Loss(j) == IF j = 0 THEN FirstWeight - 2^(Levels - 1) + 1              \* 0x3801
           ELSE 2^(Levels - 1) \div 2^j                                \* 0x800 >> j

IronStart ==
  [ia1 |-> [i \in 0 .. Mark |-> i], ia2 |-> [b \in 0 .. Mark |-> b],
   ia3 |-> [b \in 0 .. Mark |-> IF b = Mark THEN Largest ELSE 0], block |-> <<>>, beyond |-> FALSE]

(* b2 sinks to the place before the first byte that is not heavier; the    *)
(* search has left the table when it swaps places with the mark.           *)
Sink(s, b2) ==
  LET from  == s.ia2[b2]
      lighter == {v \in from .. Mark - 1 : s.ia3[s.ia1[v + 1]] <= s.ia3[b2]}
      to    == CHOOSE v \in lighter : \A u \in lighter : v <= u
      order == [i \in 0 .. Mark |-> IF i \in from .. to - 1 THEN s.ia1[i + 1] ELSE IF i = to THEN b2 ELSE s.ia1[i]]
  IN  IF lighter = {} THEN [s EXCEPT !.beyond = TRUE]
      ELSE [s EXCEPT !.ia1 = order,
                     !.ia2 = [b \in 0 .. Mark |-> IF b = b2 THEN to ELSE IF s.ia2[b] \in from + 1 .. to THEN @[b] - 1 ELSE @[b]]]

(* Faulty: the byte just read sinks before it is all that old.             *)
AgeEvenTheByte(s, byte, j) ==
  LET b2 == s.block[Len(s.block) - 2^j]
  IN  IF 2^j >= Len(s.block) \/ s.beyond THEN s
      ELSE IF b2 = byte THEN s ELSE Sink([s EXCEPT !.ia3[b2] = @ - Loss(j)], b2)

Age(s, byte, j) ==
  LET b2 == s.block[Len(s.block) - 2^j]
      lost == [s EXCEPT !.ia3[b2] = @ - Loss(j)]
  IN  IF 2^j >= Len(s.block) \/ s.beyond THEN s ELSE IF b2 = byte THEN lost ELSE Sink(lost, b2)

IronByte(s, index) ==
  LET byte  == s.ia1[index]
      front == [s EXCEPT !.block = Append(@, byte), !.ia3[byte] = @ + FirstWeight,
                         !.ia1 = [i \in 0 .. Mark |-> IF i = 0 THEN byte ELSE IF i <= index THEN @[i - 1] ELSE @[i]],
                         !.ia2 = [b \in 0 .. Mark |-> IF b = byte THEN 0 ELSE IF @[b] < index THEN @[b] + 1 ELSE @[b]]]
  IN  IF s.beyond THEN s
      ELSE FoldLeft(LAMBDA acc, j : Age(acc, byte, j), front, [k \in 1 .. Levels |-> k - 1])
=============================================================================
