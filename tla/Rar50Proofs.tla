---------------------------- MODULE Rar50Proofs ----------------------------
(***************************************************************************)
(* RAR 5's loop gives the caller the filtered stream, for every window,    *)
(* stretch, stream and list of well-declared filters, if the window is     *)
(* ample (rar50_small_window shows what happens in one that is not).       *)
(*                                                                         *)
(* The argument.  The window holds every position of its last Window50     *)
(* bytes (RingHolds), and the list is what is left of the declarations     *)
(* (ListIsSuffix).  What has been written is the filtered stream up to     *)
(* Len(out50), the filters taken off end there and those left begin there  *)
(* or further on (Written).  While the stretch is expanded, no filter but  *)
(* the one it is for begins before its end, nor before decoded50           *)
(* (InStretch); so the flush meets at most that one, with its whole block  *)
(* decoded (InFlush), and catches up with decoded50 (Caught).              *)
(***************************************************************************)
EXTENDS Rar50Stream, LzssWindow, NatLemmas

FilterBlock == [id : Nat, start : Nat, length : Lengths50]
OutByte     == [at : Int, by : Nat]

Types ==
  /\ decoded50 \in Nat /\ from \in Nat /\ end \in Nat
  /\ ring50 \in [0 .. Window50 - 1 -> Int]
  /\ inBlock \in BOOLEAN /\ islastblock \in BOOLEAN /\ codes_valid \in BOOLEAN
  /\ atFilter \in BOOLEAN /\ crossed \in BOOLEAN
  /\ filters \in Seq(FilterBlock) /\ declared50 \in Seq(FilterBlock)
  /\ out50 \in Seq(OutByte)
  /\ phase50 \in {"start", "loop", "expand", "flush", "done", "failed"}

Started ==
  phase50 = "start" => declared50 = <<>> /\ filters = <<>> /\ out50 = <<>> /\ decoded50 = 0

Taken == Len(declared50) - Len(filters)

(* The filters left are the last ones declared, each numbered by its place.*)
ListIsSuffix ==
  /\ Taken \in Nat
  /\ \A i \in 1 .. Len(filters) : filters[i] = declared50[Taken + i]
  /\ \A i \in 1 .. Len(declared50) : declared50[i].id = i

(* The window holds what was decoded last.                                 *)
RingHolds == \A p \in 0 .. decoded50 - 1 : p >= decoded50 - Window50 => ring50[p % Window50] = p

Expected(blocks, k) == [at |-> k - 1, by |-> FilterOver(blocks, k - 1)]

(* The output is the filtered stream so far, the list goes on from there.  *)
Written ==
  /\ Len(out50) <= Target50 /\ Len(out50) <= decoded50
  /\ \A k \in 1 .. Len(out50) : out50[k] = Expected(declared50, k)
  /\ \A i \in 1 .. Taken : declared50[i].start + declared50[i].length <= Len(out50)
  /\ \A i \in 1 .. Len(filters) : Len(out50) <= filters[i].start

(* Outside a stretch nothing is left to flush.                             *)
Caught == phase50 \in {"loop", "done"} => decoded50 <= Len(out50) \/ Target50 <= Len(out50)

Beyond(first) == \A i \in first .. Len(filters) : end <= filters[i].start /\ decoded50 <= filters[i].start

(* A stretch ends where a filter begins, or it is a filter's block.        *)
InStretch ==
  phase50 = "expand" =>
    /\ from = Len(out50) /\ decoded50 <= from + Window50
    /\ ~atFilter => end <= from + Chunk /\ Beyond(1)
    /\ atFilter => /\ Len(filters) > 0 /\ filters[1].start = from /\ end = from + filters[1].length
                   /\ Beyond(2)

(* A filter's block is decoded when it is flushed.                         *)
InFlush ==
  phase50 = "flush" =>
    /\ decoded50 <= Len(out50) + Window50
    /\ \A i \in 1 .. Len(filters) :
         \/ decoded50 <= filters[i].start
         \/ i = 1 /\ filters[1].start = Len(out50) /\ filters[1].start + filters[1].length <= decoded50

Progress == Written /\ Caught /\ InStretch /\ InFlush

IInv == Types /\ Started /\ ListIsSuffix /\ RingHolds /\ (WellDeclared => Progress)

-----------------------------------------------------------------------------
(* The sizes the code uses.                                                *)
LEMMA Sizes ==
  ASSUME Rar50Assumption
  PROVE  /\ Window50 \in Nat \ {0} /\ Chunk \in Nat \ {0} /\ Target50 \in Nat \ {0}
         /\ Tokens50 \subseteq Nat \ {0} /\ Distances50 \subseteq Nat
         /\ Lengths50 \subseteq Nat
BY DEF Rar50Assumption

(* A least element is the least.                                           *)
LEMMA LeastIs ==
  ASSUME NEW S \in SUBSET Int, NEW m \in S, \A y \in S : m <= y
  PROVE  LeastOf(S) = m
<1>1. \E x \in S : \A y \in S : x <= y
  OBVIOUS
<1>2. LeastOf(S) \in S /\ \A y \in S : LeastOf(S) <= y
  BY <1>1 DEF LeastOf
<1> DEFINE l == LeastOf(S)
<1>3. l \in Int /\ m \in Int /\ l <= m /\ m <= l
  BY <1>2
<1> HIDE DEF l
<1>4. l = m
  BY <1>3
<1> QED
  BY <1>4 DEF l

LEMMA LeastOfTwo ==
  ASSUME NEW a \in Int, NEW b \in Int
  PROVE  LeastOf({a, b}) = IF a <= b THEN a ELSE b
<1>1. CASE a <= b
  BY <1>1, LeastIs
<1>2. CASE b < a
  BY <1>2, LeastIs
<1> QED
  BY <1>1, <1>2

LEMMA LeastOfFour ==
  ASSUME NEW a \in Int, NEW b \in Int, NEW c \in Int, NEW d \in Int
  PROVE  /\ LeastOf({a, b, c, d}) \in {a, b, c, d}
         /\ LeastOf({a, b, c, d}) <= a /\ LeastOf({a, b, c, d}) <= b
         /\ LeastOf({a, b, c, d}) <= c /\ LeastOf({a, b, c, d}) <= d
<1> DEFINE S == {a, b, c, d}
<1>1. \E m \in S : \A y \in S : m <= y
  OBVIOUS
<1>2. LeastOf(S) \in S /\ \A y \in S : LeastOf(S) <= y
  BY <1>1 DEF LeastOf
<1> QED
  BY <1>2

(* The edge of the window ahead of a position is ahead of it.              *)
LEMMA EdgeAhead ==
  ASSUME Rar50Assumption, NEW pos \in Nat
  PROVE  NextEdge(pos) \in Int /\ pos < NextEdge(pos)
<1> DEFINE q == pos \div Window50
<1>1. Window50 \in Nat \ {0}
  BY Sizes
<1>2. q \in Int /\ pos = Window50 * q + (pos % Window50) /\ pos % Window50 \in 0 .. Window50 - 1
  BY <1>1, DivMod, ModRange
<1>3. NextEdge(pos) = (q + 1) * Window50
  BY DEF NextEdge
<1> HIDE DEF q
<1>4. (q + 1) * Window50 = Window50 * q + Window50
  BY <1>1, <1>2
<1> QED
  BY <1>1, <1>2, <1>3, <1>4

(* A position outside every block is under no filter.                      *)
LEMMA NoneOver ==
  ASSUME NEW B \in Seq(FilterBlock), NEW p \in Int,
         \A i \in 1 .. Len(B) : ~(B[i].start <= p /\ p < B[i].start + B[i].length)
  PROVE  FilterOver(B, p) = None
<1>1. FiltersOver(B, p) = {}
  BY DEF FiltersOver
<1> QED
  BY <1>1 DEF FilterOver

(* A position in one block only is under that filter.                      *)
LEMMA OneOver ==
  ASSUME NEW B \in Seq(FilterBlock), NEW p \in Int, NEW j \in 1 .. Len(B),
         B[j].start <= p /\ p < B[j].start + B[j].length,
         \A i \in 1 .. Len(B) : i # j => ~(B[i].start <= p /\ p < B[i].start + B[i].length)
  PROVE  FilterOver(B, p) = j
<1>1. FiltersOver(B, p) = {j}
  BY DEF FiltersOver
<1>2. j \in Int /\ \E x \in {j} : \A y \in {j} : y <= x
  OBVIOUS
<1>3. GreatestOf({j}) = j
  BY <1>2 DEF GreatestOf
<1> QED
  BY <1>1, <1>3 DEF FilterOver

(* A filter declared further on leaves a position as it was.               *)
LEMMA OverAppend ==
  ASSUME NEW B \in Seq(FilterBlock), NEW f \in FilterBlock, NEW p \in Int, p < f.start
  PROVE  FilterOver(Append(B, f), p) = FilterOver(B, p)
<1>1. /\ Append(B, f) \in Seq(FilterBlock) /\ Len(Append(B, f)) = Len(B) + 1 /\ Len(B) \in Nat
      /\ \A i \in 1 .. Len(B) : Append(B, f)[i] = B[i]
      /\ Append(B, f)[Len(B) + 1] = f
  OBVIOUS
<1>2. DOMAIN Append(B, f) = 1 .. Len(B) + 1 /\ DOMAIN B = 1 .. Len(B)
  BY <1>1
<1> DEFINE C == Append(B, f)
<1>3. ASSUME NEW i \in 1 .. Len(B) + 1
      PROVE  (C[i].start <= p /\ p < C[i].start + C[i].length)
               <=> i \in 1 .. Len(B) /\ B[i].start <= p /\ p < B[i].start + B[i].length
  <2>1. CASE i \in 1 .. Len(B)
    BY <1>1, <2>1
  <2>2. CASE i = Len(B) + 1
    <3>1. C[i].start = f.start /\ f.start \in Nat /\ ~(f.start <= p)
      BY <1>1, <2>2 DEF FilterBlock
    <3> QED
      BY <1>1, <2>2, <3>1
  <2> QED
    BY <1>1, <2>1, <2>2
<1>4. FiltersOver(C, p) = FiltersOver(B, p)
  <2> HIDE DEF C
  <2>1. DOMAIN C = 1 .. Len(B) + 1 /\ 1 .. Len(B) \subseteq 1 .. Len(B) + 1
    BY <1>1, <1>2 DEF C
  <2> QED
    BY <1>2, <1>3, <2>1, Zenon DEF FiltersOver
<1> QED
  BY <1>4 DEF FilterOver

(* What is copied from the window are bytes, whatever it holds.            *)
LEMMA CopyType ==
  ASSUME Rar50Assumption, Types, NEW start \in Nat, NEW n \in Nat, NEW filter \in Nat
  PROVE  FromWindow(start, n, filter) \in Seq(OutByte) /\ Len(FromWindow(start, n, filter)) = n
<1> DEFINE f == FromWindow(start, n, filter)
<1>1. f = [k \in 1 .. n |-> f[k]]
  BY DEF FromWindow
<1>2. ASSUME NEW k \in 1 .. n PROVE f[k] \in OutByte
  <2>1. (start + k - 1) % Window50 \in 0 .. Window50 - 1
    BY Sizes, ModRange
  <2>2. ring50[(start + k - 1) % Window50] \in Int
    BY <2>1 DEF Types
  <2> QED
    BY <2>2 DEF FromWindow, OutByte
<1> HIDE DEF f
<1>3. f \in Seq(OutByte) /\ Len(f) = n
  BY <1>1, <1>2, IsSeq
<1> QED
  BY <1>3 DEF f

(* What the window still holds is copied as it was decoded.                *)
LEMMA Copied ==
  ASSUME Rar50Assumption, Types, RingHolds, NEW start \in Nat, NEW n \in Nat, NEW filter \in Nat,
         start + n <= decoded50, decoded50 <= start + Window50, NEW k \in 1 .. n
  PROVE  FromWindow(start, n, filter)[k] = [at |-> start + k - 1, by |-> filter]
<1>1. decoded50 \in Nat /\ Window50 \in Nat \ {0}
  BY Sizes DEF Types
<1>2. start + k - 1 \in 0 .. decoded50 - 1 /\ start + k - 1 >= decoded50 - Window50
  BY <1>1
<1>3. ring50[(start + k - 1) % Window50] = start + k - 1
  BY <1>2 DEF RingHolds
<1> QED
  BY <1>3 DEF FromWindow

(* What is appended to a correct output.                                   *)
LEMMA Appended ==
  ASSUME NEW B, NEW o \in Seq(OutByte), NEW s \in Seq(OutByte),
         \A k \in 1 .. Len(o) : o[k] = Expected(B, k),
         \A k \in 1 .. Len(s) : s[k] = Expected(B, Len(o) + k)
  PROVE  \A k \in 1 .. Len(o \o s) : (o \o s)[k] = Expected(B, k)
<1>1. /\ Len(o \o s) = Len(o) + Len(s) /\ Len(o) \in Nat /\ Len(s) \in Nat
      /\ \A k \in 1 .. Len(o) + Len(s) : (o \o s)[k] = IF k <= Len(o) THEN o[k] ELSE s[k - Len(o)]
  BY ConcatProperties
<1>2. ASSUME NEW k \in 1 .. Len(o) + Len(s) PROVE (o \o s)[k] = Expected(B, k)
  <2>1. CASE k <= Len(o)
    <3>1. k \in 1 .. Len(o)
      BY <1>1, <2>1
    <3> QED
      BY <1>1, <2>1, <3>1
  <2>2. CASE k > Len(o)
    <3>1. k - Len(o) \in 1 .. Len(s) /\ Len(o) + (k - Len(o)) = k /\ ~(k <= Len(o))
      BY <1>1, <2>2
    <3>2. s[k - Len(o)] = Expected(B, Len(o) + (k - Len(o)))
      BY <3>1
    <3> QED
      BY <1>1, <3>1, <3>2
  <2> QED
    BY <1>1, <2>1, <2>2
<1> QED
  BY <1>1, <1>2

-----------------------------------------------------------------------------
(* What an archiver would not do cannot be undone: once the data has ended *)
(* nothing is decoded or declared.                                         *)
Frame == decoded50' = decoded50 /\ declared50' = declared50 /\ crossed' = crossed
SameBlock == inBlock' = inBlock /\ islastblock' = islastblock

LEMMA SameDeclared ==
  ASSUME Frame, SameBlock, WellDeclared'
  PROVE  WellDeclared
BY DEF Frame, SameBlock, WellDeclared, InOrder, DataEnded

LEMMA StillInBlock ==
  ASSUME Frame, ~DataEnded, WellDeclared'
  PROVE  WellDeclared
<1>1. ~crossed /\ InOrder
  BY DEF Frame, WellDeclared, InOrder
<1> QED
  BY <1>1 DEF WellDeclared

(* The list is in the order of its blocks when the declarations are.       *)
LEMMA ListInOrder ==
  ASSUME Types, ListIsSuffix, InOrder
  PROVE  \A i, j \in 1 .. Len(filters) : i < j => filters[i].start + filters[i].length <= filters[j].start
<1> SUFFICES ASSUME NEW i \in 1 .. Len(filters), NEW j \in 1 .. Len(filters), i < j
             PROVE  filters[i].start + filters[i].length <= filters[j].start
  OBVIOUS
<1>1. filters \in Seq(FilterBlock) /\ declared50 \in Seq(FilterBlock)
  BY DEF Types
<1>2. Len(filters) \in Nat /\ Len(declared50) \in Nat /\ DOMAIN declared50 = 1 .. Len(declared50)
  BY <1>1
<1>3. Taken \in Nat /\ filters[i] = declared50[Taken + i] /\ filters[j] = declared50[Taken + j]
  BY DEF ListIsSuffix
<1>4. Taken + i \in DOMAIN declared50 /\ Taken + j \in DOMAIN declared50 /\ Taken + i < Taken + j
  BY <1>2, <1>3 DEF Taken
<1> QED
  BY <1>3, <1>4 DEF InOrder

(* A block's numbers.                                                      *)
LEMMA BlockType ==
  ASSUME Rar50Assumption, NEW f \in FilterBlock
  PROVE  f.id \in Nat /\ f.start \in Nat /\ f.length \in Nat /\ f.length \in Lengths50
BY Sizes DEF FilterBlock

(* A step that leaves window, list and output alone: only where it stands  *)
(* in the loop is to be shown.                                             *)
DataKept == /\ Frame /\ ring50' = ring50 /\ filters' = filters /\ out50' = out50

LEMMA DataStays ==
  ASSUME IInv, DataKept, phase50' # "start"
  PROVE  /\ Started' /\ ListIsSuffix' /\ RingHolds'
         /\ Written => Written'
<1>1. Started'
  BY DEF Started
<1>2. Taken' = Taken
  BY DEF DataKept, Frame, Taken
<1>3. ListIsSuffix'
  BY <1>2 DEF DataKept, Frame, ListIsSuffix, IInv
<1>4. RingHolds'
  BY DEF DataKept, Frame, RingHolds, IInv
<1>5. Written => Written'
  BY <1>2 DEF DataKept, Frame, Written
<1> QED
  BY <1>1, <1>3, <1>4, <1>5

LEMMA FirstHeaderKeeps ==
  ASSUME Rar50Assumption, IInv, FirstHeader
  PROVE  IInv'
<1>1. /\ DataKept /\ phase50 = "start" /\ phase50' \in {"failed", "loop"}
      /\ from' = from /\ end' = end /\ atFilter' = atFilter
      /\ inBlock' \in BOOLEAN /\ islastblock' \in BOOLEAN /\ codes_valid' \in BOOLEAN
  BY DEF FirstHeader, Header, DataKept, Frame, loopVars, blockVars, IInv, Types
<1>2. Types'
  BY <1>1 DEF IInv, Types, DataKept, Frame
<1>3. declared50 = <<>> /\ filters = <<>> /\ out50 = <<>> /\ decoded50 = 0
  BY <1>1 DEF IInv, Started
<1>4. Written'
  <2>1. Len(out50) = 0 /\ Len(declared50) = 0 /\ Len(filters) = 0 /\ Taken = 0
    BY <1>3 DEF Taken
  <2>2. Target50 \in Nat
    BY Sizes
  <2>3. Taken' = 0 /\ Len(out50') = 0 /\ Len(declared50') = 0 /\ Len(filters') = 0 /\ decoded50' = 0
    BY <1>1, <1>3, <2>1 DEF DataKept, Frame, Taken
  <2> QED
    BY <2>2, <2>3 DEF Written
<1>5. Caught' /\ InStretch' /\ InFlush'
  BY <1>1, <1>3 DEF Caught, InStretch, InFlush, DataKept, Frame
<1> QED
  BY <1>1, <1>2, <1>4, <1>5, DataStays DEF IInv, Progress

LEMMA LoopKeeps ==
  ASSUME Rar50Assumption, IInv, Loop
  PROVE  IInv'
<1> DEFINE least == LeastOf(Stretch)
<1>1. /\ DataKept /\ SameBlock /\ phase50 = "loop" /\ phase50' = "expand" /\ codes_valid' = codes_valid
      /\ Here < Target50 /\ from' = Here /\ atFilter' = (Here = NextFilterStart)
      /\ end' = IF atFilter' THEN NextFilterStart + Head(filters).length ELSE least
  BY DEF Loop, DataKept, Frame, SameBlock, blockVars
<1>2. /\ Window50 \in Nat \ {0} /\ Chunk \in Nat \ {0} /\ Target50 \in Nat \ {0} /\ Lengths50 \subseteq Nat
      /\ filters \in Seq(FilterBlock) /\ out50 \in Seq(OutByte) /\ decoded50 \in Nat
  BY Sizes DEF IInv, Types
<1>3. Len(filters) \in Nat /\ Here \in Nat /\ Len(out50) \in Nat
  BY <1>2 DEF Here
<1>4. ASSUME filters # <<>>
      PROVE  /\ NextFilterStart = filters[1].start /\ NextFilterStart \in Nat /\ Len(filters) > 0
             /\ Head(filters) = filters[1] /\ Head(filters).length \in Nat
  <2>1. Head(filters) = filters[1] /\ filters[1] \in FilterBlock /\ Len(filters) > 0
    BY <1>2, <1>4
  <2> QED
    BY <1>2, <1>4, <2>1 DEF NextFilterStart, FilterBlock
<1>5. NextFilterStart \in Nat
  BY <1>2, <1>4 DEF NextFilterStart
<1>6. /\ least \in {Here + Chunk, NextEdge(Here), NextFilterStart, Target50}
      /\ least <= Here + Chunk /\ least <= NextFilterStart /\ least \in Nat
  <2>1. NextEdge(Here) \in Int /\ Here < NextEdge(Here)
    BY <1>3, EdgeAhead
  <2>2. Here + Chunk \in Int /\ NextFilterStart \in Int /\ Target50 \in Int
    BY <1>2, <1>3, <1>5
  <2>3. /\ least \in {Here + Chunk, NextEdge(Here), NextFilterStart, Target50}
        /\ least <= Here + Chunk /\ least <= NextFilterStart
    BY <2>1, <2>2, LeastOfFour DEF Stretch
  <2>4. least \in Nat
    BY <1>2, <1>3, <1>5, <2>1, <2>3
  <2> QED
    BY <2>3, <2>4
<1> HIDE DEF least
<1>7. atFilter' => filters # <<>>
  <2> SUFFICES ASSUME filters = <<>> PROVE ~atFilter'
    OBVIOUS
  <2>1. NextFilterStart = Target50
    BY DEF NextFilterStart
  <2>2. ~(Here = NextFilterStart)
    BY <1>1, <1>2, <1>3, <2>1
  <2>3. atFilter' = (Here = NextFilterStart)
    BY <1>1
  <2> QED
    BY <2>2, <2>3, Zenon
<1>8. end' \in Nat /\ atFilter' \in BOOLEAN
  <2>1. CASE atFilter'
    BY <1>1, <1>4, <1>7, <2>1
  <2>2. CASE ~atFilter'
    BY <1>1, <1>6, <2>2
  <2>3. atFilter' \in BOOLEAN
    BY <1>1
  <2> QED
    BY <2>1, <2>2, <2>3
<1>9. Types'
  BY <1>1, <1>3, <1>8 DEF IInv, Types, DataKept, Frame, SameBlock
<1>10. Started' /\ ListIsSuffix' /\ RingHolds' /\ (Written => Written')
  BY <1>1, DataStays
<1>11. ASSUME WellDeclared' PROVE Progress'
  <2>1. WellDeclared /\ Progress
    BY <1>1, <1>11, SameDeclared DEF IInv, DataKept
  <2>2. decoded50 <= Len(out50) /\ \A i \in 1 .. Len(filters) : Len(out50) <= filters[i].start
    <3>1. decoded50 <= Len(out50) \/ Target50 <= Len(out50)
      BY <1>1, <2>1 DEF Progress, Caught
    <3>2. \A i \in 1 .. Len(filters) : Len(out50) <= filters[i].start
      BY <2>1 DEF Progress, Written
    <3>3. Len(out50) < Target50
      BY <1>1 DEF Here
    <3> QED
      BY <1>2, <1>3, <3>1, <3>2, <3>3
  <2>3. \A i \in 1 .. Len(filters) : filters[i] \in FilterBlock /\ filters[i].start \in Nat /\ filters[i].length \in Nat
    <3> SUFFICES ASSUME NEW i \in 1 .. Len(filters)
                 PROVE  filters[i] \in FilterBlock /\ filters[i].start \in Nat /\ filters[i].length \in Nat
      OBVIOUS
    <3>1. filters[i] \in FilterBlock
      BY <1>2
    <3>2. filters[i].start \in Nat /\ filters[i].length \in Lengths50
      BY <3>1 DEF FilterBlock
    <3> QED
      BY <1>2, <3>1, <3>2
  <2>4. \A i \in 1 .. Len(filters) : decoded50 <= filters[i].start
    BY <1>2, <1>3, <2>2, <2>3
  <2>5. InStretch'
    <3>1. Here = Len(out50) /\ decoded50 <= Here + Window50
      BY <1>2, <1>3, <2>2 DEF Here
    <3>2. from' = Len(out50') /\ decoded50' <= from' + Window50
      BY <1>1, <3>1 DEF DataKept, Frame
    <3>3. \A i, j \in 1 .. Len(filters) : i < j => filters[i].start + filters[i].length <= filters[j].start
      BY <2>1, ListInOrder DEF IInv, WellDeclared
    <3>4. ASSUME ~atFilter' PROVE end' <= from' + Chunk /\ Beyond(1)'
      <4>1. end' = least /\ end' <= from' + Chunk /\ end' <= NextFilterStart
        BY <1>1, <1>6, <3>4
      <4>2. ASSUME NEW i \in 1 .. Len(filters) PROVE end' <= filters[i].start
        <5>1. filters # <<>> /\ 1 \in 1 .. Len(filters)
          BY <1>2, <1>3
        <5>2. NextFilterStart = filters[1].start
          BY <1>4, <5>1
        <5>3. CASE i = 1
          BY <4>1, <5>2, <5>3
        <5>4. CASE i > 1
          BY <1>8, <2>3, <3>3, <4>1, <5>1, <5>2, <5>4
        <5> QED
          BY <5>3, <5>4
      <4> QED
        BY <1>1, <2>4, <4>1, <4>2 DEF Beyond, DataKept, Frame
    <3>5. ASSUME atFilter'
          PROVE  /\ Len(filters') > 0 /\ filters'[1].start = from' /\ end' = from' + filters'[1].length
                 /\ Beyond(2)'
      <4>1. filters # <<>> /\ Len(filters) > 0 /\ filters[1].start = Here /\ end' = Here + filters[1].length
        BY <1>1, <1>4, <1>7, <3>5
      <4>2. ASSUME NEW i \in 2 .. Len(filters) PROVE end' <= filters[i].start
        <5>1. 1 \in 1 .. Len(filters) /\ i \in 1 .. Len(filters) /\ 1 < i
          BY <1>3
        <5> QED
          BY <3>3, <4>1, <5>1
      <4> QED
        BY <1>1, <2>4, <4>1, <4>2 DEF Beyond, DataKept, Frame
    <3> QED
      BY <3>2, <3>4, <3>5 DEF InStretch
  <2>6. Caught' /\ InFlush'
    BY <1>1 DEF Caught, InFlush
  <2> QED
    BY <1>10, <2>1, <2>5, <2>6 DEF Progress
<1> QED
  BY <1>9, <1>10, <1>11 DEF IInv

(* The headers and symbols that change neither data nor list.              *)
LEMMA InBlockKeeps ==
  ASSUME IInv, DataKept, ~DataEnded, phase50 = "expand", phase50' \in {"expand", "failed"},
         from' = from, end' = end, atFilter' = atFilter,
         inBlock' \in BOOLEAN, islastblock' \in BOOLEAN, codes_valid' \in BOOLEAN
  PROVE  IInv'
<1>1. Types'
  BY DEF IInv, Types, DataKept, Frame
<1>2. Started' /\ ListIsSuffix' /\ RingHolds' /\ (Written => Written')
  BY DataStays
<1>3. ASSUME WellDeclared' PROVE Progress'
  <2>1. WellDeclared /\ Progress
    BY <1>3, StillInBlock DEF IInv, DataKept
  <2>2. InStretch'
    BY <2>1 DEF Progress, InStretch, Beyond, DataKept, Frame
  <2> QED
    BY <1>2, <2>1, <2>2 DEF Progress, Caught, InFlush
<1> QED
  BY <1>1, <1>2, <1>3 DEF IInv

LEMMA HeaderOfNextKeeps ==
  ASSUME IInv, HeaderOfNext
  PROVE  IInv'
<1>1. /\ DataKept /\ ~DataEnded /\ phase50 = "expand" /\ phase50' \in {"expand", "failed"}
      /\ from' = from /\ end' = end /\ atFilter' = atFilter
  BY DEF HeaderOfNext, Header, Expanding, DataEnded, DataKept, Frame, loopVars
<1>2. inBlock' \in BOOLEAN /\ islastblock' \in BOOLEAN /\ codes_valid' \in BOOLEAN
  BY DEF HeaderOfNext, Header, blockVars, IInv, Types
<1> QED
  BY <1>1, <1>2, InBlockKeeps

LEMMA RepeatNothingKeeps ==
  ASSUME IInv, RepeatNothing
  PROVE  IInv'
<1>1. /\ DataKept /\ ~DataEnded /\ phase50 = "expand" /\ phase50' \in {"expand", "failed"}
      /\ from' = from /\ end' = end /\ atFilter' = atFilter
  BY DEF RepeatNothing, AtSymbol, Expanding, DataEnded, DataKept, Frame, loopVars
<1>2. inBlock' \in BOOLEAN /\ islastblock' \in BOOLEAN /\ codes_valid' \in BOOLEAN
  BY DEF RepeatNothing, Read, IInv, Types
<1> QED
  BY <1>1, <1>2, InBlockKeeps

LEMMA BadSymbolKeeps ==
  ASSUME IInv, BadSymbol
  PROVE  IInv'
<1>1. /\ DataKept /\ ~DataEnded /\ phase50 = "expand" /\ phase50' \in {"expand", "failed"}
      /\ from' = from /\ end' = end /\ atFilter' = atFilter
  BY DEF BadSymbol, Expanding, DataEnded, DataKept, Frame, loopVars
<1>2. inBlock' \in BOOLEAN /\ islastblock' \in BOOLEAN /\ codes_valid' \in BOOLEAN
  BY DEF BadSymbol, blockVars, IInv, Types
<1> QED
  BY <1>1, <1>2, InBlockKeeps

(* The window takes n bytes, and still holds its last Window50.            *)
LEMMA ExpandRing ==
  ASSUME Rar50Assumption, WindowIsAmple, IInv, NEW n \in Tokens50, Expand(n)
  PROVE  ring50' \in [0 .. Window50 - 1 -> Int] /\ RingHolds'
<1> DEFINE Stored(slot) == {p \in decoded50 .. decoded50 + n - 1 : p % Window50 = slot}
<1>1. /\ decoded50' = decoded50 + n
      /\ ring50' = [slot \in 0 .. Window50 - 1 |->
                      IF Stored(slot) = {} THEN ring50[slot] ELSE GreatestOf(Stored(slot))]
  BY DEF Expand, IInv, Types
<1>2. /\ n \in Nat \ {0} /\ decoded50 \in Nat /\ Window50 \in Nat \ {0} /\ n <= Window50
      /\ ring50 \in [0 .. Window50 - 1 -> Int]
  <2>1. n \in Nat \ {0} /\ decoded50 \in Nat /\ Window50 \in Nat \ {0} /\ Chunk \in Nat \ {0}
        /\ ring50 \in [0 .. Window50 - 1 -> Int]
    BY Sizes DEF IInv, Types
  <2>2. Chunk + n <= Window50 + 1
    BY DEF WindowIsAmple
  <2> QED
    BY <2>1, <2>2
<1>3. ASSUME NEW slot \in 0 .. Window50 - 1, Stored(slot) # {}
      PROVE  /\ GreatestOf(Stored(slot)) \in Stored(slot)
             /\ \A q \in Stored(slot) : q <= GreatestOf(Stored(slot))
  <2> DEFINE last == decoded50 + n
  <2>1. last \in Int /\ Stored(slot) \subseteq Int /\ \A p \in Stored(slot) : p <= last
    BY <1>2
  <2>2. \E p \in Stored(slot) : \A q \in Stored(slot) : q <= p
    <3> HIDE DEF last, Stored
    <3> QED
      BY <1>3, <2>1, LastPosition
  <2> HIDE DEF Stored
  <2> QED
    BY <2>2 DEF GreatestOf
<1>4. ring50' \in [0 .. Window50 - 1 -> Int]
  <2>1. ASSUME NEW slot \in 0 .. Window50 - 1
        PROVE  (IF Stored(slot) = {} THEN ring50[slot] ELSE GreatestOf(Stored(slot))) \in Int
    <3>1. ring50[slot] \in Int /\ Stored(slot) \subseteq Int
      BY <1>2
    <3> HIDE DEF Stored
    <3> QED
      BY <1>3, <3>1
  <2> HIDE DEF Stored
  <2> QED
    BY <1>1, <2>1
<1>5. RingHolds'
  <2> SUFFICES ASSUME NEW p \in 0 .. decoded50' - 1, p >= decoded50' - Window50
               PROVE  ring50'[p % Window50] = p
    BY DEF RingHolds
  <2>1. p \in Int /\ p \in 0 .. decoded50 + n - 1 /\ p >= decoded50 + n - Window50
    BY <1>1, <1>2
  <2> DEFINE slot == p % Window50
  <2>2. slot \in 0 .. Window50 - 1
    BY <1>2, <2>1, ModRange
  <2>3. ring50'[slot] = IF Stored(slot) = {} THEN ring50[slot] ELSE GreatestOf(Stored(slot))
    <3> HIDE DEF slot, Stored
    <3> QED
      BY <1>1, <2>2
  <2>4. ASSUME NEW q \in decoded50 .. decoded50 + n - 1, q % Window50 = p % Window50 PROVE q = p
    <3>1. q \in Int /\ q < p + Window50 /\ p < q + Window50
      BY <1>2, <2>1
    <3>2. CASE q < p
      BY <1>2, <2>1, <2>4, <3>1, <3>2, ModInjective
    <3>3. CASE p < q
      BY <1>2, <2>1, <2>4, <3>1, <3>3, ModInjective
    <3> QED
      BY <2>1, <3>1, <3>2, <3>3
  <2>5. CASE p >= decoded50
    <3>1. p \in Stored(slot)
      BY <1>2, <2>1, <2>5
    <3>2. GreatestOf(Stored(slot)) \in Stored(slot)
      <4> HIDE DEF Stored, slot
      <4> QED
        BY <1>3, <2>2, <3>1
    <3>3. GreatestOf(Stored(slot)) = p
      <4> DEFINE g == GreatestOf(Stored(slot))
      <4>1. g \in decoded50 .. decoded50 + n - 1 /\ g % Window50 = p % Window50
        BY <3>2
      <4> HIDE DEF g
      <4>2. g = p
        BY <2>4, <4>1
      <4> QED
        BY <4>2 DEF g
    <3>4. Stored(slot) # {}
      <4> HIDE DEF Stored, slot
      <4> QED
        BY <3>1
    <3>5. ring50'[slot] = p
      <4> HIDE DEF Stored, slot
      <4> QED
        BY <2>3, <3>3, <3>4
    <3> QED
      BY <3>5
  <2>6. CASE p < decoded50
    <3>1. Stored(slot) = {}
      BY <1>2, <2>1, <2>4, <2>6
    <3>2. p \in 0 .. decoded50 - 1 /\ p >= decoded50 - Window50
      BY <1>2, <2>1, <2>6
    <3>3. ring50[p % Window50] = p
      BY <3>2 DEF RingHolds, IInv
    <3>4. ring50'[slot] = ring50[slot]
      <4> HIDE DEF Stored, slot
      <4> QED
        BY <2>3, <3>1
    <3> QED
      BY <3>3, <3>4
  <2> QED
    BY <1>2, <2>1, <2>5, <2>6
<1> QED
  BY <1>4, <1>5

LEMMA ExpandKeeps ==
  ASSUME Rar50Assumption, WindowIsAmple, IInv, NEW n \in Tokens50, Expand(n)
  PROVE  IInv'
<1>1. /\ phase50 = "expand" /\ phase50' = "expand" /\ decoded50 < end /\ ~DataEnded
      /\ decoded50' = decoded50 + n /\ declared50' = declared50 /\ filters' = filters /\ out50' = out50
      /\ from' = from /\ end' = end /\ atFilter' = atFilter
      /\ crossed' = (crossed \/ \E i \in DOMAIN filters : filters[i].start \in decoded50 + 1 .. decoded50 + n - 1)
      /\ inBlock' \in BOOLEAN /\ islastblock' = islastblock /\ codes_valid' = codes_valid
  BY DEF Expand, AtSymbol, Expanding, Read, DataEnded, loopVars
<1>2. /\ n \in Nat \ {0} /\ decoded50 \in Nat /\ Window50 \in Nat \ {0} /\ Chunk \in Nat \ {0}
      /\ end \in Nat /\ from \in Nat /\ filters \in Seq(FilterBlock) /\ out50 \in Seq(OutByte)
      /\ Lengths50 \subseteq Nat
  BY Sizes DEF IInv, Types
<1>3. RingHolds' /\ ring50' \in [0 .. Window50 - 1 -> Int]
  BY ExpandRing
<1>4. Types'
  <2>1. crossed' \in BOOLEAN /\ decoded50' \in Nat
    BY <1>1, <1>2
  <2> QED
    BY <1>1, <1>3, <2>1 DEF IInv, Types
<1>5. Started' /\ ListIsSuffix'
  <2>1. Taken' = Taken
    BY <1>1 DEF Taken
  <2> QED
    BY <1>1, <2>1 DEF Started, ListIsSuffix, IInv
<1>6. ASSUME WellDeclared' PROVE Progress'
  <2>1. ~crossed /\ ~(\E i \in DOMAIN filters : filters[i].start \in decoded50 + 1 .. decoded50 + n - 1)
    <3>1. ~crossed'
      BY <1>6 DEF WellDeclared
    <3> QED
      BY <1>1, <3>1
  <2>2. InOrder
    BY <1>1, <1>6 DEF WellDeclared, InOrder
  <2>3. WellDeclared
    BY <1>1, <2>1, <2>2 DEF WellDeclared
  <2>4. Written /\ InStretch
    BY <2>3 DEF IInv, Progress
  <2>5. Written'
    <3>1. Taken' = Taken /\ Len(out50) <= decoded50' /\ Len(out50) \in Nat
      <4>1. Len(out50) <= decoded50 /\ Len(out50) \in Nat
        BY <1>2, <2>4 DEF Written
      <4> QED
        BY <1>1, <1>2, <4>1 DEF Taken
    <3> QED
      BY <1>1, <2>4, <3>1 DEF Written
  <2>6. InStretch'
    <3>1. /\ from = Len(out50)
          /\ ~atFilter => end <= from + Chunk /\ Beyond(1)
          /\ atFilter => /\ Len(filters) > 0 /\ filters[1].start = from /\ end = from + filters[1].length
                         /\ Beyond(2)
      BY <1>1, <2>4 DEF InStretch
    <3>2. end + n <= from + Window50 + 1
      <4>1. CASE ~atFilter
        <5>1. Chunk + n <= Window50 + 1
          BY DEF WindowIsAmple
        <5> QED
          BY <1>2, <3>1, <4>1, <5>1
      <4>2. CASE atFilter
        <5>1. filters[1] \in FilterBlock /\ end = from + filters[1].length
          BY <1>2, <3>1, <4>2
        <5>2. filters[1].length \in Lengths50
          BY <5>1 DEF FilterBlock
        <5>3. filters[1].length \in Nat /\ filters[1].length + n <= Window50 + 1
          BY <1>2, <5>2 DEF WindowIsAmple
        <5> DEFINE length == filters[1].length
        <5>4. length \in Nat /\ length + n <= Window50 + 1 /\ end = from + length
          BY <5>1, <5>3
        <5> HIDE DEF length
        <5> QED
          BY <1>2, <5>4
      <4>3. atFilter \in BOOLEAN
        BY DEF IInv, Types
      <4> QED
        BY <4>1, <4>2, <4>3
    <3>3. decoded50' <= from + Window50
      BY <1>1, <1>2, <3>2
    <3>4. ASSUME NEW first \in Nat \ {0}, Beyond(first) PROVE Beyond(first)'
      <4> SUFFICES ASSUME NEW i \in first .. Len(filters)
                   PROVE  end <= filters[i].start /\ decoded50 + n <= filters[i].start
        BY <1>1 DEF Beyond
      <4>1. i \in 1 .. Len(filters) /\ filters[i] \in FilterBlock /\ i \in DOMAIN filters
        BY <1>2
      <4>2. filters[i].start \in Nat
        BY <4>1 DEF FilterBlock
      <4>3. end <= filters[i].start
        BY <3>4 DEF Beyond
      <4>4. filters[i].start \notin decoded50 + 1 .. decoded50 + n - 1
        BY <2>1, <4>1
      <4> QED
        BY <1>1, <1>2, <4>2, <4>3, <4>4
    <3>5. ~atFilter' => end' <= from' + Chunk /\ Beyond(1)'
      BY <1>1, <3>1, <3>4
    <3>6. atFilter' => /\ Len(filters') > 0 /\ filters'[1].start = from' /\ end' = from' + filters'[1].length
                       /\ Beyond(2)'
      BY <1>1, <3>1, <3>4
    <3>7. from' = Len(out50') /\ decoded50' <= from' + Window50
      BY <1>1, <3>1, <3>3
    <3> QED
      BY <3>5, <3>6, <3>7 DEF InStretch
  <2>7. Caught' /\ InFlush'
    BY <1>1 DEF Caught, InFlush
  <2> QED
    BY <2>5, <2>6, <2>7 DEF Progress
<1> QED
  BY <1>3, <1>4, <1>5, <1>6 DEF IInv

(* A filter joins the list. It begins no sooner than the position, so that *)
(* what was written stays as it was to be; and if the stretch was a        *)
(* filter's block, that one ends before it.                                *)
LEMMA DeclareFilterKeeps ==
  ASSUME Rar50Assumption, IInv, NEW d \in Distances50, NEW l \in Lengths50, DeclareFilter(d, l)
  PROVE  IInv'
<1> DEFINE f == [id |-> Len(declared50) + 1, start |-> decoded50 + d, length |-> l]
<1>1. /\ phase50 = "expand" /\ phase50' = "expand" /\ ~DataEnded
      /\ filters' = Append(filters, f) /\ declared50' = Append(declared50, f)
      /\ end' = LeastOf({end, f.start})
      /\ decoded50' = decoded50 /\ ring50' = ring50 /\ out50' = out50 /\ crossed' = crossed
      /\ from' = from /\ atFilter' = atFilter
      /\ inBlock' \in BOOLEAN /\ islastblock' = islastblock /\ codes_valid' = codes_valid
  BY DEF DeclareFilter, AppendFilter, AtSymbol, Expanding, Read, DataEnded
<1>2. /\ decoded50 \in Nat /\ d \in Nat /\ l \in Nat /\ end \in Nat /\ from \in Nat
      /\ filters \in Seq(FilterBlock) /\ declared50 \in Seq(FilterBlock) /\ out50 \in Seq(OutByte)
  BY Sizes DEF IInv, Types
<1>3. Len(filters) \in Nat /\ Len(declared50) \in Nat /\ Len(out50) \in Nat
  BY <1>2
<1>4. f \in FilterBlock /\ f.start = decoded50 + d /\ f.start \in Nat /\ f.id = Len(declared50) + 1
  BY <1>2, <1>3 DEF FilterBlock
<1>5. end' = IF end <= f.start THEN end ELSE f.start
  <2> DEFINE start == f.start
  <2>1. end' = LeastOf({end, start}) /\ end \in Int /\ start \in Int
    BY <1>1, <1>2, <1>4
  <2> HIDE DEF start
  <2>2. end' = IF end <= start THEN end ELSE start
    BY <2>1, LeastOfTwo
  <2> QED
    BY <2>2 DEF start
<1> HIDE DEF f
<1>6. /\ filters' \in Seq(FilterBlock) /\ Len(filters') = Len(filters) + 1
      /\ \A i \in 1 .. Len(filters) : filters'[i] = filters[i]
      /\ filters'[Len(filters) + 1] = f
  BY <1>1, <1>2, <1>4
<1>7. /\ declared50' \in Seq(FilterBlock) /\ Len(declared50') = Len(declared50) + 1
      /\ \A i \in 1 .. Len(declared50) : declared50'[i] = declared50[i]
      /\ declared50'[Len(declared50) + 1] = f
  BY <1>1, <1>2, <1>4
<1>8. Types'
  BY <1>1, <1>2, <1>4, <1>5, <1>6, <1>7 DEF IInv, Types
<1>9. Taken' = Taken /\ Taken \in Nat /\ Taken = Len(declared50) - Len(filters)
  <2>1. Taken' = Taken /\ Taken = Len(declared50) - Len(filters)
    BY <1>3, <1>6, <1>7 DEF Taken
  <2> QED
    BY <2>1 DEF IInv, ListIsSuffix
<1>10. ListIsSuffix'
  <2>1. ASSUME NEW i \in 1 .. Len(filters) + 1 PROVE filters'[i] = declared50'[Taken + i]
    <3>1. CASE i \in 1 .. Len(filters)
      <4>1. filters[i] = declared50[Taken + i] /\ Taken + i \in 1 .. Len(declared50)
        <5>1. filters[i] = declared50[Taken + i]
          BY <3>1 DEF IInv, ListIsSuffix
        <5>2. Taken + i \in 1 .. Len(declared50)
          BY <1>3, <1>9, <3>1
        <5> QED
          BY <5>1, <5>2
      <4> QED
        BY <1>6, <1>7, <3>1, <4>1
    <3>2. CASE i = Len(filters) + 1
      <4>1. Taken + i = Len(declared50) + 1
        BY <1>3, <1>9, <3>2
      <4> QED
        BY <1>6, <1>7, <3>2, <4>1
    <3> QED
      BY <1>3, <3>1, <3>2
  <2>2. ASSUME NEW i \in 1 .. Len(declared50) + 1 PROVE declared50'[i].id = i
    <3>1. CASE i \in 1 .. Len(declared50)
      BY <1>7, <3>1 DEF IInv, ListIsSuffix
    <3>2. CASE i = Len(declared50) + 1
      BY <1>4, <1>7, <3>2
    <3> QED
      BY <1>3, <3>1, <3>2
  <2> QED
    BY <1>6, <1>7, <1>9, <2>1, <2>2 DEF ListIsSuffix
<1>11. Started' /\ RingHolds'
  BY <1>1 DEF Started, RingHolds, IInv
<1>12. ASSUME WellDeclared' PROVE Progress'
  <2>1. DOMAIN declared50 = 1 .. Len(declared50) /\ DOMAIN declared50' = 1 .. Len(declared50) + 1
    BY <1>2, <1>7
  <2>2. /\ \A i \in 1 .. Len(declared50) + 1 :
             declared50'[i].length > 0 /\ declared50'[i].start + declared50'[i].length <= Target50
        /\ \A i, j \in 1 .. Len(declared50) + 1 :
             i < j => declared50'[i].start + declared50'[i].length <= declared50'[j].start
    BY <1>12, <2>1 DEF WellDeclared, InOrder
  <2>3. InOrder
    <3>1. \A i \in 1 .. Len(declared50) : i \in 1 .. Len(declared50) + 1 /\ declared50'[i] = declared50[i]
      BY <1>3, <1>7
    <3>2. ASSUME NEW i \in 1 .. Len(declared50)
          PROVE  declared50[i].length > 0 /\ declared50[i].start + declared50[i].length <= Target50
      BY <2>2, <3>1
    <3>3. ASSUME NEW i \in 1 .. Len(declared50), NEW j \in 1 .. Len(declared50), i < j
          PROVE  declared50[i].start + declared50[i].length <= declared50[j].start
      BY <2>2, <3>1, <3>3
    <3> QED
      BY <2>1, <3>2, <3>3 DEF InOrder
  <2>4. WellDeclared
    BY <1>1, <1>12, <2>3 DEF WellDeclared
  <2>5. Written /\ InStretch
    BY <2>4 DEF IInv, Progress
  <2>6. Len(out50) <= decoded50 /\ Len(out50) <= f.start
    <3>1. Len(out50) <= decoded50
      BY <2>5 DEF Written
    <3> QED
      BY <1>2, <1>3, <1>4, <3>1
  <2>7. Written'
    <3>1. ASSUME NEW k \in 1 .. Len(out50) PROVE out50[k] = Expected(declared50', k)
      <4>1. k - 1 \in Int /\ k - 1 < f.start
        BY <1>3, <1>4, <2>6
      <4>2. FilterOver(declared50', k - 1) = FilterOver(declared50, k - 1)
        BY <1>1, <1>2, <1>4, <4>1, OverAppend
      <4>3. out50[k] = Expected(declared50, k)
        BY <2>5 DEF Written
      <4> QED
        BY <4>2, <4>3 DEF Expected
    <3>2. ASSUME NEW i \in 1 .. Taken PROVE declared50'[i].start + declared50'[i].length <= Len(out50)
      <4>1. i \in 1 .. Len(declared50)
        BY <1>3, <1>9
      <4>2. declared50'[i] = declared50[i]
        BY <1>7, <4>1
      <4>3. declared50[i].start + declared50[i].length <= Len(out50)
        BY <2>5 DEF Written
      <4> QED
        BY <4>2, <4>3
    <3>3. ASSUME NEW i \in 1 .. Len(filters) + 1 PROVE Len(out50) <= filters'[i].start
      <4>1. CASE i \in 1 .. Len(filters)
        BY <1>6, <2>5, <4>1 DEF Written
      <4>2. CASE i = Len(filters) + 1
        BY <1>6, <2>6, <4>2
      <4> QED
        BY <1>3, <4>1, <4>2
    <3>4. Len(out50) <= Target50 /\ Len(out50) <= decoded50
      BY <2>5 DEF Written
    <3>5. \A k \in 1 .. Len(out50') : out50'[k] = Expected(declared50', k)
      BY <1>1, <3>1
    <3>6. \A k \in 1 .. Len(out50') : out50'[k] = Expected(declared50, k)'
      BY <1>1, <3>5 DEF Expected
    <3> QED
      BY <1>1, <1>6, <1>9, <3>2, <3>3, <3>4, <3>6 DEF Written
  <2>8. ASSUME NEW first \in Nat \ {0}, Beyond(first) PROVE Beyond(first)'
    <3>1. end' <= end /\ end' <= f.start /\ decoded50 <= f.start /\ end' \in Nat
      BY <1>2, <1>4, <1>5
    <3>2. ASSUME NEW i \in first .. Len(filters) + 1
          PROVE  end' <= filters'[i].start /\ decoded50 <= filters'[i].start
      <4>1. CASE i \in first .. Len(filters)
        <5>1. i \in 1 .. Len(filters)
          BY <1>3, <4>1
        <5>2. filters'[i] = filters[i] /\ filters[i] \in FilterBlock
          BY <1>2, <1>6, <5>1
        <5>3. filters[i].start \in Nat
          BY <5>2 DEF FilterBlock
        <5>4. end <= filters[i].start /\ decoded50 <= filters[i].start
          BY <2>8, <4>1 DEF Beyond
        <5>5. end' <= filters[i].start
          <6> DEFINE s == filters[i].start
          <6>1. s \in Nat /\ end <= s /\ end \in Nat /\ end' \in Nat /\ end' <= end
            BY <1>2, <3>1, <5>3, <5>4
          <6> HIDE DEF s
          <6>2. end' <= s
            BY <6>1
          <6> QED
            BY <6>2 DEF s
        <5> QED
          BY <5>2, <5>4, <5>5
      <4>2. CASE i = Len(filters) + 1
        BY <1>6, <3>1, <4>2
      <4> QED
        BY <1>3, <4>1, <4>2
    <3> QED
      BY <1>1, <1>6, <3>2 DEF Beyond
  <2>9. InStretch'
    <3>1. /\ from = Len(out50) /\ decoded50 <= from + Window50
          /\ ~atFilter => end <= from + Chunk /\ Beyond(1)
          /\ atFilter => /\ Len(filters) > 0 /\ filters[1].start = from /\ end = from + filters[1].length
                         /\ Beyond(2)
      BY <1>1, <2>5 DEF InStretch
    <3>2. ~atFilter' => end' <= from' + Chunk /\ Beyond(1)'
      <4>1. Chunk \in Nat
        BY Sizes
      <4>2. end' <= end
        BY <1>2, <1>4, <1>5
      <4>3. ASSUME ~atFilter PROVE end' <= from + Chunk /\ Beyond(1)'
        <5>1. end <= from + Chunk /\ Beyond(1)
          BY <3>1, <4>3
        <5> QED
          BY <1>2, <1>4, <1>5, <2>8, <4>1, <5>1
      <4> QED
        BY <1>1, <4>3
    <3>3. ASSUME atFilter
          PROVE  /\ Len(filters') > 0 /\ filters'[1].start = from /\ end' = from + filters'[1].length
                 /\ Beyond(2)'
      <4>1. 1 \in 1 .. Len(filters) /\ filters[1].start = from /\ end = from + filters[1].length /\ Beyond(2)
        BY <1>3, <3>1, <3>3
      <4>2. filters'[1] = filters[1] /\ filters[1] = declared50[Taken + 1] /\ Taken + 1 \in 1 .. Len(declared50)
        BY <1>3, <1>6, <1>9, <4>1 DEF IInv, ListIsSuffix
      <4>3. filters[1].start + filters[1].length <= f.start
        <5>1. declared50'[Taken + 1] = filters[1] /\ Taken + 1 < Len(declared50) + 1
              /\ Taken + 1 \in 1 .. Len(declared50) + 1 /\ Len(declared50) + 1 \in 1 .. Len(declared50) + 1
          BY <1>3, <1>7, <1>9, <4>2
        <5>2. declared50'[Len(declared50) + 1] = f
          BY <1>7
        <5> QED
          BY <2>2, <5>1, <5>2
      <4>4. end <= f.start
        BY <4>1, <4>3
      <4>5. end' = end
        BY <1>5, <4>4
      <4>6. Len(filters') > 0
        BY <1>3, <1>6
      <4> QED
        BY <2>8, <4>1, <4>2, <4>5, <4>6
    <3>4. atFilter' => /\ Len(filters') > 0 /\ filters'[1].start = from' /\ end' = from' + filters'[1].length
                       /\ Beyond(2)'
      BY <1>1, <3>3
    <3> QED
      BY <1>1, <3>1, <3>2, <3>4 DEF InStretch
  <2>10. Caught' /\ InFlush'
    BY <1>1 DEF Caught, InFlush
  <2> QED
    BY <2>7, <2>9, <2>10 DEF Progress
<1> QED
  BY <1>8, <1>10, <1>11, <1>12 DEF IInv

LEMMA ExpandedKeeps ==
  ASSUME Rar50Assumption, IInv, Expanded
  PROVE  IInv'
<1>1. /\ DataKept /\ SameBlock /\ phase50 = "expand" /\ phase50' = "flush" /\ codes_valid' = codes_valid
      /\ from' = from /\ end' = end /\ atFilter' = atFilter
      /\ decoded50 >= end \/ DataEnded
  BY DEF Expanded, DataKept, Frame, SameBlock, blockVars, loopVars
<1>2. /\ filters \in Seq(FilterBlock) /\ declared50 \in Seq(FilterBlock) /\ out50 \in Seq(OutByte)
      /\ decoded50 \in Nat /\ end \in Nat /\ atFilter \in BOOLEAN
  BY DEF IInv, Types
<1>3. Types'
  BY <1>1 DEF IInv, Types, DataKept, Frame, SameBlock
<1>4. Started' /\ ListIsSuffix' /\ RingHolds' /\ (Written => Written')
  BY <1>1, DataStays
<1>5. ASSUME WellDeclared' PROVE Progress'
  <2>1. WellDeclared /\ Progress
    BY <1>1, <1>5, SameDeclared DEF IInv, DataKept
  <2>2. /\ from = Len(out50) /\ decoded50 <= from + Window50
        /\ ~atFilter => Beyond(1)
        /\ atFilter => /\ Len(filters) > 0 /\ filters[1].start = from /\ end = from + filters[1].length
                       /\ Beyond(2)
    BY <1>1, <2>1 DEF Progress, InStretch
  <2>3. ASSUME atFilter PROVE filters[1].start + filters[1].length <= decoded50
    <3>1. 1 \in 1 .. Len(filters) /\ filters[1].start + filters[1].length = end
      BY <1>2, <2>2, <2>3
    <3>2. CASE decoded50 >= end
      BY <1>2, <3>1, <3>2
    <3>3. CASE DataEnded
      <4>1. filters[1] = declared50[Taken + 1] /\ Taken \in Nat
        BY <3>1 DEF IInv, ListIsSuffix
      <4>2. Taken + 1 \in DOMAIN declared50
        BY <1>2, <3>1, <4>1 DEF Taken
      <4> QED
        BY <2>1, <3>3, <4>1, <4>2 DEF WellDeclared
    <3> QED
      BY <1>1, <3>2, <3>3
  <2>4. ASSUME NEW i \in 1 .. Len(filters)
        PROVE  \/ decoded50 <= filters[i].start
               \/ i = 1 /\ filters[1].start = Len(out50) /\ filters[1].start + filters[1].length <= decoded50
    <3>1. CASE ~atFilter
      BY <2>2, <3>1 DEF Beyond
    <3>2. CASE atFilter /\ i = 1
      BY <2>2, <2>3, <3>2
    <3>3. CASE atFilter /\ i # 1
      <4>1. i \in 2 .. Len(filters)
        BY <1>2, <3>3
      <4> QED
        BY <2>2, <3>3, <4>1 DEF Beyond
    <3> QED
      BY <1>2, <3>1, <3>2, <3>3
  <2>5. InFlush'
    BY <1>1, <2>2, <2>4 DEF InFlush, DataKept, Frame
  <2>6. Caught' /\ InStretch'
    BY <1>1 DEF Caught, InStretch
  <2> QED
    BY <1>4, <2>1, <2>5, <2>6 DEF Progress
<1> QED
  BY <1>3, <1>4, <1>5 DEF IInv

(* How far a copy without a filter goes.                                   *)
LEMMA StopBounds ==
  ASSUME Rar50Assumption, Types
  PROVE  /\ Stop \in Int /\ Stop <= decoded50 /\ Stop <= Target50
         /\ filters # <<>> => Stop <= filters[1].start
         /\ Flushing /\ Stop <= Here => filters # <<>> /\ filters[1].start <= Here
<1>1. decoded50 \in Int /\ Target50 \in Int /\ filters \in Seq(FilterBlock) /\ out50 \in Seq(OutByte)
  BY Sizes DEF Types
<1>2. Here \in Nat /\ NextEdge(Here) \in Int /\ Here < NextEdge(Here)
  BY <1>1, EdgeAhead DEF Here
<1> DEFINE a == decoded50
           b == NextEdge(Here)
           c == Target50
           s == Head(filters).start
<1>3. Stop = LeastOf({a, b, c} \cup IF filters = <<>> THEN {} ELSE {s})
  BY DEF Stop
<1>4. filters # <<>> => s \in Int /\ s = filters[1].start
  <2> SUFFICES ASSUME filters # <<>> PROVE s \in Int /\ s = filters[1].start
    OBVIOUS
  <2>1. Head(filters) = filters[1] /\ filters[1] \in FilterBlock
    BY <1>1
  <2> QED
    BY <2>1, BlockType
<1>5. a \in Int /\ b \in Int /\ c \in Int /\ Here \in Int /\ Here < b
  BY <1>1, <1>2
<1>6. Flushing => Here < a /\ Here < c
  BY DEF Flushing
<1> HIDE DEF a, b, c, s
<1>7. CASE filters = <<>>
  <2>1. {a, b, c} \cup (IF filters = <<>> THEN {} ELSE {s}) = {a, b, c, c}
    BY <1>7
  <2>2. Stop \in {a, b, c, c} /\ Stop <= a /\ Stop <= b /\ Stop <= c
    <3>1. Stop = LeastOf({a, b, c, c})
      BY <1>3, <2>1
    <3>2. /\ LeastOf({a, b, c, c}) \in {a, b, c, c}
          /\ LeastOf({a, b, c, c}) <= a /\ LeastOf({a, b, c, c}) <= b
          /\ LeastOf({a, b, c, c}) <= c /\ LeastOf({a, b, c, c}) <= c
      BY <1>5, LeastOfFour
    <3> QED
      BY <3>1, <3>2
  <2>3. Stop \in Int
    BY <1>5, <2>2
  <2>4. Flushing => ~(Stop <= Here)
    BY <1>5, <1>6, <2>2
  <2> QED
    BY <1>7, <2>2, <2>3, <2>4 DEF a, c
<1>8. CASE filters # <<>>
  <2>1. {a, b, c} \cup (IF filters = <<>> THEN {} ELSE {s}) = {a, b, c, s}
    BY <1>8
  <2>2. s \in Int
    BY <1>4, <1>8
  <2>3. Stop \in {a, b, c, s} /\ Stop <= a /\ Stop <= b /\ Stop <= c /\ Stop <= s
    <3>1. Stop = LeastOf({a, b, c, s})
      BY <1>3, <2>1
    <3>2. /\ LeastOf({a, b, c, s}) \in {a, b, c, s}
          /\ LeastOf({a, b, c, s}) <= a /\ LeastOf({a, b, c, s}) <= b
          /\ LeastOf({a, b, c, s}) <= c /\ LeastOf({a, b, c, s}) <= s
      BY <1>5, <2>2, LeastOfFour
    <3> QED
      BY <3>1, <3>2
  <2>4. Stop \in Int
    BY <1>5, <2>2, <2>3
  <2>5. Flushing /\ Stop <= Here => s <= Here
    BY <1>5, <1>6, <2>2, <2>3
  <2> QED
    BY <1>4, <1>8, <2>3, <2>4, <2>5 DEF a, c
<1> QED
  BY <1>7, <1>8

LEMMA FlushedKeeps ==
  ASSUME Rar50Assumption, IInv, Flushed
  PROVE  IInv'
<1>1. /\ DataKept /\ SameBlock /\ phase50 = "flush" /\ phase50' \in {"loop", "done"}
      /\ codes_valid' = codes_valid /\ from' = from /\ end' = end /\ atFilter' = atFilter
      /\ Flushing => ~FilterIsDue /\ Stop <= Here
  BY DEF Flushed, DataKept, Frame, SameBlock, blockVars, loopVars
<1>2. /\ filters \in Seq(FilterBlock) /\ out50 \in Seq(OutByte) /\ decoded50 \in Nat /\ Target50 \in Nat /\ Types
  BY Sizes DEF IInv, Types
<1>3. Types'
  BY <1>1 DEF IInv, Types, DataKept, Frame, SameBlock
<1>4. Started' /\ ListIsSuffix' /\ RingHolds' /\ (Written => Written')
  BY <1>1, DataStays
<1>5. ASSUME WellDeclared' PROVE Progress'
  <2>1. WellDeclared /\ Progress
    BY <1>1, <1>5, SameDeclared DEF IInv, DataKept
  <2>2. ~Flushing
    <3> SUFFICES ASSUME Flushing PROVE FALSE
      OBVIOUS
    <3>1. Stop <= Here /\ ~FilterIsDue
      BY <1>1
    <3>2. filters # <<>> /\ filters[1].start <= Here
      BY <1>2, <3>1, StopBounds
    <3>3. 1 \in 1 .. Len(filters) /\ Head(filters) = filters[1] /\ filters[1] \in FilterBlock
      BY <1>2, <3>2
    <3>4. Here <= filters[1].start /\ filters[1].start \in Nat /\ Here \in Nat
      <4>1. Len(out50) <= filters[1].start
        BY <2>1, <3>3 DEF Progress, Written
      <4> QED
        BY <1>2, <3>3, <4>1, BlockType DEF Here
    <3>5. filters[1].start = Here
      BY <3>2, <3>4
    <3> QED
      BY <3>1, <3>2, <3>3, <3>5 DEF FilterIsDue
  <2>3. decoded50 <= Len(out50) \/ Target50 <= Len(out50)
    <3>1. ~(Len(out50) < Target50) \/ ~(Len(out50) < decoded50)
      BY <1>1, <2>2 DEF Flushing, Here
    <3> QED
      BY <1>2, <3>1
  <2>4. Caught' /\ InStretch' /\ InFlush'
    BY <1>1, <2>3 DEF Caught, InStretch, InFlush, DataKept, Frame
  <2> QED
    BY <1>4, <2>1, <2>4 DEF Progress
<1> QED
  BY <1>3, <1>4, <1>5 DEF IInv

LEMMA ReturnKeeps ==
  ASSUME IInv, Return
  PROVE  IInv'
<1>1. /\ DataKept /\ SameBlock /\ phase50 = "loop" /\ phase50' = "done"
      /\ codes_valid' = codes_valid /\ from' = from /\ end' = end /\ atFilter' = atFilter
  BY DEF Return, DataKept, Frame, SameBlock, blockVars, loopVars
<1>2. Types'
  BY <1>1 DEF IInv, Types, DataKept, Frame, SameBlock
<1>3. Started' /\ ListIsSuffix' /\ RingHolds' /\ (Written => Written')
  BY <1>1, DataStays
<1>4. ASSUME WellDeclared' PROVE Progress'
  <2>1. WellDeclared /\ Progress
    BY <1>1, <1>4, SameDeclared DEF IInv, DataKept
  <2>2. Caught' /\ InStretch' /\ InFlush'
    BY <1>1, <2>1 DEF Progress, Caught, InStretch, InFlush, DataKept, Frame
  <2> QED
    BY <1>3, <2>1, <2>2 DEF Progress
<1> QED
  BY <1>2, <1>3, <1>4 DEF IInv

-----------------------------------------------------------------------------
(* What a copy appends, if it is as it is expected to be.                  *)
LEMMA OutExtends ==
  ASSUME Rar50Assumption, IInv, NEW n \in Nat, NEW filter \in Nat, Here + n <= decoded50, Progress,
         phase50 = "flush",
         \A k \in 1 .. n : FilterOver(declared50, Here + k - 1) = filter
  PROVE  LET s == out50 \o FromWindow(Here, n, filter)
         IN  \A k \in 1 .. Len(s) : s[k] = Expected(declared50, k)
<1>1. out50 \in Seq(OutByte) /\ Here \in Nat /\ Here = Len(out50)
  BY DEF IInv, Types, Here
<1> DEFINE w == FromWindow(Here, n, filter)
<1>2. w \in Seq(OutByte) /\ Len(w) = n
  BY <1>1, CopyType DEF IInv
<1>3. decoded50 <= Here + Window50
  BY <1>1 DEF Progress, InFlush
<1>4. ASSUME NEW k \in 1 .. n PROVE w[k] = Expected(declared50, Len(out50) + k)
  <2>1. w[k] = [at |-> Here + k - 1, by |-> filter]
    BY <1>1, <1>3, Copied DEF IInv
  <2>2. FilterOver(declared50, Here + k - 1) = filter
    OBVIOUS
  <2> HIDE DEF w
  <2> QED
    BY <1>1, <2>1, <2>2 DEF Expected
<1>5. \A k \in 1 .. Len(out50) : out50[k] = Expected(declared50, k)
  BY DEF Progress, Written
<1> HIDE DEF w
<1>6. \A k \in 1 .. Len(out50 \o w) : (out50 \o w)[k] = Expected(declared50, k)
  BY <1>1, <1>2, <1>4, <1>5, Appended
<1> QED
  BY <1>6 DEF w

(* The output grows by n bytes; window and declarations stay.              *)
LEMMA OutType ==
  ASSUME Rar50Assumption, Types, NEW n \in Nat, NEW filter \in Nat
  PROVE  /\ out50 \o FromWindow(Here, n, filter) \in Seq(OutByte)
         /\ Len(out50 \o FromWindow(Here, n, filter)) = Len(out50) + n
<1>1. out50 \in Seq(OutByte) /\ Here \in Nat
  BY DEF Types, Here
<1> DEFINE w == FromWindow(Here, n, filter)
<1>2. w \in Seq(OutByte) /\ Len(w) = n
  BY <1>1, CopyType
<1> HIDE DEF w
<1>3. out50 \o w \in Seq(OutByte) /\ Len(out50 \o w) = Len(out50) + n
  BY <1>1, <1>2, ConcatProperties
<1> QED
  BY <1>3 DEF w

LEMMA FlushPlainKeeps ==
  ASSUME Rar50Assumption, IInv, FlushPlain
  PROVE  IInv'
<1> DEFINE n == Stop - Here
<1>1. /\ Frame /\ SameBlock /\ ring50' = ring50 /\ filters' = filters /\ codes_valid' = codes_valid
      /\ from' = from /\ end' = end /\ atFilter' = atFilter
      /\ phase50 = "flush" /\ phase50' = "flush"
      /\ ~FilterIsDue /\ Here < Stop /\ out50' = out50 \o FromWindow(Here, n, None)
  <2>1. Here \in Nat /\ Stop \in Int
    BY StopBounds DEF IInv, Types, Here
  <2> QED
    BY <2>1 DEF FlushPlain, Flushing, Frame, SameBlock, blockVars, loopVars
<1>2. /\ filters \in Seq(FilterBlock) /\ declared50 \in Seq(FilterBlock) /\ out50 \in Seq(OutByte)
      /\ decoded50 \in Nat /\ Types
  BY DEF IInv, Types
<1>3. Here \in Nat /\ Here = Len(out50) /\ Len(filters) \in Nat /\ Len(declared50) \in Nat
  BY <1>2 DEF Here
<1>4. Stop \in Int /\ Stop <= decoded50 /\ Stop <= Target50 /\ (filters # <<>> => Stop <= filters[1].start)
  BY <1>2, StopBounds
<1>5. n \in Nat /\ None \in Nat /\ Here + n = Stop
  BY <1>1, <1>3, <1>4 DEF None
<1> HIDE DEF n
<1>6. out50' \in Seq(OutByte) /\ Len(out50') = Stop
  <2>1. out50' \in Seq(OutByte) /\ Len(out50') = Len(out50) + n
    BY <1>1, <1>2, <1>5, OutType
  <2> QED
    BY <1>3, <1>5, <2>1
<1>7. Types'
  BY <1>1, <1>6 DEF IInv, Types, Frame, SameBlock
<1>8. Started' /\ ListIsSuffix' /\ RingHolds' /\ Taken' = Taken
  <2>1. Taken' = Taken
    BY <1>1 DEF Taken, Frame
  <2> QED
    BY <1>1, <2>1 DEF Started, ListIsSuffix, RingHolds, Frame, IInv
<1>9. ASSUME WellDeclared' PROVE Progress'
  <2>1. WellDeclared /\ Progress
    BY <1>1, <1>9, SameDeclared DEF IInv
  <2>2. ASSUME NEW i \in 1 .. Len(filters) PROVE Stop <= filters[i].start
    <3>1. 1 \in 1 .. Len(filters) /\ filters # <<>> /\ Stop <= filters[1].start
      BY <1>2, <1>3, <1>4
    <3>2. CASE i = 1
      BY <3>1, <3>2
    <3>3. CASE 1 < i
      <4>1. filters[1].start + filters[1].length <= filters[i].start
        BY <1>2, <2>1, <3>1, <3>3, ListInOrder DEF IInv, WellDeclared
      <4>2. filters[1] \in FilterBlock /\ filters[i] \in FilterBlock
        BY <1>2, <3>1
      <4>3. filters[1].start \in Nat /\ filters[1].length \in Nat /\ filters[i].start \in Nat
        BY <4>2, BlockType
      <4> QED
        BY <1>4, <3>1, <4>1, <4>3
    <3> QED
      BY <1>3, <3>2, <3>3
  <2>3. ASSUME NEW k \in 1 .. n PROVE FilterOver(declared50, Here + k - 1) = None
    <3> DEFINE p == Here + k - 1
    <3>1. p \in Int /\ Here <= p /\ p < Stop
      BY <1>3, <1>5
    <3> HIDE DEF p
    <3>2. ASSUME NEW i \in 1 .. Len(declared50)
          PROVE  ~(declared50[i].start <= p /\ p < declared50[i].start + declared50[i].length)
      <4>1. declared50[i].start \in Nat /\ declared50[i].length \in Nat /\ Taken \in Nat
        <5>1. declared50[i] \in FilterBlock
          BY <1>2
        <5> QED
          BY <5>1, BlockType DEF IInv, ListIsSuffix
      <4>2. CASE i <= Taken
        <5>1. declared50[i].start + declared50[i].length <= Len(out50)
          BY <2>1, <4>1, <4>2 DEF Progress, Written
        <5> QED
          BY <1>3, <3>1, <4>1, <5>1
      <4>3. CASE Taken < i
        <5>1. i - Taken \in 1 .. Len(filters) /\ Taken + (i - Taken) = i
          BY <1>3, <4>1, <4>3 DEF Taken
        <5>2. filters[i - Taken] = declared50[i]
          BY <5>1 DEF IInv, ListIsSuffix
        <5>3. Stop <= declared50[i].start
          BY <2>2, <5>1, <5>2
        <5> QED
          BY <1>4, <3>1, <4>1, <5>3
      <4> QED
        BY <4>1, <4>2, <4>3
    <3>3. FilterOver(declared50, p) = None
      BY <1>2, <3>1, <3>2, NoneOver
    <3> QED
      BY <3>3 DEF p
  <2>4. \A k \in 1 .. Len(out50') : out50'[k] = Expected(declared50, k)
    <3>1. Here + n <= decoded50
      BY <1>4, <1>5
    <3> QED
      BY <1>1, <1>5, <2>1, <2>3, <3>1, OutExtends
  <2>5. Written'
    <3>1. Stop <= Target50 /\ Stop <= decoded50 /\ Len(out50) <= Stop
      BY <1>1, <1>3, <1>4
    <3>2. ASSUME NEW i \in 1 .. Taken PROVE declared50[i].start + declared50[i].length <= Stop
      <4>1. declared50[i].start + declared50[i].length <= Len(out50)
        BY <2>1 DEF Progress, Written
      <4>2. Taken \in Nat /\ Taken <= Len(declared50)
        BY <1>3 DEF Taken, IInv, ListIsSuffix
      <4>3. declared50[i] \in FilterBlock
        BY <1>2, <1>3, <4>2
      <4>4. declared50[i].start \in Nat /\ declared50[i].length \in Nat
        BY <4>3, BlockType
      <4> QED
        BY <1>3, <1>4, <3>1, <4>1, <4>4
    <3>3. \A k \in 1 .. Len(out50') : out50'[k] = Expected(declared50, k)'
      BY <1>1, <2>4 DEF Expected, Frame
    <3> QED
      BY <1>1, <1>6, <1>8, <2>2, <3>1, <3>2, <3>3 DEF Written, Frame
  <2>6. InFlush'
    <3>1. decoded50 <= Stop + Window50
      <4>1. decoded50 <= Len(out50) + Window50 /\ Window50 \in Nat
        BY <1>1, <2>1, Sizes DEF Progress, InFlush
      <4> QED
        BY <1>1, <1>2, <1>3, <1>4, <4>1
    <3>2. ASSUME NEW i \in 1 .. Len(filters) PROVE decoded50 <= filters[i].start
      <4>1. decoded50 <= filters[i].start \/ (i = 1 /\ filters[1].start = Len(out50))
        BY <1>1, <2>1 DEF Progress, InFlush
      <4>2. ~(i = 1 /\ filters[1].start = Len(out50))
        <5>1. filters # <<>> /\ Head(filters) = filters[1]
          BY <1>2, <1>3
        <5> QED
          BY <1>1, <1>3, <5>1 DEF FilterIsDue
      <4> QED
        BY <4>1, <4>2
    <3> QED
      BY <1>1, <1>6, <3>1, <3>2 DEF InFlush, Frame
  <2>7. Caught' /\ InStretch'
    BY <1>1 DEF Caught, InStretch
  <2> QED
    BY <2>5, <2>6, <2>7 DEF Progress
<1> QED
  BY <1>7, <1>8, <1>9 DEF IInv

(* The filter of the block that is due: its block is all there, and no     *)
(* other filter's covers any of it.                                        *)
LEMMA BlockIsOver ==
  ASSUME Rar50Assumption, IInv, InOrder, NEW j \in 1 .. Len(declared50), NEW p \in Int,
         declared50[j].start <= p, p < declared50[j].start + declared50[j].length
  PROVE  FilterOver(declared50, p) = j
<1>1. declared50 \in Seq(FilterBlock) /\ DOMAIN declared50 = 1 .. Len(declared50)
  BY DEF IInv, Types
<1>2. ASSUME NEW i \in 1 .. Len(declared50), i # j
      PROVE  ~(declared50[i].start <= p /\ p < declared50[i].start + declared50[i].length)
  <2>1. declared50[i] \in FilterBlock /\ declared50[j] \in FilterBlock
    BY <1>1
  <2>2. /\ declared50[i].start \in Nat /\ declared50[i].length \in Nat
        /\ declared50[j].start \in Nat /\ declared50[j].length \in Nat
    BY <2>1, BlockType
  <2>3. CASE i < j
    <3>1. declared50[i].start + declared50[i].length <= declared50[j].start
      BY <1>1, <2>3 DEF InOrder
    <3> QED
      BY <2>2, <3>1
  <2>4. CASE j < i
    <3>1. declared50[j].start + declared50[j].length <= declared50[i].start
      BY <1>1, <2>4 DEF InOrder
    <3> QED
      BY <2>2, <3>1
  <2> QED
    BY <1>1, <1>2, <2>3, <2>4
<1> QED
  BY <1>1, <1>2, OneOver

LEMMA FlushFilterKeeps ==
  ASSUME Rar50Assumption, IInv, FlushFilter
  PROVE  IInv'
<1> DEFINE f == filters[1]
           n == f.length
<1>1. /\ filters \in Seq(FilterBlock) /\ declared50 \in Seq(FilterBlock) /\ out50 \in Seq(OutByte)
      /\ decoded50 \in Nat /\ Target50 \in Nat /\ Types
  BY Sizes DEF IInv, Types
<1>2. /\ Frame /\ SameBlock /\ ring50' = ring50 /\ codes_valid' = codes_valid
      /\ from' = from /\ end' = end /\ atFilter' = atFilter
      /\ phase50 = "flush" /\ Here < Target50 /\ Here < decoded50 /\ filters # <<>> /\ Head(filters).start = Here
  BY DEF FlushFilter, Flushing, FilterIsDue, Frame, SameBlock, blockVars, loopVars
<1>3. Head(filters) = f /\ f \in FilterBlock /\ 1 \in 1 .. Len(filters) /\ Len(filters) \in Nat
      /\ Len(declared50) \in Nat
  BY <1>1, <1>2
<1>4. /\ Here \in Nat /\ Here = Len(out50) /\ f.start = Here
      /\ n \in Nat /\ f.id \in Nat /\ Window50 \in Nat
  <2>1. f.length \in Nat /\ f.id \in Nat
    BY <1>3, BlockType
  <2> HIDE DEF f
  <2> QED
    BY <1>1, <1>2, <1>3, <2>1, Sizes DEF Here
<1>5. CASE Here + Head(filters).length > Target50
  <2>1. DataKept /\ phase50' = "failed"
    BY <1>2, <1>5 DEF FlushFilter, DataKept
  <2>2. Types'
    BY <1>2, <2>1 DEF IInv, Types, DataKept, Frame, SameBlock
  <2>3. Started' /\ ListIsSuffix' /\ RingHolds' /\ (Written => Written')
    BY <2>1, DataStays
  <2>4. ASSUME WellDeclared' PROVE Progress'
    <3>1. WellDeclared /\ Progress
      BY <1>2, <2>4, SameDeclared DEF IInv
    <3> QED
      BY <2>1, <2>3, <3>1 DEF Progress, Caught, InStretch, InFlush
  <2> QED
    BY <2>2, <2>3, <2>4 DEF IInv
<1>6. CASE ~(Here + Head(filters).length > Target50)
  <2>1. /\ out50' = out50 \o FromWindow(Here, n, f.id) /\ filters' = Tail(filters) /\ phase50' = "flush"
        /\ Here + n <= Target50
    <3>1. /\ out50' = out50 \o FromWindow(Here, n, f.id) /\ filters' = Tail(filters) /\ phase50' = phase50
      BY <1>3, <1>6 DEF FlushFilter
    <3>2. ~(Here + n > Target50)
      BY <1>3, <1>6
    <3> HIDE DEF f, n
    <3>3. Here + n <= Target50
      BY <1>1, <1>4, <3>2
    <3> QED
      BY <1>2, <3>1, <3>3
  <2> HIDE DEF f, n
  <2>2. out50' \in Seq(OutByte) /\ Len(out50') = Here + n
    BY <1>1, <1>4, <2>1, OutType
  <2>3. /\ filters' \in Seq(FilterBlock) /\ Len(filters') = Len(filters) - 1
        /\ \A i \in 1 .. Len(filters) - 1 : filters'[i] = filters[i + 1]
    BY <1>1, <1>2, <2>1
  <2>4. Types'
    BY <1>2, <2>1, <2>2, <2>3 DEF IInv, Types, Frame, SameBlock
  <2>5. Taken \in Nat /\ Taken = Len(declared50) - Len(filters) /\ Taken' = Taken + 1
    <3>1. Taken' = Len(declared50) - (Len(filters) - 1)
      BY <1>2, <2>3 DEF Taken, Frame
    <3> QED
      BY <1>3, <3>1 DEF Taken, IInv, ListIsSuffix
  <2>6. ListIsSuffix'
    <3>1. ASSUME NEW i \in 1 .. Len(filters) - 1 PROVE filters'[i] = declared50[(Taken + 1) + i]
      <4>1. i + 1 \in 1 .. Len(filters) /\ Taken + (i + 1) = (Taken + 1) + i
        BY <1>3, <2>5
      <4>2. filters[i + 1] = declared50[Taken + (i + 1)]
        BY <4>1 DEF IInv, ListIsSuffix
      <4> QED
        BY <2>3, <4>1, <4>2
    <3>2. \A i \in 1 .. Len(declared50) : declared50[i].id = i
      BY DEF IInv, ListIsSuffix
    <3>3. Taken' \in Nat
      BY <2>5
    <3> QED
      BY <1>2, <2>3, <2>5, <3>1, <3>2, <3>3 DEF ListIsSuffix, Frame
  <2>7. Started' /\ RingHolds'
    BY <1>2, <2>1 DEF Started, RingHolds, Frame, IInv
  <2>8. ASSUME WellDeclared' PROVE Progress'
    <3>1. WellDeclared /\ Progress /\ InOrder
      BY <1>2, <2>8, SameDeclared DEF IInv, WellDeclared
    <3>2. Here + n <= decoded50
      <4>1. \/ decoded50 <= filters[1].start
            \/ filters[1].start + filters[1].length <= decoded50
        BY <1>2, <1>3, <3>1 DEF Progress, InFlush
      <4>2. f.start + n <= decoded50
        BY <1>1, <1>2, <1>4, <4>1 DEF f, n
      <4> QED
        BY <1>4, <4>2
    <3> DEFINE j == Taken + 1
    <3>3. j \in 1 .. Len(declared50) /\ declared50[j] = f /\ f.id = j
      <4>1. j \in 1 .. Len(declared50)
        BY <1>3, <2>5
      <4>2. filters[1] = declared50[Taken + 1] /\ declared50[j].id = j
        BY <1>3, <4>1 DEF IInv, ListIsSuffix
      <4> QED
        BY <4>1, <4>2 DEF f
    <3>4. ASSUME NEW k \in 1 .. n PROVE FilterOver(declared50, Here + k - 1) = f.id
      <4> DEFINE p == Here + k - 1
      <4>1. p \in Int /\ f.start <= p /\ p < f.start + n
        BY <1>4
      <4> HIDE DEF p, j
      <4>2. declared50[j].start <= p /\ p < declared50[j].start + declared50[j].length
        BY <3>3, <4>1 DEF n
      <4>3. FilterOver(declared50, p) = j
        BY <3>1, <3>3, <4>1, <4>2, BlockIsOver
      <4> QED
        BY <3>3, <4>3 DEF p
    <3>5. \A k \in 1 .. Len(out50') : out50'[k] = Expected(declared50, k)
      BY <1>2, <1>4, <2>1, <3>1, <3>2, <3>4, OutExtends
    <3>6. ASSUME NEW i \in 1 .. Taken + 1 PROVE declared50[i].start + declared50[i].length <= Here + n
      <4>1. CASE i = Taken + 1
        <5>1. declared50[i].start = Here /\ declared50[i].length = n
          BY <1>4, <3>3, <4>1 DEF n
        <5> QED
          BY <1>4, <5>1
      <4>2. CASE i \in 1 .. Taken
        <5>1. declared50[i].start + declared50[i].length <= Len(out50)
          BY <3>1, <4>2 DEF Progress, Written
        <5>2. i \in 1 .. Len(declared50)
          BY <1>3, <2>5, <4>2
        <5>3. declared50[i] \in FilterBlock
          BY <1>1, <5>2
        <5>4. declared50[i].start \in Nat /\ declared50[i].length \in Nat
          BY <5>3, BlockType
        <5> QED
          BY <1>4, <5>1, <5>4
      <4> QED
        BY <2>5, <4>1, <4>2
    <3>7. ASSUME NEW i \in 1 .. Len(filters) - 1
          PROVE  Here + n <= filters'[i].start /\ decoded50 <= filters'[i].start
      <4>1. i + 1 \in 1 .. Len(filters) /\ 1 < i + 1 /\ filters'[i] = filters[i + 1]
        BY <1>3, <2>3
      <4>2. filters[1].start + filters[1].length <= filters[i + 1].start
        BY <1>1, <1>3, <3>1, <4>1, ListInOrder DEF IInv
      <4>3. decoded50 <= filters[i + 1].start
        BY <1>2, <3>1, <4>1 DEF Progress, InFlush
      <4> QED
        BY <1>4, <4>1, <4>2, <4>3 DEF f, n
    <3>8. Written'
      <4>1. \A k \in 1 .. Len(out50') : out50'[k] = Expected(declared50, k)'
        BY <1>2, <3>5 DEF Expected, Frame
      <4>2. Here + n <= Target50 /\ Here + n <= decoded50
        BY <2>1, <3>2
      <4> QED
        BY <1>2, <2>2, <2>3, <2>5, <3>6, <3>7, <4>1, <4>2 DEF Written, Frame
    <3>9. InFlush'
      <4>1. decoded50 <= Here + n + Window50
        <5>1. decoded50 <= Len(out50) + Window50
          BY <1>2, <3>1 DEF Progress, InFlush
        <5> QED
          BY <1>1, <1>4, <5>1
      <4> QED
        BY <1>2, <2>2, <2>3, <3>7, <4>1 DEF InFlush, Frame
    <3>10. Caught' /\ InStretch'
      BY <2>1 DEF Caught, InStretch
    <3> QED
      BY <3>8, <3>9, <3>10 DEF Progress
  <2> QED
    BY <2>4, <2>6, <2>7, <2>8 DEF IInv
<1> QED
  BY <1>5, <1>6

-----------------------------------------------------------------------------
(* The invariant holds before anything is read.                            *)
LEMMA InitIsSound ==
  ASSUME Rar50Assumption, FiveInit
  PROVE  IInv
<1>1. /\ decoded50 = 0 /\ ring50 = [slot \in 0 .. Window50 - 1 |-> -1]
      /\ inBlock = FALSE /\ islastblock = FALSE /\ codes_valid = FALSE /\ atFilter = FALSE /\ crossed = FALSE
      /\ filters = <<>> /\ declared50 = <<>> /\ out50 = <<>> /\ from = 0 /\ end = 0 /\ phase50 = "start"
  BY DEF FiveInit
<1>2. /\ <<>> \in Seq(FilterBlock) /\ <<>> \in Seq(OutByte)
      /\ Len(filters) = 0 /\ Len(declared50) = 0 /\ Len(out50) = 0 /\ Taken = 0
  BY <1>1 DEF Taken
<1>3. Types
  <2>1. Window50 \in Nat /\ ring50 \in [0 .. Window50 - 1 -> Int]
    BY <1>1, Sizes
  <2>2. filters \in Seq(FilterBlock) /\ declared50 \in Seq(FilterBlock) /\ out50 \in Seq(OutByte)
    BY <1>1, <1>2
  <2> QED
    BY <1>1, <2>1, <2>2 DEF Types
<1>4. Started /\ ListIsSuffix /\ RingHolds
  BY <1>1, <1>2 DEF Started, ListIsSuffix, RingHolds
<1>5. Progress
  <2>1. Written
    BY <1>1, <1>2, Sizes DEF Written
  <2> QED
    BY <1>1, <2>1 DEF Progress, Caught, InStretch, InFlush
<1> QED
  BY <1>3, <1>4, <1>5 DEF IInv

(* Every step keeps it.                                                    *)
LEMMA StepKeeps ==
  ASSUME Rar50Assumption, WindowIsAmple, IInv, [FiveNext]_fiveVars
  PROVE  IInv'
<1>1. CASE FirstHeader
  BY <1>1, FirstHeaderKeeps
<1>2. CASE Loop
  BY <1>2, LoopKeeps
<1>3. CASE HeaderOfNext
  BY <1>3, HeaderOfNextKeeps
<1>4. CASE BadSymbol
  BY <1>4, BadSymbolKeeps
<1>13. CASE RepeatNothing
  BY <1>13, RepeatNothingKeeps
<1>5. CASE Expanded
  BY <1>5, ExpandedKeeps
<1>6. CASE FlushFilter
  BY <1>6, FlushFilterKeeps
<1>7. CASE FlushPlain
  BY <1>7, FlushPlainKeeps
<1>8. CASE Flushed
  BY <1>8, FlushedKeeps
<1>9. CASE Return
  BY <1>9, ReturnKeeps
<1>10. ASSUME NEW n \in Tokens50, Expand(n) PROVE IInv'
  BY <1>10, ExpandKeeps
<1>11. ASSUME NEW d \in Distances50, NEW l \in Lengths50, DeclareFilter(d, l) PROVE IInv'
  BY <1>11, DeclareFilterKeeps
<1>12. CASE UNCHANGED fiveVars
  <2>1. /\ DataKept /\ SameBlock /\ phase50' = phase50 /\ codes_valid' = codes_valid
        /\ from' = from /\ end' = end /\ atFilter' = atFilter
    BY <1>12 DEF fiveVars, blockVars, loopVars, DataKept, Frame, SameBlock
  <2>2. Types'
    BY <2>1 DEF IInv, Types, DataKept, Frame, SameBlock
  <2>3. Taken' = Taken
    BY <2>1 DEF Taken, DataKept, Frame
  <2>4. Started' /\ ListIsSuffix' /\ RingHolds' /\ (Written => Written')
    BY <2>1, <2>3 DEF IInv, Started, ListIsSuffix, RingHolds, Written, DataKept, Frame
  <2>5. ASSUME WellDeclared' PROVE Progress'
    <3>1. WellDeclared /\ Progress
      BY <2>1, <2>5, SameDeclared DEF IInv, DataKept
    <3>2. Caught' /\ InStretch' /\ InFlush'
      BY <2>1, <3>1 DEF Progress, Caught, InStretch, InFlush, Beyond, DataKept, Frame
    <3> QED
      BY <2>4, <3>1, <3>2 DEF Progress
  <2> QED
    BY <2>2, <2>4, <2>5 DEF IInv
<1> QED
  BY <1>1, <1>2, <1>3, <1>4, <1>5, <1>6, <1>7, <1>8, <1>9, <1>10, <1>11, <1>12, <1>13 DEF FiveNext

LEMMA Invariance ==
  ASSUME Rar50Assumption, WindowIsAmple
  PROVE  FiveSpec => []IInv
<1>1. FiveInit => IInv
  BY InitIsSound
<1>2. IInv /\ [FiveNext]_fiveVars => IInv'
  BY StepKeeps
<1> QED
  BY <1>1, <1>2, PTL DEF FiveSpec

(* What was written when the loop is left is the whole filtered stream.    *)
LEMMA DoneIsStream ==
  ASSUME Rar50Assumption, IInv
  PROVE  FiveIsFilteredStream
<1> SUFFICES ASSUME phase50 = "done", WellDeclared PROVE out50 = Stream
  BY DEF FiveIsFilteredStream
<1>1. Written /\ Caught
  BY DEF IInv, Progress
<1>2. out50 \in Seq(OutByte) /\ decoded50 \in Nat /\ Target50 \in Nat
  BY Sizes DEF IInv, Types
<1>3. Len(out50) \in Nat /\ Len(out50) <= Target50 /\ Len(out50) <= decoded50
      /\ (decoded50 <= Len(out50) \/ Target50 <= Len(out50))
  BY <1>1, <1>2 DEF Written, Caught
<1>4. LeastOf({decoded50, Target50}) = Len(out50)
  <2>1. LeastOf({decoded50, Target50}) = IF decoded50 <= Target50 THEN decoded50 ELSE Target50
    BY <1>2, LeastOfTwo
  <2> QED
    BY <1>2, <1>3, <2>1
<1>5. \A k \in 1 .. Len(out50) : out50[k] = [at |-> k - 1, by |-> FilterOver(declared50, k - 1)]
  BY <1>1 DEF Written, Expected
<1>6. out50 = [k \in 1 .. Len(out50) |-> out50[k]]
  BY <1>2
<1> QED
  BY <1>4, <1>5, <1>6 DEF Stream

(* The types of RAR 5's loop, and that its list is what is left of the     *)
(* filters declared, each numbered as it came (append_filter).             *)
THEOREM ListCorrect ==
  ASSUME Rar50Assumption, WindowIsAmple
  PROVE  FiveSpec => [](Types /\ ListIsSuffix)
<1>1. IInv => Types /\ ListIsSuffix
  BY DEF IInv
<1> QED
  BY <1>1, Invariance, PTL

(* rar50_decompress, when it returns 0 for filters declared as an archiver *)
(* does, has written every byte of the stream once and in order, each run  *)
(* through the filter declared over it (flush_output), for every size of   *)
(* the window, of the stretches and of the output, if the window holds a   *)
(* stretch and the match that runs over its end.                           *)
THEOREM FiveCorrect ==
  ASSUME Rar50Assumption, WindowIsAmple
  PROVE  FiveSpec => []FiveIsFilteredStream
<1>1. IInv => FiveIsFilteredStream
  BY DoneIsStream
<1> QED
  BY <1>1, Invariance, PTL
-----------------------------------------------------------------------------
(***************************************************************************)
(* The RAR window, which RAR 3 decodes into and RAR 5 in the same way,     *)
(* holds the tail of the stream, for every window size, prefill and set of *)
(* offsets, and so implements the unbounded history.                       *)
(***************************************************************************)
USE SizeAssumption, BoundsAssumption

LEMMA SlotRange == ASSUME NEW p \in Int PROVE Slot(p) \in 0 .. Size - 1
BY ModRange DEF Slot

(* Storing one byte keeps the types, wherever the byte came from.          *)
LEMMA StoreType ==
  ASSUME TypeOK, NEW byte \in Byte, Store(byte)
  PROVE  /\ window' \in [0 .. Size - 1 -> Byte]
         /\ position' \in Nat
         /\ hist' \in Seq(Byte)
         /\ position' = Len(hist')
<1>1. position \in Int /\ Slot(position) \in 0 .. Size - 1
  BY SlotRange DEF TypeOK
<1>2. QED
  BY <1>1 DEF TypeOK, Store

(* A match reads a byte of the ring, and has one byte fewer to go.         *)
LEMMA OffsetType == ASSUME TypeOK PROVE copy.offset \in Nat
<1>1. copy.offset \in Offsets \cup {0}
  BY DEF TypeOK
<1>2. CASE copy.offset \in Offsets
  BY <1>2, OffsetsAssumption
<1>3. CASE copy.offset = 0
  BY <1>3
<1>4. QED
  BY <1>1, <1>2, <1>3

LEMMA CopyByteType ==
  ASSUME TypeOK, CopyByte
  PROVE  /\ copy.offset \in Nat
         /\ window[Slot(position - copy.offset)] \in Byte
         /\ copy' \in [offset : Offsets \cup {0}, left : 0 .. MaxMatch]
<1>1. /\ copy.offset \in Offsets \cup {0}
      /\ copy.left \in 1 .. MaxMatch
      /\ copy = [offset |-> copy.offset, left |-> copy.left]
  BY DEF TypeOK, CopyByte
<1>2. copy.offset \in Nat /\ position \in Nat
  BY OffsetType DEF TypeOK
<1>3. Slot(position - copy.offset) \in 0 .. Size - 1
  BY <1>2, SlotRange
<1>4. window[Slot(position - copy.offset)] \in Byte
  BY <1>3 DEF TypeOK
<1>5. copy' = [offset |-> copy.offset, left |-> copy.left - 1]
  BY <1>1 DEF CopyByte
<1>6. QED
  BY <1>1, <1>2, <1>4, <1>5

(* Every variable keeps its type and position counts the bytes emitted.    *)
THEOREM TypeCorrect == Spec => []TypeOK
<1>1. Init => TypeOK
  BY PrefillAssumption DEF Init, TypeOK, Idle
<1>2. TypeOK /\ [Next]_vars => TypeOK'
  <2> SUFFICES ASSUME TypeOK, [Next]_vars PROVE TypeOK'
    OBVIOUS
  <2>1. ASSUME NEW byte \in Byte, EmitLiteral(byte) PROVE TypeOK'
    BY <2>1, StoreType DEF TypeOK, EmitLiteral
  <2>2. ASSUME NEW offset \in Offsets, NEW length \in 1 .. MaxMatch,
               BeginMatch(offset, length)
        PROVE  TypeOK'
    BY <2>2 DEF TypeOK, BeginMatch
  <2>3. CASE CopyByte
    <3>1. Store(window[Slot(position - copy.offset)])
      BY <2>3 DEF CopyByte
    <3>2. QED
      BY <2>3, <3>1, CopyByteType, StoreType DEF TypeOK
  <2>4. CASE UNCHANGED vars
    BY <2>4 DEF TypeOK, vars
  <2>5. QED
    BY <2>1, <2>2, <2>3, <2>4 DEF Next
<1>3. QED
  BY <1>1, <1>2, PTL DEF Spec

(* The heart of the window: one store overwrites exactly the byte that     *)
(* leaves it, so what was its tail, and the new byte, are its tail.        *)
LEMMA StoreKeepsTail ==
  ASSUME TypeOK, WindowIsTail, NEW byte \in Byte, Store(byte)
  PROVE  WindowIsTail'
<1> SUFFICES ASSUME NEW p \in position' - Size .. position' - 1
             PROVE  window'[Slot(p)] = HistAt(p)'
  BY DEF WindowIsTail
<1>1. position' = position + 1 /\ position \in Nat /\ position = Len(hist)
  BY DEF TypeOK, Store
<1>2. hist \in Seq(Byte) /\ hist' = Append(hist, byte)
  BY DEF TypeOK, Store
<1>3. p \in Int /\ p <= position /\ p >= position + 1 - Size
  BY <1>1
<1>4. CASE p = position
  <2>1. Slot(position) \in 0 .. Size - 1
    BY <1>1, SlotRange
  <2>2. window'[Slot(p)] = byte
    BY <1>4, <2>1 DEF TypeOK, Store
  <2>3. HistAt(p)' = byte
    BY <1>1, <1>2, <1>4 DEF HistAt
  <2>4. QED
    BY <2>2, <2>3
<1>5. CASE p < position
  <2>1. Slot(p) # Slot(position)
    <3>1. p \in Int /\ position \in Int /\ p < position /\ position < p + Size
      BY <1>1, <1>3, <1>5
    <3>2. QED
      BY <3>1, ModInjective DEF Slot
  <2>2. window'[Slot(p)] = window[Slot(p)]
    BY <1>1, <1>3, <2>1, SlotRange DEF TypeOK, Store
  <2>3. window[Slot(p)] = HistAt(p)
    BY <1>1, <1>3, <1>5 DEF WindowIsTail
  <2>4. HistAt(p)' = HistAt(p)
    BY <1>1, <1>2, <1>3, <1>5 DEF HistAt
  <2>5. QED
    BY <2>2, <2>3, <2>4
<1>6. QED
  BY <1>1, <1>3, <1>4, <1>5

(* The ring always holds the last Size positions of the stream.            *)
THEOREM WindowCorrect == Spec => []WindowIsTail
<1>1. Init => WindowIsTail
  BY DEF Init, WindowIsTail, HistAt, Slot
<1>2. TypeOK /\ WindowIsTail /\ [Next]_vars => WindowIsTail'
  <2> SUFFICES ASSUME TypeOK, WindowIsTail, [Next]_vars PROVE WindowIsTail'
    OBVIOUS
  <2>1. ASSUME NEW byte \in Byte, EmitLiteral(byte) PROVE WindowIsTail'
    BY <2>1, StoreKeepsTail DEF EmitLiteral
  <2>2. ASSUME NEW offset \in Offsets, NEW length \in 1 .. MaxMatch,
               BeginMatch(offset, length)
        PROVE  WindowIsTail'
    BY <2>2 DEF BeginMatch, WindowIsTail, HistAt
  <2>3. CASE CopyByte
    <3>1. Store(window[Slot(position - copy.offset)])
      BY <2>3 DEF CopyByte
    <3>2. QED
      BY <2>3, <3>1, CopyByteType, StoreKeepsTail
  <2>4. CASE UNCHANGED vars
    BY <2>4 DEF WindowIsTail, HistAt, vars
  <2>5. QED
    BY <2>1, <2>2, <2>3, <2>4 DEF Next
<1>3. QED
  BY <1>1, <1>2, TypeCorrect, PTL DEF Spec

(* An offset and the distance it stands for lead to the same slot.         *)
LEMMA DistanceSlot ==
  ASSUME NEW p \in Int, NEW offset \in Nat
  PROVE  /\ History!Distance(offset) \in 1 .. Size
         /\ Slot(p - History!Distance(offset)) = Slot(p - offset)
<1> DEFINE q == offset \div Size
<1> DEFINE r == offset % Size
<1>1. q \in Int /\ offset = Size * q + r /\ r \in 0 .. Size - 1
  BY DivMod, ModRange
<1>2. History!Distance(offset) = IF r = 0 THEN Size ELSE r
  BY DEF History!Distance
<1> HIDE DEF q, r
<1>3. CASE r = 0
  <2>1. p - Size = (p - offset) + Size * (q - 1) /\ p - offset \in Int /\ q - 1 \in Int
    BY <1>1, <1>3
  <2>2. (p - Size) % Size = (p - offset) % Size
    BY <2>1, ModTurns
  <2>3. QED
    BY <1>2, <1>3, <2>2 DEF Slot
<1>4. CASE r # 0
  <2>1. p - r = (p - offset) + Size * q /\ p - offset \in Int
    BY <1>1
  <2>2. (p - r) % Size = (p - offset) % Size
    BY <1>1, <2>1, ModTurns
  <2>3. QED
    BY <1>1, <1>2, <1>4, <2>2 DEF Slot
<1>5. QED
  BY <1>3, <1>4

(* Every step of the ring is a step of the history, or none of its.        *)
THEOREM WindowImplementsHistory == Spec => ImplementsHistory
<1>1. Init => History!AbsInit
  BY DEF Init, Idle, History!AbsInit, History!NoMatch
<1>2. TypeOK /\ WindowIsTail /\ [Next]_vars => [History!AbsNext]_(History!absVars)
  <2> SUFFICES ASSUME TypeOK, WindowIsTail, [Next]_vars
               PROVE  [History!AbsNext]_(History!absVars)
    OBVIOUS
  <2>1. ASSUME NEW byte \in Byte, EmitLiteral(byte) PROVE History!AbsNext
    <3>1. History!AbsLiteral(byte)
      BY <2>1 DEF EmitLiteral, Store, TypeOK, History!AbsLiteral
    <3>2. QED
      BY <3>1 DEF History!AbsNext
  <2>2. ASSUME NEW offset \in Offsets, NEW length \in 1 .. MaxMatch,
               BeginMatch(offset, length)
        PROVE  History!AbsNext
    <3>1. History!AbsBeginMatch(offset, length)
      BY <2>2 DEF BeginMatch, TypeOK, History!AbsBeginMatch
    <3>2. QED
      BY <3>1 DEF History!AbsNext
  <2>3. ASSUME CopyByte PROVE History!AbsNext
    <3> DEFINE d == History!Distance(copy.offset)
    <3>1. copy.offset \in Nat /\ position \in Nat /\ position = Len(hist)
      BY OffsetType DEF TypeOK
    <3>2. d \in 1 .. Size /\ Slot(position - d) = Slot(position - copy.offset)
      <4>1. position \in Int
        BY <3>1
      <4>2. QED
        BY <3>1, <4>1, DistanceSlot
    <3>3. window[Slot(position - d)] = HistAt(position - d)
      <4> HIDE DEF d
      <4>1. QED
        BY <3>1, <3>2 DEF WindowIsTail
    <3>4. HistAt(position - d) = History!ByteAt(Len(hist) - d)
      BY <3>1 DEF HistAt, History!ByteAt
    <3>5. History!AbsCopyByte
      BY <2>3, <3>2, <3>3, <3>4 DEF CopyByte, Store, History!AbsCopyByte
    <3>6. QED
      BY <3>5 DEF History!AbsNext
  <2>4. CASE UNCHANGED vars
    BY <2>4 DEF vars, History!absVars
  <2>5. QED
    BY <2>1, <2>2, <2>3, <2>4 DEF Next
<1>3. QED
  BY <1>1, <1>2, TypeCorrect, WindowCorrect, PTL
  DEF Spec, ImplementsHistory, History!AbsSpec

(* Any range still whole in the window is copied out as it was emitted,    *)
(* whether or not it wraps round the end of the ring.                      *)
THEOREM CopyOutCorrect == Spec => []CopyOutIsExact
<1>1. TypeOK /\ WindowIsTail => CopyOutIsExact
  <2> SUFFICES ASSUME TypeOK, WindowIsTail,
                      NEW start \in 0 .. position - 1, NEW len \in 1 .. position - start,
                      start >= position - Size, NEW i \in 0 .. len - 1
               PROVE  CopyBytes(window, start, len)[i] = HistAt(start + i)
    BY DEF CopyOutIsExact
  <2>1. position \in Nat /\ start \in Nat /\ len \in Nat /\ i \in Nat
    BY DEF TypeOK
  <2>2. window[Slot(start + i)] = HistAt(start + i)
    BY <2>1 DEF WindowIsTail
  <2>3. Slot(start) \in 0 .. Size - 1
    BY <2>1, SlotRange
  <2>4. ASSUME Slot(start) + i < Size PROVE Slot(start + i) = Slot(start) + i
    <3>1. (start % Size) + i < Size
      BY <2>4 DEF Slot
    <3>2. start \in Int
      BY <2>1
    <3>3. QED
      BY <2>1, <3>1, <3>2, ModNoWrap DEF Slot
  <2>5. ASSUME Slot(start) + i >= Size PROVE Slot(start + i) = Slot(start) + i - Size
    <3>1. i < Size
      BY <2>1
    <3>2. start % Size \in 0 .. Size - 1 /\ (start % Size) + i >= Size
      BY <2>3, <2>5 DEF Slot
    <3>3. (start % Size) + i < 2 * Size
      BY <2>1, <3>1, <3>2
    <3>4. start \in Int
      BY <2>1
    <3>5. QED
      BY <2>1, <3>2, <3>3, <3>4, ModOneWrap DEF Slot
  <2> DEFINE s == Slot(start)
  <2>6. CopyBytes(window, start, len)[i] =
          IF s + len <= Size THEN window[s + i]
          ELSE IF i < Size - s THEN window[s + i] ELSE window[i - (Size - s)]
    BY DEF CopyBytes
  <2> HIDE DEF s
  <2>7. QED
    <3>1. s \in 0 .. Size - 1
      BY <2>3 DEF s
    <3>2. CASE s + i < Size
      <4>1. CopyBytes(window, start, len)[i] = window[s + i]
        BY <2>1, <2>6, <3>1, <3>2
      <4>2. QED
        BY <2>2, <2>4, <3>2, <4>1 DEF s
    <3>3. CASE s + i >= Size
      <4>1. CopyBytes(window, start, len)[i] = window[s + i - Size]
        <5>1. i - (Size - s) = s + i - Size
          BY <2>1, <3>1
        <5>2. QED
          BY <2>1, <2>6, <3>1, <3>3, <5>1
      <4>2. QED
        BY <2>2, <2>5, <3>3, <4>1 DEF s
    <3>4. QED
      BY <2>1, <3>1, <3>2, <3>3
<1>2. QED
  BY <1>1, TypeCorrect, WindowCorrect, PTL
=============================================================================
