----------------------------- MODULE Rar30Proofs ----------------------------
(***************************************************************************)
(* The theorems on RAR 3's filters: the queue that decoding builds, and    *)
(* the output stage that runs it.                                          *)
(*                                                                         *)
(* The invariant has four parts. The queue and the counts of the           *)
(* programs agree (QueueInv), by counting the filters of a program in      *)
(* the queue. The window holds position p in slot p until it has been      *)
(* filled once (RingInv). What is still queued is a suffix of what was     *)
(* declared (SuffixInv). And the walk, the copies between blocks and the   *)
(* block being worked on hand over to each other by position               *)
(* (Filtering): where the output has got to, that every block taken lies   *)
(* behind it, and, while a block is worked on, which of its filters the    *)
(* memory has been through.                                                *)
(*                                                                         *)
(* That the next filter's block lies behind the end of the one just        *)
(* flushed, unless it is chained to it, is what a well-formed queue is     *)
(* for: Ordered says it of any two filters of the queue. RunsOver, the     *)
(* runs over one position, is a function by recursion over the queue;      *)
(* NatLemmas shows that it exists, and Upwards is the induction along      *)
(* it.                                                                     *)
(***************************************************************************)
EXTENDS Rar30Filters, NatLemmas, FiniteSetTheorems, SequenceTheorems

(* What a run leaves on a byte, a byte, and the block the programs run     *)
(* over.                                                                   *)
Tag == [num : Nat, count : Nat]
Cell == [at : Int, by : Seq(Tag)]
Block == [start : Nat, length : Nat]

(* The types of all that the code keeps.                                   *)
Types ==
  /\ decoded \in Nat
  /\ ring \in [0 .. WindowSize - 1 -> Int]
  /\ \A slot \in 0 .. WindowSize - 1 : ring[slot] \in -1 .. decoded
  /\ num_filtercodes \in 0 .. MaxPrograms /\ lastfilternum \in Programs
  /\ usagecount \in [Programs -> Nat] /\ oldfilterlength \in [Programs -> Nat]
  /\ filter_stack \in Seq(Filter) /\ filterstart \in Nat
  /\ phase \in {"decode", "walk", "apply", "chain", "done", "failed"}
  /\ pos \in Nat /\ block \in Block /\ declared \in Seq(Filter)
  /\ memory \in Seq(Cell) /\ out \in Seq(Cell)

(* The first i filters of a queue that run program p.                      *)
Among(queue, p, i) == {j \in 1 .. i : queue[j].num = p}

(* While data is decoded the queue is the one its programs were declared   *)
(* with, and the count a program was last given is one less than the       *)
(* filters of the queue that run it.                                       *)
QueueInv ==
  phase = "decode" =>
    /\ \A i \in 1 .. Len(filter_stack) :
         /\ filter_stack[i].num < num_filtercodes
         /\ filter_stack[i].count = Cardinality(Among(filter_stack, filter_stack[i].num, i - 1))
    /\ \A p \in 0 .. num_filtercodes - 1 : usagecount[p] + 1 = Cardinality(Among(filter_stack, p, Len(filter_stack)))

(* The output has not begun.                                               *)
DecodeInv == phase \in {"decode", "failed"} => pos = 0 /\ memory = <<>> /\ block = NoBlock /\ declared = <<>> /\ out = <<>>

(* Until the window has been filled once, it holds every byte decoded.     *)
RingInv == decoded <= WindowSize => \A p \in 0 .. decoded - 1 : ring[p] = p

(* How many filters have been taken off the queue, where the block of the  *)
(* i-th one declared ends, and the phases in which the output is made.     *)
Taken == Len(declared) - Len(filter_stack)
EndOf(i) == declared[i].start + declared[i].length
OutputPhases == {"walk", "apply", "chain", "done"}

(* The queue is what is left of the filters declared.                      *)
SuffixInv ==
  phase \in OutputPhases =>
    /\ Taken \in Nat
    /\ \A i \in 1 .. Len(filter_stack) : filter_stack[i] = declared[Taken + i]

(* What has been written is the stream, run through every filter           *)
(* declared.                                                               *)
Written == \A k \in 1 .. Len(out) : out[k] = Expected(k - 1)

(* The hand-over by position. The walk has written up to pos, all blocks   *)
(* behind it. Between blocks the output reaches to the next one, or to     *)
(* the end. While a block is worked on the output ends where it starts,    *)
(* and the memory holds its bytes, run through the filters taken so far.   *)
Filtering ==
  /\ Written
  /\ phase = "walk" =>
       /\ Len(out) = Lesser(pos, Total)
       /\ \A i \in 1 .. Taken : EndOf(i) <= pos
       /\ Pending => pos <= NextFilter.start
  /\ phase = "apply" =>
       /\ Len(out) = NextStart(Total)
       /\ \A i \in 1 .. Taken : EndOf(i) <= Len(out)
  /\ phase = "chain" =>
       /\ Taken >= 1 /\ block.start = declared[Taken].start /\ block.length = declared[Taken].length
       /\ Len(out) = block.start /\ block.start + block.length <= Total
       /\ \A i \in 1 .. Taken : EndOf(i) <= block.start + block.length
       /\ Len(memory) = block.length
       /\ \A k \in 1 .. block.length :
            memory[k] = [at |-> block.start + k - 1, by |-> RunsOver(declared, block.start + k - 1)[Taken]]
  /\ phase = "done" => Len(out) = Total

(* This is what a well-formed queue and a window that still holds the      *)
(* stream give.                                                            *)
OutInv == phase \in OutputPhases /\ WellFormed(declared) /\ decoded <= WindowSize => Filtering

(* The inductive invariant.                                                *)
IInv ==
  /\ Types /\ OutputFits /\ DecodeInv /\ FilterstartIsHead /\ QueueInv /\ RingInv /\ SuffixInv /\ OutInv

(* The sizes the code uses.                                                *)
LEMMA Sizes ==
  ASSUME Rar30Assumption
  PROVE  /\ WindowSize \in Nat \ {0} /\ Target \in Nat \ {0} /\ MaxPrograms \in Nat \ {0}
         /\ Tokens \subseteq Nat \ {0} /\ Distances \subseteq Nat /\ Lengths \subseteq Nat
         /\ ShortestBlock \in Nat /\ Never \in Nat
BY DEF Rar30Assumption, Never

(* What is copied from the window, whatever it holds.                      *)
LEMMA CopyType ==
  ASSUME Rar30Assumption, Types, NEW start \in Int, NEW n \in Int
  PROVE  CopyOut(start, n) \in Seq(Cell) /\ Len(CopyOut(start, n)) = IF n < 0 THEN 0 ELSE n
<1> DEFINE f == CopyOut(start, n)
<1>1. \A k \in 1 .. n : f[k] \in Cell
  <2> SUFFICES ASSUME NEW k \in 1 .. n PROVE f[k] \in Cell
    OBVIOUS
  <2>1. (start + k - 1) % WindowSize \in 0 .. WindowSize - 1
    BY Sizes, ModRange
  <2>2. ring[(start + k - 1) % WindowSize] \in Int
    BY <2>1 DEF Types
  <2>3. <<>> \in Seq(Tag)
    OBVIOUS
  <2> QED
    BY <2>2, <2>3 DEF CopyOut, Cell
<1>2. f = [k \in 1 .. n |-> f[k]]
  BY DEF CopyOut
<1> HIDE DEF f
<1> QED
  BY <1>1, <1>2, IsSeq DEF f

(* What is clipped is a beginning, and fits.                               *)
LEMMA ClipType ==
  ASSUME Rar30Assumption, Types, Len(out) <= Target, NEW s \in Seq(Cell)
  PROVE  /\ Clip(s) \in Seq(Cell)
         /\ Len(Clip(s)) = Lesser(Len(s), Target - Len(out))
         /\ Len(out) + Len(Clip(s)) <= Target
         /\ \A k \in 1 .. Len(Clip(s)) : Clip(s)[k] = s[k]
<1> DEFINE n == Lesser(Len(s), Target - Len(out))
<1>1. Len(out) \in Nat /\ Len(s) \in Nat /\ Target \in Nat
  BY Sizes DEF Types
<1>2. n \in Nat /\ n <= Len(s) /\ Len(out) + n <= Target
  BY <1>1 DEF Lesser
<1>3. Clip(s) = SubSeq(s, 1, n)
  BY DEF Clip
<1> HIDE DEF n
<1>4. SubSeq(s, 1, n) \in Seq(Cell) /\ Len(SubSeq(s, 1, n)) = n
      /\ \A k \in 1 .. n : SubSeq(s, 1, n)[k] = s[k]
  BY <1>1, <1>2
<1> QED
  BY <1>2, <1>3, <1>4 DEF n

(* A run of a program.                                                     *)
LEMMA RunType ==
  ASSUME Rar30Assumption, NEW f \in Filter, NEW s \in Seq(Cell)
  PROVE  /\ Run(f, s) \in Seq(Cell)
         /\ f.length >= ShortestBlock =>
              Len(Run(f, s)) = Len(s)
              /\ \A k \in 1 .. Len(s) : Run(f, s)[k] = [at |-> s[k].at, by |-> Append(s[k].by, TagOf(f))]
<1>1. TagOf(f) \in Tag /\ f.length \in Nat
  BY DEF TagOf, Tag, Filter, Programs
<1>2. ShortestBlock \in Nat
  BY Sizes
<1>3. CASE f.length < ShortestBlock
  <2>1. Run(f, s) = <<>> /\ ~(f.length >= ShortestBlock)
    BY <1>1, <1>2, <1>3 DEF Run
  <2>2. <<>> \in Seq(Cell)
    OBVIOUS
  <2> QED
    BY <2>1, <2>2
<1>4. CASE f.length >= ShortestBlock
  <2> DEFINE g == [k \in 1 .. Len(s) |-> [s[k] EXCEPT !.by = Append(@, TagOf(f))]]
  <2>1. Run(f, s) = g
    <3>1. DOMAIN s = 1 .. Len(s) /\ ~(f.length < ShortestBlock)
      BY <1>1, <1>2, <1>4
    <3> QED
      BY <3>1 DEF Run
  <2>2. \A k \in 1 .. Len(s) : g[k] = [at |-> s[k].at, by |-> Append(s[k].by, TagOf(f))] /\ g[k] \in Cell
    <3> SUFFICES ASSUME NEW k \in 1 .. Len(s)
                 PROVE  g[k] = [at |-> s[k].at, by |-> Append(s[k].by, TagOf(f))] /\ g[k] \in Cell
      OBVIOUS
    <3>1. s[k] \in Cell
      OBVIOUS
    <3>2. s[k] = [at |-> s[k].at, by |-> s[k].by] /\ s[k].at \in Int /\ s[k].by \in Seq(Tag)
      BY <3>1 DEF Cell
    <3>3. Append(s[k].by, TagOf(f)) \in Seq(Tag)
      BY <1>1, <3>2
    <3>4. g[k] = [at |-> s[k].at, by |-> Append(s[k].by, TagOf(f))]
      BY <3>2
    <3> QED
      BY <3>2, <3>3, <3>4 DEF Cell
  <2>3. g = [k \in 1 .. Len(s) |-> g[k]] /\ Len(s) \in Int /\ Len(s) >= 0
    OBVIOUS
  <2> HIDE DEF g
  <2>4. g \in Seq(Cell) /\ Len(g) = Len(s)
    BY <2>2, <2>3, IsSeq
  <2> QED
    BY <2>1, <2>2, <2>4
<1>5. f.length < ShortestBlock \/ f.length >= ShortestBlock
  BY <1>1, <1>2
<1> QED
  BY <1>3, <1>4, <1>5

(* What a declaration queues.                                              *)
CountAfter(num, isnew) == (IF isnew THEN -1 ELSE usagecount[num]) + 1
LengthAfter(num, isnew, length) ==
  IF length = SameLength THEN IF isnew THEN 0 ELSE oldfilterlength[num] ELSE length
Declaration(num, isnew, distance, length) ==
  [num |-> num, count |-> CountAfter(num, isnew), start |-> decoded + distance,
   length |-> LengthAfter(num, isnew, length)]

(* What the declaration of a filter does to the queue, the counts and      *)
(* filterstart, or that it fails.                                          *)
LEMMA DeclareEffect ==
  ASSUME Rar30Assumption, Types, NEW queue \in Seq(Filter), NEW programs \in 0 .. MaxPrograms,
         NEW num \in Programs, NEW isnew \in BOOLEAN, NEW distance \in Distances, NEW length \in LengthChoices,
         DeclareAfter(queue, programs, num, isnew, distance, length)
  PROVE  /\ CountAfter(num, isnew) \in Nat
         /\ Declaration(num, isnew, distance, length) \in Filter
         /\ usagecount' = [usagecount EXCEPT ![num] = CountAfter(num, isnew)]
         /\ usagecount' \in [Programs -> Nat] /\ oldfilterlength' \in [Programs -> Nat]
         /\ UNCHANGED <<decoded, ring, outputVars>>
         /\ \/ /\ isnew \/ num < programs
               /\ num_filtercodes' = IF isnew THEN num + 1 ELSE programs
               /\ filter_stack' = Append(queue, Declaration(num, isnew, distance, length))
               /\ filterstart' = IF queue = <<>> THEN decoded + distance ELSE filterstart
               /\ phase' = phase
            \/ /\ ~(isnew \/ num < programs)
               /\ num_filtercodes' = num_filtercodes
               /\ filter_stack' = queue /\ filterstart' = filterstart
               /\ phase' = "failed"
<1> DEFINE f == Declaration(num, isnew, distance, length)
<1>1. /\ usagecount[num] \in Nat /\ oldfilterlength[num] \in Nat /\ decoded \in Nat
      /\ distance \in Nat /\ (length = SameLength \/ length \in Nat)
  BY Sizes DEF Types, LengthChoices
<1>2. CountAfter(num, isnew) \in Nat /\ LengthAfter(num, isnew, length) \in Nat
  BY <1>1 DEF CountAfter, LengthAfter, SameLength
<1>3. f \in Filter /\ f.start = decoded + distance
  BY <1>1, <1>2 DEF Declaration, Filter
<1>4. /\ usagecount' = [usagecount EXCEPT ![num] = CountAfter(num, isnew)]
      /\ oldfilterlength' = [oldfilterlength EXCEPT ![num] = LengthAfter(num, isnew, length)]
  BY DEF DeclareAfter, CountAfter, LengthAfter
<1>5. usagecount' \in [Programs -> Nat] /\ oldfilterlength' \in [Programs -> Nat]
  BY <1>2, <1>4 DEF Types
<1>6. CASE isnew \/ num < programs
  <2>1. /\ num_filtercodes' = IF isnew THEN num + 1 ELSE programs
        /\ Enqueue(queue, f)
        /\ UNCHANGED <<decoded, ring, phase, outputVars>>
    BY <1>6 DEF DeclareAfter, Declaration, CountAfter, LengthAfter
  <2>2. filter_stack' = Append(queue, f) /\ filterstart' = IF queue = <<>> THEN f.start ELSE filterstart
    BY <2>1 DEF Enqueue
  <2> QED
    BY <1>2, <1>3, <1>4, <1>5, <1>6, <2>1, <2>2
<1>7. CASE ~(isnew \/ num < programs)
  <2>1. /\ num_filtercodes' = num_filtercodes /\ filter_stack' = queue /\ filterstart' = filterstart
        /\ phase' = "failed" /\ UNCHANGED <<decoded, ring, outputVars>>
    BY <1>7 DEF DeclareAfter, Fail
  <2> QED
    BY <1>2, <1>3, <1>4, <1>5, <1>7, <2>1
<1> QED
  BY <1>6, <1>7

(* The three ways to declare a filter.                                     *)
Declares(queue, programs, num, isnew) ==
  \E d \in Distances, l \in LengthChoices :
    /\ MayDeclare
    /\ DeclareAfter(queue, programs, num, isnew, d, l)
    /\ lastfilternum' \in Programs

(* A filter declared under a number that is known or new, after number 0,  *)
(* or for the program used last; and one that names no program.            *)
Declared ==
  \/ \E num \in Programs : num <= num_filtercodes /\ Declares(filter_stack, num_filtercodes, num, num = num_filtercodes)
  \/ Declares(<<>>, 0, 0, TRUE)
  \/ \E num \in Programs : Declares(filter_stack, num_filtercodes, num, FALSE)

Refused ==
  MayDeclare /\ UNCHANGED <<programVars, filter_stack, filterstart>> /\ Fail

(* Every declaration is one of these.                                      *)
LEMMA DeclareCases ==
  ASSUME Rar30Assumption, Types
  PROVE  /\ \A num \in 0 .. MaxPrograms, d \in Distances, l \in LengthChoices :
              DeclareNumbered(num, d, l) => Declared \/ Refused
         /\ \A d \in Distances, l \in LengthChoices : DeclareCleared(d, l) \/ DeclareLast(d, l) => Declared
<1>1. ASSUME NEW num \in 0 .. MaxPrograms, NEW d \in Distances, NEW l \in LengthChoices, DeclareNumbered(num, d, l)
      PROVE Declared \/ Refused
  <2>1. CASE KnownOrNext(num)
    <3>1. num \in Programs /\ num <= num_filtercodes
      BY <2>1, Sizes DEF KnownOrNext, Programs
    <3>2. Declares(filter_stack, num_filtercodes, num, num = num_filtercodes)
      BY <1>1, <2>1, <3>1 DEF DeclareNumbered, Declares
    <3> QED
      BY <3>1, <3>2 DEF Declared
  <2>2. CASE ~KnownOrNext(num)
    BY <1>1, <2>2 DEF DeclareNumbered, Refused
  <2> QED
    BY <2>1, <2>2
<1>2. ASSUME NEW d \in Distances, NEW l \in LengthChoices, DeclareCleared(d, l) PROVE Declared
  <2>1. 0 \in Programs
    BY Sizes DEF Programs
  <2> QED
    BY <1>2, <2>1 DEF DeclareCleared, QueueAfterClear, Declared, Declares
<1>3. ASSUME NEW d \in Distances, NEW l \in LengthChoices, DeclareLast(d, l) PROVE Declared
  <2>1. lastfilternum \in Programs /\ lastfilternum' = lastfilternum
    BY <1>3 DEF DeclareLast, Types
  <2>2. Declares(filter_stack, num_filtercodes, lastfilternum, FALSE)
    BY <1>3, <2>1 DEF DeclareLast, Declares
  <2> QED
    BY <2>1, <2>2 DEF Declared
<1> QED
  BY <1>1, <1>2, <1>3

(* A position below the size of the window is its own slot.                *)
LEMMA SlotOf ==
  ASSUME Rar30Assumption, NEW p \in Nat, p < WindowSize
  PROVE  p % WindowSize = p
<1>1. WindowSize \in Nat \ {0} /\ p \in 0 .. WindowSize - 1
  BY Sizes
<1>2. (WindowSize * 0 + p) % WindowSize = p
  BY <1>1, ModUnique
<1>3. WindowSize * 0 + p = p
  BY <1>1
<1> QED
  BY <1>2, <1>3

(* A literal or a match: each slot holds a position of the new ones, or    *)
(* what it held.                                                           *)
LEMMA EmitKeeps ==
  ASSUME Rar30Assumption, IInv, NEW n \in Tokens, Emit(n)
  PROVE  IInv'
<1> DEFINE Stored(slot) == {p \in decoded .. decoded + n - 1 : p % WindowSize = slot}
<1>0. decoded' = decoded + n
  BY DEF Emit
<1>1. /\ phase = "decode" /\ decoded' = decoded + n
      /\ ring' = [slot \in 0 .. WindowSize - 1 |->
           IF Stored(slot) = {} THEN ring[slot] ELSE CHOOSE p \in Stored(slot) : \A q \in Stored(slot) : q <= p]
      /\ num_filtercodes' = num_filtercodes /\ usagecount' = usagecount /\ oldfilterlength' = oldfilterlength
      /\ lastfilternum' = lastfilternum /\ filter_stack' = filter_stack /\ filterstart' = filterstart
      /\ phase' = phase /\ pos' = pos /\ memory' = memory /\ block' = block /\ declared' = declared /\ out' = out
  BY DEF Emit, programVars, outputVars, IInv, Types
<1>2. n \in Nat \ {0} /\ decoded \in Nat /\ WindowSize \in Nat \ {0}
  BY Sizes DEF IInv, Types
<1>3. ASSUME NEW slot \in 0 .. WindowSize - 1
      PROVE  \/ Stored(slot) = {} /\ ring'[slot] = ring[slot]
             \/ ring'[slot] \in Stored(slot)
  <2>1. ring'[slot] = IF Stored(slot) = {} THEN ring[slot] ELSE CHOOSE p \in Stored(slot) : \A q \in Stored(slot) : q <= p
    BY <1>1
  <2>2. CASE Stored(slot) = {}
    BY <2>1, <2>2
  <2>3. CASE Stored(slot) # {}
    <3> DEFINE last == decoded + n
    <3>1. last \in Int /\ Stored(slot) \subseteq Int /\ \A p \in Stored(slot) : p <= last
      BY <1>2
    <3>2. \E p \in Stored(slot) : \A q \in Stored(slot) : q <= p
      <4> HIDE DEF last, Stored
      <4> QED
        BY <2>3, <3>1, LastPosition
    <3> QED
      BY <2>1, <2>3, <3>2
  <2> QED
    BY <2>2, <2>3
<1>4. ASSUME NEW slot \in 0 .. WindowSize - 1 PROVE ring'[slot] \in -1 .. decoded' /\ ring'[slot] \in Int
  <2>1. ring[slot] \in -1 .. decoded
    BY DEF IInv, Types
  <2>2. \A p \in Stored(slot) : p \in -1 .. decoded'
    BY <1>1, <1>2
  <2>3. ring[slot] \in -1 .. decoded'
    BY <1>1, <1>2, <2>1
  <2>4. ring'[slot] \in -1 .. decoded'
    <3> HIDE DEF Stored
    <3> QED
      BY <1>3, <2>2, <2>3
  <2> QED
    BY <2>4
<1>5. Types'
  <2>1. ring' = [slot \in 0 .. WindowSize - 1 |-> ring'[slot]]
    <3> HIDE DEF Stored
    <3> QED
      BY <1>1
  <2>2. ring' \in [0 .. WindowSize - 1 -> Int]
    BY <1>4, <2>1
  <2>3. decoded' \in Nat
    BY <1>1, <1>2
  <2> HIDE DEF Stored
  <2> QED
    BY <1>1, <1>4, <2>2, <2>3 DEF IInv, Types
<1>6. RingInv'
  <2> SUFFICES ASSUME decoded' <= WindowSize, NEW p \in 0 .. decoded' - 1 PROVE ring'[p] = p
    BY DEF RingInv
  <2>0. decoded + n <= WindowSize /\ p \in 0 .. decoded + n - 1
    BY <1>0, <1>2
  <2>1. p \in Nat /\ p < WindowSize /\ p \in 0 .. WindowSize - 1
    BY <1>2, <2>0
  <2>2. \A q \in Stored(p) : q = p
    <3> SUFFICES ASSUME NEW q \in Stored(p) PROVE q = p
      OBVIOUS
    <3>1. q \in Nat /\ q < WindowSize /\ q % WindowSize = p
      BY <1>2, <2>0
    <3> QED
      BY <3>1, SlotOf
  <2>3. CASE p < decoded
    <3>1. ring[p] = p
      <4>1. decoded <= WindowSize /\ p \in 0 .. decoded - 1
        BY <1>2, <2>0, <2>1, <2>3
      <4> QED
        BY <4>1 DEF IInv, RingInv
    <3> HIDE DEF Stored
    <3> QED
      BY <1>3, <2>1, <2>2, <3>1
  <2>4. CASE p >= decoded
    <3>1. p % WindowSize = p
      BY <2>1, SlotOf
    <3>2. p \in Stored(p)
      BY <1>2, <2>0, <2>1, <2>4, <3>1
    <3> HIDE DEF Stored
    <3> QED
      BY <1>3, <2>1, <2>2, <3>2
  <2> QED
    BY <1>2, <2>1, <2>3, <2>4
<1>7. OutputFits' /\ DecodeInv' /\ FilterstartIsHead' /\ SuffixInv' /\ OutInv'
  BY <1>1 DEF IInv, OutputFits, DecodeInv, FilterstartIsHead, Pending, NextFilter, SuffixInv, OutInv, OutputPhases
<1>8. QueueInv'
  BY <1>1 DEF IInv, QueueInv, Among
<1> QED
  BY <1>5, <1>6, <1>7, <1>8 DEF IInv

(* The filters of a program among the first ones of a queue are countable, *)
(* and one more of it is counted.                                          *)
LEMMA AmongFinite ==
  ASSUME NEW queue, NEW p, NEW i \in Nat
  PROVE  IsFiniteSet(Among(queue, p, i)) /\ Cardinality(Among(queue, p, i)) \in Nat
<1>1. Among(queue, p, i) \subseteq 1 .. i /\ IsFiniteSet(1 .. i)
  BY FS_Interval DEF Among
<1>2. IsFiniteSet(Among(queue, p, i))
  BY <1>1, FS_Subset
<1> QED
  BY <1>2, FS_CardinalityType

(* A filter more in the queue.                                             *)
LEMMA AmongOneMore ==
  ASSUME NEW queue \in Seq(Filter), NEW f \in Filter, NEW p
  PROVE  /\ \A i \in 0 .. Len(queue) : Among(Append(queue, f), p, i) = Among(queue, p, i)
         /\ Cardinality(Among(Append(queue, f), p, Len(queue) + 1)) =
              Cardinality(Among(queue, p, Len(queue))) + (IF f.num = p THEN 1 ELSE 0)
<1> DEFINE n == Len(queue)
<1> DEFINE q == Append(queue, f)
<1> DEFINE old == Among(queue, p, n)
<1>1. n \in Nat /\ q[n + 1] = f /\ \A j \in 1 .. n : q[j] = queue[j]
  OBVIOUS
<1> HIDE DEF n, q
<1>2. \A i \in 0 .. n : Among(q, p, i) = Among(queue, p, i)
  BY <1>1 DEF Among
<1>3. IsFiniteSet(old) /\ Cardinality(old) \in Nat
  BY <1>1, AmongFinite
<1>4. n + 1 \notin old
  BY <1>1 DEF Among
<1>5. CASE f.num = p
  <2>1. Among(q, p, n + 1) = old \cup {n + 1}
    BY <1>1, <1>5 DEF Among
  <2>2. Cardinality(old \cup {n + 1}) = Cardinality(old) + 1
    BY <1>3, <1>4, FS_AddElement
  <2> HIDE DEF old
  <2>3. Cardinality(Among(q, p, n + 1)) = Cardinality(old) + 1
    BY <2>1, <2>2
  <2> QED
    BY <1>2, <1>5, <2>3 DEF old, n, q
<1>6. CASE f.num # p
  <2>1. Among(q, p, n + 1) = old
    BY <1>1, <1>6 DEF Among
  <2>2. Cardinality(Among(q, p, n + 1)) = Cardinality(old) + 0
    BY <1>3, <2>1
  <2> QED
    BY <1>2, <1>6, <2>2 DEF old, n, q
<1> QED
  BY <1>5, <1>6

(* What QueueInv says of the queue, before and after it is cleared.        *)
Current(queue, programs) ==
  /\ \A i \in 1 .. Len(queue) :
       queue[i].num < programs /\ queue[i].count = Cardinality(Among(queue, queue[i].num, i - 1))
  /\ \A p \in 0 .. programs - 1 : usagecount[p] + 1 = Cardinality(Among(queue, p, Len(queue)))

(* The queue and the counts agree after a declaration.                     *)
LEMMA DeclaredQueue ==
  ASSUME Rar30Assumption, Types, NEW queue \in Seq(Filter), NEW programs \in 0 .. MaxPrograms,
         NEW num \in Programs, NEW isnew \in BOOLEAN, NEW d \in Distances, NEW l \in LengthChoices,
         DeclareAfter(queue, programs, num, isnew, d, l), phase' = "decode",
         Current(queue, programs), isnew => num = programs
  PROVE  QueueInv'
<1> DEFINE f == Declaration(num, isnew, d, l)
<1> DEFINE after == IF isnew THEN num + 1 ELSE programs
<1> DEFINE q == Append(queue, f)
<1> DEFINE n == Len(queue)
<1>1. /\ f \in Filter /\ CountAfter(num, isnew) \in Nat
      /\ usagecount' = [usagecount EXCEPT ![num] = CountAfter(num, isnew)]
      /\ isnew \/ num < programs
      /\ num_filtercodes' = after
      /\ filter_stack' = q
  BY DeclareEffect
<1>2. f.num = num /\ f.count = CountAfter(num, isnew)
  BY DEF Declaration
<1>3. /\ n \in Nat /\ num \in Nat /\ programs \in Nat /\ after \in Nat
      /\ Programs = 0 .. MaxPrograms - 1 /\ MaxPrograms \in Nat
      /\ usagecount \in [Programs -> Nat]
      /\ \A i \in 1 .. n : queue[i] \in Filter /\ queue[i].num \in Nat
  <2>1. MaxPrograms \in Nat /\ Programs = 0 .. MaxPrograms - 1
    BY Sizes DEF Programs
  <2>2. num \in Nat /\ programs \in Nat
    BY <2>1
  <2>3. \A g \in Filter : g.num \in Nat
    BY <2>1 DEF Filter
  <2>4. n \in Nat /\ \A i \in 1 .. n : queue[i] \in Filter
    OBVIOUS
  <2>5. usagecount \in [Programs -> Nat]
    BY DEF Types
  <2> QED
    BY <2>1, <2>2, <2>3, <2>4, <2>5
<1>4. /\ q[n + 1] = f /\ Len(q) = n + 1
      /\ \A i \in 1 .. n : q[i] = queue[i]
  BY <1>1
<1>5. \A p : /\ \A i \in 0 .. n : Among(q, p, i) = Among(queue, p, i)
             /\ Cardinality(Among(q, p, n + 1)) = Cardinality(Among(queue, p, n)) + (IF num = p THEN 1 ELSE 0)
  BY <1>1, <1>2, AmongOneMore
<1>6. CountAfter(num, isnew) = Cardinality(Among(queue, num, n))
  <2>1. CASE isnew
    <3>1. Among(queue, num, n) = {}
      <4>1. \A i \in 1 .. n : queue[i].num < programs
        BY DEF Current
      <4>2. \A i \in 1 .. n : queue[i].num # num
        BY <1>3, <2>1, <4>1
      <4> QED
        BY <4>2 DEF Among
    <3>2. Cardinality({}) = 0
      BY FS_EmptySet
    <3> QED
      BY <2>1, <3>1, <3>2 DEF CountAfter
  <2>2. CASE ~isnew
    <3>1. num \in 0 .. programs - 1
      BY <1>1, <1>3, <2>2
    <3> QED
      BY <2>2, <3>1 DEF CountAfter, Current
  <2> QED
    BY <2>1, <2>2
<1> HIDE DEF f, q, n, after
<1>7. ASSUME NEW i \in 1 .. n + 1
      PROVE  q[i].num < after /\ q[i].count = Cardinality(Among(q, q[i].num, i - 1))
  <2>1. CASE i = n + 1
    <3>1. Among(q, num, i - 1) = Among(queue, num, n)
      BY <1>3, <1>5, <2>1
    <3>2. num < after
      BY <1>1, <1>3 DEF after
    <3>3. q[i] = f
      BY <1>4, <2>1
    <3> QED
      BY <1>2, <1>6, <3>1, <3>2, <3>3
  <2>2. CASE i \in 1 .. n
    <3>1. q[i] = queue[i] /\ queue[i].num < programs /\ queue[i].num \in Nat
          /\ queue[i].count = Cardinality(Among(queue, queue[i].num, i - 1))
      BY <1>3, <1>4, <2>2 DEF Current, n
    <3>2. i - 1 \in 0 .. n
      BY <1>3, <2>2
    <3>3. programs <= after
      BY <1>1, <1>3 DEF after
    <3>4. Among(q, queue[i].num, i - 1) = Among(queue, queue[i].num, i - 1)
      BY <1>5, <3>2
    <3>5. q[i].num < after
      BY <1>3, <3>1, <3>3
    <3>6. q[i].count = Cardinality(Among(q, q[i].num, i - 1))
      BY <3>1, <3>4
    <3> QED
      BY <3>5, <3>6
  <2> QED
    BY <1>3, <2>1, <2>2
<1>8. ASSUME NEW p \in 0 .. after - 1
      PROVE  usagecount'[p] + 1 = Cardinality(Among(q, p, n + 1))
  <2>1. p \in Programs
    BY <1>1, <1>3 DEF after
  <2>2. CASE p = num
    <3>1. usagecount'[p] = CountAfter(num, isnew)
      BY <1>1, <1>3, <2>1, <2>2
    <3>2. Cardinality(Among(q, p, n + 1)) = Cardinality(Among(queue, p, n)) + 1
      BY <1>5, <2>2
    <3> QED
      BY <1>6, <2>2, <3>1, <3>2
  <2>3. CASE p # num
    <3>1. p \in 0 .. programs - 1
      BY <1>3, <2>3 DEF after
    <3>2. usagecount'[p] = usagecount[p] /\ usagecount[p] \in Nat
      BY <1>1, <1>3, <2>1, <2>3
    <3>3. Cardinality(Among(q, p, n + 1)) = Cardinality(Among(queue, p, n)) + 0
      BY <1>5, <2>3
    <3>4. usagecount[p] + 1 = Cardinality(Among(queue, p, n))
      BY <3>1 DEF Current, n
    <3> QED
      BY <3>2, <3>3, <3>4
  <2> QED
    BY <2>2, <2>3
<1> QED
  BY <1>1, <1>4, <1>7, <1>8 DEF QueueInv

(* A declaration keeps the invariant: after number 0 the queue is empty    *)
(* and so is the set the counts count.                                     *)
LEMMA DeclaredKeeps ==
  ASSUME Rar30Assumption, IInv, Declared
  PROVE  IInv'
<1>1. phase = "decode" /\ Types /\ QueueInv
  BY DEF Declared, Declares, MayDeclare, IInv
<1>2. PICK queue \in {filter_stack, <<>>}, programs \in 0 .. MaxPrograms, num \in Programs, isnew \in BOOLEAN :
        /\ \/ queue = filter_stack /\ programs = num_filtercodes
           \/ queue = <<>> /\ programs = 0
        /\ isnew => num = programs
        /\ Declares(queue, programs, num, isnew)
  <2>1. num_filtercodes \in 0 .. MaxPrograms /\ 0 \in 0 .. MaxPrograms /\ 0 \in Programs
    BY <1>1, Sizes DEF Types, Programs
  <2>2. CASE \E num \in Programs : num <= num_filtercodes /\ Declares(filter_stack, num_filtercodes, num, num = num_filtercodes)
    <3>1. PICK num \in Programs : Declares(filter_stack, num_filtercodes, num, num = num_filtercodes)
      BY <2>2
    <3>2. (num = num_filtercodes) \in BOOLEAN /\ ((num = num_filtercodes) => num = num_filtercodes)
      OBVIOUS
    <3>3. CASE num = num_filtercodes
      <4>1. Declares(filter_stack, num_filtercodes, num, TRUE)
        BY <3>1, <3>3 DEF Declares, DeclareAfter
      <4> QED
        BY <2>1, <3>3, <4>1
    <3>4. CASE num # num_filtercodes
      <4>1. Declares(filter_stack, num_filtercodes, num, FALSE)
        BY <3>1, <3>4 DEF Declares, DeclareAfter
      <4> QED
        BY <2>1, <4>1
    <3> QED
      BY <3>3, <3>4
  <2>3. CASE Declares(<<>>, 0, 0, TRUE)
    BY <2>1, <2>3
  <2>4. CASE \E num \in Programs : Declares(filter_stack, num_filtercodes, num, FALSE)
    BY <2>1, <2>4
  <2> QED
    BY <2>2, <2>3, <2>4 DEF Declared
<1>3. PICK d \in Distances, l \in LengthChoices :
        DeclareAfter(queue, programs, num, isnew, d, l) /\ lastfilternum' \in Programs
  BY <1>2 DEF Declares
<1>4. queue \in Seq(Filter)
  <2>1. <<>> \in Seq(Filter) /\ filter_stack \in Seq(Filter)
    BY <1>1 DEF Types
  <2> QED
    BY <1>2, <2>1
<1>5. /\ Declaration(num, isnew, d, l) \in Filter
      /\ usagecount' \in [Programs -> Nat] /\ oldfilterlength' \in [Programs -> Nat]
      /\ decoded' = decoded /\ ring' = ring /\ pos' = pos /\ memory' = memory /\ block' = block
      /\ declared' = declared /\ out' = out
      /\ \/ /\ num_filtercodes' = IF isnew THEN num + 1 ELSE programs
            /\ filter_stack' = Append(queue, Declaration(num, isnew, d, l))
            /\ filterstart' = IF queue = <<>> THEN decoded + d ELSE filterstart
            /\ phase' = phase
         \/ /\ num_filtercodes' = num_filtercodes
            /\ filter_stack' = queue /\ filterstart' = filterstart
            /\ phase' = "failed"
  BY <1>1, <1>3, <1>4, DeclareEffect DEF outputVars
<1>6. Types'
  <2>1. filter_stack' \in Seq(Filter)
    <3> DEFINE f == Declaration(num, isnew, d, l)
    <3>1. f \in Filter
      BY <1>5
    <3> HIDE DEF f
    <3>2. Append(queue, f) \in Seq(Filter)
      BY <1>4, <3>1
    <3> QED
      BY <1>4, <1>5, <3>2 DEF f
  <2>2. filterstart' \in Nat
    <3>1. decoded \in Nat /\ filterstart \in Nat /\ d \in Nat
      BY <1>1, Sizes DEF Types
    <3> QED
      BY <1>5, <3>1
  <2>3. num_filtercodes' \in 0 .. MaxPrograms
    <3>1. num + 1 \in 0 .. MaxPrograms /\ num_filtercodes \in 0 .. MaxPrograms
      BY <1>1, Sizes DEF Programs, Types
    <3> QED
      BY <1>2, <1>5, <3>1
  <2>4. phase' \in {"decode", "failed"}
    BY <1>1, <1>5
  <2> QED
    BY <1>1, <1>3, <1>5, <2>1, <2>2, <2>3, <2>4 DEF Types
<1>7. QueueInv'
  <2>1. CASE phase' = "decode"
    <3>1. Current(queue, programs)
      <4>1. CASE queue = filter_stack /\ programs = num_filtercodes
        BY <1>1, <4>1 DEF QueueInv, Current
      <4>2. CASE queue = <<>> /\ programs = 0
        BY <4>2 DEF Current
      <4> QED
        BY <1>2, <4>1, <4>2
    <3> QED
      BY <1>1, <1>2, <1>3, <1>4, <2>1, <3>1, DeclaredQueue
  <2>2. CASE phase' # "decode"
    BY <2>2 DEF QueueInv
  <2> QED
    BY <2>1, <2>2
<1>8. FilterstartIsHead'
  <2>1. CASE phase' = "decode"
    <3> DEFINE f == Declaration(num, isnew, d, l)
    <3>1. f.start = decoded + d
      BY DEF Declaration
    <3>2. filter_stack' = Append(queue, f) /\ filterstart' = IF queue = <<>> THEN decoded + d ELSE filterstart
      BY <1>5, <2>1
    <3>3. f \in Filter
      BY <1>5
    <3> HIDE DEF f
    <3>4. CASE queue = <<>>
      <4>1. Head(Append(queue, f)) = f
        BY <3>3, <3>4
      <4> QED
        BY <3>1, <3>2, <3>4, <4>1 DEF FilterstartIsHead, NextFilter
    <3>5. CASE queue # <<>>
      <4>1. queue = filter_stack /\ filterstart = Head(queue).start
        BY <1>1, <1>2, <3>5 DEF IInv, FilterstartIsHead, Pending, NextFilter
      <4>2. Head(Append(queue, f)) = Head(queue)
        BY <1>4, <3>3, <3>5
      <4> QED
        BY <3>2, <3>5, <4>1, <4>2 DEF FilterstartIsHead, NextFilter
    <3> QED
      BY <3>4, <3>5
  <2>2. CASE phase' = "failed"
    BY <2>2 DEF FilterstartIsHead
  <2> QED
    BY <1>1, <1>5, <2>1, <2>2
<1>9. OutputFits' /\ DecodeInv' /\ RingInv'
  BY <1>1, <1>5 DEF IInv, OutputFits, DecodeInv, RingInv
<1>10. SuffixInv' /\ OutInv'
  <2>1. phase' \notin OutputPhases
    BY <1>1, <1>5 DEF OutputPhases
  <2> QED
    BY <2>1 DEF SuffixInv, OutInv, OutputPhases
<1> QED
  BY <1>6, <1>7, <1>8, <1>9, <1>10 DEF IInv

(* So does a failure.                                                      *)
LEMMA FailKeeps ==
  ASSUME IInv, phase = "decode", UNCHANGED <<programVars, filter_stack, filterstart>>, Fail
  PROVE  IInv'
<1>1. /\ phase' = "failed" /\ decoded' = decoded /\ ring' = ring /\ filter_stack' = filter_stack
      /\ filterstart' = filterstart /\ num_filtercodes' = num_filtercodes /\ usagecount' = usagecount
      /\ oldfilterlength' = oldfilterlength /\ lastfilternum' = lastfilternum
      /\ pos' = pos /\ memory' = memory /\ block' = block /\ declared' = declared /\ out' = out
  BY DEF Fail, programVars, outputVars
<1>2. Types' /\ OutputFits' /\ DecodeInv' /\ RingInv'
  BY <1>1 DEF IInv, Types, OutputFits, DecodeInv, RingInv
<1>3. FilterstartIsHead' /\ QueueInv' /\ SuffixInv' /\ OutInv'
  BY <1>1 DEF FilterstartIsHead, QueueInv, SuffixInv, OutInv, OutputPhases
<1> QED
  BY <1>2, <1>3 DEF IInv

(* The end of the data: the walk starts with nothing written and every     *)
(* filter still queued.                                                    *)
LEMMA EndOfDataKeeps ==
  ASSUME Rar30Assumption, IInv, EndOfData
  PROVE  IInv'
<1>1. /\ phase = "decode" /\ phase' = "walk" /\ declared' = filter_stack
      /\ decoded' = decoded /\ ring' = ring /\ filter_stack' = filter_stack
      /\ filterstart' = filterstart /\ num_filtercodes' = num_filtercodes /\ usagecount' = usagecount
      /\ oldfilterlength' = oldfilterlength /\ lastfilternum' = lastfilternum
      /\ pos' = pos /\ memory' = memory /\ block' = block /\ out' = out
  BY DEF EndOfData, programVars
<1>2. pos = 0 /\ out = <<>> /\ memory = <<>>
  BY <1>1 DEF IInv, DecodeInv
<1>3. Types' /\ OutputFits' /\ RingInv'
  BY <1>1 DEF IInv, Types, OutputFits, RingInv
<1>4. FilterstartIsHead' /\ QueueInv' /\ DecodeInv'
  BY <1>1 DEF IInv, FilterstartIsHead, Pending, NextFilter, QueueInv, DecodeInv
<1>5. Len(filter_stack) \in Nat /\ Taken' = 0
  BY <1>1 DEF IInv, Types, Taken
<1>6. SuffixInv'
  BY <1>1, <1>5 DEF SuffixInv
<1>7. Filtering'
  <2>1. Total' \in Nat
    BY <1>1, Sizes DEF Total, Lesser, IInv, Types
  <2>2. Written'
    BY <1>1, <1>2 DEF Written
  <2>3. Len(out') = 0 /\ pos' = 0 /\ Lesser(0, Total') = 0
    BY <1>1, <1>2, <2>1 DEF Lesser
  <2>4. Pending' => 0 <= NextFilter'.start
    <3>1. ASSUME filter_stack # <<>> PROVE Head(filter_stack) \in Filter
      BY <3>1 DEF IInv, Types
    <3> QED
      BY <1>1, <3>1 DEF Pending, NextFilter, Filter
  <2>5. Len(out)' = Lesser(pos, Total)'
    BY <1>1, <2>3 DEF Lesser
  <2> QED
    BY <1>1, <1>5, <2>2, <2>3, <2>4, <2>5 DEF Filtering
<1> QED
  BY <1>3, <1>4, <1>6, <1>7 DEF IInv, OutInv

(* The runs over a position, filter by filter.                             *)
LEMMA RunsOverSteps ==
  ASSUME declared \in Seq(Filter), NEW p \in Int
  PROVE  /\ RunsOver(declared, p) \in [0 .. Len(declared) -> Seq(Tag)]
         /\ RunsOver(declared, p)[0] = <<>>
         /\ \A i \in 1 .. Len(declared) :
              RunsOver(declared, p)[i] = IF Covers(declared[i], p) THEN Append(RunsOver(declared, p)[i - 1], TagOf(declared[i]))
                               ELSE RunsOver(declared, p)[i - 1]
<1> DEFINE n == Len(declared)
<1> DEFINE R(r) == [i \in 0 .. n |->
       IF i = 0 THEN <<>>
       ELSE IF Covers(declared[i], p) THEN Append(r[i - 1], TagOf(declared[i])) ELSE r[i - 1]]
<1> DEFINE step == [k \in 0 .. n - 1 |-> [s \in Seq(Tag) |->
       IF Covers(declared[k + 1], p) THEN Append(s, TagOf(declared[k + 1])) ELSE s]]
<1>1. n \in Nat /\ \A k \in 0 .. n - 1 : declared[k + 1] \in Filter
  OBVIOUS
<1>2. \A f \in Filter : TagOf(f) \in Tag
  BY DEF Filter, TagOf, Tag, Programs
<1>3. step \in [0 .. n - 1 -> [Seq(Tag) -> Seq(Tag)]]
  <2> SUFFICES ASSUME NEW k \in 0 .. n - 1, NEW s \in Seq(Tag)
               PROVE (IF Covers(declared[k + 1], p) THEN Append(s, TagOf(declared[k + 1])) ELSE s) \in Seq(Tag)
    BY Zenon
  <2>1. TagOf(declared[k + 1]) \in Tag
    BY <1>1, <1>2
  <2>2. Append(s, TagOf(declared[k + 1])) \in Seq(Tag)
    BY <2>1
  <2> QED
    BY <2>2
<1>4. <<>> \in Seq(Tag)
  OBVIOUS
<1> HIDE DEF n
<1>5. PICK g : g \in [0 .. n -> Seq(Tag)] /\ g[0] = <<>> /\ \A k \in 0 .. n - 1 : g[k + 1] = step[k][g[k]]
  <2>1. Recursion(n, Seq(Tag), <<>>, step)
    BY <1>1, <1>3, <1>4 DEF Recursion
  <2>2. PICK g : Solves(g, n, Seq(Tag), <<>>, step)
    BY <2>1, RecursionExists
  <2> HIDE DEF step
  <2> QED
    BY <2>2 DEF Solves
<1>6. g = R(g)
  <2>1. ASSUME NEW i \in 0 .. n
        PROVE  g[i] = IF i = 0 THEN <<>>
                      ELSE IF Covers(declared[i], p) THEN Append(g[i - 1], TagOf(declared[i])) ELSE g[i - 1]
    <3>1. CASE i = 0
      BY <1>5, <3>1
    <3>2. CASE i # 0
      <4> DEFINE k == i - 1
      <4>1. k \in 0 .. n - 1 /\ k \in 0 .. n /\ k + 1 = i
        BY <1>1, <3>2
      <4> HIDE DEF k
      <4>2. g[k] \in Seq(Tag) /\ g[k + 1] = step[k][g[k]]
        BY <1>5, <4>1
      <4>3. step[k][g[k]] = IF Covers(declared[k + 1], p) THEN Append(g[k], TagOf(declared[k + 1])) ELSE g[k]
        BY <4>1, <4>2
      <4>4. k = i - 1
        BY DEF k
      <4> QED
        BY <3>2, <4>1, <4>2, <4>3, <4>4
    <3> QED
      BY <3>1, <3>2
  <2>2. g = [i \in 0 .. n |-> g[i]]
    BY <1>5
  <2> QED
    BY <2>1, <2>2, Zenon
<1>7. RunsOver(declared, p) = CHOOSE r : r = R(r)
  BY DEF RunsOver, n
<1> HIDE DEF R
<1>8. RunsOver(declared, p) = R(RunsOver(declared, p))
  BY <1>6, <1>7
<1> DEFINE r == RunsOver(declared, p)
<1>9. r = [i \in 0 .. n |->
       IF i = 0 THEN <<>>
       ELSE IF Covers(declared[i], p) THEN Append(r[i - 1], TagOf(declared[i])) ELSE r[i - 1]]
  BY <1>8 DEF R
<1> HIDE DEF r
<1>10. /\ r[0] = <<>>
       /\ \A i \in 1 .. n : r[i] = IF Covers(declared[i], p) THEN Append(r[i - 1], TagOf(declared[i])) ELSE r[i - 1]
  <2>1. 0 \in 0 .. n
    BY <1>1
  <2>2. \A i \in 1 .. n : i \in 0 .. n /\ i # 0
    BY <1>1
  <2> QED
    BY <1>9, <2>1, <2>2
<1>11. \A k \in 0 .. n : r[k] \in Seq(Tag)
  <2> DEFINE T == {k \in 0 .. n : r[k] \in Seq(Tag)}
  <2>1. 0 \in T
    <3>1. 0 \in 0 .. n
      BY <1>1
    <3>2. r[0] \in Seq(Tag)
      BY <1>4, <1>10
    <3> QED
      BY <3>1, <3>2
  <2>2. ASSUME NEW k \in 0 .. n - 1, k \in T PROVE k + 1 \in T
    <3>1. k + 1 \in 1 .. n /\ (k + 1) - 1 = k
      BY <1>1
    <3>2. r[k + 1] = IF Covers(declared[k + 1], p) THEN Append(r[k], TagOf(declared[k + 1])) ELSE r[k]
      BY <1>10, <3>1
    <3>3. TagOf(declared[k + 1]) \in Tag /\ r[k] \in Seq(Tag)
      BY <1>1, <1>2, <2>2
    <3>4. Append(r[k], TagOf(declared[k + 1])) \in Seq(Tag)
      BY <3>3
    <3>5. r[k + 1] \in Seq(Tag)
      BY <3>2, <3>3, <3>4
    <3>6. k + 1 \in 0 .. n
      BY <1>1
    <3> QED
      BY <3>5, <3>6
  <2> HIDE DEF T
  <2>3. \A k \in 0 .. n : k \in T
    BY <1>1, <2>1, <2>2, 0 \in Int, n \in Int, Upwards
  <2> QED
    BY <2>3 DEF T
<1>12. r \in [0 .. n -> Seq(Tag)]
  <2>1. DOMAIN r = 0 .. n
    BY <1>9
  <2>2. r = [k \in 0 .. n |-> r[k]]
    BY <1>9
  <2> QED
    BY <1>11, <2>2
<1> QED
  BY <1>10, <1>12 DEF r, n

(* The runs over a position do not change over filters that do not cover   *)
(* it.                                                                     *)
LEMMA RunsSame ==
  ASSUME declared \in Seq(Filter), NEW p \in Int, NEW i \in 0 .. Len(declared), NEW j \in i .. Len(declared),
         \A m \in i + 1 .. j : ~Covers(declared[m], p)
  PROVE  RunsOver(declared, p)[j] = RunsOver(declared, p)[i]
<1> DEFINE n == Len(declared)
<1> DEFINE r == RunsOver(declared, p)
<1> DEFINE T == {m \in 0 .. n : r[m] = r[i]}
<1>1. n \in Nat
  OBVIOUS
<1>2. i \in Int /\ j \in Int /\ 0 <= i /\ i <= j /\ j <= n
  BY <1>1
<1>3. i \in T
  BY <1>1
<1>4. ASSUME NEW m \in i .. j - 1, m \in T PROVE m + 1 \in T
  <2>1. m + 1 \in 1 .. n /\ m + 1 \in i + 1 .. j /\ (m + 1) - 1 = m /\ m + 1 \in 0 .. n
    BY <1>1, <1>2
  <2>2. ~Covers(declared[m + 1], p)
    BY <2>1
  <2>3. r[m + 1] = IF Covers(declared[m + 1], p) THEN Append(r[(m + 1) - 1], TagOf(declared[m + 1])) ELSE r[(m + 1) - 1]
    BY <2>1, RunsOverSteps
  <2> HIDE DEF r
  <2>4. r[m + 1] = r[m]
    BY <2>1, <2>2, <2>3
  <2>5. r[m] = r[i]
    BY <1>4
  <2> QED
    BY <2>1, <2>4, <2>5
<1> HIDE DEF r, T, n
<1>5. \A m \in i .. j - 1 : m \in T => m + 1 \in T
  BY <1>4
<1>6. \A m \in i .. j : m \in T
  BY <1>2, <1>3, <1>5, Upwards
<1>7. j \in T
  BY <1>2, <1>6
<1> QED
  BY <1>7 DEF T, r

(* In a well-formed queue a block is behind the one before it, or is it.   *)
LEMMA Ordered ==
  ASSUME declared \in Seq(Filter), WellFormed(declared),
         NEW i \in 1 .. Len(declared), NEW j \in i .. Len(declared)
  PROVE  /\ declared[i].start <= declared[j].start
         /\ \/ EndOf(i) <= declared[j].start
            \/ declared[j].start = declared[i].start /\ declared[j].length = declared[i].length
<1> DEFINE n == Len(declared)
<1> DEFINE Behind(k) == /\ declared[i].start <= declared[k].start
                        /\ \/ EndOf(i) <= declared[k].start
                           \/ declared[k].start = declared[i].start /\ declared[k].length = declared[i].length
<1> DEFINE T == {k \in 1 .. n : Behind(k)}
<1>1. n \in Nat /\ DOMAIN declared = 1 .. n
  OBVIOUS
<1>2. \A k \in 1 .. n : declared[k].start \in Nat /\ declared[k].length \in Nat
  <2>1. \A k \in 1 .. n : declared[k] \in Filter
    OBVIOUS
  <2>2. \A f \in Filter : f.start \in Nat /\ f.length \in Nat
    BY DEF Filter
  <2> QED
    BY <2>1, <2>2
<1>3. i \in Int /\ j \in Int /\ 1 <= i /\ i <= j /\ j <= n
  BY <1>1
<1>4. i \in T
  <2>1. declared[i].start \in Nat
    BY <1>2
  <2> QED
    BY <2>1
<1>5. ASSUME NEW k \in i .. j - 1, k \in T PROVE k + 1 \in T
  <2>1. k + 1 \in 1 .. n /\ k + 1 # 1 /\ (k + 1) - 1 = k /\ k \in 1 .. n /\ i \in 1 .. n
    BY <1>1, <1>3
  <2>2. \/ declared[k + 1].start >= declared[k].start + declared[k].length
        \/ declared[k + 1].start = declared[k].start /\ declared[k + 1].length = declared[k].length
    <3>1. k + 1 \in DOMAIN declared \ {1}
      BY <1>1, <2>1
    <3>2. \/ declared[k + 1].start >= declared[(k + 1) - 1].start + declared[(k + 1) - 1].length
          \/ declared[k + 1].start = declared[(k + 1) - 1].start /\ declared[k + 1].length = declared[(k + 1) - 1].length
      BY <3>1 DEF WellFormed
    <3> QED
      BY <2>1, <3>2
  <2>3. Behind(k)
    BY <1>5
  <2>4. /\ declared[i].start \in Nat /\ declared[i].length \in Nat
        /\ declared[k].start \in Nat /\ declared[k].length \in Nat
        /\ declared[k + 1].start \in Nat /\ declared[k + 1].length \in Nat
    BY <1>2, <2>1
  <2>5. Behind(k + 1)
    <3> DEFINE a == declared[i].start
    <3> DEFINE b == declared[i].length
    <3> DEFINE c == declared[k].start
    <3> DEFINE d == declared[k].length
    <3> DEFINE e == declared[k + 1].start
    <3> DEFINE f == declared[k + 1].length
    <3>1. a \in Nat /\ b \in Nat /\ c \in Nat /\ d \in Nat /\ e \in Nat /\ f \in Nat
      BY <2>4
    <3>2. (e >= c + d \/ (e = c /\ f = d)) /\ a <= c /\ (a + b <= c \/ (c = a /\ d = b))
      BY <2>2, <2>3 DEF EndOf
    <3>3. EndOf(i) = a + b
      BY DEF EndOf
    <3> HIDE DEF a, b, c, d, e, f
    <3>4. a <= e /\ (a + b <= e \/ (e = a /\ f = b))
      BY <3>1, <3>2
    <3> QED
      BY <3>3, <3>4 DEF a, b, e, f
  <2> QED
    BY <2>1, <2>5
<1> HIDE DEF T, n
<1>6. \A k \in i .. j - 1 : k \in T => k + 1 \in T
  BY <1>5
<1>7. \A k \in i .. j : k \in T
  BY <1>3, <1>4, <1>6, Upwards
<1>8. j \in T
  BY <1>3, <1>7
<1> QED
  BY <1>8 DEF T

(* What the output stage leaves alone.                                     *)
Frame ==
  /\ decoded' = decoded /\ ring' = ring /\ declared' = declared
  /\ num_filtercodes' = num_filtercodes /\ lastfilternum' = lastfilternum
  /\ usagecount' = usagecount /\ oldfilterlength' = oldfilterlength
  /\ phase \in OutputPhases /\ phase' \in OutputPhases

(* The parts of the invariant the output stage cannot disturb.             *)
LEMMA FrameKeeps ==
  ASSUME IInv, Frame
  PROVE  /\ DecodeInv' /\ QueueInv' /\ RingInv'
         /\ Total' = Total /\ WellFormed(declared)' = WellFormed(declared)
         /\ \A p : Expected(p)' = Expected(p)
         /\ \A i : EndOf(i)' = EndOf(i)
<1>1. DecodeInv' /\ QueueInv'
  BY DEF Frame, OutputPhases, DecodeInv, QueueInv
<1>2. RingInv'
  BY DEF IInv, RingInv, Frame
<1>3. Total' = Total
  BY DEF Frame, Total
<1>4. WellFormed(declared)' = WellFormed(declared)
  BY <1>3 DEF Frame, WellFormed
<1>6. \A p : Expected(p)' = Expected(p)
  BY DEF Expected, Frame
<1>7. \A i : EndOf(i)' = EndOf(i)
  BY DEF Frame, EndOf
<1> QED
  BY <1>1, <1>2, <1>3, <1>4, <1>6, <1>7

(* The queue stays.                                                        *)
LEMMA SuffixSame ==
  ASSUME IInv, Frame, filter_stack' = filter_stack
  PROVE  SuffixInv' /\ Taken' = Taken /\ NextFilter' = NextFilter /\ Pending' = Pending
         /\ NextStart(Total)' = NextStart(Total)
<1>1. Taken' = Taken /\ NextFilter' = NextFilter /\ Pending' = Pending
  BY DEF Frame, Taken, NextFilter, Pending
<1>2. SuffixInv'
  BY <1>1 DEF IInv, SuffixInv, Frame
<1>3. NextStart(Total)' = NextStart(Total)
  BY <1>1, FrameKeeps DEF NextStart
<1> QED
  BY <1>1, <1>2, <1>3

(* Where the queue stands in what was declared.                            *)
LEMMA HeadOfQueue ==
  ASSUME Types, SuffixInv, phase \in OutputPhases
  PROVE  /\ Taken \in 0 .. Len(declared)
         /\ ~Pending => Taken = Len(declared)
         /\ Pending => /\ Taken + 1 \in 1 .. Len(declared) /\ NextFilter = declared[Taken + 1]
                       /\ NextFilter \in Filter /\ Tail(filter_stack) \in Seq(Filter)
<1>1. filter_stack \in Seq(Filter) /\ declared \in Seq(Filter)
  BY DEF Types
<1>2. Len(filter_stack) \in Nat /\ Len(declared) \in Nat /\ Taken \in Nat
  BY <1>1 DEF SuffixInv
<1>3. Taken <= Len(declared) /\ Taken + Len(filter_stack) = Len(declared)
  BY <1>2 DEF Taken
<1>4. ASSUME Pending
      PROVE  Len(filter_stack) >= 1 /\ NextFilter = filter_stack[1] /\ NextFilter \in Filter
             /\ Tail(filter_stack) \in Seq(Filter)
  BY <1>1, <1>4 DEF Pending, NextFilter
<1>5. ASSUME ~Pending PROVE Len(filter_stack) = 0
  BY <1>1, <1>5 DEF Pending
<1>6. ASSUME Pending PROVE NextFilter = declared[Taken + 1]
  <2>1. 1 \in 1 .. Len(filter_stack)
    BY <1>2, <1>4, <1>6
  <2> QED
    BY <1>4, <1>6, <2>1 DEF SuffixInv
<1>7. Taken \in 0 .. Len(declared)
  BY <1>2, <1>3
<1>8. ASSUME Pending PROVE Taken + 1 \in 1 .. Len(declared)
  BY <1>2, <1>3, <1>4, <1>8
<1>9. ASSUME ~Pending PROVE Taken = Len(declared)
  BY <1>2, <1>3, <1>5, <1>9
<1> QED
  BY <1>4, <1>6, <1>7, <1>8, <1>9

(* The head of the queue is taken.                                         *)
LEMMA SuffixTail ==
  ASSUME IInv, Frame, Pending, filter_stack' = Tail(filter_stack)
  PROVE  SuffixInv' /\ Taken' = Taken + 1
<1>1. filter_stack \in Seq(Filter) /\ declared \in Seq(Filter) /\ filter_stack # <<>>
  BY DEF IInv, Types, Pending
<1> DEFINE q == filter_stack
<1>2. Len(Tail(q)) = Len(q) - 1 /\ Len(q) \in Nat /\ Len(declared) \in Nat
      /\ \A i \in 1 .. Len(q) - 1 : Tail(q)[i] = q[i + 1]
  BY <1>1
<1>3. Taken \in Nat /\ \A i \in 1 .. Len(q) : q[i] = declared[Taken + i]
  BY DEF IInv, SuffixInv, Frame
<1>4. Taken' = Taken + 1
  <2>1. Taken' = Len(declared) - (Len(q) - 1) /\ Taken = Len(declared) - Len(q)
    BY <1>2 DEF Taken, Frame
  <2> QED
    BY <1>2, <2>1
<1>5. \A i \in 1 .. Len(q) - 1 : Tail(q)[i] = declared[(Taken + 1) + i]
  <2> SUFFICES ASSUME NEW i \in 1 .. Len(q) - 1 PROVE Tail(q)[i] = declared[(Taken + 1) + i]
    OBVIOUS
  <2>1. i + 1 \in 1 .. Len(q) /\ Taken + (i + 1) = (Taken + 1) + i
    BY <1>2, <1>3
  <2>2. Tail(q)[i] = q[i + 1] /\ q[i + 1] = declared[Taken + (i + 1)]
    BY <1>2, <1>3, <2>1
  <2> QED
    BY <2>1, <2>2
<1>6. SuffixInv'
  <2>1. Taken' \in Nat
    BY <1>3, <1>4
  <2>2. \A i \in 1 .. Len(filter_stack') : filter_stack'[i] = declared'[Taken' + i]
    BY <1>2, <1>4, <1>5 DEF Frame
  <2> QED
    BY <2>1, <2>2 DEF SuffixInv
<1> QED
  BY <1>4, <1>6

(* Past the blocks that were run and before the next, no filter runs.      *)
LEMMA Uncovered ==
  ASSUME Types, SuffixInv, phase \in OutputPhases, WellFormed(declared), NEW p \in Int,
         \A i \in 1 .. Taken : EndOf(i) <= p, Pending => p < NextFilter.start
  PROVE  /\ Expected(p) = [at |-> p, by |-> <<>>]
         /\ RunsOver(declared, p)[Taken] = <<>>
<1> DEFINE n == Len(declared)
<1>1. declared \in Seq(Filter) /\ n \in Nat /\ Taken \in 0 .. n
  BY HeadOfQueue DEF Types
<1>2. \A i \in 1 .. n : declared[i].start \in Nat /\ declared[i].length \in Nat
  <2>1. \A k \in 1 .. n : declared[k] \in Filter
    BY <1>1
  <2>2. \A f \in Filter : f.start \in Nat /\ f.length \in Nat
    BY DEF Filter
  <2> QED
    BY <2>1, <2>2
<1>3. ASSUME NEW i \in 1 .. n PROVE ~Covers(declared[i], p)
  <2>1. CASE i <= Taken
    <3>1. EndOf(i) <= p
      BY <1>1, <2>1
    <3> QED
      BY <1>2, <3>1 DEF Covers, EndOf
  <2>2. CASE i > Taken
    <3>1. Pending
      BY <1>1, <2>2, HeadOfQueue
    <3>2. p < NextFilter.start /\ Taken + 1 \in 1 .. n /\ NextFilter = declared[Taken + 1]
      BY <3>1, HeadOfQueue
    <3>3. i \in Taken + 1 .. n
      BY <1>1, <2>2
    <3>4. declared[Taken + 1].start <= declared[i].start
      BY <1>1, <3>2, <3>3, Ordered
    <3>5. declared[i].start \in Nat /\ declared[Taken + 1].start \in Nat
      BY <1>2, <3>2
    <3> QED
      BY <3>2, <3>4, <3>5 DEF Covers
  <2>3. i <= Taken \/ i > Taken
    BY <1>1
  <2> QED
    BY <2>1, <2>2, <2>3
<1>4. RunsOver(declared, p)[0] = <<>>
  BY <1>1, RunsOverSteps
<1>5. ASSUME NEW j \in 0 .. n PROVE RunsOver(declared, p)[j] = <<>>
  <2>1. 0 \in 0 .. n /\ \A m \in 0 + 1 .. j : m \in 1 .. n
    BY <1>1
  <2>2. \A m \in 0 + 1 .. j : ~Covers(declared[m], p)
    BY <1>3, <2>1
  <2>3. RunsOver(declared, p)[j] = RunsOver(declared, p)[0]
    BY <1>1, <2>1, <2>2, RunsSame
  <2> QED
    BY <1>4, <2>3
<1>6. n \in 0 .. n
  BY <1>1
<1> QED
  BY <1>1, <1>5, <1>6 DEF Expected

(* What the window has kept is copied as it was decoded.                   *)
LEMMA Copied ==
  ASSUME Rar30Assumption, Types, RingInv, decoded <= WindowSize,
         NEW start \in Nat, NEW n \in Nat, start + n <= decoded, NEW k \in 1 .. n
  PROVE  CopyOut(start, n)[k] = [at |-> start + k - 1, by |-> <<>>]
<1>1. decoded \in Nat /\ WindowSize \in Nat \ {0}
  BY Sizes DEF Types
<1>2. start + k - 1 \in Nat /\ start + k - 1 < WindowSize /\ start + k - 1 \in 0 .. decoded - 1
  BY <1>1
<1>3. (start + k - 1) % WindowSize = start + k - 1
  BY <1>2, SlotOf
<1>4. ring[start + k - 1] = start + k - 1
  BY <1>2 DEF RingInv
<1> QED
  BY <1>3, <1>4 DEF CopyOut

(* What is appended to a correct output.                                   *)
LEMMA Appended ==
  ASSUME NEW o \in Seq(Cell), NEW s \in Seq(Cell),
         \A k \in 1 .. Len(o) : o[k] = Expected(k - 1),
         \A k \in 1 .. Len(s) : s[k] = Expected(Len(o) + k - 1)
  PROVE  /\ o \o s \in Seq(Cell) /\ Len(o \o s) = Len(o) + Len(s)
         /\ \A k \in 1 .. Len(o \o s) : (o \o s)[k] = Expected(k - 1)
<1>1. /\ o \o s \in Seq(Cell) /\ Len(o \o s) = Len(o) + Len(s) /\ Len(o) \in Nat /\ Len(s) \in Nat
      /\ \A k \in 1 .. Len(o) + Len(s) : (o \o s)[k] = IF k <= Len(o) THEN o[k] ELSE s[k - Len(o)]
  BY ConcatProperties
<1>2. ASSUME NEW k \in 1 .. Len(o) + Len(s) PROVE (o \o s)[k] = Expected(k - 1)
  <2>1. CASE k <= Len(o)
    <3>1. k \in 1 .. Len(o)
      BY <1>1, <2>1
    <3> QED
      BY <1>1, <2>1, <3>1
  <2>2. CASE k > Len(o)
    <3>1. k - Len(o) \in 1 .. Len(s) /\ Len(o) + (k - Len(o)) - 1 = k - 1 /\ ~(k <= Len(o))
      BY <1>1, <2>2
    <3>2. s[k - Len(o)] = Expected(Len(o) + (k - Len(o)) - 1)
      BY <3>1
    <3> QED
      BY <1>1, <3>1, <3>2
  <2> QED
    BY <1>1, <2>1, <2>2
<1> QED
  BY <1>1, <1>2

(* The case in which the whole stream is promised.                         *)
Regular == WellFormed(declared) /\ decoded <= WindowSize

(* How far the output may go.                                              *)
LEMMA Bounds ==
  ASSUME Rar30Assumption, Types
  PROVE  /\ Total \in Nat /\ Total <= decoded /\ Total <= Target /\ decoded \in Nat /\ Target \in Nat
         /\ (decoded <= Target => Total = decoded) /\ (Target <= decoded => Total = Target)
         /\ NextStart(Total) \in Nat /\ NextStart(Total) <= Total
         /\ Pending => NextFilter \in Filter /\ NextFilter.start \in Nat /\ NextFilter.length \in Nat
                       /\ NextStart(Total) = Lesser(NextFilter.start, Total)
         /\ ~Pending => NextStart(Total) = Total
<1>1. decoded \in Nat /\ Target \in Nat
  BY Sizes DEF Types
<1>2. /\ Total \in Nat /\ Total <= decoded /\ Total <= Target
      /\ (decoded <= Target => Total = decoded) /\ (Target <= decoded => Total = Target)
  BY <1>1 DEF Total, Lesser
<1>3. ASSUME Pending PROVE NextFilter \in Filter
  <2>1. filter_stack \in Seq(Filter) /\ filter_stack # <<>>
    BY <1>3 DEF Types, Pending
  <2> QED
    BY <2>1 DEF NextFilter
<1>4. \A f \in Filter : f.start \in Nat /\ f.length \in Nat
  BY DEF Filter
<1>5. ASSUME Pending PROVE NextStart(Total) = Lesser(NextFilter.start, Total)
  BY <1>5, <1>2, <1>3, <1>4 DEF NextStart, Lesser
<1>6. ASSUME ~Pending PROVE NextStart(Total) = Total
  BY <1>6 DEF NextStart
<1>7. NextStart(Total) \in Nat /\ NextStart(Total) <= Total
  <2>1. CASE Pending
    <3>1. NextFilter.start \in Nat
      BY <1>3, <1>4, <2>1
    <3> QED
      BY <1>2, <1>5, <2>1, <3>1 DEF Lesser
  <2>2. CASE ~Pending
    BY <1>2, <1>6, <2>2
  <2> QED
    BY <2>1, <2>2
<1> QED
  BY <1>1, <1>2, <1>3, <1>4, <1>5, <1>6, <1>7

(* The regular case of the invariant, and how it is shown after a step.    *)
LEMMA FilteringKeeps ==
  ASSUME IInv, Frame
  PROVE  /\ Regular => Filtering
         /\ (Regular => Filtering') => OutInv'
         /\ (\A k \in 1 .. Len(out') : out'[k] = Expected(k - 1)) => Written'
<1>1. Regular => Filtering
  BY DEF IInv, OutInv, Frame, Regular
<1>2. (Regular => Filtering') => OutInv'
  <2>1. WellFormed(declared)' = WellFormed(declared) /\ decoded' = decoded
    BY FrameKeeps DEF Frame
  <2> QED
    BY <2>1 DEF OutInv, Regular
<1>3. ASSUME \A k \in 1 .. Len(out') : out'[k] = Expected(k - 1) PROVE Written'
  <2>1. \A p : Expected(p)' = Expected(p)
    BY FrameKeeps
  <2> QED
    BY <1>3, <2>1 DEF Written
<1> QED
  BY <1>1, <1>2, <1>3

(* Past the blocks that were run and before the next, what is copied from  *)
(* the window is what is expected.                                         *)
LEMMA CopyExpected ==
  ASSUME Rar30Assumption, Types, SuffixInv, RingInv, phase \in OutputPhases, Regular,
         NEW a \in Nat, NEW n \in Nat, a + n <= NextStart(Total), \A i \in 1 .. Taken : EndOf(i) <= a
  PROVE  \A k \in 1 .. n : CopyOut(a, n)[k] = Expected(a + k - 1)
<1>1. Taken \in Nat /\ Len(declared) \in Nat
  BY HeadOfQueue DEF SuffixInv, Types
<1>2. SUFFICES ASSUME NEW k \in 1 .. n PROVE CopyOut(a, n)[k] = Expected(a + k - 1)
  OBVIOUS
<1> DEFINE p == a + k - 1
<1>3. p \in Int /\ a <= p /\ p < NextStart(Total) /\ a + n <= decoded
  BY <1>1, Bounds
<1>4. CopyOut(a, n)[k] = [at |-> p, by |-> <<>>]
  BY <1>1, <1>3, Copied DEF Regular
<1>5. ASSUME NEW i \in 1 .. Taken PROVE EndOf(i) <= p
  <2>1. i \in 1 .. Len(declared)
    BY <1>1, HeadOfQueue
  <2>2. declared[i] \in Filter
    BY <2>1 DEF Types
  <2>3. EndOf(i) \in Nat
    BY <2>2 DEF EndOf, Filter
  <2>4. EndOf(i) <= a
    OBVIOUS
  <2> QED
    BY <1>1, <1>3, <2>3, <2>4
<1>6. Pending => p < NextFilter.start
  BY <1>3, Bounds DEF Lesser
<1> HIDE DEF p
<1>7. Expected(p) = [at |-> p, by |-> <<>>]
  BY <1>3, <1>5, <1>6, Uncovered DEF Regular
<1> QED
  BY <1>4, <1>7 DEF p

(* What no filter covers is copied as the walk reaches it.                 *)
LEMMA CopyUnfilteredKeeps ==
  ASSUME Rar30Assumption, IInv, CopyUnfiltered
  PROVE  IInv'
<1> DEFINE next == NextStart(Total)
<1> DEFINE s == Clip(CopyOut(pos, next - pos))
<1>1. /\ Walking /\ ~(Pending /\ pos = NextFilter.start)
      /\ out' = out \o s /\ pos' = next
      /\ filter_stack' = filter_stack /\ filterstart' = filterstart /\ phase' = phase
      /\ memory' = memory /\ block' = block
      /\ Frame
  BY DEF CopyUnfiltered, Frame, programVars, Walking, OutputPhases
<1>2. /\ Types /\ OutputFits /\ RingInv /\ SuffixInv /\ FilterstartIsHead
      /\ phase = "walk" /\ pos < Total /\ phase \in OutputPhases /\ pos \in Nat /\ out \in Seq(Cell)
      /\ Len(out) <= Target /\ next \in Nat /\ Len(out) \in Nat /\ Total \in Nat /\ Target \in Nat
  <2>1. /\ Types /\ OutputFits /\ RingInv /\ SuffixInv /\ FilterstartIsHead
        /\ phase = "walk" /\ pos < Total /\ phase \in OutputPhases
    BY <1>1 DEF IInv, Walking, OutputPhases
  <2>2. Total \in Nat /\ Target \in Nat /\ NextStart(Total) \in Nat
    BY <2>1, Bounds
  <2>3. pos \in Nat /\ filterstart \in Nat /\ out \in Seq(Cell) /\ Len(out) \in Nat
    BY <2>1 DEF Types
  <2> QED
    BY <2>1, <2>2, <2>3 DEF OutputFits
<1> HIDE DEF next
<1>3. CopyOut(pos, next - pos) \in Seq(Cell)
      /\ Len(CopyOut(pos, next - pos)) = IF next - pos < 0 THEN 0 ELSE next - pos
  <2>1. pos \in Int /\ next - pos \in Int
    BY <1>2
  <2> QED
    BY <1>2, <2>1, CopyType
<1>4. /\ s \in Seq(Cell) /\ Len(s) = Lesser(Len(CopyOut(pos, next - pos)), Target - Len(out))
      /\ Len(out) + Len(s) <= Target
      /\ \A k \in 1 .. Len(s) : s[k] = CopyOut(pos, next - pos)[k]
  BY <1>2, <1>3, ClipType
<1> HIDE DEF s
<1>5. out' \in Seq(Cell) /\ Len(out') = Len(out) + Len(s)
  <2>1. out \o s \in Seq(Cell) /\ Len(out \o s) = Len(out) + Len(s)
    BY <1>2, <1>4, ConcatProperties
  <2> QED
    BY <1>1, <2>1
<1>6. Types' /\ OutputFits' /\ FilterstartIsHead'
  <2>1. Types'
    BY <1>1, <1>2, <1>5 DEF Types, Frame
  <2>2. OutputFits'
    BY <1>4, <1>5 DEF OutputFits
  <2>3. FilterstartIsHead'
    BY <1>1, <1>2 DEF FilterstartIsHead, Pending, NextFilter
  <2> QED
    BY <2>1, <2>2, <2>3
<1>7. SuffixInv' /\ Taken' = Taken /\ NextFilter' = NextFilter /\ Pending' = Pending
  BY <1>1, SuffixSame
<1>8. ASSUME Regular PROVE Filtering'
  <2>1. /\ Written /\ Len(out) = Lesser(pos, Total) /\ (\A i \in 1 .. Taken : EndOf(i) <= pos)
        /\ (Pending => pos <= NextFilter.start)
    BY <1>1, <1>2, <1>8, FilteringKeeps DEF Filtering
  <2>2. Len(out) = pos
    BY <1>2, <2>1 DEF Lesser
  <2>3. pos <= next /\ next <= Total /\ (Pending => next <= NextFilter.start)
    <3>1. next = NextStart(Total)
      BY DEF next
    <3>2. CASE Pending
      <4>1. NextFilter.start \in Nat /\ next = Lesser(NextFilter.start, Total)
        BY <1>2, <3>1, <3>2, Bounds
      <4> QED
        BY <1>2, <2>1, <3>2, <4>1 DEF Lesser
    <3>3. CASE ~Pending
      <4>1. next = Total
        BY <1>2, <3>1, <3>3, Bounds
      <4> QED
        BY <1>2, <3>3, <4>1
    <3> QED
      BY <3>2, <3>3
  <2> DEFINE n == next - pos
  <2>4. n \in Nat /\ Len(out) + n = next
    BY <1>2, <2>2, <2>3
  <2>5. Total <= Target
    BY <1>2, Bounds
  <2>6. Len(s) = n
    BY <1>2, <1>3, <1>4, <2>2, <2>3, <2>4, <2>5 DEF Lesser
  <2>7. \A k \in 1 .. n : s[k] = CopyOut(Len(out), n)[k]
    BY <1>4, <2>2, <2>6
  <2> HIDE DEF n
  <2>8. \A k \in 1 .. Len(out) : out[k] = Expected(k - 1)
    BY <2>1 DEF Written
  <2>9. \A i \in 1 .. Taken : EndOf(i) <= Len(out)
    BY <2>1, <2>2
  <2>10. Len(out) + n <= NextStart(Total)
    BY <1>2, <2>4 DEF next
  <2>11. Len(out \o s) = Len(out) + n /\ \A k \in 1 .. Len(out \o s) : (out \o s)[k] = Expected(k - 1)
    <3>1. Len(out) \in Nat /\ n \in Nat
      BY <1>2, <2>4
    <3>2. \A k \in 1 .. n : CopyOut(Len(out), n)[k] = Expected(Len(out) + k - 1)
      BY <1>2, <1>8, <2>9, <2>10, <3>1, CopyExpected
    <3>3. \A k \in 1 .. Len(s) : s[k] = Expected(Len(out) + k - 1)
      BY <2>6, <2>7, <3>2
    <3> QED
      BY <1>2, <1>4, <2>6, <2>8, <3>3, Appended
  <2>12. Written'
    BY <1>1, <2>11, FilteringKeeps
  <2>13. Total' = Total /\ \A i : EndOf(i)' = EndOf(i)
    BY <1>1, FrameKeeps
  <2>14. Len(out') = next /\ pos' = next
    BY <1>1, <2>4, <2>11
  <2>15. Len(out)' = Lesser(pos, Total)'
    BY <1>2, <2>3, <2>13, <2>14 DEF Lesser
  <2>16. \A i \in 1 .. Taken : EndOf(i) <= next
    <3> SUFFICES ASSUME NEW i \in 1 .. Taken PROVE EndOf(i) <= next
      OBVIOUS
    <3>1. i \in 1 .. Len(declared)
      BY <1>2, HeadOfQueue DEF Types
    <3>2. declared[i] \in Filter
      BY <1>2, <3>1 DEF Types
    <3>3. EndOf(i) \in Nat
      BY <3>2 DEF EndOf, Filter
    <3> QED
      BY <1>2, <2>1, <2>3, <3>3
  <2>17. \A i \in 1 .. Taken' : EndOf(i)' <= pos'
    BY <1>7, <2>13, <2>14, <2>16
  <2>18. Pending' => pos' <= NextFilter'.start
    BY <1>7, <2>3, <2>14
  <2>19. phase' = "walk"
    BY <1>1, <1>2
  <2> QED
    BY <2>12, <2>15, <2>17, <2>18, <2>19 DEF Filtering
<1>9. OutInv' /\ DecodeInv' /\ QueueInv' /\ RingInv'
  BY <1>1, <1>8, FilteringKeeps, FrameKeeps
<1> QED
  BY <1>6, <1>7, <1>9 DEF IInv

(* The block of a filter is reached.                                       *)
LEMMA EnterFiltersKeeps ==
  ASSUME Rar30Assumption, IInv, EnterFilters
  PROVE  IInv'
<1> DEFINE s == Clip(CopyOut(pos, Lesser(filterstart, Total) - pos))
<1>1. /\ Walking /\ Pending /\ pos = NextFilter.start
      /\ out' = IF pos < filterstart THEN out \o s ELSE out
      /\ filter_stack' = filter_stack /\ filterstart' = filterstart /\ phase' = "apply"
      /\ pos' = pos /\ memory' = memory /\ block' = block
      /\ Frame
  BY DEF EnterFilters, Frame, programVars, Walking, OutputPhases
<1>2. /\ Types /\ OutputFits /\ RingInv /\ SuffixInv /\ FilterstartIsHead
      /\ phase = "walk" /\ pos < Total /\ phase \in OutputPhases /\ pos \in Nat /\ out \in Seq(Cell)
      /\ Len(out) <= Target /\ Len(out) \in Nat /\ Total \in Nat /\ Target \in Nat /\ filterstart \in Nat
  <2>1. /\ Types /\ OutputFits /\ RingInv /\ SuffixInv /\ FilterstartIsHead
        /\ phase = "walk" /\ pos < Total /\ phase \in OutputPhases
    BY <1>1 DEF IInv, Walking, OutputPhases
  <2>2. Total \in Nat /\ Target \in Nat /\ NextStart(Total) \in Nat
    BY <2>1, Bounds
  <2>3. pos \in Nat /\ filterstart \in Nat /\ out \in Seq(Cell) /\ Len(out) \in Nat
    BY <2>1 DEF Types
  <2> QED
    BY <2>1, <2>2, <2>3 DEF OutputFits
<1>3. filterstart = pos
  BY <1>1, <1>2 DEF FilterstartIsHead
<1>4. out' = out
  BY <1>1, <1>2, <1>3
<1> HIDE DEF s
<1>5. Types' /\ OutputFits' /\ FilterstartIsHead'
  BY <1>1, <1>2, <1>3, <1>4 DEF Types, OutputFits, FilterstartIsHead, Frame, Pending, NextFilter
<1>6. SuffixInv' /\ Taken' = Taken /\ NextStart(Total)' = NextStart(Total)
  BY <1>1, SuffixSame
<1>7. ASSUME Regular PROVE Filtering'
  <2>1. Written /\ Len(out) = Lesser(pos, Total) /\ (\A i \in 1 .. Taken : EndOf(i) <= pos)
    BY <1>1, <1>2, <1>7, FilteringKeeps DEF Filtering
  <2>2. Len(out) = pos
    BY <1>2, <2>1 DEF Lesser
  <2>3. NextStart(Total) = pos
    <3>1. NextStart(Total) = Lesser(NextFilter.start, Total)
      BY <1>1, <1>2, Bounds
    <3> QED
      BY <1>1, <1>2, <3>1 DEF Lesser
  <2>4. Written'
    <3>1. \A k \in 1 .. Len(out') : out'[k] = Expected(k - 1)
      BY <1>4, <2>1 DEF Written
    <3> QED
      BY <1>1, <3>1, FilteringKeeps
  <2>5. \A i : EndOf(i)' = EndOf(i)
    BY <1>1, FrameKeeps
  <2>6. \A i \in 1 .. Taken' : EndOf(i)' <= Len(out')
    BY <1>4, <1>6, <2>1, <2>2, <2>5
  <2>7. Len(out') = NextStart(Total)'
    BY <1>4, <1>6, <2>2, <2>3
  <2> QED
    BY <1>1, <2>4, <2>6, <2>7 DEF Filtering
<1>8. OutInv' /\ DecodeInv' /\ QueueInv' /\ RingInv'
  BY <1>1, <1>7, FilteringKeeps, FrameKeeps
<1> QED
  BY <1>5, <1>6, <1>8 DEF IInv

(* The end of the blocks within reach.                                     *)
LEMMA LeaveFiltersKeeps ==
  ASSUME Rar30Assumption, IInv, LeaveFilters
  PROVE  IInv'
<1>1. /\ phase = "apply" /\ ~InReach
      /\ pos' = IF Pending THEN NextFilter.start ELSE Total
      /\ filter_stack' = filter_stack /\ filterstart' = filterstart /\ phase' = "walk"
      /\ out' = out /\ memory' = memory /\ block' = block
      /\ Frame
  BY DEF LeaveFilters, Frame, programVars, OutputPhases
<1>2. /\ Types /\ OutputFits /\ RingInv /\ SuffixInv /\ FilterstartIsHead
      /\ phase \in OutputPhases /\ out \in Seq(Cell) /\ Len(out) \in Nat /\ Total \in Nat
  <2>1. Types /\ OutputFits /\ RingInv /\ SuffixInv /\ FilterstartIsHead /\ phase \in OutputPhases
    BY <1>1 DEF IInv, OutputPhases
  <2>2. out \in Seq(Cell) /\ Len(out) \in Nat /\ memory \in Seq(Cell) /\ pos \in Nat
    BY <2>1 DEF Types
  <2>3. Total \in Nat /\ Total <= Target /\ Target \in Nat
    BY <2>1, Bounds
  <2> QED
    BY <1>1, <2>1, <2>2, <2>3
<1>3. pos' \in Nat /\ (Pending => pos' = NextFilter.start /\ pos' > Total) /\ (~Pending => pos' = Total)
  <2>1. Pending => NextFilter.start \in Nat
    BY <1>2, Bounds
  <2>2. Pending => ~(NextFilter.start <= Total)
    BY <1>1 DEF InReach
  <2> QED
    BY <1>1, <1>2, <2>1, <2>2
<1>4. Types' /\ OutputFits' /\ FilterstartIsHead'
  BY <1>1, <1>2, <1>3 DEF Types, OutputFits, FilterstartIsHead, Frame, Pending, NextFilter
<1>5. SuffixInv' /\ Taken' = Taken /\ NextFilter' = NextFilter /\ Pending' = Pending
  BY <1>1, SuffixSame
<1>6. ASSUME Regular PROVE Filtering'
  <2>1. Written /\ Len(out) = NextStart(Total) /\ (\A i \in 1 .. Taken : EndOf(i) <= Len(out))
    BY <1>1, <1>2, <1>6, FilteringKeeps DEF Filtering
  <2>2. NextStart(Total) = Total
    <3>1. Pending => NextStart(Total) = Lesser(NextFilter.start, Total)
      BY <1>2, Bounds
    <3>2. ~Pending => NextStart(Total) = Total
      BY <1>2, Bounds
    <3> QED
      BY <1>2, <1>3, <3>1, <3>2 DEF Lesser
  <2>3. Written'
    <3>1. \A k \in 1 .. Len(out') : out'[k] = Expected(k - 1)
      BY <1>1, <2>1 DEF Written
    <3> QED
      BY <1>1, <3>1, FilteringKeeps
  <2>4. Total' = Total /\ \A i : EndOf(i)' = EndOf(i)
    BY <1>1, FrameKeeps
  <2>5. pos' \in Nat /\ Total <= pos'
    BY <1>2, <1>3
  <2>6. Len(out)' = Lesser(pos, Total)'
    BY <1>1, <1>2, <2>1, <2>2, <2>4, <2>5 DEF Lesser
  <2>7. \A i \in 1 .. Taken' : EndOf(i)' <= pos'
    <3> SUFFICES ASSUME NEW i \in 1 .. Taken PROVE EndOf(i) <= pos'
      BY <1>5, <2>4
    <3>1. i \in 1 .. Len(declared)
      BY <1>2, HeadOfQueue DEF Types
    <3>2. declared[i] \in Filter
      BY <1>2, <3>1 DEF Types
    <3>3. EndOf(i) \in Nat
      BY <3>2 DEF EndOf, Filter
    <3>4. EndOf(i) <= Total
      BY <2>1, <2>2
    <3> QED
      BY <1>2, <2>5, <3>3, <3>4
  <2>8. Pending' => pos' <= NextFilter'.start
    <3>1. Pending => NextFilter.start \in Nat
      BY <1>2, Bounds
    <3> QED
      BY <1>3, <1>5, <3>1
  <2>9. phase' = "walk"
    BY <1>1
  <2> QED
    BY <2>3, <2>6, <2>7, <2>8, <2>9 DEF Filtering
<1>7. OutInv' /\ DecodeInv' /\ QueueInv' /\ RingInv'
  BY <1>1, <1>6, FilteringKeeps, FrameKeeps
<1> QED
  BY <1>4, <1>5, <1>7 DEF IInv

(* The end of the walk.                                                    *)
LEMMA FinishKeeps ==
  ASSUME Rar30Assumption, IInv, Finish
  PROVE  IInv'
<1>1. /\ phase = "walk" /\ ~Walking
      /\ pos' = pos /\ filter_stack' = filter_stack /\ filterstart' = filterstart /\ phase' = "done"
      /\ out' = out /\ memory' = memory /\ block' = block
      /\ Frame
  BY DEF Finish, Frame, programVars, outputVars, OutputPhases
<1>2. /\ Types /\ OutputFits /\ RingInv /\ SuffixInv /\ FilterstartIsHead
      /\ phase \in OutputPhases /\ out \in Seq(Cell) /\ Len(out) \in Nat /\ Total \in Nat /\ pos \in Nat
      /\ Total <= Target /\ Target \in Nat
  <2>1. Types /\ OutputFits /\ RingInv /\ SuffixInv /\ FilterstartIsHead /\ phase \in OutputPhases
    BY <1>1 DEF IInv, OutputPhases
  <2>2. out \in Seq(Cell) /\ Len(out) \in Nat /\ memory \in Seq(Cell) /\ pos \in Nat
    BY <2>1 DEF Types
  <2>3. Total \in Nat /\ Total <= Target /\ Target \in Nat
    BY <2>1, Bounds
  <2> QED
    BY <1>1, <2>1, <2>2, <2>3
<1>3. Types' /\ OutputFits' /\ FilterstartIsHead'
  BY <1>1, <1>2 DEF Types, OutputFits, FilterstartIsHead, Frame, Pending, NextFilter
<1>4. SuffixInv'
  BY <1>1, SuffixSame
<1>5. ASSUME Regular PROVE Filtering'
  <2>1. Written /\ Len(out) = Lesser(pos, Total)
    BY <1>1, <1>2, <1>5, FilteringKeeps DEF Filtering
  <2>2. pos >= Total \/ Len(out) >= Target
    BY <1>1, <1>2 DEF Walking
  <2>3. Len(out) = Total
    BY <1>2, <2>1, <2>2 DEF Lesser
  <2>4. Written'
    <3>1. \A k \in 1 .. Len(out') : out'[k] = Expected(k - 1)
      BY <1>1, <2>1 DEF Written
    <3> QED
      BY <1>1, <3>1, FilteringKeeps
  <2>5. Total' = Total
    BY <1>1, FrameKeeps
  <2>6. phase' = "done" /\ Len(out') = Total'
    BY <1>1, <2>3, <2>5
  <2> QED
    BY <2>4, <2>6 DEF Filtering
<1>6. OutInv' /\ DecodeInv' /\ QueueInv' /\ RingInv'
  BY <1>1, <1>5, FilteringKeeps, FrameKeeps
<1> QED
  BY <1>3, <1>4, <1>6 DEF IInv

(* The filter at the head of a well-formed queue.                          *)
LEMMA HeadIsWellFormed ==
  ASSUME Rar30Assumption, Types, SuffixInv, phase \in OutputPhases, WellFormed(declared), Pending
  PROVE  /\ NextFilter.length >= ShortestBlock
         /\ NextFilter.start + NextFilter.length <= Total \/ NextFilter.start > Total
         /\ EndOf(Taken + 1) = NextFilter.start + NextFilter.length
<1>1. Taken + 1 \in 1 .. Len(declared) /\ NextFilter = declared[Taken + 1]
  BY HeadOfQueue
<1>2. Taken + 1 \in DOMAIN declared
  BY <1>1 DEF Types
<1>3. /\ declared[Taken + 1].length >= ShortestBlock
      /\ declared[Taken + 1].start + declared[Taken + 1].length <= Total \/ declared[Taken + 1].start > Total
  BY <1>2 DEF WellFormed
<1> QED
  BY <1>1, <1>3 DEF EndOf

(* The blocks that were run, and one more.                                 *)
LEMMA OneMoreTaken ==
  ASSUME Types, SuffixInv, phase \in OutputPhases, NEW a \in Int, NEW b \in Int, a <= b,
         \A i \in 1 .. Taken : EndOf(i) <= a, EndOf(Taken + 1) <= b
  PROVE  \A i \in 1 .. Taken + 1 : EndOf(i) <= b
<1> SUFFICES ASSUME NEW i \in 1 .. Taken + 1 PROVE EndOf(i) <= b
  OBVIOUS
<1>1. Taken \in Nat /\ Taken <= Len(declared) /\ Len(declared) \in Nat
  BY HeadOfQueue DEF Types
<1>2. CASE i = Taken + 1
  BY <1>2
<1>3. CASE i \in 1 .. Taken
  <2>1. i \in 1 .. Len(declared)
    BY <1>1, <1>3
  <2>2. declared[i] \in Filter
    BY <2>1 DEF Types
  <2>3. EndOf(i) \in Nat
    BY <2>2 DEF EndOf, Filter
  <2>4. EndOf(i) <= a
    BY <1>3
  <2> QED
    BY <2>3, <2>4
<1> QED
  BY <1>1, <1>2, <1>3

(* The first program over a block.                                         *)
LEMMA RunFirstKeeps ==
  ASSUME Rar30Assumption, IInv, RunFirst
  PROVE  IInv'
<1> DEFINE f == NextFilter
<1> DEFINE s == CopyOut(f.start, f.length)
<1>1. /\ phase = "apply" /\ Pending /\ f.start <= Total
      /\ memory' = Run(f, s) /\ block' = [start |-> f.start, length |-> f.length]
      /\ filter_stack' = Tail(filter_stack) /\ filterstart' = filterstart /\ phase' = "chain"
      /\ pos' = pos /\ out' = out
      /\ Frame
  BY DEF RunFirst, InReach, Frame, programVars, OutputPhases
<1>2. /\ Types /\ OutputFits /\ RingInv /\ SuffixInv
      /\ phase \in OutputPhases /\ out \in Seq(Cell) /\ Len(out) \in Nat /\ Total \in Nat
      /\ f \in Filter /\ f.start \in Nat /\ f.length \in Nat
  <2>1. Types /\ OutputFits /\ RingInv /\ SuffixInv /\ phase \in OutputPhases
    BY <1>1 DEF IInv, OutputPhases
  <2>2. out \in Seq(Cell) /\ Len(out) \in Nat /\ memory \in Seq(Cell) /\ pos \in Nat
    BY <2>1 DEF Types
  <2>3. Total \in Nat /\ Total <= Target /\ Target \in Nat
    BY <2>1, Bounds
  <2>4. f \in Filter /\ f.start \in Nat /\ f.length \in Nat
    BY <1>1, <2>1, Bounds
  <2> QED
    BY <2>1, <2>2, <2>3, <2>4
<1>3. Taken \in Nat /\ Taken + 1 \in 1 .. Len(declared) /\ f = declared[Taken + 1]
      /\ Tail(filter_stack) \in Seq(Filter) /\ declared \in Seq(Filter)
  BY <1>1, <1>2, HeadOfQueue DEF Types, SuffixInv
<1> HIDE DEF f
<1>4. s \in Seq(Cell) /\ Len(s) = f.length
  BY <1>2, CopyType
<1> HIDE DEF s
<1>5. memory' \in Seq(Cell)
  BY <1>1, <1>2, <1>4, RunType
<1>6. Types' /\ OutputFits' /\ FilterstartIsHead'
  <2>1. block' \in Block
    BY <1>1, <1>2 DEF Block
  <2>2. Types'
    BY <1>1, <1>2, <1>3, <1>5, <2>1 DEF Types, Frame
  <2>3. OutputFits'
    BY <1>1, <1>2 DEF OutputFits
  <2>4. FilterstartIsHead'
    BY <1>1 DEF FilterstartIsHead
  <2> QED
    BY <2>2, <2>3, <2>4
<1>7. SuffixInv' /\ Taken' = Taken + 1
  BY <1>1, SuffixTail
<1>8. ASSUME Regular PROVE Filtering'
  <2>1. Written /\ Len(out) = NextStart(Total) /\ \A i \in 1 .. Taken : EndOf(i) <= Len(out)
    BY <1>1, <1>2, <1>8, FilteringKeeps DEF Filtering
  <2>2. f.length >= ShortestBlock /\ EndOf(Taken + 1) = f.start + f.length
        /\ (f.start + f.length <= Total \/ f.start > Total)
    BY <1>1, <1>2, <1>8, HeadIsWellFormed DEF Regular, f
  <2>3. f.start + f.length <= Total
    BY <1>1, <1>2, <2>2
  <2>4. Len(out) = f.start
    <3>1. NextStart(Total) = Lesser(f.start, Total)
      BY <1>1, <1>2, Bounds DEF f
    <3> QED
      BY <1>1, <1>2, <2>1, <3>1 DEF Lesser
  <2>5. Total' = Total /\ \A i : EndOf(i)' = EndOf(i)
    BY <1>1, FrameKeeps
  <2>6. Written'
    <3>1. \A k \in 1 .. Len(out') : out'[k] = Expected(k - 1)
      BY <1>1, <2>1 DEF Written
    <3> QED
      BY <1>1, <3>1, FilteringKeeps
  <2>7. \A i \in 1 .. Taken + 1 : EndOf(i) <= f.start + f.length
    BY <1>2, <2>1, <2>2, <2>4, OneMoreTaken
  <2>8. Len(memory') = f.length
        /\ \A k \in 1 .. f.length : memory'[k] = [at |-> s[k].at, by |-> Append(s[k].by, TagOf(f))]
    BY <1>1, <1>2, <1>4, <2>2, RunType
  <2>9. ASSUME NEW k \in 1 .. f.length
        PROVE  memory'[k] = [at |-> f.start + k - 1, by |-> RunsOver(declared, f.start + k - 1)[Taken + 1]]
    <3> DEFINE p == f.start + k - 1
    <3>1. p \in Int /\ f.start <= p /\ p < f.start + f.length
      BY <1>2
    <3>2. s[k] = [at |-> p, by |-> <<>>]
      <4>1. f.start + f.length <= decoded /\ decoded <= WindowSize
        BY <1>2, <1>8, <2>3, Bounds DEF Regular
      <4> QED
        BY <1>2, <4>1, Copied DEF s
    <3> HIDE DEF p
    <3>3. RunsOver(declared, p)[Taken] = <<>>
      <4>1. ASSUME NEW m \in 0 + 1 .. Taken PROVE ~Covers(declared[m], p)
        <5>1. EndOf(m) <= p
          <6>1. m \in 1 .. Len(declared)
            BY <1>3
          <6>2. declared[m] \in Filter
            BY <1>3, <6>1
          <6>3. EndOf(m) \in Nat
            BY <6>2 DEF EndOf, Filter
          <6>4. EndOf(m) <= f.start
            BY <2>1, <2>4
          <6> QED
            BY <1>2, <3>1, <6>3, <6>4
        <5>2. declared[m].start \in Nat /\ declared[m].length \in Nat
          <6>1. declared[m] \in Filter
            BY <1>3
          <6> QED
            BY <6>1 DEF Filter
        <5> QED
          BY <3>1, <5>1, <5>2 DEF Covers, EndOf
      <4>2. RunsOver(declared, p)[0] = <<>>
        BY <1>3, <3>1, RunsOverSteps
      <4>3. 0 \in 0 .. Len(declared) /\ Taken \in 0 .. Len(declared)
        BY <1>3
      <4>4. RunsOver(declared, p)[Taken] = RunsOver(declared, p)[0]
        BY <1>3, <3>1, <4>1, <4>3, RunsSame
      <4> QED
        BY <4>2, <4>4
    <3>4. RunsOver(declared, p)[Taken + 1] = Append(RunsOver(declared, p)[Taken], TagOf(f))
      <4>1. Covers(f, p)
        BY <3>1 DEF Covers
      <4>2. (Taken + 1) - 1 = Taken
        BY <1>3
      <4> QED
        BY <1>3, <3>1, <4>1, <4>2, RunsOverSteps
    <3>5. memory'[k] = [at |-> p, by |-> Append(<<>>, TagOf(f))]
      <4>1. s[k].at = p /\ s[k].by = <<>>
        BY <3>2
      <4> QED
        BY <2>8, <4>1
    <3> QED
      BY <3>3, <3>4, <3>5 DEF p
  <2>10. Taken' >= 1 /\ block'.start = f.start /\ block'.length = f.length
         /\ declared'[Taken'] = f
    BY <1>1, <1>3, <1>7 DEF Frame
  <2>11. \A i \in 1 .. Taken' : EndOf(i)' <= block'.start + block'.length
    BY <1>7, <2>5, <2>7, <2>10
  <2>12. \A k \in 1 .. block'.length :
           memory'[k] = [at |-> block'.start + k - 1, by |-> RunsOver(declared', block'.start + k - 1)[Taken']]
    BY <1>1, <1>7, <2>9, <2>10 DEF Frame
  <2>13. Len(out') = block'.start /\ block'.start + block'.length <= Total' /\ Len(memory') = block'.length
    BY <1>1, <2>3, <2>4, <2>5, <2>8, <2>10
  <2>14. block'.start = declared'[Taken'].start /\ block'.length = declared'[Taken'].length
    BY <2>10
  <2>15. phase' = "chain"
    BY <1>1
  <2> QED
    BY <2>6, <2>10, <2>11, <2>12, <2>13, <2>14, <2>15 DEF Filtering
<1>9. OutInv' /\ DecodeInv' /\ QueueInv' /\ RingInv'
  BY <1>1, <1>8, FilteringKeeps, FrameKeeps
<1> QED
  BY <1>6, <1>7, <1>9 DEF IInv

(* Another program over the same block.                                    *)
LEMMA RunChainedKeeps ==
  ASSUME Rar30Assumption, IInv, RunChained
  PROVE  IInv'
<1> DEFINE f == NextFilter
<1>1. /\ phase = "chain" /\ Pending /\ f.start = block.start /\ f.length = Len(memory)
      /\ memory' = Run(f, memory) /\ block' = block
      /\ filter_stack' = Tail(filter_stack) /\ filterstart' = filterstart /\ phase' = "chain"
      /\ pos' = pos /\ out' = out
      /\ Frame
  BY DEF RunChained, Chained, Frame, programVars, OutputPhases
<1>2. /\ Types /\ OutputFits /\ RingInv /\ SuffixInv
      /\ phase \in OutputPhases /\ out \in Seq(Cell) /\ Len(out) \in Nat /\ Total \in Nat
      /\ f \in Filter /\ f.start \in Nat /\ f.length \in Nat /\ memory \in Seq(Cell)
  <2>1. Types /\ OutputFits /\ RingInv /\ SuffixInv /\ phase \in OutputPhases
    BY <1>1 DEF IInv, OutputPhases
  <2>2. out \in Seq(Cell) /\ Len(out) \in Nat /\ memory \in Seq(Cell) /\ pos \in Nat
    BY <2>1 DEF Types
  <2>3. Total \in Nat /\ Total <= Target /\ Target \in Nat
    BY <2>1, Bounds
  <2>4. f \in Filter /\ f.start \in Nat /\ f.length \in Nat
    BY <1>1, <2>1, Bounds
  <2> QED
    BY <2>1, <2>2, <2>3, <2>4
<1>3. Taken \in Nat /\ Taken + 1 \in 1 .. Len(declared) /\ f = declared[Taken + 1]
      /\ Tail(filter_stack) \in Seq(Filter) /\ declared \in Seq(Filter)
  BY <1>1, <1>2, HeadOfQueue DEF Types, SuffixInv
<1> HIDE DEF f
<1>5. memory' \in Seq(Cell)
  BY <1>1, <1>2, RunType
<1>6. Types' /\ OutputFits' /\ FilterstartIsHead'
  <2>2. Types'
    BY <1>1, <1>2, <1>3, <1>5 DEF Types, Frame
  <2>3. OutputFits'
    BY <1>1, <1>2 DEF OutputFits
  <2>4. FilterstartIsHead'
    BY <1>1 DEF FilterstartIsHead
  <2> QED
    BY <2>2, <2>3, <2>4
<1>7. SuffixInv' /\ Taken' = Taken + 1
  BY <1>1, SuffixTail
<1>8. ASSUME Regular PROVE Filtering'
  <2>1. /\ Written /\ Len(out) = block.start /\ block.start + block.length <= Total
        /\ \A i \in 1 .. Taken : EndOf(i) <= block.start + block.length
        /\ Len(memory) = block.length
        /\ \A k \in 1 .. block.length :
             memory[k] = [at |-> block.start + k - 1, by |-> RunsOver(declared, block.start + k - 1)[Taken]]
    BY <1>1, <1>2, <1>8, FilteringKeeps DEF Filtering
  <2>2. f.length >= ShortestBlock /\ EndOf(Taken + 1) = f.start + f.length
    BY <1>1, <1>2, <1>8, HeadIsWellFormed DEF Regular, f
  <2>3. f.start = block.start /\ f.length = block.length
    BY <1>1, <2>1
  <2>5. Total' = Total /\ \A i : EndOf(i)' = EndOf(i)
    BY <1>1, FrameKeeps
  <2>6. Written'
    <3>1. \A k \in 1 .. Len(out') : out'[k] = Expected(k - 1)
      BY <1>1, <2>1 DEF Written
    <3> QED
      BY <1>1, <3>1, FilteringKeeps
  <2>7. \A i \in 1 .. Taken + 1 : EndOf(i) <= f.start + f.length
    <3>1. f.start + f.length \in Int /\ f.start + f.length <= f.start + f.length
      BY <1>2
    <3>2. \A i \in 1 .. Taken : EndOf(i) <= f.start + f.length
      BY <2>1, <2>3
    <3>3. EndOf(Taken + 1) <= f.start + f.length
      BY <2>2, <3>1
    <3> QED
      BY <1>2, <3>1, <3>2, <3>3, OneMoreTaken
  <2>8. Len(memory') = f.length
        /\ \A k \in 1 .. f.length : memory'[k] = [at |-> memory[k].at, by |-> Append(memory[k].by, TagOf(f))]
    BY <1>1, <1>2, <2>2, RunType
  <2>9. ASSUME NEW k \in 1 .. f.length
        PROVE  memory'[k] = [at |-> f.start + k - 1, by |-> RunsOver(declared, f.start + k - 1)[Taken + 1]]
    <3> DEFINE p == f.start + k - 1
    <3>1. p \in Int /\ f.start <= p /\ p < f.start + f.length
      BY <1>2
    <3>2. memory[k] = [at |-> p, by |-> RunsOver(declared, p)[Taken]]
      BY <2>1, <2>3
    <3> HIDE DEF p
    <3>4. RunsOver(declared, p)[Taken + 1] = Append(RunsOver(declared, p)[Taken], TagOf(f))
      <4>1. Covers(f, p)
        BY <3>1 DEF Covers
      <4>2. (Taken + 1) - 1 = Taken
        BY <1>3
      <4> QED
        BY <1>3, <3>1, <4>1, <4>2, RunsOverSteps
    <3>5. memory'[k] = [at |-> p, by |-> Append(RunsOver(declared, p)[Taken], TagOf(f))]
      <4>1. memory[k].at = p /\ memory[k].by = RunsOver(declared, p)[Taken]
        BY <3>2
      <4> QED
        BY <2>8, <4>1
    <3> QED
      BY <3>4, <3>5 DEF p
  <2>10. Taken' >= 1 /\ block'.start = f.start /\ block'.length = f.length
         /\ declared'[Taken'] = f
    BY <1>1, <1>3, <1>7, <2>3 DEF Frame
  <2>11. \A i \in 1 .. Taken' : EndOf(i)' <= block'.start + block'.length
    BY <1>7, <2>5, <2>7, <2>10
  <2>12. \A k \in 1 .. block'.length :
           memory'[k] = [at |-> block'.start + k - 1, by |-> RunsOver(declared', block'.start + k - 1)[Taken']]
    BY <1>1, <1>7, <2>9, <2>10 DEF Frame
  <2>13. Len(out') = block'.start /\ block'.start + block'.length <= Total' /\ Len(memory') = block'.length
    BY <1>1, <2>1, <2>5, <2>8, <2>10
  <2>14. block'.start = declared'[Taken'].start /\ block'.length = declared'[Taken'].length
    BY <2>10
  <2>15. phase' = "chain"
    BY <1>1
  <2> QED
    BY <2>6, <2>10, <2>11, <2>12, <2>13, <2>14, <2>15 DEF Filtering
<1>9. OutInv' /\ DecodeInv' /\ QueueInv' /\ RingInv'
  BY <1>1, <1>8, FilteringKeeps, FrameKeeps
<1> QED
  BY <1>6, <1>7, <1>9 DEF IInv

(* What follows a block is never more than the buffer takes.               *)
LEMMA GapType ==
  ASSUME Rar30Assumption, Types, NEW o \in Seq(Cell), Len(o) <= Target, NEW end \in Nat
  PROVE  /\ Gap(o, end) \in Seq(Cell) /\ Len(o) + Len(Gap(o, end)) <= Target
         /\ end + Len(Gap(o, end)) <= NextStart(Total) \/ Gap(o, end) = <<>>
         /\ end < NextStart(Total) /\ NextStart(Total) - end <= Target - Len(o) =>
              Len(Gap(o, end)) = NextStart(Total) - end
         /\ end >= NextStart(Total) => Gap(o, end) = <<>>
         /\ \A k \in 1 .. Len(Gap(o, end)) : Gap(o, end)[k] = CopyOut(end, NextStart(Total) - end)[k]
<1> DEFINE next == NextStart(Total)
<1> DEFINE c == CopyOut(end, next - end)
<1> DEFINE n == Lesser(next - end, Target - Len(o))
<1>1. next \in Nat /\ Target \in Nat /\ Len(o) \in Nat
  BY Bounds
<1>2. Gap(o, end) = IF end < next THEN SubSeq(c, 1, n) ELSE <<>>
  BY DEF Gap
<1> HIDE DEF next
<1>3. c \in Seq(Cell) /\ Len(c) = IF next - end < 0 THEN 0 ELSE next - end
  <2>1. end \in Int /\ next - end \in Int
    BY <1>1
  <2> QED
    BY <2>1, CopyType
<1> HIDE DEF c
<1>4. CASE end < next
  <2>1. n \in Nat /\ n <= Len(c) /\ n <= Target - Len(o) /\ n <= next - end
        /\ (next - end <= Target - Len(o) => n = next - end)
    BY <1>1, <1>3, <1>4 DEF Lesser
  <2> HIDE DEF n
  <2>2. SubSeq(c, 1, n) \in Seq(Cell) /\ Len(SubSeq(c, 1, n)) = n
        /\ \A k \in 1 .. n : SubSeq(c, 1, n)[k] = c[k]
    BY <1>3, <2>1
  <2>3. Gap(o, end) = SubSeq(c, 1, n)
    BY <1>2, <1>4
  <2>4. Len(Gap(o, end)) = n /\ Gap(o, end) \in Seq(Cell) /\ \A k \in 1 .. n : Gap(o, end)[k] = c[k]
    BY <2>2, <2>3
  <2>5. Len(o) + n <= Target /\ end + n <= next /\ ~(end >= next)
    BY <1>1, <1>4, <2>1
  <2> QED
    BY <2>1, <2>4, <2>5 DEF next, c
<1>5. CASE ~(end < next)
  <2>1. Gap(o, end) = <<>>
    BY <1>2, <1>5
  <2>2. <<>> \in Seq(Cell) /\ Len(<<>>) = 0
    OBVIOUS
  <2>3. \A k \in 1 .. 0 : FALSE
    OBVIOUS
  <2> QED
    BY <1>1, <1>5, <2>1, <2>2, <2>3 DEF next
<1> QED
  BY <1>4, <1>5

(* The block is written, and what follows it up to the next one.           *)
LEMMA FlushBlockKeeps ==
  ASSUME Rar30Assumption, IInv, FlushBlock
  PROVE  IInv'
<1> DEFINE m == Clip(memory)
<1> DEFINE written == out \o m
<1> DEFINE end == block.start + block.length
<1> DEFINE gap == Gap(written, end)
<1>1. /\ phase = "chain" /\ ~Chained
      /\ out' = written \o gap
      /\ filterstart' = FilterstartAfter /\ filter_stack' = filter_stack /\ phase' = "apply"
      /\ memory' = <<>> /\ block' = NoBlock /\ pos' = pos
      /\ Frame
  BY DEF FlushBlock, Frame, programVars, OutputPhases
<1>2. /\ Types /\ OutputFits /\ RingInv /\ SuffixInv
      /\ phase \in OutputPhases /\ out \in Seq(Cell) /\ Len(out) \in Nat /\ Total \in Nat
      /\ memory \in Seq(Cell) /\ Len(memory) \in Nat /\ Len(out) <= Target /\ Target \in Nat
      /\ block.start \in Nat /\ block.length \in Nat
  <2>1. Types /\ OutputFits /\ RingInv /\ SuffixInv /\ phase \in OutputPhases
    BY <1>1 DEF IInv, OutputPhases
  <2>2. out \in Seq(Cell) /\ memory \in Seq(Cell) /\ block \in Block
    BY <2>1 DEF Types
  <2>3. Len(out) \in Nat /\ Len(memory) \in Nat
    BY <2>2
  <2>4. block.start \in Nat /\ block.length \in Nat
    BY <2>2 DEF Block
  <2>5. Total \in Nat /\ Target \in Nat
    BY <2>1, Bounds
  <2> QED
    BY <2>1, <2>2, <2>3, <2>4, <2>5 DEF OutputFits
<1>3. end \in Nat
  BY <1>2
<1>4. /\ m \in Seq(Cell) /\ Len(m) = Lesser(Len(memory), Target - Len(out)) /\ Len(m) \in Nat
      /\ Len(out) + Len(m) <= Target
      /\ \A k \in 1 .. Len(m) : m[k] = memory[k]
  <2>1. /\ m \in Seq(Cell) /\ Len(m) = Lesser(Len(memory), Target - Len(out))
        /\ Len(out) + Len(m) <= Target
        /\ \A k \in 1 .. Len(m) : m[k] = memory[k]
    BY <1>2, ClipType
  <2> HIDE DEF m
  <2>2. Len(m) \in Nat
    BY <2>1
  <2> QED
    BY <2>1, <2>2
<1> HIDE DEF m
<1>5. written \in Seq(Cell) /\ Len(written) = Len(out) + Len(m) /\ Len(written) <= Target
      /\ Len(written) \in Nat
  <2>1. out \o m \in Seq(Cell) /\ Len(out \o m) = Len(out) + Len(m)
    BY <1>2, <1>4, ConcatProperties
  <2> QED
    BY <1>2, <1>4, <2>1
<1> HIDE DEF written, end
<1>6. /\ gap \in Seq(Cell) /\ Len(gap) \in Nat /\ Len(written) + Len(gap) <= Target
      /\ end < NextStart(Total) /\ NextStart(Total) - end <= Target - Len(written) =>
           Len(gap) = NextStart(Total) - end
      /\ end >= NextStart(Total) => gap = <<>>
      /\ \A k \in 1 .. Len(gap) : gap[k] = CopyOut(end, NextStart(Total) - end)[k]
  <2>1. /\ gap \in Seq(Cell) /\ Len(written) + Len(gap) <= Target
        /\ end < NextStart(Total) /\ NextStart(Total) - end <= Target - Len(written) =>
             Len(gap) = NextStart(Total) - end
        /\ end >= NextStart(Total) => gap = <<>>
        /\ \A k \in 1 .. Len(gap) : gap[k] = CopyOut(end, NextStart(Total) - end)[k]
    BY <1>2, <1>3, <1>5, GapType
  <2> HIDE DEF gap
  <2>2. Len(gap) \in Nat
    BY <2>1
  <2> QED
    BY <2>1, <2>2
<1> HIDE DEF gap
<1>7. out' \in Seq(Cell) /\ Len(out') = Len(written) + Len(gap)
  <2>1. written \o gap \in Seq(Cell) /\ Len(written \o gap) = Len(written) + Len(gap)
    BY <1>5, <1>6, ConcatProperties
  <2> QED
    BY <1>1, <2>1
<1>8. Types' /\ OutputFits' /\ FilterstartIsHead'
  <2>1. block' \in Block /\ memory' \in Seq(Cell)
    BY <1>1 DEF Block, NoBlock
  <2>2. filterstart' \in Nat
    <3>1. Pending => NextFilter.start \in Nat
      BY <1>2, Bounds
    <3> QED
      BY <1>1, <3>1, Sizes DEF FilterstartAfter
  <2>3. Types'
    BY <1>1, <1>2, <1>7, <2>1, <2>2 DEF Types, Frame
  <2>4. OutputFits'
    BY <1>6, <1>7 DEF OutputFits
  <2>5. FilterstartIsHead'
    BY <1>1 DEF FilterstartIsHead, FilterstartAfter, Pending, NextFilter
  <2> QED
    BY <2>3, <2>4, <2>5
<1>9. SuffixInv' /\ Taken' = Taken /\ NextStart(Total)' = NextStart(Total)
  BY <1>1, SuffixSame
<1>10. ASSUME Regular PROVE Filtering'
  <2>1. /\ Written /\ Len(out) = block.start /\ block.start + block.length <= Total
        /\ Taken >= 1 /\ block.start = declared[Taken].start /\ block.length = declared[Taken].length
        /\ \A i \in 1 .. Taken : EndOf(i) <= block.start + block.length
        /\ Len(memory) = block.length
        /\ \A k \in 1 .. block.length :
             memory[k] = [at |-> block.start + k - 1, by |-> RunsOver(declared, block.start + k - 1)[Taken]]
    BY <1>1, <1>2, <1>10, FilteringKeeps DEF Filtering
  <2>2. Total <= Target /\ NextStart(Total) \in Nat /\ NextStart(Total) <= Total
    BY <1>2, Bounds
  <2>3. Len(m) = block.length /\ Len(written) = end /\ end <= Total
    <3>1. Len(memory) <= Target - Len(out)
      BY <1>2, <2>1, <2>2
    <3>2. Len(m) = block.length
      <4>1. Len(m) = Len(memory)
        BY <1>4, <3>1 DEF Lesser
      <4> QED
        BY <2>1, <4>1
    <3> QED
      BY <1>2, <1>5, <2>1, <3>2 DEF end
  <2>4. Taken \in 1 .. Len(declared) /\ Len(declared) \in Nat /\ declared \in Seq(Filter)
    <3>1. Taken \in 0 .. Len(declared) /\ declared \in Seq(Filter)
      BY <1>2, HeadOfQueue DEF Types
    <3> QED
      BY <2>1, <3>1
  <2>5. \A i \in 1 .. Len(declared) : declared[i].start \in Nat /\ declared[i].length \in Nat
    <3>1. \A i \in 1 .. Len(declared) : declared[i] \in Filter
      BY <2>4
    <3>2. \A f \in Filter : f.start \in Nat /\ f.length \in Nat
      BY DEF Filter
    <3> QED
      BY <3>1, <3>2
  <2>6. Pending => end <= NextFilter.start
    <3> SUFFICES ASSUME Pending PROVE end <= NextFilter.start
      OBVIOUS
    <3>1. Taken + 1 \in 1 .. Len(declared) /\ NextFilter = declared[Taken + 1]
      BY <1>2, HeadOfQueue
    <3>2. Taken + 1 \in DOMAIN declared \ {1} /\ (Taken + 1) - 1 = Taken
      BY <2>4, <3>1
    <3>3. \/ declared[Taken + 1].start >= declared[Taken].start + declared[Taken].length
          \/ declared[Taken + 1].start = declared[Taken].start /\ declared[Taken + 1].length = declared[Taken].length
      <4>1. \/ declared[Taken + 1].start >= declared[(Taken + 1) - 1].start + declared[(Taken + 1) - 1].length
            \/ declared[Taken + 1].start = declared[(Taken + 1) - 1].start
               /\ declared[Taken + 1].length = declared[(Taken + 1) - 1].length
        BY <1>10, <3>2 DEF Regular, WellFormed
      <4> QED
        BY <3>2, <4>1
    <3>4. ~(NextFilter.start = block.start /\ NextFilter.length = Len(memory))
      BY <1>1 DEF Chained
    <3>5. declared[Taken + 1].start \in Nat
      BY <2>5, <3>1
    <3> QED
      BY <1>2, <2>1, <3>1, <3>3, <3>4, <3>5 DEF end
  <2>7. ASSUME NEW k \in 1 .. Len(m) PROVE m[k] = Expected(Len(out) + k - 1)
    <3> DEFINE p == block.start + k - 1
    <3>1. p \in Int /\ p < end
      BY <1>2, <2>3 DEF end
    <3>2. m[k] = [at |-> p, by |-> RunsOver(declared, p)[Taken]]
      BY <1>4, <2>1, <2>3
    <3> HIDE DEF p
    <3>3. ASSUME NEW i \in Taken + 1 .. Len(declared) PROVE ~Covers(declared[i], p)
      <4>1. Pending
        BY <1>2, <2>4, HeadOfQueue
      <4>2. Taken + 1 \in 1 .. Len(declared) /\ NextFilter = declared[Taken + 1]
        BY <1>2, <4>1, HeadOfQueue
      <4>3. declared[Taken + 1].start <= declared[i].start
        BY <1>10, <2>4, <4>2, Ordered DEF Regular
      <4>4. i \in 1 .. Len(declared)
        BY <2>4
      <4>5. declared[i].start \in Nat /\ declared[Taken + 1].start \in Nat
        BY <2>5, <4>2, <4>4
      <4> QED
        BY <1>3, <2>6, <3>1, <4>1, <4>2, <4>3, <4>5 DEF Covers
    <3>4. Taken \in 0 .. Len(declared) /\ Len(declared) \in Taken .. Len(declared)
      BY <2>4
    <3>5. RunsOver(declared, p)[Len(declared)] = RunsOver(declared, p)[Taken]
      BY <2>4, <3>1, <3>3, <3>4, RunsSame
    <3>6. m[k] = Expected(p)
      BY <3>2, <3>5 DEF Expected
    <3>7. p = Len(out) + k - 1
      BY <2>1 DEF p
    <3> QED
      BY <3>6, <3>7
  <2>8. \A k \in 1 .. Len(written) : written[k] = Expected(k - 1)
    <3>1. \A k \in 1 .. Len(out) : out[k] = Expected(k - 1)
      BY <2>1 DEF Written
    <3> QED
      BY <1>2, <1>4, <2>7, <3>1, Appended DEF written
  <2>9. Len(out') = NextStart(Total) /\ end <= Len(out') /\ \A k \in 1 .. Len(out') : out'[k] = Expected(k - 1)
    <3>1. CASE end < NextStart(Total)
      <4> DEFINE n == NextStart(Total) - end
      <4>1. n \in Nat /\ Len(written) + n = NextStart(Total) /\ Len(gap) = n
        <5>1. NextStart(Total) - end <= Target - Len(written)
          BY <1>2, <1>3, <2>2, <2>3, <3>1
        <5>2. Len(gap) = NextStart(Total) - end
          BY <1>6, <3>1, <5>1
        <5> QED
          BY <1>3, <2>2, <2>3, <3>1, <5>2
      <4>2. \A k \in 1 .. n : gap[k] = CopyOut(Len(written), n)[k]
        BY <1>6, <2>3, <4>1
      <4>3. \A i \in 1 .. Taken : EndOf(i) <= Len(written)
        BY <2>1, <2>3 DEF end
      <4> HIDE DEF n
      <4>4. Len(written) + n <= NextStart(Total)
        BY <2>2, <4>1
      <4>5. Len(written \o gap) = Len(written) + n
            /\ \A k \in 1 .. Len(written \o gap) : (written \o gap)[k] = Expected(k - 1)
        <5>1. Len(gap) = n /\ n \in Nat /\ gap \in Seq(Cell) /\ written \in Seq(Cell)
          BY <1>5, <1>6, <4>1
        <5>2. Len(written) \in Nat
          BY <1>5
        <5>3. \A k \in 1 .. n : CopyOut(Len(written), n)[k] = Expected(Len(written) + k - 1)
          BY <1>2, <1>10, <4>3, <4>4, <5>1, <5>2, CopyExpected
        <5>4. \A k \in 1 .. Len(gap) : gap[k] = Expected(Len(written) + k - 1)
          BY <4>2, <5>1, <5>3
        <5> QED
          BY <2>8, <5>1, <5>4, Appended
      <4> QED
        BY <1>1, <1>3, <2>2, <3>1, <4>1, <4>5
    <3>2. CASE ~(end < NextStart(Total))
      <4>1. gap = <<>>
        BY <1>3, <1>6, <2>2, <3>2
      <4>2. out' = written
        BY <1>1, <1>5, <4>1
      <4>3. NextStart(Total) = end
        <5>1. CASE Pending
          <6>1. NextFilter.start \in Nat /\ NextStart(Total) = Lesser(NextFilter.start, Total)
            BY <1>2, <5>1, Bounds
          <6> QED
            BY <1>2, <1>3, <2>2, <2>3, <2>6, <3>2, <5>1, <6>1 DEF Lesser
        <5>2. CASE ~Pending
          <6>1. NextStart(Total) = Total
            BY <1>2, <5>2, Bounds
          <6> QED
            BY <1>2, <1>3, <2>2, <2>3, <3>2, <6>1
        <5> QED
          BY <5>1, <5>2
      <4> QED
        BY <1>3, <2>3, <2>8, <4>2, <4>3
    <3> QED
      BY <3>1, <3>2
  <2>10. Written'
    BY <1>1, <2>9, FilteringKeeps
  <2>11. \A i : EndOf(i)' = EndOf(i)
    BY <1>1, FrameKeeps
  <2>12. \A i \in 1 .. Taken : EndOf(i) <= Len(out')
    <3> SUFFICES ASSUME NEW i \in 1 .. Taken PROVE EndOf(i) <= Len(out')
      OBVIOUS
    <3>1. i \in 1 .. Len(declared)
      BY <2>4
    <3>2. EndOf(i) \in Nat
      BY <2>5, <3>1 DEF EndOf
    <3>3. EndOf(i) <= end
      BY <2>1 DEF end
    <3>4. Len(out') \in Nat /\ end <= Len(out')
      BY <2>2, <2>9
    <3> QED
      BY <1>3, <3>2, <3>3, <3>4
  <2>13. \A i \in 1 .. Taken' : EndOf(i)' <= Len(out')
    BY <1>9, <2>11, <2>12
  <2>14. Len(out') = NextStart(Total)' /\ phase' = "apply"
    BY <1>1, <1>9, <2>9
  <2> QED
    BY <2>10, <2>13, <2>14 DEF Filtering
<1>11. OutInv' /\ DecodeInv' /\ QueueInv' /\ RingInv'
  BY <1>1, <1>10, FilteringKeeps, FrameKeeps
<1> QED
  BY <1>8, <1>9, <1>11 DEF IInv

(* The invariant holds before anything is decoded.                         *)
LEMMA InitIsSound ==
  ASSUME Rar30Assumption, FiltersInit
  PROVE  IInv
<1>1. /\ decoded = 0 /\ ring = [slot \in 0 .. WindowSize - 1 |-> -1]
      /\ num_filtercodes = 0 /\ lastfilternum = 0
      /\ usagecount = [p \in Programs |-> 0] /\ oldfilterlength = [p \in Programs |-> 0]
      /\ filter_stack = <<>> /\ filterstart = Never /\ phase = "decode"
      /\ pos = 0 /\ memory = <<>> /\ block = NoBlock /\ declared = <<>> /\ out = <<>>
  BY DEF FiltersInit
<1>2. WindowSize \in Nat \ {0} /\ MaxPrograms \in Nat \ {0} /\ Never \in Nat /\ Target \in Nat
  BY Sizes
<1>3. Types
  <2>1. ring \in [0 .. WindowSize - 1 -> Int] /\ \A slot \in 0 .. WindowSize - 1 : ring[slot] \in -1 .. decoded
    BY <1>1, <1>2
  <2>2. num_filtercodes \in 0 .. MaxPrograms /\ lastfilternum \in Programs
    BY <1>1, <1>2 DEF Programs
  <2>3. usagecount \in [Programs -> Nat] /\ oldfilterlength \in [Programs -> Nat]
    BY <1>1
  <2>4. filter_stack \in Seq(Filter) /\ declared \in Seq(Filter)
    <3>1. <<>> \in Seq(Filter)
      OBVIOUS
    <3> QED
      BY <1>1, <3>1
  <2>5. memory \in Seq(Cell) /\ out \in Seq(Cell)
    <3>1. <<>> \in Seq(Cell)
      OBVIOUS
    <3> QED
      BY <1>1, <3>1
  <2>6. block \in Block
    BY <1>1 DEF NoBlock, Block
  <2> QED
    BY <1>1, <1>2, <2>1, <2>2, <2>3, <2>4, <2>5, <2>6 DEF Types
<1>4. OutputFits /\ DecodeInv /\ FilterstartIsHead
  <2>1. Len(out) = 0 /\ ~Pending
    BY <1>1 DEF Pending
  <2> QED
    BY <1>1, <1>2, <2>1 DEF OutputFits, DecodeInv, FilterstartIsHead
<1>5. QueueInv /\ RingInv
  <2>1. Len(filter_stack) = 0 /\ \A i \in 1 .. 0 : FALSE
    BY <1>1
  <2>2. num_filtercodes = 0 /\ \A p \in 0 .. 0 - 1 : FALSE
    BY <1>1
  <2>3. QueueInv
    BY <2>1, <2>2 DEF QueueInv
  <2>4. RingInv
    BY <1>1 DEF RingInv
  <2> QED
    BY <2>3, <2>4
<1>6. SuffixInv /\ OutInv
  BY <1>1 DEF SuffixInv, OutInv, OutputPhases
<1> QED
  BY <1>3, <1>4, <1>5, <1>6 DEF IInv

(* Every step keeps it.                                                    *)
LEMMA StepKeeps ==
  ASSUME Rar30Assumption, IInv, [FiltersNext]_filtersVars
  PROVE  IInv'
<1>0. Types
  BY DEF IInv
<1>1. ASSUME NEW n \in Tokens, Emit(n) PROVE IInv'
  BY <1>1, EmitKeeps
<1>2. CASE Declared \/ Refused
  <2>1. CASE Declared
    BY <2>1, DeclaredKeeps
  <2>2. CASE Refused
    BY <2>2, FailKeeps DEF Refused, MayDeclare
  <2> QED
    BY <1>2, <2>1, <2>2
<1>3. ASSUME NEW num \in 0 .. MaxPrograms, NEW d \in Distances, NEW l \in LengthChoices,
             DeclareNumbered(num, d, l)
      PROVE  IInv'
  BY <1>0, <1>2, <1>3, DeclareCases
<1>4. ASSUME NEW d \in Distances, NEW l \in LengthChoices, DeclareCleared(d, l) \/ DeclareLast(d, l)
      PROVE  IInv'
  BY <1>0, <1>2, <1>4, DeclareCases
<1>5. CASE BadCode
  BY <1>5, FailKeeps DEF BadCode
<1>6. CASE EndOfData
  BY <1>6, EndOfDataKeeps
<1>7. CASE CopyUnfiltered
  BY <1>7, CopyUnfilteredKeeps
<1>8. CASE EnterFilters
  BY <1>8, EnterFiltersKeeps
<1>9. CASE RunFirst
  BY <1>9, RunFirstKeeps
<1>10. CASE RunChained
  BY <1>10, RunChainedKeeps
<1>11. CASE FlushBlock
  BY <1>11, FlushBlockKeeps
<1>12. CASE LeaveFilters
  BY <1>12, LeaveFiltersKeeps
<1>13. CASE Finish
  BY <1>13, FinishKeeps
<1>14. CASE UNCHANGED filtersVars
  <2>1. /\ decoded' = decoded /\ ring' = ring /\ declared' = declared
        /\ num_filtercodes' = num_filtercodes /\ lastfilternum' = lastfilternum
        /\ usagecount' = usagecount /\ oldfilterlength' = oldfilterlength
        /\ filter_stack' = filter_stack /\ filterstart' = filterstart /\ phase' = phase
        /\ pos' = pos /\ memory' = memory /\ block' = block /\ out' = out
    BY <1>14 DEF filtersVars, programVars, outputVars
  <2>2. Types' /\ OutputFits' /\ DecodeInv' /\ RingInv'
    BY <2>1 DEF IInv, Types, OutputFits, DecodeInv, RingInv
  <2>3. FilterstartIsHead' /\ QueueInv'
    BY <2>1 DEF IInv, FilterstartIsHead, QueueInv, Pending, NextFilter
  <2>4. CASE phase \notin OutputPhases
    BY <2>1, <2>2, <2>3, <2>4 DEF IInv, SuffixInv, OutInv
  <2>5. CASE phase \in OutputPhases
    <3>1. Frame
      BY <2>1, <2>5 DEF Frame
    <3>2. SuffixInv' /\ Taken' = Taken /\ NextFilter' = NextFilter /\ Pending' = Pending
          /\ NextStart(Total)' = NextStart(Total)
      BY <2>1, <3>1, SuffixSame
    <3>3. Total' = Total /\ \A i : EndOf(i)' = EndOf(i)
      BY <3>1, FrameKeeps
    <3>4. ASSUME Regular PROVE Filtering'
      <4>1. Filtering
        BY <3>1, <3>4, FilteringKeeps
      <4>2. Written'
        <5>1. \A k \in 1 .. Len(out') : out'[k] = Expected(k - 1)
          BY <2>1, <4>1 DEF Filtering, Written
        <5> QED
          BY <3>1, <5>1, FilteringKeeps
      <4>3. Lesser(pos, Total)' = Lesser(pos, Total)
        BY <2>1, <3>3 DEF Lesser
      <4> QED
        BY <2>1, <3>2, <3>3, <4>1, <4>2, <4>3 DEF Filtering
    <3> QED
      BY <2>2, <2>3, <3>1, <3>2, <3>4, FilteringKeeps DEF IInv
  <2> QED
    BY <2>4, <2>5
<1> QED
  BY <1>1, <1>3, <1>4, <1>5, <1>6, <1>7, <1>8, <1>9, <1>10, <1>11, <1>12, <1>13, <1>14 DEF FiltersNext

(* So it holds throughout.                                                 *)
LEMMA Invariance ==
  ASSUME Rar30Assumption
  PROVE  FiltersSpec => []IInv
<1>1. FiltersInit => IInv
  BY InitIsSound
<1>2. IInv /\ [FiltersNext]_filtersVars => IInv'
  BY StepKeeps
<1> QED
  BY <1>1, <1>2, PTL DEF FiltersSpec

(* The invariant gives the type invariant of the model,                    *)
LEMMA TypesAreTypeOK ==
  ASSUME Types
  PROVE  FiltersTypeOK
<1>1. DOMAIN ring = 0 .. WindowSize - 1 /\ \A slot \in DOMAIN ring : ring[slot] \in -1 .. decoded
  BY DEF Types
<1>2. \A i \in DOMAIN filter_stack : filter_stack[i] \in Filter
  BY DEF Types
<1>3. DOMAIN usagecount = Programs /\ DOMAIN oldfilterlength = Programs
  BY DEF Types
<1> QED
  BY <1>1, <1>2, <1>3 DEF Types, FiltersTypeOK

(* the condition on the pending programs,                                  *)
LEMMA QueueIsAlive ==
  ASSUME Types, QueueInv
  PROVE  PendingProgramsAlive
<1> SUFFICES ASSUME phase = "decode", NEW i \in DOMAIN filter_stack
             PROVE  /\ filter_stack[i].num < num_filtercodes
                    /\ filter_stack[i].count = Cardinality({j \in 1 .. i - 1 : filter_stack[j].num = filter_stack[i].num})
  BY DEF PendingProgramsAlive
<1>1. i \in 1 .. Len(filter_stack)
  BY DEF Types
<1>2. /\ filter_stack[i].num < num_filtercodes
      /\ filter_stack[i].count = Cardinality(Among(filter_stack, filter_stack[i].num, i - 1))
  BY <1>1 DEF QueueInv
<1> QED
  BY <1>2 DEF Among

(* and, when the output is done, the filtered stream.                      *)
LEMMA OutputIsRight ==
  ASSUME Rar30Assumption, IInv
  PROVE  OutputIsFilteredStream
<1> SUFFICES ASSUME phase = "done", WellFormed(declared), decoded <= WindowSize
             PROVE  out = FilteredStream
  BY DEF OutputIsFilteredStream
<1>1. Written /\ Len(out) = Total
  BY DEF IInv, OutInv, OutputPhases, Filtering
<1>2. out \in Seq(Cell)
  BY DEF IInv, Types
<1>3. out = [k \in 1 .. Len(out) |-> out[k]]
  BY <1>2
<1>4. \A k \in 1 .. Total : out[k] = Expected(k - 1)
  BY <1>1 DEF Written
<1>5. out = [k \in 1 .. Total |-> Expected(k - 1)]
  BY <1>1, <1>3, <1>4
<1> QED
  BY <1>5 DEF FilteredStream

(* The variables keep their types, and the arrays of programs their        *)
(* bounds, for every stream a decoder can read.                            *)
THEOREM TypeCorrect ==
  ASSUME Rar30Assumption
  PROVE  FiltersSpec => []FiltersTypeOK
<1>1. IInv => FiltersTypeOK
  BY TypesAreTypeOK DEF IInv
<1> QED
  BY <1>1, Invariance, PTL

(* However filters are declared, re-declared and cleared                   *)
(* (rar30_parse_filter), the queue only holds filters of programs that     *)
(* exist, each with the count of its program since the last clear, and     *)
(* filterstart is the start of its head whenever rar30_apply_filters can   *)
(* be entered.                                                             *)
THEOREM QueueCorrect ==
  ASSUME Rar30Assumption
  PROVE  FiltersSpec => []QueueIsCurrent
<1>1. IInv => QueueIsCurrent
  BY QueueIsAlive DEF IInv, QueueIsCurrent
<1> QED
  BY <1>1, Invariance, PTL

(* The output never overruns the caller's buffer, and for every queue an   *)
(* archiver declares the walk of rar30_decompress and the chain and gap    *)
(* handling of rar30_apply_filters between them write every byte of the    *)
(* stream once, in order, run through exactly the filters declared over    *)
(* it: for every size of window and buffer, as long as the window still    *)
(* holds the stream.                                                       *)
THEOREM OutputCorrect ==
  ASSUME Rar30Assumption
  PROVE  FiltersSpec => []OutputIsClippedStream
<1>1. IInv => OutputIsClippedStream
  BY OutputIsRight DEF IInv, OutputIsClippedStream
<1> QED
  BY <1>1, Invariance, PTL
=============================================================================
