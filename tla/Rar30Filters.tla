---------------------------- MODULE Rar30Filters ----------------------------
(***************************************************************************)
(* The filters of RAR 3 (rar/rar30.c): the decoder finds them declared in  *)
(* the stream, ahead of the data they are for, and queues them; when the   *)
(* data is decoded it walks the window once, copying what no filter covers *)
(* and running the virtual machine's programs over what one does.          *)
(*                                                                         *)
(* Data is symbolic: the byte at a position of the stream is that position *)
(* and the programs that were run over it, so that a byte misplaced, lost, *)
(* repeated or filtered in the wrong order is another value.               *)
(***************************************************************************)
EXTENDS Integers, Sequences, FiniteSets

CONSTANTS
  WindowSize, \* RAR30_WINDOW_SIZE: 4 MiB
  Target,     \* *out_len: the size the caller expects
  MaxPrograms,\* RAR30_MAX_FILTERS
  Tokens,     \* bytes a literal or a match may add
  Distances,  \* how far ahead of the position a filter's block may start
  Lengths,    \* lengths of a block
  ShortestBlock, \* a program leaves a shorter block empty (E8: 4 bytes)
  MaxPending  \* filters declared, for model checking

Rar30Assumption ==
  /\ {WindowSize, Target, MaxPrograms} \subseteq Nat \ {0}
  /\ Tokens \subseteq Nat \ {0} /\ Distances \subseteq Nat /\ Lengths \subseteq Nat
  /\ ShortestBlock \in Nat /\ MaxPending \in Nat
  \* so that a copy goes round the window at most once, which is all that
  \* rar_lzss_copy_bytes does
  /\ Target <= WindowSize * 2

VARIABLES
  decoded,      \* bytes decoded
  ring,         \* the window: the stream position last stored in each slot
  num_filtercodes, usagecount, oldfilterlength, lastfilternum, \* the programs
  filter_stack, \* filters declared, in order
  filterstart,
  phase,        \* what rar30_decompress is doing
  pos, memory, block, \* locals of the output stage
  declared,     \* history: the filters queued when the data ended
  out           \* what is in the caller's buffer

programVars == <<num_filtercodes, usagecount, oldfilterlength, lastfilternum>>
outputVars  == <<pos, memory, block, declared, out>>
filtersVars == <<decoded, ring, programVars, filter_stack, filterstart, phase, outputVars>>

Programs == 0 .. MaxPrograms - 1
Never    == Target + WindowSize + 1000 \* INT64_MAX
SameLength == -1 \* no flag 0x20: the length its program had last
NoBlock  == [start |-> 0, length |-> 0]
Lesser(a, b) == IF a < b THEN a ELSE b

FiltersInit ==
  /\ decoded = 0
  /\ ring = [slot \in 0 .. WindowSize - 1 |-> -1]
  /\ num_filtercodes = 0 /\ lastfilternum = 0
  /\ usagecount = [p \in Programs |-> 0] /\ oldfilterlength = [p \in Programs |-> 0]
  /\ filter_stack = <<>> /\ filterstart = Never
  /\ phase = "decode"
  /\ pos = 0 /\ memory = <<>> /\ block = NoBlock /\ declared = <<>> /\ out = <<>>

-----------------------------------------------------------------------------
(* A literal or a match: n bytes into the window.                          *)
Emit(n) ==
  /\ phase = "decode" /\ decoded < Target
  /\ decoded' = decoded + n
  /\ ring' = [slot \in DOMAIN ring |->
       LET stored == {p \in decoded .. decoded + n - 1 : p % WindowSize = slot}
       IN  IF stored = {} THEN ring[slot] ELSE CHOOSE p \in stored : \A q \in stored : q <= p]
  /\ UNCHANGED <<programVars, filter_stack, filterstart, phase, outputVars>>

Fail ==
  /\ phase' = "failed"
  /\ UNCHANGED <<decoded, ring, outputVars>>

(* rar30_parse_filter appends the invocation; the first one of the queue   *)
(* also sets filterstart.                                                  *)
Enqueue(queue, filter) ==
  /\ filter_stack' = Append(queue, filter)
  /\ filterstart' = IF queue = <<>> THEN filter.start ELSE filterstart

DeclareAfter(queue, programs, num, isnew, distance, length) ==
  LET count  == (IF isnew THEN -1 ELSE usagecount[num]) + 1
      old    == IF isnew THEN 0 ELSE oldfilterlength[num]
      blen   == IF length = SameLength THEN old ELSE length
      filter == [num |-> num, count |-> count, start |-> decoded + distance, length |-> blen]
  IN  /\ usagecount' = [usagecount EXCEPT ![num] = count]
      /\ oldfilterlength' = [oldfilterlength EXCEPT ![num] = blen]
      /\ IF isnew \/ num < programs
           THEN /\ num_filtercodes' = IF isnew THEN num + 1 ELSE programs
                /\ Enqueue(queue, filter)
                /\ UNCHANGED <<decoded, ring, phase, outputVars>>
           ELSE /\ UNCHANGED num_filtercodes
                /\ filter_stack' = queue /\ UNCHANGED filterstart
                /\ Fail

MayDeclare == phase = "decode" /\ decoded < Target /\ Len(filter_stack) < MaxPending

KnownOrNext(num) == num <= num_filtercodes /\ num < MaxPrograms

(* Flag 0x80: the program is named, and is new when it is the next one.    *)
DeclareNumbered(num, distance, length) ==
  /\ MayDeclare
  /\ IF KnownOrNext(num)
       THEN /\ lastfilternum' = num
            /\ DeclareAfter(filter_stack, num_filtercodes, num, num = num_filtercodes,
                            distance, length)
       ELSE /\ UNCHANGED <<programVars, filter_stack, filterstart>>
            /\ Fail

QueueKeptByClear == filter_stack

(* Number 0: every program is freed, and the filters that would have run   *)
(* them with it.                                                           *)
QueueAfterClear == <<>>

DeclareCleared(distance, length) ==
  /\ MayDeclare
  /\ lastfilternum' = 0
  /\ DeclareAfter(QueueAfterClear, 0, 0, TRUE, distance, length)

(* No flag 0x80: the program used last.                                    *)
DeclareLast(distance, length) ==
  /\ MayDeclare
  /\ DeclareAfter(filter_stack, num_filtercodes, lastfilternum, FALSE, distance, length)
  /\ UNCHANGED lastfilternum

-----------------------------------------------------------------------------
Total == Lesser(decoded, Target)

(* The end-of-data symbol, or the loop condition.                          *)
EndOfData ==
  /\ phase = "decode"
  /\ phase' = "walk"
  /\ declared' = filter_stack
  /\ UNCHANGED <<decoded, ring, programVars, filter_stack, filterstart, pos, memory, block, out>>

(* A code that is none, an input that ends within one.                     *)
BadCode ==
  /\ phase = "decode" /\ decoded < Target
  /\ Fail
  /\ UNCHANGED <<programVars, filter_stack, filterstart>>

(* rar_lzss_copy_bytes, from whatever the slots hold by now.               *)
CopyOut(start, len) ==
  [k \in 1 .. len |-> [at |-> ring[(start + k - 1) % WindowSize], by |-> <<>>]]

Clip(bytes) == SubSeq(bytes, 1, Lesser(Len(bytes), Target - Len(out)))

(* What a run leaves on a byte: the program, and what it was told.         *)
TagOf(f) == [num |-> f.num, count |-> f.count]

(* One run of a program over the virtual machine's memory: a block too     *)
(* short for it is left with filtered_len 0.                               *)
Run(filter, bytes) ==
  IF filter.length < ShortestBlock THEN <<>>
  ELSE [k \in DOMAIN bytes |->
          [bytes[k] EXCEPT !.by = Append(@, TagOf(filter))]]

Pending    == filter_stack # <<>>
NextFilter == Head(filter_stack)

(* The next filter, if it starts before the boundary.                      *)
NextStart(boundary) == IF Pending /\ NextFilter.start < boundary THEN NextFilter.start ELSE boundary

Walking == phase = "walk" /\ pos < Total /\ Len(out) < Target

CopyUnfiltered ==
  /\ Walking
  /\ ~(Pending /\ pos = NextFilter.start)
  /\ LET next == NextStart(Total)
     IN  out' = out \o Clip(CopyOut(pos, next - pos)) /\ pos' = next
  /\ UNCHANGED <<decoded, ring, programVars, filter_stack, filterstart, phase, memory, block, declared>>

(* rar30_apply_filters, whose first copy is for a filter further on.       *)
EnterFilters ==
  /\ Walking
  /\ Pending /\ pos = NextFilter.start
  /\ out' = IF pos < filterstart
              THEN out \o Clip(CopyOut(pos, Lesser(filterstart, Total) - pos)) ELSE out
  /\ phase' = "apply"
  /\ UNCHANGED <<decoded, ring, programVars, filter_stack, filterstart, pos, memory, block, declared>>

InReachBehind == Pending /\ NextFilter.start < pos

InReach == Pending /\ NextFilter.start <= Total

RunFirst ==
  /\ phase = "apply"
  /\ InReach
  /\ memory' = Run(NextFilter, CopyOut(NextFilter.start, NextFilter.length))
  /\ block' = [start |-> NextFilter.start, length |-> NextFilter.length]
  /\ filter_stack' = Tail(filter_stack)
  /\ phase' = "chain"
  /\ UNCHANGED <<decoded, ring, programVars, filterstart, pos, declared, out>>

ChainedNever == FALSE

(* The next filter is for what the one before it produced.                 *)
Chained == Pending /\ NextFilter.start = block.start /\ NextFilter.length = Len(memory)

RunChained ==
  /\ phase = "chain"
  /\ Chained
  /\ memory' = Run(NextFilter, memory)
  /\ filter_stack' = Tail(filter_stack)
  /\ UNCHANGED <<decoded, ring, programVars, filterstart, phase, pos, block, declared, out>>

GapUnclipped(written, end) ==
  CopyOut(end, NextStart(Total) - end)

(* What no filter covers, up to the next filter or the end.                *)
Gap(written, end) ==
  IF end < NextStart(Total)
    THEN SubSeq(CopyOut(end, NextStart(Total) - end), 1,
                Lesser(NextStart(Total) - end, Target - Len(written)))
    ELSE <<>>

FilterstartKept == filterstart

FilterstartAfter == IF Pending THEN NextFilter.start ELSE Never

FlushBlock ==
  /\ phase = "chain"
  /\ ~Chained
  /\ LET written == out \o Clip(memory)
     IN  out' = written \o Gap(written, block.start + block.length)
  /\ filterstart' = FilterstartAfter
  /\ phase' = "apply"
  /\ memory' = <<>> /\ block' = NoBlock
  /\ UNCHANGED <<decoded, ring, programVars, filter_stack, pos, declared>>

LeaveFilters ==
  /\ phase = "apply"
  /\ ~InReach
  /\ pos' = IF Pending THEN NextFilter.start ELSE Total
  /\ phase' = "walk"
  /\ UNCHANGED <<decoded, ring, programVars, filter_stack, filterstart, memory, block, declared, out>>

Finish ==
  /\ phase = "walk"
  /\ ~Walking
  /\ phase' = "done"
  /\ UNCHANGED <<decoded, ring, programVars, filter_stack, filterstart, outputVars>>

-----------------------------------------------------------------------------
LengthChoices == Lengths \cup {SameLength}

FiltersNext ==
  \/ \E n \in Tokens : Emit(n)
  \/ \E num \in 0 .. MaxPrograms, d \in Distances, l \in LengthChoices : DeclareNumbered(num, d, l)
  \/ \E d \in Distances, l \in LengthChoices : DeclareCleared(d, l)
  \/ \E d \in Distances, l \in LengthChoices : DeclareLast(d, l)
  \/ BadCode
  \/ EndOfData \/ CopyUnfiltered \/ EnterFilters \/ RunFirst \/ RunChained
  \/ FlushBlock \/ LeaveFilters \/ Finish

Output == CopyUnfiltered \/ EnterFilters \/ RunFirst \/ RunChained \/ FlushBlock
          \/ LeaveFilters \/ Finish

FiltersSpec == FiltersInit /\ [][FiltersNext]_filtersVars /\ WF_filtersVars(Output)
-----------------------------------------------------------------------------
Filter == [num : Programs, count : Nat, start : Nat, length : Nat]

(* Types, and the bounds of the arrays of programs.                        *)
FiltersTypeOK ==
  /\ decoded \in Nat
  /\ DOMAIN ring = 0 .. WindowSize - 1 /\ \A slot \in DOMAIN ring : ring[slot] \in -1 .. decoded
  /\ num_filtercodes \in 0 .. MaxPrograms /\ lastfilternum \in Programs
  /\ DOMAIN usagecount = Programs /\ DOMAIN oldfilterlength = Programs
  /\ \A i \in DOMAIN filter_stack : filter_stack[i] \in Filter
  /\ filterstart \in Nat /\ pos \in Nat
  /\ phase \in {"decode", "walk", "apply", "chain", "done", "failed"}

(* While data is decoded the queue never holds a filter whose program has  *)
(* been freed, and each filter is told how often its program was declared  *)
(* before it since the programs were last cleared (register 5): what       *)
(* number 0 frees, it also unqueues, and the counts start again with it.   *)
PendingProgramsAlive ==
  phase = "decode" =>
    \A i \in DOMAIN filter_stack :
      LET f == filter_stack[i]
      IN  /\ f.num < num_filtercodes
          /\ f.count = Cardinality({j \in 1 .. i - 1 : filter_stack[j].num = f.num})

(* filterstart caches the start of the queue's head: its three assignments *)
(* (first declared, cleared and declared again, one taken off) keep up.    *)
FilterstartIsHead ==
  phase \in {"decode", "walk", "apply"} /\ Pending => filterstart = NextFilter.start

(* The queue that decoding has built can be run when the output begins:    *)
(* its programs are those it was declared with, and its cached start is    *)
(* that of its head.                                                       *)
QueueIsCurrent == PendingProgramsAlive /\ FilterstartIsHead

(* However the blocks overlap, reach past the end or repeat, the caller's  *)
(* buffer is not overrun: every copy of the output stage is clipped.       *)
OutputFits == Len(out) <= Target

(* What an archiver declares: filters in the order of their blocks, a      *)
(* block shared by several or disjoint from the next, within the data or   *)
(* past it, and none that its program leaves empty.                        *)
WellFormed(filters) ==
  /\ \A i \in DOMAIN filters :
       LET f == filters[i] IN f.length >= ShortestBlock
                              /\ (f.start + f.length <= Total \/ f.start > Total)
  /\ \A i \in DOMAIN filters \ {1} :
       LET f == filters[i - 1]
           g == filters[i]
       IN  g.start >= f.start + f.length \/ (g.start = f.start /\ g.length = f.length)

Covers(f, p) == f.start <= p /\ p < f.start + f.length

(* The runs over a position, of the first i filters of a queue.            *)
RunsOver(filters, p) ==
  LET runs[i \in 0 .. Len(filters)] ==
        IF i = 0 THEN <<>>
        ELSE IF Covers(filters[i], p) THEN Append(runs[i - 1], TagOf(filters[i])) ELSE runs[i - 1]
  IN  runs

Expected(p) == [at |-> p, by |-> RunsOver(declared, p)[Len(declared)]]
FilteredStream == [k \in 1 .. Total |-> Expected(k - 1)]

(* The output is every byte of the stream once, in order, run through the  *)
(* filters declared over it in the order of declaration, whatever mixture  *)
(* of the walk's copies and the gap and chain handling of                  *)
(* rar30_apply_filters produced it: as long as the window still holds it.  *)
OutputIsFilteredStream ==
  phase = "done" /\ WellFormed(declared) /\ decoded <= WindowSize => out = FilteredStream

(* No more than the caller's buffer takes, and the filtered stream.        *)
OutputIsClippedStream == OutputFits /\ OutputIsFilteredStream

(* The header promises that a return of 0 delivers the decompressed        *)
(* stream, with no bound on its size.                                      *)
OutputIsDecodedStream ==
  phase = "done" /\ WellFormed(declared) => out = FilteredStream

(* The walk and the loop inside rar30_apply_filters, which hand over to    *)
(* each other by position, come to an end.                                 *)
OutputEnds == phase = "walk" ~> phase = "done"
=============================================================================
