----------------------------- MODULE Rar50Stream -----------------------------
(***************************************************************************)
(* The decoder of RAR 5 (rar/rar50.c): it expands the stream into the      *)
(* window a stretch at a time, up to where the next filter begins or ends, *)
(* and flushes what it has to the caller's buffer, running the filters on  *)
(* the way.  A match goes on past the end of the stretch.                  *)
(*                                                                         *)
(* As in Rar30Filters a byte is the position it was decoded at and the     *)
(* filter that was run over it.                                            *)
(***************************************************************************)
EXTENDS Integers, Sequences

CONSTANTS
  Window50,
  Chunk,       \* 0x40000: the longest stretch
  Target50,    \* *out_len
  Tokens50,    \* bytes a literal or a match may add
  Distances50, \* how far ahead of the position a filter's block may start
  Lengths50,   \* lengths of a block
  MaxFilters   \* filters declared, for model checking

Rar50Assumption ==
  /\ {Window50, Chunk, Target50} \subseteq Nat \ {0}
  /\ Tokens50 \subseteq Nat \ {0} /\ Distances50 \subseteq Nat
  /\ Lengths50 \subseteq 0 .. Window50 /\ MaxFilters \in Nat

(* The window holds a stretch or a filter's block, and what a match adds.  *)
WindowIsAmple == \A n \in Tokens50 : Chunk + n <= Window50 + 1 /\ \A l \in Lengths50 : l + n <= Window50 + 1

VARIABLES
  decoded50, ring50,                 \* the window: the position stored in each slot
  inBlock, islastblock, codes_valid, \* bits are left in the block
  filters,                           \* the list of filters
  from, end, atFilter,               \* the stretch, and whether a filter's block is what it is for
  phase50, out50,
  declared50, crossed                \* history: every filter; a match ran over where one begins

blockVars == <<inBlock, islastblock, codes_valid>>
loopVars  == <<from, end, atFilter>>
fiveVars  == <<decoded50, ring50, blockVars, filters, loopVars, phase50, out50, declared50, crossed>>

None == 0 \* no filter

LeastOf(S)    == CHOOSE x \in S : \A y \in S : x <= y
GreatestOf(S) == CHOOSE x \in S : \A y \in S : y <= x

FiveInit ==
  /\ decoded50 = 0 /\ ring50 = [slot \in 0 .. Window50 - 1 |-> -1]
  /\ inBlock = FALSE /\ islastblock = FALSE /\ codes_valid = FALSE
  /\ filters = <<>> /\ declared50 = <<>> /\ crossed = FALSE
  /\ from = 0 /\ end = 0 /\ atFilter = FALSE /\ out50 = <<>>
  /\ phase50 = "start"

-----------------------------------------------------------------------------
(* read_block_header; the checksum, the sizes and the widths may be wrong. *)
Header ==
  \/ /\ phase50' = "failed" /\ UNCHANGED blockVars
  \/ /\ islastblock' \in BOOLEAN
     /\ inBlock' \in IF islastblock' THEN BOOLEAN ELSE {TRUE}
     /\ codes_valid' \in {codes_valid, TRUE}
     /\ phase50' = IF phase50 = "start" THEN "loop" ELSE phase50

FirstHeader ==
  /\ phase50 = "start"
  /\ Header
  /\ UNCHANGED <<decoded50, ring50, filters, loopVars, out50, declared50, crossed>>

NextFilterStart == IF filters = <<>> THEN Target50 ELSE Head(filters).start
NextEdge(pos) == (pos \div Window50 + 1) * Window50
Here == Len(out50)

Stretch == {Here + Chunk, NextEdge(Here), NextFilterStart, Target50}

Loop ==
  /\ phase50 = "loop" /\ Here < Target50
  /\ from' = Here
  /\ atFilter' = (Here = NextFilterStart)
  /\ end' = IF atFilter' THEN NextFilterStart + Head(filters).length ELSE LeastOf(Stretch)
  /\ phase50' = "expand"
  /\ UNCHANGED <<decoded50, ring50, blockVars, filters, out50, declared50, crossed>>

Expanding == phase50 = "expand" /\ decoded50 < end
AtSymbol  == Expanding /\ inBlock /\ codes_valid

HeaderOfNext ==
  /\ Expanding /\ ~inBlock /\ ~islastblock
  /\ Header
  /\ UNCHANGED <<decoded50, ring50, filters, loopVars, out50, declared50, crossed>>

(* A block with no codes before it, a code that is none, a type of filter  *)
(* that is none.                                                           *)
BadSymbol ==
  /\ Expanding /\ inBlock
  /\ phase50' = "failed"
  /\ UNCHANGED <<decoded50, ring50, blockVars, filters, loopVars, out50, declared50, crossed>>

(* Whether the symbol was the last of its block.                           *)
Read == inBlock' \in BOOLEAN /\ UNCHANGED <<islastblock, codes_valid>>

Expand(n) ==
  /\ AtSymbol
  /\ Read
  /\ decoded50' = decoded50 + n
  /\ ring50' = [slot \in DOMAIN ring50 |->
       LET stored == {p \in decoded50 .. decoded50 + n - 1 : p % Window50 = slot}
       IN  IF stored = {} THEN ring50[slot] ELSE GreatestOf(stored)]
  /\ crossed' = (crossed \/ \E i \in DOMAIN filters : filters[i].start \in decoded50 + 1 .. decoded50 + n - 1)
  /\ UNCHANGED <<filters, loopVars, phase50, out50, declared50>>

(* The last match repeated, before there was one (lastlength is not kept). *)
RepeatNothing ==
  /\ AtSymbol
  /\ Read
  /\ UNCHANGED <<decoded50, ring50, filters, loopVars, phase50, out50, declared50, crossed>>

AppendInFront(filter) == <<filter>> \o filters

AppendFilter(filter) == Append(filters, filter)

DeclareFilter(distance, length) ==
  /\ AtSymbol /\ Len(declared50) < MaxFilters
  /\ Read
  /\ LET filter == [id |-> Len(declared50) + 1, start |-> decoded50 + distance, length |-> length]
     IN  /\ filters' = AppendFilter(filter)
         /\ declared50' = Append(declared50, filter)
         /\ end' = LeastOf({end, filter.start})
  /\ UNCHANGED <<decoded50, ring50, from, atFilter, phase50, out50, crossed>>

DataEnded == islastblock /\ ~inBlock

Expanded ==
  /\ phase50 = "expand" /\ (decoded50 >= end \/ DataEnded)
  /\ phase50' = "flush"
  /\ UNCHANGED <<decoded50, ring50, blockVars, filters, loopVars, out50, declared50, crossed>>

-----------------------------------------------------------------------------
(* flush_output, of which each iteration is a step.                        *)
FromWindow(start, len, filter) ==
  [k \in 1 .. len |-> [at |-> ring50[(start + k - 1) % Window50], by |-> filter]]

Flushing    == phase50 = "flush" /\ Here < Target50 /\ Here < decoded50
FilterIsDue == filters # <<>> /\ Head(filters).start = Here

FlushFilter ==
  /\ Flushing /\ FilterIsDue
  /\ IF Here + Head(filters).length > Target50
       THEN phase50' = "failed" /\ UNCHANGED <<filters, out50>>
       ELSE /\ out50' = out50 \o FromWindow(Here, Head(filters).length, Head(filters).id)
            /\ filters' = Tail(filters)
            /\ UNCHANGED phase50
  /\ UNCHANGED <<decoded50, ring50, blockVars, loopVars, declared50, crossed>>

(* Up to where no filter begins; the copy crosses no edge of the window.   *)
Stop == LeastOf({decoded50, NextEdge(Here), Target50} \cup IF filters = <<>> THEN {} ELSE {Head(filters).start})

FlushPlain ==
  /\ Flushing /\ ~FilterIsDue /\ Stop > Here
  /\ out50' = out50 \o FromWindow(Here, Stop - Here, None)
  /\ UNCHANGED <<decoded50, ring50, blockVars, filters, loopVars, phase50, declared50, crossed>>

NoMoreNever == FALSE

(* When the data has ended and nothing came of it the loop is left, but    *)
(* not from a filter's block.                                              *)
NoMore == ~atFilter /\ decoded50 <= from /\ DataEnded

Flushed ==
  /\ phase50 = "flush" /\ (Flushing => ~FilterIsDue /\ Stop <= Here)
  /\ phase50' = IF NoMore THEN "done" ELSE "loop"
  /\ UNCHANGED <<decoded50, ring50, blockVars, filters, loopVars, out50, declared50, crossed>>

Return ==
  /\ phase50 = "loop" /\ Here >= Target50
  /\ phase50' = "done"
  /\ UNCHANGED <<decoded50, ring50, blockVars, filters, loopVars, out50, declared50, crossed>>

FiveNext ==
  \/ FirstHeader \/ Loop \/ HeaderOfNext \/ BadSymbol \/ RepeatNothing \/ Expanded
  \/ FlushFilter \/ FlushPlain \/ Flushed \/ Return
  \/ \E n \in Tokens50 : Expand(n)
  \/ \E d \in Distances50, l \in Lengths50 : DeclareFilter(d, l)

FiveSpec == FiveInit /\ [][FiveNext]_fiveVars /\ WF_fiveVars(FiveNext)
-----------------------------------------------------------------------------
(* What an archiver declares: filters in the order of their blocks, which  *)
(* do not overlap, are not empty and lie within the data; and a match ends *)
(* where a filter begins, since the decoder does not stop in one.          *)
InOrder ==
  /\ \A i \in DOMAIN declared50 :
       declared50[i].length > 0 /\ declared50[i].start + declared50[i].length <= Target50
  /\ \A i, j \in DOMAIN declared50 : i < j => declared50[i].start + declared50[i].length <= declared50[j].start

WellDeclared ==
  /\ ~crossed
  /\ InOrder
  /\ DataEnded => \A i \in DOMAIN declared50 : declared50[i].start + declared50[i].length <= decoded50

(* The filter among these in whose block a position is.                    *)
FiltersOver(blocks, p) == {i \in DOMAIN blocks : blocks[i].start <= p /\ p < blocks[i].start + blocks[i].length}
FilterOver(blocks, p) == IF FiltersOver(blocks, p) = {} THEN None ELSE GreatestOf(FiltersOver(blocks, p))

Stream == [k \in 1 .. LeastOf({decoded50, Target50}) |-> [at |-> k - 1, by |-> FilterOver(declared50, k - 1)]]

(* However the stretches, the edges of the window and the declarations     *)
(* fall, the output is every byte of the stream once and in order, each    *)
(* run through the filter declared over it when the whole block was there. *)
FiveIsFilteredStream == phase50 = "done" /\ WellDeclared => out50 = Stream

(* The loop comes to an end, unless the source never does (behind its end  *)
(* no header is right): no filter is left behind at the head of the list,  *)
(* where the output would wait for it for ever.                            *)
EndsIfWellDeclared ==
  []WellDeclared => []<><<HeaderOfNext>>_fiveVars \/ <>(phase50 \in {"done", "failed"})
=============================================================================
