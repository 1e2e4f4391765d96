---------------------------- MODULE SymbolCounts ----------------------------
(***************************************************************************)
(* What an adaptive Huffman model promises, with no tree in it: how often  *)
(* each symbol was seen, one more at each update, and all of them halved,  *)
(* rounding up, when their total has reached the limit.                    *)
(***************************************************************************)
EXTENDS Integers

CONSTANTS
  Symbols, \* how many symbols there are, numbered from zero
  Limit    \* the total at which the counts are halved

VARIABLE count

Symbol == 0 .. Symbols - 1

(* What the first so many symbols were counted, and what all were.         *)
FirstTotal[k \in 0 .. Symbols] == IF k = 0 THEN 0 ELSE FirstTotal[k - 1] + count[k - 1]

Total == FirstTotal[Symbols]

Halve(n) == (n + 1) \div 2

AbsInit == count = [s \in Symbol |-> 1]

CountUp(s) ==
  /\ Total < Limit
  /\ count' = [count EXCEPT ![s] = @ + 1]

Rescale ==
  /\ Total = Limit
  /\ count' = [s \in Symbol |-> Halve(count[s])]

AbsNext == Rescale \/ \E s \in Symbol : CountUp(s)

AbsSpec == AbsInit /\ [][AbsNext]_count
=============================================================================
