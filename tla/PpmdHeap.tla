------------------------------ MODULE PpmdHeap ------------------------------
(***************************************************************************)
(* What the PPMd models ask of their suballocator (ppmd/SubAllocator.h):   *)
(* blocks of units that lie in the heap, apart from each other, and that   *)
(* hold what the model put there until it frees them, through every grow,  *)
(* shrink and move, and whatever is done to other blocks.                  *)
(***************************************************************************)
EXTENDS Integers, Sequences

CONSTANTS Block, HeapUnits

VARIABLES
  place, \* where each block is
  words  \* what each block holds; nothing when it is not allocated

absVars == <<place, words>>

Region(b) == place[b] .. place[b] + Len(words[b]) - 1

IsRoom(b, at, num) ==
  /\ 1 <= at /\ at + num - 1 <= HeapUnits
  /\ \A other \in Block \ {b} : Region(other) \cap at .. at + num - 1 = {}

Word(b, k) == <<b, k>>

AbsInit == place = [b \in Block |-> 0] /\ words = [b \in Block |-> <<>>]

(* The block holds new words, at a place of the allocator's choice.        *)
Hold(b, new) ==
  /\ words' = [words EXCEPT ![b] = new]
  /\ place' = [place EXCEPT ![b] = place'[b]]
  /\ IsRoom(b, place'[b], Len(new))

(* How many units the block has then is the model's choice.                *)
Length(b) == Len(words'[b])

AbsObtain(b) ==
  /\ words[b] = <<>> /\ Length(b) > 0
  /\ Hold(b, [k \in 1 .. Length(b) |-> Word(b, k)])

AbsGrow(b) == words[b] # <<>> /\ Hold(b, Append(words[b], Word(b, Len(words[b]) + 1)))

AbsShrink(b) ==
  /\ 0 < Length(b) /\ Length(b) < Len(words[b])
  /\ Hold(b, SubSeq(words[b], 1, Length(b)))

(* The model's block is put elsewhere as it is.                            *)
AbsMove(b) == words[b] # <<>> /\ Hold(b, words[b])

AbsFree(b) ==
  /\ words[b] # <<>>
  /\ place' = [place EXCEPT ![b] = 0]
  /\ words' = [words EXCEPT ![b] = <<>>]

AbsRestart ==
  /\ place' = [b \in Block |-> 0]
  /\ words' = [b \in Block |-> <<>>]

AbsNext ==
  AbsRestart \/ \E b \in Block : AbsObtain(b) \/ AbsGrow(b) \/ AbsShrink(b) \/ AbsMove(b) \/ AbsFree(b)

AbsSpec == AbsInit /\ [][AbsNext]_absVars
=============================================================================
