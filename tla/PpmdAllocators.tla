--------------------------- MODULE PpmdAllocators ---------------------------
(***************************************************************************)
(* The interface of the suballocators (ppmd/SubAllocator.h) and the model  *)
(* that calls it (ppmd/Context.c, VariantG.c, VariantH.c, VariantI.c): it  *)
(* takes blocks for contexts and their states, grows, shrinks and frees    *)
(* them, and writes text.  When it is refused a block it starts over, or,  *)
(* with variant I, is cut back and goes on.                                *)
(***************************************************************************)
EXTENDS PpmdVariants

VARIABLES
  alloc,  \* which allocator was created
  self,   \* its state
  held,   \* the model: the address and the length of its blocks
  starved \* the model was refused a block

vars == <<alloc, self, held, starved>>

Allocators == {"Brimstone", "G", "H", "I"}
NoBlock    == [at |-> 0, num |-> 0]

InitSubAllocator(mem) ==
  CASE alloc = "Brimstone" -> InitBrimstone(mem) [] alloc = "G" -> InitVariantG(mem)
    [] alloc = "H" -> InitVariantH(mem)          [] alloc = "I" -> InitVariantI(mem)

CallAllocContext ==
  CASE alloc = "Brimstone" -> AllocContextBrimstone(self) [] alloc = "G" -> AllocContextVariantG(self)
    [] alloc = "H" -> AllocContextVariantH(self)          [] alloc = "I" -> AllocContextVariantI(self)

CallAllocUnits(num) ==
  CASE alloc = "Brimstone" -> AllocUnitsBrimstone(self, num) [] alloc = "G" -> AllocUnitsVariantG(self, num)
    [] alloc = "H" -> AllocUnitsVariantH(self, num)          [] alloc = "I" -> AllocUnitsVariantI(self, num)

CallExpandUnits(at, num) ==
  CASE alloc = "Brimstone" -> ExpandUnitsBrimstone(self, at, num)
    [] alloc = "G" -> ExpandUnitsVariantG(self, at, num)
    [] alloc = "H" -> ExpandUnitsVariantH(self, at, num)
    [] alloc = "I" -> ExpandUnitsVariantI(self, at, num)

CallShrinkUnits(at, old, new) ==
  CASE alloc = "Brimstone" -> ShrinkUnitsBrimstone(self, at, old, new)
    [] alloc = "G" -> ShrinkUnitsVariantG(self, at, old, new)
    [] alloc = "H" -> ShrinkUnitsVariantH(self, at, old, new)
    [] alloc = "I" -> ShrinkUnitsVariantI(self, at, old, new)

CallFreeUnits(at, num) ==
  CASE alloc = "Brimstone" -> FreeUnitsBrimstone(self, at, num) [] alloc = "G" -> FreeUnitsVariantG(self, at, num)
    [] alloc = "H" -> FreeUnitsVariantH(self, at, num)          [] alloc = "I" -> FreeUnitsVariantI(self, at, num)

Init ==
  /\ alloc \in Allocators
  /\ self = InitSubAllocator([u \in Units |-> Old])
  /\ held = [b \in Block |-> NoBlock]
  /\ starved = FALSE

-----------------------------------------------------------------------------
HeadsOf(s) == UNION {{s.FreeList[i][k] : k \in DOMAIN s.FreeList[i]} : i \in Indexes}
Within(block, u) == block.at <= u /\ u < block.at + block.num

(* What is neither held nor linked is told apart only from a stamp.        *)
Forgetting(s, blocks) ==
  [s EXCEPT !.mem = [u \in Units |->
     IF u \in HeadsOf(s) \/ IsStamp(@[u]) \/ \E b \in Block : Within(blocks[b], u)
       THEN @[u] ELSE Old]]

Written(s, b, at, new) ==
  [s EXCEPT !.mem = [u \in Units |-> IF u - at + 1 \in new THEN Word(b, u - at + 1) ELSE @[u]]]

Become(s, blocks) == self' = Forgetting(s, blocks) /\ held' = blocks

(* The model has num units in b, of which it writes the new ones.          *)
Get(b, num, new, result) ==
  IF result.at = 0
    THEN /\ starved' = TRUE
         /\ self' = IF alloc = "I" THEN [result.self EXCEPT !.pText = 1] ELSE result.self
         /\ UNCHANGED <<held, alloc>>
    ELSE /\ Become(Written(result.self, b, result.at, new),
                   [held EXCEPT ![b] = [at |-> result.at, num |-> num]])
         /\ UNCHANGED <<starved, alloc>>

AllocContext(b) == ~starved /\ held[b] = NoBlock /\ Get(b, 1, {1}, CallAllocContext)

AllocUnits(b) ==
  /\ ~starved /\ held[b] = NoBlock
  /\ \E num \in 1 .. MaxUnits : Get(b, num, 1 .. num, CallAllocUnits(num))

ExpandUnits(b) ==
  /\ ~starved /\ held[b] # NoBlock /\ held[b].num < MaxUnits
  /\ Get(b, held[b].num + 1, {held[b].num + 1}, CallExpandUnits(held[b].at, held[b].num))

(* Rescaling a context drops some of its states, or all but one; cutting   *)
(* the model back does too.                                                *)
MayCutBack == starved => alloc = "I"

ShrinkUnits(b) ==
  /\ MayCutBack /\ held[b] # NoBlock
  /\ \E num \in 1 .. held[b].num - 1 : Get(b, num, {}, CallShrinkUnits(held[b].at, held[b].num, num))

FreeUnits(b) ==
  /\ MayCutBack /\ held[b] # NoBlock
  /\ Become(CallFreeUnits(held[b].at, held[b].num), [held EXCEPT ![b] = NoBlock])
  /\ UNCHANGED <<starved, alloc>>

HasText == alloc \in {"H", "I"}

(* A unit of text; the model starts over when the text reaches the units.  *)
WriteText ==
  /\ HasText /\ ~starved
  /\ LET text == [self EXCEPT !.pText = @ + 1, !.mem[self.pText] = Old]
         full == text.pText >= self.UnitsStart
     IN  /\ self' = IF full /\ alloc = "I" THEN [text EXCEPT !.pText = 1] ELSE text
         /\ starved' = full
  /\ UNCHANGED <<held, alloc>>

CuttingBack == starved /\ alloc = "I"

SpecialFreeUnit(b) ==
  /\ CuttingBack /\ held[b].num = 1
  /\ Become(SpecialFreeUnitVariantI(self, held[b].at), [held EXCEPT ![b] = NoBlock])
  /\ UNCHANGED <<starved, alloc>>

MoveUnitsUp(b) ==
  /\ CuttingBack /\ held[b] # NoBlock
  /\ Get(b, held[b].num, {}, MoveUnitsUpVariantI(self, held[b].at, held[b].num))

(* The states of the root are never freed, and lie between text and gap.   *)
RootBelowGap == \E b \in Block : held[b] # NoBlock /\ held[b].at < self.LowUnit

(* The end of a round of cutting back; the model goes on, or cuts again.   *)
ExpandTextArea ==
  /\ CuttingBack /\ RootBelowGap
  /\ starved' \in BOOLEAN
  /\ Become([ExpandTextAreaVariantI(self) EXCEPT !.GlueCount = IF starved' THEN @ ELSE 0], held)
  /\ UNCHANGED alloc

(* RestartModel: the heap is not cleared.                                  *)
Restart ==
  /\ starved
  /\ Become(InitSubAllocator(self.mem), [b \in Block |-> NoBlock])
  /\ starved' = FALSE
  /\ UNCHANGED alloc

Next ==
  \/ \E b \in Block : \/ AllocContext(b) \/ AllocUnits(b) \/ ExpandUnits(b) \/ ShrinkUnits(b)
                      \/ FreeUnits(b) \/ SpecialFreeUnit(b) \/ MoveUnitsUp(b)
  \/ WriteText \/ ExpandTextArea \/ Restart

Spec == Init /\ [][Next]_vars

-----------------------------------------------------------------------------
(* A free block and a held one occupy their whole size.                    *)
FreePieces == UNION {{[at |-> self.FreeList[i][k], num |-> Index2Units[i]] :
                        k \in DOMAIN self.FreeList[i]} : i \in Indexes}
HeldPiece(b) == [at |-> held[b].at, num |-> Index2Units[Units2Index(held[b].num)]]

OwnersOf(u, free) ==
  Cardinality({p \in free : Within(p, u)})
  + Cardinality({b \in Block : held[b] # NoBlock /\ Within(HeldPiece(b), u)})
  + (IF self.LowUnit <= u /\ u < self.HighUnit THEN 1 ELSE 0)
  + (IF u < self.UnitsStart THEN 1 ELSE 0)
  + (IF self.LastBreath # 0 /\ u <= Breaths * MaxUnits THEN 1 ELSE 0)

(* The heap is tiled: each unit is in the gap, in the text area, in what   *)
(* variant G keeps back, in exactly one free block or in exactly one held  *)
(* block.  None is lost by a split, and none is in two places, whatever    *)
(* rounding, splitting, joining, moving and exchanging went before.        *)
HeapIsTiled ==
  /\ LET free == FreePieces IN \A u \in Units : OwnersOf(u, free) = 1
  /\ \A i \in Indexes : \A j, k \in DOMAIN self.FreeList[i] :
       self.FreeList[i][j] = self.FreeList[i][k] => j = k
  /\ self.pText <= self.UnitsStart

(* The links and stamps of the free blocks live in the blocks themselves,  *)
(* and the model never writes over one: a list read back is the list that  *)
(* was built, and with variant I a free block says how long it is.         *)
LinksSurvive ==
  \A i \in Indexes : \A k \in DOMAIN self.FreeList[i] :
    self.mem[self.FreeList[i][k]] = IF alloc = "I" THEN Stamp(Index2Units[i]) ELSE Link

(* The model's blocks lie apart and hold what it wrote into them.          *)
Heap == INSTANCE PpmdHeap WITH
  place <- [b \in Block |-> held[b].at],
  words <- [b \in Block |-> [k \in 1 .. held[b].num |-> self.mem[held[b].at + k - 1]]]
ImplementsHeap == Heap!AbsSpec
=============================================================================
