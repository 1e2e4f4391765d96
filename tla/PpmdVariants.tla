---------------------------- MODULE PpmdVariants ----------------------------
(***************************************************************************)
(* The four suballocators of PPMd, each from the operations of PpmdUnits.  *)
(***************************************************************************)
EXTENDS PpmdUnits
LOCAL INSTANCE SequencesExt

-----------------------------------------------------------------------------
(* The suballocator of StuffIt X's PPMd (ppmd/SubAllocatorBrimstone.c).    *)

SplitBlock(self, at, oldindex, newindex) == SplitWith(FALSE, self, at, oldindex, newindex)

InitBrimstone(mem) ==
  [FreeList |-> [i \in Indexes |-> <<>>], LowUnit |-> 1, HighUnit |-> HeapUnits + 1,
   LastBreath |-> 0, pText |-> 1, UnitsStart |-> 1, GlueCount |-> 0, mem |-> mem]

AllocUnitsBrimstone(self, num) ==
  LET index == Units2Index(num)
  IN  IF HasNode(self, index) THEN TakeNode(self, index)
      ELSE IF GapHolds(self, index) THEN TakeGap(self, index)
      ELSE IF LargerIndexes(self, index) # {} THEN TakeLarger(FALSE, self, index)
      ELSE Refused(self)

TopHasRoom(self) == self.HighUnit > self.LowUnit

AllocContextBrimstone(self) ==
  IF TopHasRoom(self) THEN TakeTop(self) ELSE AllocUnitsBrimstone(self, 1)

ExpandUnitsBrimstone(self, at, oldnum) ==
  ExpandWith(AllocUnitsBrimstone(self, oldnum + 1), FALSE, self, at, oldnum, Index2Units[Units2Index(oldnum)])

ShrinkUnitsBrimstone(self, at, oldnum, newnum) ==
  ShrinkWith(FALSE, self, at, oldnum, newnum, Index2Units[Units2Index(newnum)])

FreeUnitsBrimstone(self, at, num) == InsertNode(self, at, Units2Index(num))
-----------------------------------------------------------------------------
(* Variant G (ppmd/SubAllocatorVariantG.c): the bottom of the heap is kept *)
(* back until the gap is used up for the first time.                       *)

InitVariantG(mem) ==
  [FreeList |-> [i \in Indexes |-> <<>>],
   LowUnit |-> 1 + Breaths * MaxUnits, HighUnit |-> HeapUnits + 1, LastBreath |-> 1,
   pText |-> 1, UnitsStart |-> 1, GlueCount |-> 0, mem |-> mem]

Breathe(self) ==
  IF self.LastBreath = 0 THEN self
  ELSE [InsertPieces(FALSE, self,
          [k \in 1 .. Breaths |-> <<self.LastBreath + (k - 1) * MaxUnits, LastIndex>>])
        EXCEPT !.LastBreath = 0]

AllocUnitsVariantG(self, num) ==
  LET index    == Units2Index(num)
      breathed == Breathe(self)
  IN  IF HasNode(self, index) THEN TakeNode(self, index)
      ELSE IF GapHolds(self, index) THEN TakeGap(self, index)
      ELSE IF LargerIndexes(breathed, index) # {} THEN TakeLarger(FALSE, breathed, index)
      ELSE Refused(breathed)

AllocContextVariantG(self) ==
  IF self.HighUnit # self.LowUnit THEN TakeTop(self) ELSE AllocUnitsVariantG(self, 1)

ExpandUnitsVariantG(self, at, oldnum) ==
  ExpandWith(AllocUnitsVariantG(self, oldnum + 1), FALSE, self, at, oldnum, Index2Units[Units2Index(oldnum)])

ShrinkUnitsVariantG(self, at, oldnum, newnum) ==
  ShrinkWith(FALSE, self, at, oldnum, newnum, Index2Units[Units2Index(newnum)])

FreeUnitsVariantG(self, at, num) == InsertNode(self, at, Units2Index(num))
-----------------------------------------------------------------------------
(* Variant H, of RAR (ppmd/SubAllocatorVariantH.c): the text is kept below *)
(* the units, and free blocks are joined when no list has one.             *)

InitVariantH(mem) ==
  [FreeList |-> [i \in Indexes |-> <<>>],
   LowUnit |-> 1 + TextUnits, HighUnit |-> HeapUnits + 1, LastBreath |-> 0,
   pText |-> 1, UnitsStart |-> 1 + TextUnits, GlueCount |-> 0, mem |-> mem]

(* Every free block is stamped first; a list is taken from its front, and  *)
(* each block goes to the front of the one long list.                      *)
SizeOf(self, p) ==
  Index2Units[CHOOSE i \in Indexes : \E k \in DOMAIN self.FreeList[i] : self.FreeList[i][k] = p]

StampFree(self) ==
  LET free == {AllFree(self)[k] : k \in DOMAIN AllFree(self)}
  IN  [self EXCEPT !.mem = [u \in Units |-> IF u \in free THEN Stamp(SizeOf(self, u)) ELSE @[u]]]

GlueFreeBlocksVariantH(self) ==
  [GlueWith(FALSE, StampFree(EndGap(self)), Reverse(AllFree(self))) EXCEPT !.GlueCount = GlueEvery]

AllocUnitsInternal(self, index) ==
  AllocInternalWith(FALSE, GlueFreeBlocksVariantH(self), self, index)

AllocUnitsVariantH(self, num) ==
  LET index == Units2Index(num)
  IN  IF HasNode(self, index) THEN TakeNode(self, index)
      ELSE IF GapHolds(self, index) THEN TakeGap(self, index)
      ELSE AllocUnitsInternal(self, index)

AllocContextVariantH(self) ==
  IF self.HighUnit # self.LowUnit THEN TakeTop(self)
  ELSE IF HasNode(self, 0) THEN TakeNode(self, 0)
  ELSE AllocUnitsInternal(self, 0)

ExpandUnitsVariantH(self, at, oldnum) ==
  ExpandWith(AllocUnitsVariantH(self, oldnum + 1), FALSE, self, at, oldnum, oldnum)

ShrinkCopyingAll(self, at, oldnum, newnum) ==
  ShrinkWith(FALSE, self, at, oldnum, newnum, oldnum)

ShrinkUnitsVariantH(self, at, oldnum, newnum) ==
  ShrinkWith(FALSE, self, at, oldnum, newnum, newnum)

FreeUnitsVariantH(self, at, num) == InsertNode(self, at, Units2Index(num))
-----------------------------------------------------------------------------
(* Variant I, of ZIP and StuffIt X (ppmd/SubAllocatorVariantI.c): as H,    *)
(* but a free block is stamped as long as it is free, and when memory runs *)
(* out the model is cut back and the text area grows over free blocks.     *)

InitVariantI(mem) ==
  [FreeList |-> [i \in Indexes |-> <<>>],
   LowUnit |-> 1 + TextUnits, HighUnit |-> HeapUnits + 1, LastBreath |-> 0,
   pText |-> 1, UnitsStart |-> 1 + TextUnits, GlueCount |-> 0, mem |-> mem]

GlueFreeBlocksVariantI(self) ==
  [GlueWith(TRUE, EndGap(self), AllFree(self)) EXCEPT !.GlueCount = GlueEvery]

AllocUnitsOfIndex(self, index) ==
  AllocInternalWith(TRUE, GlueFreeBlocksVariantI(self), self, index)

AllocUnitsVariantI(self, num) ==
  LET index == Units2Index(num)
  IN  IF HasNode(self, index) THEN TakeNode(self, index)
      ELSE IF GapHolds(self, index) THEN TakeGap(self, index)
      ELSE AllocUnitsOfIndex(self, index)

AllocContextVariantI(self) ==
  IF self.HighUnit # self.LowUnit THEN TakeTop(self)
  ELSE IF HasNode(self, 0) THEN TakeNode(self, 0)
  ELSE AllocUnitsOfIndex(self, 0)

ExpandUnitsVariantI(self, at, oldnum) ==
  ExpandWith(AllocUnitsVariantI(self, oldnum + 1), TRUE, self, at, oldnum, oldnum)

ShrinkUnitsVariantI(self, at, oldnum, newnum) ==
  ShrinkWith(TRUE, self, at, oldnum, newnum, newnum)

FreeUnitsVariantI(self, at, num) == InsertBlockAfter(self, at, Units2Index(num))

SpecialFreeUnitVariantI(self, at) ==
  IF at = self.UnitsStart
    THEN [self EXCEPT !.mem[at] = Stamp(NU(@)), !.UnitsStart = @ + 1]
    ELSE InsertBlockAfter(self, at, 0)

(* A block near the text area changes places with a free one above it.     *)
MoveUnitsUpVariantI(self, at, num) ==
  LET index == Units2Index(num)
      taken == TakeNode(self, index)
      moved == CopyUnits(taken.self, at, taken.at, num)
  IN  IF at > self.UnitsStart + MoveWithin \/ ~HasNode(self, index) \/ at > Head(self.FreeList[index])
        THEN [at |-> at, self |-> self]
      ELSE [at |-> taken.at,
            self |-> IF at # self.UnitsStart THEN InsertBlockAfter(moved, at, index)
                     ELSE [moved EXCEPT !.UnitsStart = @ + Index2Units[index]]]

(* The text area takes the free blocks it touches, one after the other.    *)
RECURSIVE Touching(_, _)
Touching(self, p) ==
  IF p \in Units /\ IsStamp(self.mem[p]) THEN {p} \cup Touching(self, p + NU(self.mem[p])) ELSE {}

RECURSIVE TextEnd(_, _)
TextEnd(self, p) ==
  IF p \in Units /\ IsStamp(self.mem[p]) THEN TextEnd(self, p + NU(self.mem[p])) ELSE p

ExpandTextAreaVariantI(self) ==
  LET absorbed == Touching(self, self.UnitsStart)
  IN  [self EXCEPT !.UnitsStart = TextEnd(self, @),
                   !.mem = [u \in Units |-> IF u \in absorbed THEN Old ELSE @[u]],
                   !.FreeList = [i \in Indexes |-> SelectSeq(@[i], LAMBDA p : p \notin absorbed)]]
=============================================================================
