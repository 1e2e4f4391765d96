CONSTANTS
  N1 = 2
  N2 = 0
  N3 = 1
  MaxUnits = 5
  HeapUnits = 7
  TextUnits = 2
  Breaths = 1
  GlueEvery = 1
  MoveWithin = 3
  Block = {b1, b2, b3}
SYMMETRY Symmetry
SPECIFICATION Spec
INVARIANTS HeapIsTiled LinksSurvive
PROPERTY ImplementsHeap
