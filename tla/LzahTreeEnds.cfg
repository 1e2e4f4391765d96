CONSTANTS
  NumLeaves = 4
  Limit = 9
  MaxSymbols = 7
SPECIFICATION Spec
INVARIANT EveryClimbEnds
CHECK_DEADLOCK FALSE
