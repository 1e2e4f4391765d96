CONSTANTS
  NumLeaves = 3
  Limit = 11
  MaxSymbols = 7
SPECIFICATION Spec
INVARIANT CodeAdapts
CHECK_DEADLOCK FALSE
