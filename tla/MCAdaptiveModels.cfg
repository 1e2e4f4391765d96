CONSTANTS
  Leaves = 4
  Limit = 11
  LzahLimit = 9
  LzahSymbols = 6
  Symbols = {0, 1, 2}
  MaxFreq = 12
  BinLimit = 14
  Escapes = 4
  InitEscs = {2}
  HeapUnits = 8
  MaxOrder = 3
  TextMax = 7
  OBound = 1
  ScaleSum = 10
  Starts <- MCStarts
  MaxBytes = 7
  NMax = 4
  NChar = 6
  NPos = 3
  LimitC = 7
  LimitP = 5
  MaxCalls = 6
SPECIFICATION ModelsSpec
INVARIANTS
  RebuildInBounds
  TreeIsLinked
  WeightsAreConsistent
  CodeIsOptimal
  ParentsCountTheirChildren
  ContextsStaySound
  SuccessorsFollowTheText
  DynamicTreesAreSound
PROPERTIES
  ImplementsCounts
  EverySymbolEnds
  RebuiltCodeFollowsCounts
CHECK_DEADLOCK FALSE
