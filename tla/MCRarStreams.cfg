CONSTANTS
  b0 = b0
  b1 = b1
  b2 = b2
  Byte <- MCByte
  Size = 4
  Prefill <- MCPrefill
  Offsets = {0, 1, 2, 3, 4, 5}
  MaxMatch = 3
  MaxStream = 7
  WindowSize = 8
  Target = 5
  MaxPrograms = 2
  ShortestBlock = 1
  MaxPending = 3
  Tokens = {1, 4}
  Distances = {0, 2}
  Lengths = {0, 2}
  Window50 = 4
  Chunk = 2
  Target50 = 7
  Tokens50 = {1, 2}
  Distances50 = {0, 2}
  Lengths50 = {0, 2}
  MaxFilters = 3
SPECIFICATION StreamsSpec
INVARIANTS
  WindowIsTail
  CopyOutIsExact
  QueueIsCurrent
  OutputIsClippedStream
  FiveIsFilteredStream
PROPERTIES
  ImplementsHistory
  OutputEnds
  FiveEnds
CHECK_DEADLOCK FALSE
