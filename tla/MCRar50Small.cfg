CONSTANTS
  b0 = b0
  b1 = b1
  b2 = b2
  Byte <- MCByte
  Size = 4
  Prefill <- MCPrefill
  Offsets = {0, 1, 2, 3, 4, 5}
  MaxMatch = 3
  MaxStream = 7
  WindowSize = 4
  Target = 6
  MaxPrograms = 2
  ShortestBlock = 1
  MaxPending = 0
  Tokens = {1, 2}
  Distances = {}
  Lengths = {}
  Window50 = 4
  Chunk = 8
  Target50 = 7
  Tokens50 = {1, 2}
  Distances50 = {}
  Lengths50 = {}
  MaxFilters = 3
SPECIFICATION FiveAlone
INVARIANT FiveIsFilteredStream
CHECK_DEADLOCK FALSE
