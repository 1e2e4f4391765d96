CONSTANTS
  byte0 = byte0
  byte1 = byte1
  byte2 = byte2
  Byte <- MCByte
  Size = 4
  Prefill <- MCPrefill
  Offsets <- MCOffsets
  MaxMatch = 3
  OutSize = 6
  MaxText = 6
  MaxCap = 7
  WriteSize = 3
  CountLimit = 4
  Block = 2
  Header <- MCHeader
  Source <- MCSource
  Requests = {1, 2, 3}
  MaxReads = 4
  Threads = {1, 2}
  TableEntries = 2
  TableBits = 2
  MaxLength = 4
  Values = 5
  Levels = 4
  Largest = 100000
  Escape = 3
  Second = 4
  EndOfFile = 256
  ChunkLimit = 9
  WordBits = 8
  ByteBits = 4
  NumRegisters = 6
  MemSize = 64
  SysGlobal = 16
  SysSize = 4
  UserSize = 8
  Programs <- MCPrograms
  Entries <- LibraryEntries
  UserGlobals <- MCUserGlobals
  Positions = {77}
  MaxInvocations <- MCInvocations
SPECIFICATION EntrySpec
INVARIANTS
  WindowIsTail
  OutputIsStreamPrefix
  
  CallbacksServe
  TextsArrive
  CodesAreCanonical
  SortedTextsComeBack
  PackedTextsComeBack
  ProgramsComputeTheirResults
  MatchesComeBack
PROPERTIES
  ImplementsHistory
  EveryCallReturns
  FlagsAndGlobalsAreTrue
CHECK_DEADLOCK FALSE
