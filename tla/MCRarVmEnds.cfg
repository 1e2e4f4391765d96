SPECIFICATION VmSpec
CONSTANTS
  WordBits = 8
  ByteBits = 4
  NumRegisters = 6
  MemSize = 64
  SysGlobal = 16
  SysSize = 4
  UserSize = 8
  Programs <- JumpLast
  Entries <- JumpLastEntries
  UserGlobals <- MCUserGlobals
  Positions = {77}
  MaxInvocations <- OneInvocation
INVARIANT StaysInProgram
CHECK_DEADLOCK FALSE
