CONSTANTS
  Literals = 2
  MinBits = 2
  MAXBITS = 3
  ByteBits = 2
  Chunks <- MCChunks
  OutLens <- MCOutLens
  Ahead = 4
  MaxCodes = 0
  ArcByteBits = 2
  ArcLiterals = 2
  INIT_BITS = 3
  Bits = 4
  ArcOutLens <- BigBuffer
  Recent = 2
  ArcCodes <- DamagedStreams
  Damaged = TRUE
  Junk = {0, 1}
  SHRINK_CONTROL = 2
  SHRINK_INIT_BITS = 2
  SHRINK_MAX_BITS = 3
  OutSize = 0
SPECIFICATION LzwSpec
INVARIANT OutputIsText
CHECK_DEADLOCK FALSE
