CONSTANTS
  Literals = 2
  MinBits = 2
  MAXBITS = 3
  ByteBits = 2
  Chunks <- MCChunks
  OutLens <- MCOutLens
  Ahead = 4
  MaxCodes = 6
  ArcByteBits = 2
  ArcLiterals = 3
  INIT_BITS = 3
  Bits = 4
  ArcOutLens <- MCArcOutLens
  Recent = 1
  ArcCodes <- TwoStreams
  Damaged = FALSE
  Junk = {0, 1}
  SHRINK_CONTROL = 2
  SHRINK_INIT_BITS = 2
  SHRINK_MAX_BITS = 3
  OutSize = 10
SPECIFICATION LzwSpec
INVARIANTS
  ReturnsAreTrue
  OutputIsText
  StringsArrive
PROPERTIES
  ImplementsLzw
  EverythingIsDelivered
CHECK_DEADLOCK FALSE
