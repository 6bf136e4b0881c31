SPECIFICATION Spec
CONSTANTS
  Channels = 1
  Layouts <- MCLayouts
  MaxPrim = 3
  MaxLogic = 3
  Bits = 4
  ByteBits = 2
  InodeBitmap = 1
  InodeTable = 2
  MaxBuf = 4
  MaxLba = 40
  MaxChunk = 2
  Word = 64
  MaxCrashes = 1
INVARIANT
  MagicMeansFormatted
CHECK_DEADLOCK FALSE
