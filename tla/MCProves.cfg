SPECIFICATION ASpec
CONSTANTS
  P = 37
  WordSize = 64
  SmallValueShift = 16
  Offsets = 4
  Lanes = 2
  MemoryAddressBound = 8
  Files <- GoodFiles
  ReadsMayFail = FALSE
INVARIANTS
  Proves
CHECK_DEADLOCK FALSE
