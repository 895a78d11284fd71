SPECIFICATION ASpec
CONSTANTS
  P = 37
  WordSize = 64
  SmallValueShift = 16
  Offsets = 4
  Lanes = 2
  MemoryAddressBound = 8
  Files <- ProofFiles
  ReadsMayFail = FALSE
INVARIANTS
  ClaimIsTheFile
  UsesCounted
  LayoutKeepsCells
  BalancesWhenFound
CHECK_DEADLOCK FALSE
