SPECIFICATION Spec
CONSTANTS
  P = 7
  WordSize = 16
  SmallValueShift = 8
  Offsets = 4
  Files <- ProgramFiles
  ReadsMayFail = FALSE
INVARIANTS
  KindsAreCounted
CHECK_DEADLOCK FALSE
