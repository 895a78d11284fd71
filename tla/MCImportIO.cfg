SPECIFICATION Spec
CONSTANTS
  P = 5
  WordSize = 8
  SmallValueShift = 6
  Offsets = 2
  Files <- SmallFiles
  ReadsMayFail = TRUE
INVARIANTS
  AllIsRead
CHECK_DEADLOCK FALSE
