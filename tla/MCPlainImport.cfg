SPECIFICATION Spec
CONSTANTS
  P = 2097169
  WordSize = 4194304
  SmallValueShift = 67108864
  Offsets = 4
  Runners <- SmallRunners
INVARIANTS
  PlainNeverPanics
CHECK_DEADLOCK FALSE
