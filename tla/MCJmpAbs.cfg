SPECIFICATION Spec
CONSTANTS
  P = 2097169
  WordSize = 4194304
  SmallValueShift = 67108864
  Offsets = 4
  Runners <- JmpAbsRunners
INVARIANTS
  JmpAbsIsCounted
CHECK_DEADLOCK FALSE
