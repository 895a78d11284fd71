SPECIFICATION FairSpec
CONSTANTS
  P = 223
  WordSize = 256
  MaxAddress = 128
  Programs <- FibonacciPrograms
  ClaimIndices = {0, 1, 2, 3, 5, 8, 13}
INVARIANTS
  OutputIsTheClaim
  NeverPanics
  RunsAsClaimed
PROPERTIES
  Terminates
CHECK_DEADLOCK FALSE
