SPECIFICATION DSpec
CONSTANTS
  P = 5
  MaxAddress = 3
  Addresses <- Few
  Values <- Told
  Tables <- Places
INVARIANTS
  WithinLimit
