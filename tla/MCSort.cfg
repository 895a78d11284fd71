SPECIFICATION FairSpec
CONSTANTS
  P = 4194319
  WordSize = 8388608
  SmallValueShift = 67108864
  Offsets = 4
  Files <- AllFiles
  ReadsMayFail = TRUE
INVARIANTS
  TypeOK
  ReadsBack
  IdsAreWords
  InstFresh
  ListsFollowTrace
  SortedAsAssembled
  StopsOnMissingCell
PROPERTIES
  ImplementsImage
  ImportEnds
CHECK_DEADLOCK FALSE
