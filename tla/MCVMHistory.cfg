SPECIFICATION HSpec
CONSTANTS
  P = 223
  MaxAddress = 128
  Programs <- Family
  Alphabets <- BothAlphabets
  Length = 4
  Hinting <- Hints
  MaxSteps = 10
  Tables <- Layouts
INVARIANTS
  CallStack
  HaltsReturned
  Replay
  RelocatedReplay
PROPERTIES
  ReturnsToCaller
  CallsObey
  ReadOnly
CHECK_DEADLOCK FALSE
