SPECIFICATION Spec
CONSTANTS
  P = 223
  MaxAddress = 128
  Programs <- Family
  Alphabets <- JustControl
  Length = 3
  Hinting <- Hints
INVARIANTS
  TypeOK
  StackInExecution
  CodeIntact
PROPERTIES
  WriteOnce
CHECK_DEADLOCK FALSE
