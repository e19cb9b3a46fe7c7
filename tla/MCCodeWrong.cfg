SPECIFICATION Spec
CONSTANTS
  MAXINDEXRK = 2
  LFIELDS_PER_FLUSH = 2
  STACK = 60
  Programs <- NilProgram
  Faults = {}
  Worlds <- OneWorld
INVARIANTS
  RunsAsWritten
CHECK_DEADLOCK FALSE
