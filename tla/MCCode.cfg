SPECIFICATION Spec
CONSTANTS
  MAXINDEXRK = 2
  LFIELDS_PER_FLUSH = 2
  STACK = 60
  Programs <- MCPrograms
  Faults <- MCFaults
  Worlds <- MCWorlds
INVARIANTS
  TypeOK
  RunsAsWritten
  CompilesCleanly
  LoadedIsCompiled
CHECK_DEADLOCK FALSE
