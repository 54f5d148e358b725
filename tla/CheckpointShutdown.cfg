CONSTANTS
  MaxGeneration = 3
  MaxVersion = 1
  Builds = {FALSE}
  FlushMayFail = FALSE
SPECIFICATION Spec
CHECK_DEADLOCK FALSE
INVARIANTS
  ShutdownSaves
