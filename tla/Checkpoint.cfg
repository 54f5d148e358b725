CONSTANTS
  MaxGeneration = 3
  MaxVersion = 1
  Builds = {TRUE, FALSE}
  FlushMayFail = FALSE
SPECIFICATION FairSpec
CHECK_DEADLOCK FALSE
INVARIANTS
  DumpIsComplete
  NewestKeepsItsFile
  CheckpointScheduled
  DurableDump
  UnforkedShutdownSaves
PROPERTIES
  RequestIsServed
  CheckpointEnds
