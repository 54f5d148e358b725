SPECIFICATION MCSpec
CONSTANTS
  MAX_QUEUED_OUTPUT = 3
  Length = {0, 1, 2, 4}
  MaxBlocks = 5
  MaxBytes = 5
INVARIANTS
  OutputIsBounded
  LossIsReported
  InputAsTyped
CHECK_DEADLOCK FALSE
