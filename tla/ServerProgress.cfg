SPECIFICATION LiveSpec
CONSTANTS
  Player = {w}
  Wizard = {w}
  Conn = {c1, c2}
  TaskId = {t1, t2}
  MaxQueues = 2
  MaxInput = 1
  MaxUsage = 1
  Delay = {0}
  Line = {"TASK_INBAND"}
  queued_task_limit = 0
  PermsTarget = {}
  SameListener = {TRUE}
  Builtin = {"read", "boot_player", "recycle"}
INVARIANTS
  HandleQueue
PROPERTIES
  TurnComes
  ReaderAnswered
  BootedIsClosed
