SPECIFICATION Spec
CONSTANTS
  Player = {w}
  Wizard = {w}
  Conn = {c1, c2}
  TaskId = {t1, t2, t3}
  MaxQueues = 3
  MaxInput = 1
  MaxUsage = 0
  Delay = {0, 1}
  Line = {"TASK_INBAND"}
  queued_task_limit = 1
  PermsTarget = {c1, c2}
  SameListener = {FALSE}
  Builtin = {"suspend", "kill_task", "set_task_perms", "read", "open_network_connection"}
SYMMETRY MCSymmetry
INVARIANTS
  OneQueueEach
  BgAccounting
  TaskOnce
  QuotaHolds
  InOrder
PROPERTY HeadStays
