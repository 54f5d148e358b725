SPECIFICATION Spec
CONSTANTS
  Player = {w}
  Wizard = {w}
  Conn = {c1}
  TaskId = {t1, t2, t3}
  MaxQueues = 2
  MaxInput = 2
  MaxUsage = 0
  Delay = {0, 1}
  Line = {"TASK_INBAND", "TASK_OOB"}
  queued_task_limit = 1
  PermsTarget = {}
  SameListener = {TRUE}
  Builtin = {"fork", "call", "read", "read_input_now", "force_input", "flush_input", "hold-input", "disable-oob", "kill_task", "suspend", "resume"}
SYMMETRY MCSymmetry
INVARIANT RunnableIsActive
