SPECIFICATION Spec
CONSTANTS
  NumVars = 4
  max_stack_size = 3
  Base = 16
  NUM_READY_VARS = 2
  OPTIM_NUM_HI = 15
  Texts <- MCTexts
  Answers = {"zero", "one", "error", "kill", "suspend", "again", "quota"}
  Continuations = {"zero", "one", "error", "kill", "suspend", "again"}
  MaxCalls = 4
  Ticks = 30
  MAXINT = 3
INVARIANTS RunsAsWritten StackFits
PROPERTY TasksEnd
CHECK_DEADLOCK FALSE
