CONSTANTS
  MaxTasks = 4
  INPUT_HIWAT = 3
  Kind <- MCKinds
  Length <- MCLengths
SPECIFICATION Spec
INVARIANTS
  TypeOK
  ItailQueue
  SuspendedHasInput
PROPERTY
  RefinesSpec
