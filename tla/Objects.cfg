SPECIFICATION Spec
CONSTANTS
  MaxObjects = 4
  Caller = {c1}
  Fertile <- MCFertile
  Place <- MCPlace
  Person <- MCPerson
INVARIANTS
  TypeOK
  ListsAgree
  Acyclic
  NeverPanics
  UsersListed
CHECK_DEADLOCK FALSE
