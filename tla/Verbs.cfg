SPECIFICATION MCSpec
CONSTANTS
  Obj <- MCObj
  Name = {a, b}
  Names = {{a}, {b}}
  Verbdef = {v1, v2}
  Program = {p1, p2}
  null_program = null_program
  Task = {t1, t2}
  NULL = NULL
  MaxFrames = 2
  MaxItems = 4
SYMMETRY MCSymmetry
INVARIANTS
  CacheIsTransparent
  ProgramsAreHeld
CHECK_DEADLOCK FALSE
