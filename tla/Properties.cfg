SPECIFICATION MCSpec
CONSTANTS
  MaxSet = 2
  Obj = {o1, o2, o3, o4}
  Player = {p}
  Name = {m, n}
  Value = {v}
  Clear = Clear
  Creator <- MCCreator
  Info <- MCInfo
  NewInfo <- MCNewInfo
SYMMETRY MCSymmetry
INVARIANTS
  ArraysFit
  RecycleEnds
  ValueFound
PROPERTY RefinesSpec
