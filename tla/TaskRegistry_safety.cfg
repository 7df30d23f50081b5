SPECIFICATION Spec
CONSTANTS
  Task = {t1, t2}
  Item = {c1}
  NoItem = NoItem
  Instance = {i1, i2}
  Nobody = Nobody
  Stopper = {s1}
  MaxCrashes = 1
  MaxFaults = 1
SYMMETRY TaskSymmetry
CHECK_DEADLOCK FALSE
INVARIANTS RunningIsStoppable SavedIsListed IndexWithinHash
PROPERTY ImplementsTaskLife
