SPECIFICATION Spec
CONSTANTS
  Sid = {s1, s2}
  Update = {u1, u2}
  Nothing = Nothing
  CompactionThreshold = 2
  WithData = {u1, u2}
  MaxHandlers = 2
  MaxJoins = 3
CHECK_DEADLOCK FALSE
SYMMETRY YdocSymmetry
INVARIANTS  GoneIsRemoved LastOneOutClears 
