SPECIFICATION Spec
CONSTANTS
  Message = {m1, m2}
  Content = {c1, c2}
  Absent = Absent
  Writer = {w1, w2, w3}
  Loop = {w1, w2}
  MaxCalls = 3
  MaxFaults = 1
SYMMETRY ChatSymmetry
CHECK_DEADLOCK FALSE
INVARIANTS RowsCoverHistory LoneCallRepairs 
