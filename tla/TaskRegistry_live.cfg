SPECIFICATION FairSpec
CONSTANTS
  Task = {t1, t2}
  Item = {c1}
  NoItem = NoItem
  Instance = {i1, i2}
  Nobody = Nobody
  Stopper = {s1}
  MaxCrashes = 0
  MaxFaults = 0
CHECK_DEADLOCK FALSE
PROPERTIES StopIsHeeded FinishedIsUnlisted
