SPECIFICATION FairUsageSpec
CONSTANTS
  n1 = n1
  n2 = n2
  s1 = s1
  s2 = s2
  Node = {n1, n2}
  Sid = {s1, s2}
  Model = {m1}
  At <- OneEach
  Free = Free
  Absent = Absent
  LockTTL = 2
  Period = 1
  Retries = 0
  Delays = {1}
  Slack = 1
  MaxCrashes = 1
CHECK_DEADLOCK FALSE
INVARIANT GoneAreNotRefreshed
PROPERTY UnusedModelsGo
