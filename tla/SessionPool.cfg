SPECIFICATION FairSpec
CONSTANTS
  Node = {n1, n2}
  Sid = {s1, s2}
  Free = Free
  Absent = Absent
  LockTTL = 4
  Period = 1
  Retries = 0
  Delays <- NoDelays
  Slack = 1
  MaxCrashes = 1
CHECK_DEADLOCK FALSE
INVARIANTS ClosedIsGone AtMostOneActive
PROPERTIES OrphansReapedByTheLiving 
