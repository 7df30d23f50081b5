SPECIFICATION FairLockSpec
CONSTANTS
  Node = {n1, n2}
  Free = Free
  LockTTL = 2
  Period = 1
  Retries = 2
  Delays <- UsageDelays
  Slack = 1
  MaxCrashes = 2
CHECK_DEADLOCK FALSE
PROPERTIES AbandonedLockIsFreed 
