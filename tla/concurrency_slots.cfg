SPECIFICATION FairSpec
CONSTANTS
  i1 = i1
  i2 = i2
  r1 = r1
  r2 = r2
  Requests = {r1, r2}
  Instances = {i1, i2}
  Home <- MCHome
  Limit <- MCLimit
  MaxWait <- MCMaxWait
  None = None
  MaxSwitches <- MCMaxSwitches
  MaxOrphans = 1
  MaxFaults = 1
  MaxGone = 1
  MaxCrashes = 1
INVARIANTS
  TypeOK
  LimitKept
  NoPhantomWaiter
  OneSender
PROPERTIES
  EventuallyFree
CHECK_DEADLOCK FALSE
