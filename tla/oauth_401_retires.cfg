SPECIFICATION FairSpec
CONSTANTS
  i1 = i1
  i2 = i2
  b2 = b2
  p1 = p1
  a1 = a1
  Refreshers = {b2}
  Providers = {p1}
  Admins = {}
  Instances = {i1, i2}
  Home <- MCHome
  None = None
  MaxRetries = 2
  MaxExpiries = 1
  MaxRequests = 1
  MaxUnauthorized = 1
  MaxGone = 0
  MaxFaults = 0
  MaxCrashes = 0
CHECK_DEADLOCK FALSE
INVARIANTS
  StaysActive
