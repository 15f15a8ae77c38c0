SPECIFICATION FairSpec
CONSTANTS
  i1 = i1
  i2 = i2
  b2 = b2
  p1 = p1
  a1 = a1
  Refreshers = {b2}
  Providers = {p1}
  Admins = {a1}
  Instances = {i1, i2}
  Home <- MCHome
  None = None
  MaxRetries = 2
  MaxExpiries = 1
  MaxRequests = 1
  MaxUnauthorized = 1
  MaxGone = 1
  MaxFaults = 1
  MaxCrashes = 1
INVARIANTS
  TypeOK
  OneRefresh
  StoredIsValid
  ErrorMeansDead
PROPERTIES
  RefreshedOrRetired
CHECK_DEADLOCK FALSE
