SPECIFICATION FairSpec
CONSTANTS
  Accounts = {a1}
  Writers = {w1, w2}
  Pollers = {p1}
  Rebuilders = {b1}
  Readers = {r1}
  None = None
  BatchLimit = 2
  MaxChanges = 2
  MaxFaults = 2
  MaxCrashes = 1
  MaxTogether = 2
INVARIANTS
  TypeOK
  AtLeastOnce
  OneRebuild
PROPERTIES
  Converges
CHECK_DEADLOCK FALSE
