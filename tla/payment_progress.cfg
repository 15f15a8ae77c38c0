SPECIFICATION FairSpec
CONSTANTS
  Orders = {o1}
  Procs = {p1, p2}
  NoOrder = NoOrder
  LegacyRows = TRUE
  LostAcks = TRUE
  MaxPending = 1
  DailyLimit = 0
  MaxFaults = 0
  MaxCrashes = 0
INVARIANTS
  GrantedOnce
PROPERTIES
  PaidLeadsToCompleted
CHECK_DEADLOCK FALSE
