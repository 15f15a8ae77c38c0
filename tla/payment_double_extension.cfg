SPECIFICATION Spec
CONSTANTS
  Orders = {o1}
  Procs = {p1, p2}
  NoOrder = NoOrder
  LegacyRows = FALSE
  LostAcks = FALSE
  MaxPending = 1
  DailyLimit = 0
  MaxFaults = 1
  MaxCrashes = 0
SYMMETRY Symmetry
INVARIANTS
  GrantedOnce
CHECK_DEADLOCK FALSE
