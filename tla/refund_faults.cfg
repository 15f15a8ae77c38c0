SPECIFICATION Spec
CONSTANTS
  Orders = {o1}
  Procs = {p1, p2}
  NoOrder = NoOrder
  Amount = 2
  Days = 1
  MaxBalance = 2
  MaxTerm = 2
  LostAcks = TRUE
  MaxRefusals = 1
  MaxFaults = 1
  MaxCrashes = 1
SYMMETRY Symmetry
INVARIANTS
  OneRefunder
  SettledAmount
  CompletedBalanceIsWhole
  TakenOnce
PROPERTIES
  ImplementsContract
CHECK_DEADLOCK FALSE
