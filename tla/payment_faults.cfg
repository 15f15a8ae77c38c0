SPECIFICATION Spec
CONSTANTS
  Orders = {o1}
  Procs = {p1, p2, p3}
  NoOrder = NoOrder
  LegacyRows = TRUE
  LostAcks = TRUE
  MaxPending = 1
  DailyLimit = 0
  MaxFaults = 1
  MaxCrashes = 1
SYMMETRY Symmetry
INVARIANTS
  BalanceCreditedOnce
  CreditOnlyIfPaid
  CompletedIsCredited
  OneFulfiller
  AckedIsRecorded
PROPERTIES
  RecordedStaysRecorded
  NoGrantInRefund
  ImplementsLedger
CHECK_DEADLOCK FALSE
