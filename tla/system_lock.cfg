SPECIFICATION Spec
CONSTANTS
  Fingerprints = {p1, p2, p3}
  NoFingerprint = NoFingerprint
  TTL = 12
  Lease = 9
  RenewInterval = 3
  MaxTime = 15
  MaxFaults = 1
  MaxCrashes = 1
SYMMETRY Symmetry
INVARIANTS
  OneOperation
  CreatorKeepsLease
CHECK_DEADLOCK FALSE
