SPECIFICATION Spec
CONSTANTS
  Procs = {p1, p2}
  Fingerprints = {f1}
  NoFingerprint = NoFingerprint
  TTL = 4
  Lease = 3
  Backoff = 1
  MaxTime = 6
  MaxFaults = 0
  MaxCrashes = 0
SYMMETRY Symmetry
INVARIANTS
  ConcurrentOnce
CHECK_DEADLOCK FALSE
