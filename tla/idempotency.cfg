SPECIFICATION Spec
CONSTANTS
  Procs = {p1, p2, p3}
  Fingerprints = {f1, f2}
  NoFingerprint = NoFingerprint
  TTL = 4
  Lease = 3
  Backoff = 1
  MaxTime = 6
  MaxFaults = 1
  MaxCrashes = 1
SYMMETRY Symmetry
INVARIANTS
  OneOwner
  EffectsApart
  ReplayIsOwn
PROPERTIES
  SuccessIsKept
CHECK_DEADLOCK FALSE
