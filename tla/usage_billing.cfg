SPECIFICATION FairSpec
CONSTANTS
  i1 = i1
  u1 = u1
  u2 = u2
  k1 = k1
  k2 = k2
  f1 = f1
  f2 = f2
  Records = {u1, u2}
  Keys = {k1, k2}
  Prints = {f1, f2}
  Instances = {i1}
  Home <- MCHome
  None = None
  QueueSize = 1
  WriteBuffer = 1
  Opening = 1
  Commands <- MCCommands
  MaxChanges = 1
  MaxLoads = 1
  MaxFaults = 1
INVARIANTS
  TypeOK
  BalanceExplained
  CacheAgrees
PROPERTIES
  AcceptedIsBilled
CHECK_DEADLOCK FALSE
