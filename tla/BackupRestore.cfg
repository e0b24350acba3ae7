SPECIFICATION HFairSpec
CONSTANTS
  MaxPoints = 2
  MaxPower = 1
  MaxCrashes = 0
  MaxFaults = 0
  MaxBusy = 2
  NumDisks = 2
  KeepLast = 1
  Requests = {"auto"}
  Backups = {b1, b2}
  Deletes = {d1}
  Prunes = {c1}
  Restores = {r1, r2}
  b1 = b1
  b2 = b2
  d1 = d1
  c1 = c1
  r1 = r1
  r2 = r2
INVARIANTS
  TypeOK
  AnchorUsable
  RestoredUnlessOverwritten
PROPERTIES
  CallsReturn
CHECK_DEADLOCK FALSE
