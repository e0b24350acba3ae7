SPECIFICATION Spec
CONSTANTS
  MaxPoints = 3
  MaxPower = 1
  MaxCrashes = 0
  MaxFaults = 0
  NumDisks = 2
  KeepLast = 1
  Requests = {"auto", "full"}
  Backups = {b1}
  Deletes = {}
  Prunes = {}
  Restores = {r1}
  b1 = b1
  r1 = r1
INVARIANTS
  NoStaleCheckpoints
CHECK_DEADLOCK FALSE
