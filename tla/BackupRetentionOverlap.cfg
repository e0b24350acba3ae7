SPECIFICATION Spec
CONSTANTS
  MaxPoints = 3
  MaxPower = 0
  MaxCrashes = 0
  MaxFaults = 0
  NumDisks = 1
  KeepLast = 1
  Requests = {"auto", "full"}
  Backups = {b1, b2}
  Deletes = {}
  Prunes = {c1}
  Restores = {}
  b1 = b1
  b2 = b2
  c1 = c1
INVARIANTS
  ListedChainsUnbroken
CHECK_DEADLOCK FALSE
