SPECIFICATION HSpec
CONSTANTS
  MaxPoints = 3
  MaxPower = 1
  MaxCrashes = 1
  MaxFaults = 1
  MaxBusy = 3
  NumDisks = 1
  KeepLast = 1
  Requests = {"auto", "full"}
  Backups = {b1, b2}
  Deletes = {}
  Prunes = {c1}
  Restores = {}
  b1 = b1
  b2 = b2
  c1 = c1
INVARIANTS
  UnspoiltChainsWhole
  ListedImagesMade
PROPERTIES
  ImplementsCatalog
CHECK_DEADLOCK FALSE
