SPECIFICATION HFairSpec
CONSTANTS
  MaxSchedules = 2
  Names = {"nightly", "weekly"}
  FirstName = "nightly"
  DayLen = 2
  MaxClock = 3
  MaxCrashes = 1
  MaxFaults = 1
  MaxOutages = 1
  Creates = {c1}
  Updates = {u1}
  c1 = c1
  u1 = u1
INVARIANTS
  DeletedStaysDeleted
  RefiredOnlyUnseen
PROPERTY DueIsServed
CHECK_DEADLOCK FALSE
