CONSTANTS
  MaxTasks = 3
  MaxHistory = 1
  Reports <- MCReports
SPECIFICATION MCFairSpec
INVARIANTS
  CancelledExactlyWhenRequested
  HistoryConsistent
  HistoryBounded
PROPERTIES
  ImplementsLifecycle
CHECK_DEADLOCK FALSE
