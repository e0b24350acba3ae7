SPECIFICATION WebSpec
CONSTANTS
  t1 = t1
  t2 = t2
  r1 = r1
  r2 = r2
  m1 = m1
  m2 = m2
  item1 = item1
  item2 = item2
  Tabs <- MCTabs
  Uses <- MCUses
  Users = {"ann", "bob"}
  NoOne = NoOne
  MaxTokens = 2
  MaxLost = 1
  Rows = {r1, r2}
  NoRow = NoRow
  CallSlots = {1, 2}
  MaxChanges = 1
  MaxFaults = 1
  Selections = {"vm1", "vm2"}
  NoSelection = "none"
  PollSlots = {1, 2}
  MaxVersions = 3
  MaxSelects = 2
  MaxMisses = 1
  MaxVisits = 2
  Machines = {m1, m2}
  NoMachine = NoMachine
  Sizes = {1, 2}
  MaxPoints = 2
  Tick = {1}
  MaxMoves = 2
  MaxEvents = 2
  MaxConnections = 6
  MaxDrops = 2
  MaxFlips = 2
  Targets = {item1, item2}
  NoTarget = NoTarget
  Submissions = {1, 2}
  MaxBreaks = 1
INVARIANTS
  WebTypeOK
  RightIdentity
  OneCallPerRow
  HistoryOfOneMachine
  OneLiveConsole
  SubmitsOnlyValid
  AnswersItsForm
PROPERTIES
  GhostEnds
  RefusedOnlyStale
  ShownSettles
  UndoesOnlySeen
  ConsoleComesBack
\* Every bound may be reached.
CHECK_DEADLOCK FALSE
