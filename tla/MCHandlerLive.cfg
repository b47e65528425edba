SPECIFICATION FairSpec
CONSTANTS
  f1 = f1
  f2 = f2
  k1 = k1
  k2 = k2
  Files = {f1, f2}
  TaskIds = {k1, k2}
  NoTask = NoTask
  Slots = 1
  RetryCount = 1
  IOErrors = FALSE
  UserRemoves = FALSE
  ShortRetention = FALSE
  MaxVersion = 2
  MaxRestarts = 0
INVARIANTS
  UnchangedIsMoved
PROPERTIES
  EveryReportSettles
CHECK_DEADLOCK FALSE
