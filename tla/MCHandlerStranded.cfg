SPECIFICATION Spec
CONSTANTS
  f1 = f1
  f2 = f2
  k1 = k1
  k2 = k2
  Files = {f1}
  TaskIds = {k1, k2}
  NoTask = NoTask
  Slots = 1
  RetryCount = 1
  IOErrors = FALSE
  UserRemoves = TRUE
  ShortRetention = TRUE
  MaxVersion = 2
  MaxRestarts = 0
INVARIANTS
  NothingStranded
CHECK_DEADLOCK FALSE
