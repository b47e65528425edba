SPECIFICATION Spec
CONSTANTS
  f1 = f1
  f2 = f2
  k1 = k1
  k2 = k2
  Files = {f1}
  TaskIds = {k1, k2}
  NoTask = NoTask
  Slots = 2
  RetryCount = 1
  IOErrors = TRUE
  UserRemoves = TRUE
  ShortRetention = TRUE
  MaxVersion = 2
  MaxRestarts = 1
SYMMETRY Symmetry
INVARIANTS
  TypeOK
  PendingExact
  StrandedReported
  SuccessIsHandled
  RetriesExact
CHECK_DEADLOCK FALSE
