SPECIFICATION Spec
CONSTANTS
  p1 = p1
  p2 = p2
  e1 = e1
  e2 = e2
  Pruners = {p1, p2}
  NumDirs = 2
  Entries = {e1}
  LockName = LockName
  Retention = 1
  Second = 2
  Minute = 4
  Folds = {0, 4}
  FoldAt = 4
  MaxTime = 9
  MaxTouches = 1
  MaxFaults = 1
SYMMETRY Symmetry
INVARIANTS
  OneAtATime
  Thorough
PROPERTIES
  KeptForRetention
  RecentlyUsedStays
CHECK_DEADLOCK FALSE
