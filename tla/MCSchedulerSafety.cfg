SPECIFICATION Spec
CONSTANTS
  t1 = t1
  t2 = t2
  s1 = s1
  q1 = q1
  Tasks = {t1, t2}
  Stoppers = {s1}
  Quiescers = {q1}
  SlotArgs = {0, 2}
  AddDelays = {1}
  RetryDelays = {1}
  MaxAttempts = 2
  MaxTime = 2
  MaxNotifiers = 1
SYMMETRY Symmetry
INVARIANTS
  TypeOK
  OnePlace
  CountersExact
  NoLostWakeup
  NoLostFinish
  StopDrained
PROPERTIES
  ImplementsPool
CHECK_DEADLOCK FALSE
