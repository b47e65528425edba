SPECIFICATION OneCallSpec
CONSTANTS
  t1 = t1
  t2 = t2
  s1 = s1
  q1 = q1
  Tasks = {t1, t2}
  Stoppers = {s1}
  Quiescers = {q1}
  SlotArgs = {1}
  AddDelays = {1}
  RetryDelays = {1}
  MaxAttempts = 2
  MaxTime = 2
  MaxNotifiers = 1
PROPERTIES
  EveryTaskRuns
  StopReturns
  QuiesceReturns
CHECK_DEADLOCK FALSE
