SPECIFICATION Spec
CONSTANTS
  i1 = i1
  i2 = i2
  i3 = i3
  i4 = i4
  i5 = i5
  i6 = i6
  t1 = t1
  t2 = t2
  s1 = s1
  s2 = s2
  Items = {i1, i2, i3, i4, i5, i6}
  Values = {1, 2, 3}
  NoItem = NoItem
  MaxDuration = 63
  Float64 <- FourBits
  Exact = 16
  FuzzNum = 4
  FuzzDen = 15
  RetryCounts = {0, 4}
  InitialDelays = {1, 6, 19}
  Factors <- SomeFactors
  MaxDelays = {0, 23, 63}
  NameMax = 8
  StampLength = 2
  MaxExtension = 4
  ShortHex = 2
  LongHex = 3
  TimeSuffix = 4
  NumSources = 2
  Handlers <- HandlerConfigs
  Files <- SomeFiles
  Tasks = {t1, t2}
  NobodyHolds = NobodyHolds
  MaxRetries = 1
  Scrapers = {s1, s2}
SYMMETRY Symmetry
INVARIANTS
  FinalIsLast
  OnlyFirstTooLong
  StampAndExtensionKept
  NoFeedback
  NoLockCycle
PROPERTIES
  ImplementsMinQueue
  DelaysBounded
CHECK_DEADLOCK FALSE
