SPECIFICATION FairSpec
CONSTANTS
  KeepWorkDir = FALSE
  SetupTarget = 2
  NumFiles = 2
INVARIANTS
  SuccessMeansPassed
  NoServerLeft
PROPERTIES
  SelfTestEnds
CHECK_DEADLOCK FALSE
