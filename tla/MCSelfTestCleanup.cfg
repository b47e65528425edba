SPECIFICATION FairSpec
CONSTANTS
  KeepWorkDir = FALSE
  SetupTarget = 2
  NumFiles = 2
PROPERTIES
  EventuallyCleanedUp
CHECK_DEADLOCK FALSE
