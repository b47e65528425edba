SPECIFICATION FairSpec
CONSTANTS
  h1 = h1
  h2 = h2
  Handlers = {h1, h2}
  Slots = 1
  Metrics = TRUE
  MaxConcurrent = 2
  MaxFiles = 1
INVARIANTS
  TriggersAccounted
  SocketServesTriggers
  FilesSeen
  GracefulStop
  PruneChain
PROPERTIES
  SignalEnds
CHECK_DEADLOCK FALSE
