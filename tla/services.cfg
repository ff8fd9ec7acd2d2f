SPECIFICATION PartSpec
CONSTANTS
  Detectors = {"detector"}
  Recorders = {"recorder"}
  LatestRecorders = {}
  Capacity = 1
  Overlap = TRUE
  MaxPublishers = 2
  MaxFrames = 2
  Adapters = {"mock", "mavlink"}
  MaxCmds = 2
  StaleAfter = 1
  MaxMishaps = 1
  MaxDeaths = 1
INVARIANTS
  AttachedIsReady
PROPERTIES
  OrphanIsLeft
  CommandsInOrder
  AbortArrives
  DeadLinkTold
CHECK_DEADLOCK FALSE
