SPECIFICATION ServicesSpec
CONSTANTS
  Detectors = {"detector"}
  Recorders = {}
  LatestRecorders = {}
  Capacity = 2
  Overlap = FALSE
  MaxPublishers = 1
  MaxFrames = 2
PROPERTIES
  DetectorLeavesSilentRing
CHECK_DEADLOCK FALSE
