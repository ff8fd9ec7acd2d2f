SPECIFICATION PartSpec
CONSTANTS
  Kinds = {"direct", "v4l", "synthetic", "replay"}
  NumBuffers = 1
  Depth = 1
  Endless = TRUE
  MaxSessions = 2
  MaxShots = 3
  Readers = {r1, r2}
  LatestReaders = {r2}
  FaultyReaders = {r2}
  ProducerMayCrash = TRUE
  Capacity = 2
  WriterLock = 4
  NoPid = NoPid
  MaxId = 4
INVARIANTS
  RefCountExact
  HeldFrameIntact
  WindowIntact
PROPERTIES
  DeliveredInOrder
  StoppedSourceLetsGo
  SkipOnlyIfGone
  ImplementsChannel
  ConsumersCatchUp
CHECK_DEADLOCK FALSE
