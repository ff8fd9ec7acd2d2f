SPECIFICATION UnitSpec
CONSTANTS
  InputSize = 8
  Sides = {2, 3, 4, 6, 7}
  Tensors <- SmallTensors
  FrameSizes <- SmallFrames
  ConfThreshold = 45
  IouThreshold = 20
  MaxSeed = 9
  Payloads <- ShortPayloads
  Ints = 16777216
  SaveEveryN = 2
  MaxDetections = 1
  MaxSaves = 3
  MaxRuns = 2
  Versions <- ShortVersions
  MaxCalls = 3
  Places = {0, 2}
  Heights = {0, 2, 4}
  Charges <- SomeCharges
  Voltages = {0, 100, 120}
  MaxDistance = 1
  MaxAltitude = 3
  MinAltitude <- BelowHome
  RthThreshold = 30
  LandThreshold = 15
  MinVoltage = 105
  HeaderSize = 2
  SlotSize = 2
  Word = 16
  Wide = 100
  MaxCapacity = 3
  MaxSegment = 40
  Sizes = {0, 1, 2, 3, 4, 6}
  Lengths = {1, 7, 20}
  Yaws <- AllYaws
  Window = 5
  ThresholdNum = 1
  ThresholdDen = 2
  AbortCount = 3
  Freeze = 2
  TriggerWindow = 10
  MaxTime = 12
  MaxCost = 2
  PaddingCost = 9
  AcceptCost = 1
  MaxTracks = 2
  MaxMissed = 1
  LockFrames = 2
  LockedOnly = TRUE
  MaxDets = 3
  MaxTrackId = 3
INVARIANTS
  PixelsInPlace
  NmsIsGreedy
  PathsAgree
  InlineFramesArrive
  LoggedFramesHavePictures
  BinaryIsWhole
  FramesApart
  EscalatesOnlyIfRepeated
  StreamIsCalm
  SearchExact
  SolvedOptimal
PROPERTIES
  WorstReadingDecides
  ImplementsContract
  ImplementsTracking
  UpdateEnds
CHECK_DEADLOCK FALSE
