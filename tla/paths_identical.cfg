SPECIFICATION CallSpec
CONSTANTS
  InputSize = 8
  Tensors <- SmallTensors
  FrameSizes <- SmallFrames
  ConfThreshold = 45
  IouThreshold = 20
  MaxSeed = 9
INVARIANTS
  PathsIdentical
CHECK_DEADLOCK FALSE
