SPECIFICATION MetricsSpec
CONSTANTS
  Room = 3
  MaxFrames = 8
INVARIANT WindowIsBounded
CHECK_DEADLOCK FALSE
