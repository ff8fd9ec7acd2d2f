SPECIFICATION BridgeSpec
CONSTANTS
  Buffers = 2
  BridgeMayFail = TRUE
  MaxClients = 3
  MaxChecks = 1
  MaxFrame = 4
INVARIANTS
  AnswersAreAwaited
  UnreadFramesIntact
PROPERTIES
  LagIsExact
  NewClientIsAccepted
