SPECIFICATION DrivenSpec
CONSTANTS
  Targets = {t1}
  NoTarget = NoTarget
  Timeout <- ShortTimeouts
  MaxCorrections = 1
  Drivers = {"service"}
  Scripts = {}
  Frames = 1
  QueueLen = 1
  TrackBudget = 1
  Mortal = {"fc"}
PROPERTIES
  LostHeartbeatAborts
