SPECIFICATION DrivenSpec
CONSTANTS
  Targets = {t1}
  NoTarget = NoTarget
  Timeout <- ShortTimeouts
  MaxCorrections = 1
  Drivers = {"caller"}
  Scripts = {}
  Frames = 1
  QueueLen = 0
  TrackBudget = 1
  Mortal = {}
PROPERTIES
  ResetAfterDisarm
