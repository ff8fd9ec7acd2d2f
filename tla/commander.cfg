SPECIFICATION DrivenSpec
CONSTANTS
  Targets = {t1, t2}
  NoTarget = NoTarget
  Timeout <- ShortTimeouts
  MaxCorrections = 1
  Drivers = {"caller", "scenario", "console", "service"}
  Scripts <- ShortScripts
  Frames = 2
  QueueLen = 1
  TrackBudget = 1
  Mortal = {"bridge", "tracker"}
INVARIANTS
  TargetMatchesState
  ScheduledActionsRun
PROPERTIES
  ImplementsEngagement
  AbortIsFinal
  SilenceIsNoticed
