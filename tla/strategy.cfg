SPECIFICATION Spec
CONSTANTS
  Callers = {c1}
  Loop = Loop
  Parameters = {"small", "large"}
  DefaultParameters = "small"
  TotalTicks = 2
  MaxRevision = 3
  MaxCrashes = 1
INVARIANTS
  TypeOK
  RevisionNamesConfiguration
  OneShotBuysOnce
  PauseStopsNewIntents
  FreshConfigurationUsed
