SPECIFICATION Spec
CONSTANTS
  Callers = {c1, c2}
  Loop = Loop
  Parameters = {"small", "large"}
  DefaultParameters = "small"
  TotalTicks = 2
  MaxRevision = 2
  MaxCrashes = 0
INVARIANTS
  StoredSnapshotCurrent
