CONSTANTS
  Writers = {w1}
  Events <- MCEvents
  Bulk <- MCBulk
  Given = {0}
  Closed = Closed
  MaxTime = 1
  Takers = {s1}
  Apps = {"gcal", "slack"}
  AllApps = AllApps
  Latest = Latest
  Checkouts <- MCCheckouts
  Diffs <- MCDiffs
  NoBlob = NoBlob
  None = None
  MaxDocs = 3
SPECIFICATION SnapSpec
INVARIANTS
  SnapTypeOK
  FoldIsLastWrite
  PersistedResolvable
  SteadySnapshotsHold
  DiffShowsOnlyWindow
CHECK_DEADLOCK FALSE
