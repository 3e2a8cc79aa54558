CONSTANTS
  Writers = {w1, w2, w3}
  Syncers = {w1, w2}
  Events <- MCEvents
  Bulk <- MCBulk
  SyncBatches <- MCSyncBatches
  Given = {}
  NoEvent = NoEvent
  NoBlob = NoBlob
  MaxTime = 1
  MaxCrashes = 1
SPECIFICATION FairSyncSpec
ACTION_CONSTRAINTS
  ClockMovesBetweenBatches
  ForeignPassesFirst
INVARIANTS
  CalTypeOK
  CursorCovered
  HistoryPrefix
  ReplayOrder
PROPERTIES
  ImplementsEventLog
  Delivered
