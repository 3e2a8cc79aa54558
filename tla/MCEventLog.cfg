CONSTANTS
  Writers = {w1, w2}
  Events <- MCEvents
  Bulk <- MCBulk
  Given = {0}
  NoEvent = NoEvent
  NoBlob = NoBlob
  MaxTime = 2
SPECIFICATION Spec
INVARIANTS
  TypeOK
  RowsResolvable
  SeqGapless
PROPERTIES
  ImplementsBitemporalLog
  SettledViewFrozen
SYMMETRY Processes
CHECK_DEADLOCK FALSE
