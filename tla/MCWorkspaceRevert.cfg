CONSTANTS
  worker = worker
  command = command
  Writers = {worker}
  Workers = {worker}
  Apps <- MCApps
  Plan <- MCPlan
  Documents <- RenamedTwice
  Events <- MCEvents
  Bulk <- MCBulk
  Given = {}
  NoEvent = NoEvent
  NoBlob = NoBlob
  MaxTime = 0
  MaxFailures = 1
SPECIFICATION WsSpec
INVARIANTS
  CurrentStateShown
CHECK_DEADLOCK FALSE
