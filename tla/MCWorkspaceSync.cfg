CONSTANTS
  worker = worker
  command = command
  Writers = {worker, command}
  Workers = {worker}
  Apps <- MCApps
  Plan <- MCPlan
  Documents <- MCDocuments
  Events <- MCEvents
  Bulk <- MCBulk
  Given = {}
  NoEvent = NoEvent
  NoBlob = NoBlob
  MaxTime = 1
  MaxFailures = 1
SPECIFICATION FairWsSpec
INVARIANTS
  WsTypeOK
  PassPrefix
  CursorMeansPass
  SteadySourceShown
PROPERTIES
  TakenIn
