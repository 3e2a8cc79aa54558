CONSTANTS
  Tasks <- MCTasks
  Compiled <- MCCompiled
  Orders <- MCOrders
  Channels = {"C1"}
  Responses <- MCResponses
  Faults <- MCFaults
  MaxSteps = 2
  Writers = {w1}
  Events <- MCEvents
  Bulk <- MCBulk
  Given = {0}
  Closed = Closed
  MaxTime = 1
  Whole = 12
  RankUnit = 238266
  CandidateK = 20
  TopK = 2
  TokenBudget = 6
  IdOrder <- MCIdOrder
  ExactBudget = 4
  ExactItems = 3
SPECIFICATION BtSpec
INVARIANTS
  BtTypeOK
  Reproducible
  SuccessIsReal
  BundleIsFull
  NoMemoryNoDelta
