CONSTANTS
  Compilers = {p1, p2}
  Inputs <- MCInputs
  App <- MCApp
  Seed <- MCSeed
  Ids <- MCIds
  IdRank <- MCIdRank
  None = None
  MaxTime = 1
SPECIFICATION MemSpec
INVARIANTS
  MemTypeOK
  LosersAreBeaten
  SweepTakesSides
  KbShowsView
PROPERTIES
  BeliefsAreKept
