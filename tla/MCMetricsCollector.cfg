CONSTANTS
  Nodes = 2
  MaxLimit = 2
  MaxTicks = 4
SPECIFICATION FairSpec
INVARIANTS
  SummaryAgrees
  FatalIsEarned
PROPERTY
  StopReturns
