CONSTANTS
  N = 5
  MaxInFlight = 3
  Gap = 1
  MaxNow = 5
SPECIFICATION FairSpec
INVARIANT
  Accounted
PROPERTIES
  Paced
  CancelEnds
