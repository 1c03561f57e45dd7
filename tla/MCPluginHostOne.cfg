CONSTANTS
  Tasks = {t1}
  NoTask = NoTask
  QueueCap = 1
  MaxCalls = 2
  MaxLife = 1
  MaxBad = 1
SPECIFICATION FairSpec
INVARIANTS
  NilIsEarned
  NoOrphan
PROPERTIES
  CallReturns
  DeathIsReported
