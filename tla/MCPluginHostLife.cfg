CONSTANTS
  Tasks = {t1}
  NoTask = NoTask
  QueueCap = 1
  MaxCalls = 2
  MaxLife = 1
  MaxBad = 0
SPECIFICATION Spec
INVARIANT
  LifeApplied
