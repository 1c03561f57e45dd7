CONSTANTS
  t1 = t1
  t2 = t2
  Tasks = {t1, t2}
  NoTask = NoTask
  MaxStops <- MCStops
SPECIFICATION Spec
INVARIANT
  FatalIsReported
