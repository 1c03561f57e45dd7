CONSTANTS
  Tasks = {t1, t2}
  NoTask = NoTask
  MaxStops <- MCStops
  t1 = t1
  t2 = t2
SPECIFICATION FairSpec
INVARIANTS
  OneEvent
  EndIsReported
  StopIsRetryable
PROPERTIES
  EndEventually
  StopCompletes
