CONSTANTS
  c1 = c1
  c2 = c2
  r1 = r1
  r2 = r2
  r3 = r3
  Clients = {c1, c2}
  Requests = {r1, r2, r3}
  NoRequest = NoRequest
  Via <- MCVia
  NoOf <- TwoUnits
  MaxPush = 1
SPECIFICATION FairSpec
INVARIANTS
  AcksCountOnce
  NoLeak
PROPERTY
  CallReturns
