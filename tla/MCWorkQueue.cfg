SPECIFICATION FairSpec
CONSTANTS
  d = d
  x = x
  p1 = p1
  p2 = p2
  Ops = {d, x}
  Deposits = {d}
  Dispatchers = {p1, p2}
  BatchSize = 2
  MAX_ATTEMPTS = 5
  MaxFaults = 2
INVARIANTS
  TypeOK
  OneHolderPerClaim
PROPERTIES
  CompletedIsFinal
  PendingIsDispatched
