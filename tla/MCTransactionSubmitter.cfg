SPECIFICATION FairSpec
CONSTANTS
  s1 = s1
  s2 = s2
  Submitters = {s1, s2}
  MaxAttempts = 2
  FreshLimit = 2
  MaxFaults = 1
INVARIANTS
  TypeOK
  FinalizedIsLanded
PROPERTIES
  OutcomeIsFinal
  EverySubmitReturns
