SPECIFICATION FairSpec
CONSTANTS
  w1 = w1
  w2 = w2
  t1 = t1
  t2 = t2
  t3 = t3
  None = None
  Workers = {w1, w2}
  Tokens = {t1, t2, t3}
  Duration = 10
  Lag = 1
  Skew = 1
  Effect = 15
  MaxFaults = 1
INVARIANTS
  TypeOK
  OnlyOverrunsOverlap
PROPERTIES
  WalletIsFreed
