SPECIFICATION FairSpec
CONSTANTS
  Callers = {w1}
  Runs <- OnlyFinal
  NoOne = NoOne
  NumConditions = 1
  Payout = 2
  InitialPusd = 1
  FinalNav = 2
  FinalSettlementAttempts = 2
  MaxOthers = 0
  MaxFaults = 0
  Users = {u1}
  Treasury = Treasury
  Batches = {b1, b2}
  GrossAmounts = {5}
  NavValues = {5}
  RealizedValues = {6}
  MaxTime = 6
  MaxSettlementNonce = 2
  MaxCompositionNonce = 3
  MaxU64 = 40
  MaxU128 = 1000
  SHARE_SCALE = 2
  MAX_BPS = 10
  DEPOSIT_FEE_BPS = 1
  MANAGEMENT_FEE_BPS = 2
  EARLY_WITHDRAWAL_FEE_BPS = 2
  MATURE_WITHDRAWAL_FEE_BPS = 1
  MANAGEMENT_FEE_PERIOD_SECS = 2
  MATURE_HOLDING_PERIOD_SECS = 2
  MAX_MANAGEMENT_FEE_PERIODS = 3
  PerformanceFeeBps = 3
  MaxSlippageBps = 3
  Cadence = 1
PROPERTY BegunIsCompleted
CHECK_DEADLOCK FALSE
