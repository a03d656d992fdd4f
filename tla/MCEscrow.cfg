SPECIFICATION Spec
SYMMETRY Symmetry
CONSTANTS
  Users = {u1, u2}
  Treasury = Treasury
  Batches = {b1, b2, b3}
  GrossAmounts = {5}
  NavValues = {0, 5}
  RealizedValues = {0, 6}
  MaxTime = 4
  MaxSettlementNonce = 3
  MaxCompositionNonce = 2
  MaxU64 = 13
  MaxU128 = 1000
  SHARE_SCALE = 2
  MAX_BPS = 10
  DEPOSIT_FEE_BPS = 1
  MANAGEMENT_FEE_BPS = 2
  EARLY_WITHDRAWAL_FEE_BPS = 2
  MATURE_WITHDRAWAL_FEE_BPS = 1
  MANAGEMENT_FEE_PERIOD_SECS = 2
  MATURE_HOLDING_PERIOD_SECS = 2
  MAX_MANAGEMENT_FEE_PERIODS = 3
  PerformanceFeeBps = 3
  MaxSlippageBps = 3
  Cadence = 1
INVARIANTS
  TypeOK
  RemainingNavCoversClaims
  IntentsSettleOnceInOrder
  FeeBilledAtHeldSupply
  HolderCanRedeem
  ClosedExactlyWhenEmpty
