------------------------------- MODULE Escrow -------------------------------
(***************************************************************************)
(* The share registry of one basket, as the polybaskets-escrow program     *)
(* keeps it on chain.  A Solana transaction is atomic, so each instruction *)
(* handler is one action; its require! and checked_* lines are the guard.  *)
(* What the backend puts in the instruction arguments (batch hashes, NAVs, *)
(* realized values, nonces) is chosen freely: the program must be right    *)
(* for every argument that its own checks let through.                     *)
(*                                                                         *)
(* Hashes, signatures, expiries and accounts are abstracted: a receipt is  *)
(* the record stored at the address derived from its batch hash, and an    *)
(* intent is the pair of its user and its nonce.                           *)
(***************************************************************************)
EXTENDS Integers, FiniteSetsExt

CONSTANTS
  Users,             \* owners of positions
  Treasury,          \* stands for protocol_fee_destination in a receipt
  Batches,           \* execution batch hashes
  GrossAmounts,      \* values of gross_amount the intents carry
  NavValues,         \* values of basket_nav_value and final_nav_value
  RealizedValues,    \* values of gross_realized_value outside redemption
  MaxTime,           \* bound on the cluster clock
  MaxSettlementNonce,    \* bound on settlement_nonce
  MaxCompositionNonce,   \* bound on composition_nonce
  MaxU64,            \* largest u64
  MaxU128,           \* largest u128
  SHARE_SCALE, MAX_BPS,
  DEPOSIT_FEE_BPS, MANAGEMENT_FEE_BPS,
  EARLY_WITHDRAWAL_FEE_BPS, MATURE_WITHDRAWAL_FEE_BPS,
  MANAGEMENT_FEE_PERIOD_SECS, MATURE_HOLDING_PERIOD_SECS,
  MAX_MANAGEMENT_FEE_PERIODS,
  PerformanceFeeBps, \* performance_fee_bps of the basket
  MaxSlippageBps,    \* max_slippage_bps of the config
  Cadence            \* reconstitution_cadence_secs of the basket

ASSUME InputAssumption ==
  /\ Users # {} /\ IsFiniteSet(Users)
  /\ Treasury \notin Users
  /\ GrossAmounts \subseteq Nat \ {0}
  /\ NavValues \subseteq Nat
  /\ RealizedValues \subseteq Nat

ASSUME BoundAssumption ==
  /\ MaxTime \in Nat \ {0}
  /\ MaxSettlementNonce \in Nat
  /\ MaxCompositionNonce \in Nat
  /\ MaxU64 \in Nat
  /\ MaxU128 \in Nat

ASSUME RateAssumption ==
  /\ SHARE_SCALE \in Nat \ {0}
  /\ MAX_BPS \in Nat \ {0}
  /\ MANAGEMENT_FEE_PERIOD_SECS \in Nat \ {0}
  /\ MATURE_HOLDING_PERIOD_SECS \in Nat
  /\ MAX_MANAGEMENT_FEE_PERIODS \in Nat
  /\ Cadence \in Nat
  /\ MANAGEMENT_FEE_BPS \in 0 .. MAX_BPS - 1
  /\ {DEPOSIT_FEE_BPS, EARLY_WITHDRAWAL_FEE_BPS, MATURE_WITHDRAWAL_FEE_BPS,
      PerformanceFeeBps, MaxSlippageBps} \subseteq 0 .. MAX_BPS

\* The performance fee a creator may set leaves room for either exit fee.
ASSUME FeeAssumption ==
  {PerformanceFeeBps + EARLY_WITHDRAWAL_FEE_BPS,
   PerformanceFeeBps + MATURE_WITHDRAWAL_FEE_BPS} \subseteq 0 .. MAX_BPS

VARIABLES
  \* the config account and the cluster clock
  paused, now,
  \* the basket account
  status, is_perpetual,
  total_shares_outstanding, protocol_fee_shares,
  last_management_fee_at, management_fee_accrual_remainder,
  has_initialized_share_price, last_settlement_nonce,
  composition_version, last_composition_nonce, last_reconstitution_at,
  final_nav_value, final_share_snapshot, final_shares_consumed,
  \* the position accounts and the receipt accounts
  positions, receipts,
  \* history: gross value paid out of the final NAV; share-seconds held since
  \* the last time the management fee was taken
  final_paid, unbilled

feeVars       == <<last_management_fee_at, management_fee_accrual_remainder>>
supplyVars    == <<total_shares_outstanding, protocol_fee_shares>>
compositionVars == <<composition_version, last_composition_nonce,
                     last_reconstitution_at>>
finalVars     == <<final_nav_value, final_share_snapshot,
                   final_shares_consumed, final_paid>>
settlementVars == <<positions, receipts, last_settlement_nonce,
                    has_initialized_share_price>>
vars == <<paused, now, status, is_perpetual, supplyVars, feeVars, unbilled,
          compositionVars, finalVars, settlementVars>>

-----------------------------------------------------------------------------
(* Types *)

U64  == 0 .. MaxU64
U128 == 0 .. MaxU128

BasketStatus ==
  {"Active", "Reconstituting", "Resolving", "Redeemable", "Closed"}

Position == [shares_owned : Nat, cost_basis_value : Nat,
             weighted_deposit_timestamp : Nat, last_intent_nonce : Nat]

NewPosition == [shares_owned |-> 0, cost_basis_value |-> 0,
                weighted_deposit_timestamp |-> 0, last_intent_nonce |-> 0]

SettlementReceipt == [batch : Batches, user : Users \cup {Treasury},
                      intent_nonce : Nat, settlement_nonce : Nat]

-----------------------------------------------------------------------------
(* math.rs *)

fee_ceil(amount, bps) == (amount * bps + MAX_BPS - 1) \div MAX_BPS

fee_floor(amount, bps) == (amount * bps) \div MAX_BPS

shares_for_value(net, price) == (net * SHARE_SCALE) \div price

share_price_from_nav(nav, shares) == (nav * SHARE_SCALE) \div shares

value_for_shares(shares, price) == (shares * price) \div SHARE_SCALE

cost_basis_for_shares(basis, redeemed, owned) ==
  IF redeemed = owned THEN basis
                      ELSE (basis * redeemed + owned - 1) \div owned

minimum_after_slippage(quoted, tolerance) ==
  (quoted * (MAX_BPS - tolerance) + MAX_BPS - 1) \div MAX_BPS

pro_rata_value(value, shares, total) == (value * shares) \div total

weighted_average_timestamp(basis, timestamp, added) ==
  IF basis = 0 THEN now
               ELSE (timestamp * basis + now * added) \div (basis + added)

-----------------------------------------------------------------------------
(* accrue_management_fee_internal *)

UserShares == total_shares_outstanding - protocol_fee_shares

FeeDenominator == (MAX_BPS - MANAGEMENT_FEE_BPS) * MANAGEMENT_FEE_PERIOD_SECS

\* The loop over fee periods.  feeLoop[n] is what has been minted, and the
\* carried remainder, after n intervals; all but the last are full periods.
management_fee_shares_for_elapsed(elapsed) ==
  LET P == MANAGEMENT_FEE_PERIOD_SECS
      interval(n) == IF n * P <= elapsed THEN P ELSE elapsed - (n - 1) * P
      feeLoop[n \in Nat] ==
        IF n = 0
        THEN [minted |-> 0, remainder |-> management_fee_accrual_remainder]
        ELSE LET done == feeLoop[n - 1]
                 numerator == (total_shares_outstanding + done.minted)
                                * MANAGEMENT_FEE_BPS * interval(n)
                                + done.remainder
             IN [minted    |-> done.minted + numerator \div FeeDenominator,
                 remainder |-> numerator % FeeDenominator]
  IN feeLoop[(elapsed + P - 1) \div P]

\* No user holds shares: the clock is moved and nothing is charged.
NobodyToCharge ==
  total_shares_outstanding = 0 \/ UserShares = 0 \/ last_management_fee_at = 0

\* The accrual every handler starts with, as the counters it leaves.
Accrual ==
  LET fee == IF NobodyToCharge
             THEN [minted |-> 0, remainder |-> 0]
             ELSE management_fee_shares_for_elapsed(now - last_management_fee_at)
  IN [minted     |-> fee.minted,
      total      |-> total_shares_outstanding + fee.minted,
      fee_shares |-> protocol_fee_shares + fee.minted,
      remainder  |-> fee.remainder]

CanAccrue_Unchecked(acc) == acc.remainder \in U128

\* The checks of the accrual, its checked additions and its widths.
CanAccrue(acc) ==
  /\ total_shares_outstanding >= protocol_fee_shares
  /\ NobodyToCharge \/ /\ now >= last_management_fee_at
                       /\ management_fee_accrual_remainder < FeeDenominator
                       /\ (now - last_management_fee_at)
                            \div MANAGEMENT_FEE_PERIOD_SECS
                            <= MAX_MANAGEMENT_FEE_PERIODS
  /\ {acc.minted, acc.total, acc.fee_shares} \subseteq U64
  /\ acc.remainder \in U128

TakeFee_ClockMovesOnlyOnMint(acc) ==
  /\ CanAccrue(acc)
  /\ last_management_fee_at' =
       IF acc.minted > 0 \/ NobodyToCharge
       THEN now ELSE last_management_fee_at
  /\ management_fee_accrual_remainder' = acc.remainder
  /\ unbilled' = IF NobodyToCharge THEN unbilled ELSE 0

\* What every accrual does besides moving the share counters.
TakeFee(acc) ==
  /\ CanAccrue(acc)
  /\ last_management_fee_at' = now
  /\ management_fee_accrual_remainder' = acc.remainder
  /\ unbilled' = IF NobodyToCharge THEN unbilled ELSE 0

-----------------------------------------------------------------------------
Init ==
  /\ paused = FALSE
  /\ now = 1
  /\ status = "Active"
  /\ is_perpetual \in BOOLEAN
  /\ total_shares_outstanding = 0
  /\ protocol_fee_shares = 0
  /\ last_management_fee_at = 0
  /\ management_fee_accrual_remainder = 0
  /\ has_initialized_share_price = FALSE
  /\ last_settlement_nonce = 0
  /\ composition_version = 1
  /\ last_composition_nonce = 1
  /\ last_reconstitution_at = 1
  /\ final_nav_value = 0
  /\ final_share_snapshot = 0
  /\ final_shares_consumed = 0
  /\ positions = [u \in Users |-> NewPosition]
  /\ receipts = {}
  /\ final_paid = 0
  /\ unbilled = 0

-----------------------------------------------------------------------------
(* Environment: the cluster clock and the administrator's pause switch *)

AccruingStatus == status \in {"Active", "Reconstituting", "Resolving"}

Tick ==
  /\ now < MaxTime
  /\ now' = now + 1
  /\ unbilled' = IF AccruingStatus /\ UserShares > 0
                 THEN unbilled + total_shares_outstanding ELSE unbilled
  /\ UNCHANGED <<paused, status, is_perpetual, supplyVars, feeVars,
                 compositionVars, finalVars, settlementVars>>

set_paused(value) ==
  /\ paused' = value
  /\ UNCHANGED <<now, status, is_perpetual, supplyVars, feeVars, unbilled,
                 compositionVars, finalVars, settlementVars>>

-----------------------------------------------------------------------------
(* Instruction handlers *)

accrue_management_fee ==
  LET acc == Accrual
  IN /\ AccruingStatus
     /\ TakeFee(acc)
     /\ total_shares_outstanding' = acc.total
     /\ protocol_fee_shares' = acc.fee_shares
     /\ UNCHANGED <<paused, now, status, is_perpetual, compositionVars,
                    finalVars, settlementVars>>

\* The receipt account is created at an address derived from the batch hash,
\* so a batch that already has one fails the transaction.
InitializeReceipt(batch, user, intentNonce, nonce) ==
  /\ \A r \in receipts : r.batch # batch
  /\ nonce > last_settlement_nonce
  /\ last_settlement_nonce' = nonce
  /\ receipts' = receipts \cup
       {[batch |-> batch, user |-> user, intent_nonce |-> intentNonce,
         settlement_nonce |-> nonce]}

validate_position_and_nonce_Replayable(p, intentNonce) ==
  intentNonce \in {p.last_intent_nonce, p.last_intent_nonce + 1}

\* Intents of a user settle one by one, without gaps.
validate_position_and_nonce(p, intentNonce) ==
  intentNonce = p.last_intent_nonce + 1

complete_deposit(u, batch, intentNonce, nonce, gross, net, nav) ==
  LET p == positions[u]
      acc == Accrual
      price == IF has_initialized_share_price
               THEN share_price_from_nav(nav, acc.total) ELSE SHARE_SCALE
      expectedNet == gross - fee_ceil(gross, DEPOSIT_FEE_BPS)
      credited == shares_for_value(net, price)
  IN /\ ~paused
     /\ status = "Active"
     /\ validate_position_and_nonce(p, intentNonce)
     /\ InitializeReceipt(batch, u, intentNonce, nonce)
     /\ TakeFee(acc)
     /\ has_initialized_share_price <=> acc.total > 0
     /\ price \in U64 \ {0}
     /\ net > 0
     /\ net <= expectedNet
     /\ net >= minimum_after_slippage(expectedNet, MaxSlippageBps)
     /\ credited \in U64 \ {0}
     /\ p.cost_basis_value > 0 => p.weighted_deposit_timestamp \in 1 .. now
     /\ {acc.total + credited, p.cost_basis_value + net} \subseteq U64
     /\ total_shares_outstanding' = acc.total + credited
     /\ protocol_fee_shares' = acc.fee_shares
     /\ has_initialized_share_price' = TRUE
     /\ positions' = [positions EXCEPT ![u] =
          [shares_owned |-> p.shares_owned + credited,
           cost_basis_value |-> p.cost_basis_value + net,
           weighted_deposit_timestamp |->
             weighted_average_timestamp(p.cost_basis_value,
                                        p.weighted_deposit_timestamp, net),
           last_intent_nonce |-> intentNonce]]
     /\ UNCHANGED <<paused, now, status, is_perpetual, compositionVars,
                    finalVars>>

BurnShares_NeverCloses(supply, shares) ==
  /\ supply >= shares
  /\ total_shares_outstanding' = supply - shares
  /\ status' = status

\* The last share burnt closes the basket.
BurnShares(supply, shares) ==
  /\ supply >= shares
  /\ total_shares_outstanding' = supply - shares
  /\ status' = IF supply = shares THEN "Closed" ELSE status

\* Redeeming against the recorded final NAV: price, value and NAV are fixed.
FinalValue(shares, gross, nav) ==
  /\ nav = final_nav_value
  /\ final_share_snapshot > 0
  /\ share_price_from_nav(nav, final_share_snapshot) \in U64
  /\ gross = pro_rata_value(nav, shares, final_share_snapshot)
  /\ final_shares_consumed' = final_shares_consumed + shares
  /\ final_paid' = final_paid + gross
  /\ UNCHANGED <<final_nav_value, final_share_snapshot>>

\* Leaving at the current NAV: only a minimum is enforced.
CurrentValue(supply, shares, gross, nav) ==
  /\ supply > 0
  /\ share_price_from_nav(nav, supply) \in U64
  /\ gross >= minimum_after_slippage(
        value_for_shares(shares, share_price_from_nav(nav, supply)),
        MaxSlippageBps)
  /\ UNCHANGED finalVars

WithdrawalFees(p, shares, gross) ==
  LET basis  == cost_basis_for_shares(p.cost_basis_value, shares, p.shares_owned)
      profit == IF gross > basis THEN gross - basis ELSE 0
      mature == now - p.weighted_deposit_timestamp >= MATURE_HOLDING_PERIOD_SECS
  IN fee_floor(profit, PerformanceFeeBps)
       + fee_ceil(gross, IF mature THEN MATURE_WITHDRAWAL_FEE_BPS
                                   ELSE EARLY_WITHDRAWAL_FEE_BPS)

RemainingTimestamp_AlwaysReset(p, left) == 0

RemainingTimestamp(p, left) ==
  IF left = 0 THEN 0 ELSE p.weighted_deposit_timestamp

complete_withdrawal(u, batch, intentNonce, nonce, shares, gross, nav) ==
  LET p == positions[u]
      acc == Accrual
      basis == cost_basis_for_shares(p.cost_basis_value, shares, p.shares_owned)
      left  == p.shares_owned - shares
  IN /\ ~paused
     /\ shares \in 1 .. p.shares_owned
     /\ validate_position_and_nonce(p, intentNonce)
     /\ InitializeReceipt(batch, u, intentNonce, nonce)
     /\ \/ /\ status = "Active"
           /\ TakeFee(acc)
           /\ protocol_fee_shares' = acc.fee_shares
           /\ BurnShares(acc.total, shares)
           /\ CurrentValue(acc.total, shares, gross, nav)
        \/ /\ status = "Redeemable"
           /\ BurnShares(total_shares_outstanding, shares)
           /\ FinalValue(shares, gross, nav)
           /\ UNCHANGED <<protocol_fee_shares, feeVars, unbilled>>
     /\ p.weighted_deposit_timestamp \in 1 .. now
     /\ p.cost_basis_value >= basis
     /\ gross >= WithdrawalFees(p, shares, gross)
     /\ positions' = [positions EXCEPT ![u] =
          [shares_owned |-> left,
           cost_basis_value |-> p.cost_basis_value - basis,
           weighted_deposit_timestamp |-> RemainingTimestamp(p, left),
           last_intent_nonce |-> intentNonce]]
     /\ UNCHANGED <<paused, now, is_perpetual, compositionVars,
                    has_initialized_share_price>>

complete_protocol_fee_withdrawal(batch, nonce, shares, gross, nav) ==
  LET acc == Accrual
  IN /\ ~paused
     /\ shares > 0
     /\ InitializeReceipt(batch, Treasury, 0, nonce)
     /\ \/ /\ AccruingStatus
           /\ TakeFee(acc)
           /\ shares <= acc.fee_shares
           /\ protocol_fee_shares' = acc.fee_shares - shares
           /\ BurnShares(acc.total, shares)
           /\ CurrentValue(acc.total, shares, gross, nav)
        \/ /\ status = "Redeemable"
           /\ shares <= protocol_fee_shares
           /\ protocol_fee_shares' = protocol_fee_shares - shares
           /\ BurnShares(total_shares_outstanding, shares)
           /\ FinalValue(shares, gross, nav)
           /\ UNCHANGED <<feeVars, unbilled>>
     /\ UNCHANGED <<paused, now, is_perpetual, compositionVars, positions,
                    has_initialized_share_price>>

\* The four lifecycle handlers accrue first and do not look at the pause.
AccrueForLifecycle(acc) ==
  /\ TakeFee(acc)
  /\ total_shares_outstanding' = acc.total
  /\ protocol_fee_shares' = acc.fee_shares
  /\ UNCHANGED <<paused, now, is_perpetual, settlementVars>>

begin_reconstitution ==
  /\ is_perpetual
  /\ status = "Active"
  /\ now >= last_reconstitution_at + Cadence
  /\ status' = "Reconstituting"
  /\ AccrueForLifecycle(Accrual)
  /\ UNCHANGED <<compositionVars, finalVars>>

complete_reconstitution(compositionNonce) ==
  /\ status = "Reconstituting"
  /\ compositionNonce > last_composition_nonce
  /\ composition_version' = composition_version + 1
  /\ last_composition_nonce' = compositionNonce
  /\ last_reconstitution_at' = now
  /\ status' = "Active"
  /\ AccrueForLifecycle(Accrual)
  /\ UNCHANGED finalVars

begin_resolution ==
  /\ ~is_perpetual
  /\ status = "Active"
  /\ status' = "Resolving"
  /\ AccrueForLifecycle(Accrual)
  /\ UNCHANGED <<compositionVars, finalVars>>

record_final_settlement_StaleSnapshot(snapshot, nav) ==
  /\ status = "Resolving"
  /\ snapshot = Accrual.total
  /\ snapshot = 0 => nav = 0
  /\ final_nav_value' = nav
  /\ final_share_snapshot' = total_shares_outstanding
  /\ final_shares_consumed' = 0
  /\ final_paid' = 0
  /\ status' = IF snapshot = 0 THEN "Closed" ELSE "Redeemable"
  /\ AccrueForLifecycle(Accrual)
  /\ UNCHANGED compositionVars

record_final_settlement(snapshot, nav) ==
  /\ status = "Resolving"
  /\ snapshot = Accrual.total
  /\ snapshot = 0 => nav = 0
  /\ final_nav_value' = nav
  /\ final_share_snapshot' = snapshot
  /\ final_shares_consumed' = 0
  /\ final_paid' = 0
  /\ status' = IF snapshot = 0 THEN "Closed" ELSE "Redeemable"
  /\ AccrueForLifecycle(Accrual)
  /\ UNCHANGED compositionVars

-----------------------------------------------------------------------------
IntentNonces == 1 .. MaxSettlementNonce

SettlementNonces == 1 .. MaxSettlementNonce

\* Any realized value may be reported; redemption accepts only one.
GrossValues(nav, shares) ==
  IF status = "Redeemable"
  THEN {pro_rata_value(nav, shares, final_share_snapshot)} ELSE RealizedValues

Next ==
  \/ Tick
  \/ \E value \in BOOLEAN : set_paused(value)
  \/ accrue_management_fee
  \/ \E u \in Users, b \in Batches, k \in IntentNonces, n \in SettlementNonces,
        gross \in GrossAmounts, nav \in NavValues :
       \E net \in 1 .. gross : complete_deposit(u, b, k, n, gross, net, nav)
  \/ \E u \in Users, b \in Batches, k \in IntentNonces, n \in SettlementNonces,
        nav \in NavValues :
       \E shares \in 1 .. positions[u].shares_owned :
        \E gross \in GrossValues(nav, shares) :
          complete_withdrawal(u, b, k, n, shares, gross, nav)
  \/ \E b \in Batches, n \in SettlementNonces, nav \in NavValues :
       \E shares \in 1 .. Accrual.fee_shares :
        \E gross \in GrossValues(nav, shares) :
          complete_protocol_fee_withdrawal(b, n, shares, gross, nav)
  \/ begin_reconstitution
  \/ \E k \in 1 .. MaxCompositionNonce : complete_reconstitution(k)
  \/ begin_resolution
  \/ \E nav \in NavValues : record_final_settlement(Accrual.total, nav)

Spec == Init /\ [][Next]_vars

-----------------------------------------------------------------------------
(* Properties *)

\* Every account field stays within its width; the share counters are u64s.
TypeOK ==
  /\ paused \in BOOLEAN
  /\ is_perpetual \in BOOLEAN
  /\ has_initialized_share_price \in BOOLEAN
  /\ now \in 1 .. MaxTime
  /\ status \in BasketStatus
  /\ {total_shares_outstanding, protocol_fee_shares} \subseteq U64
  /\ last_management_fee_at \in 0 .. now
  /\ management_fee_accrual_remainder \in U128
  /\ {last_settlement_nonce, composition_version, last_composition_nonce,
      last_reconstitution_at, final_nav_value, final_share_snapshot,
      final_shares_consumed, final_paid, unbilled} \subseteq Nat
  /\ positions \in [Users -> Position]
  /\ receipts \subseteq SettlementReceipt

\* A step changes the supply by what it changes in the protocol's shares and in
\* the shares of one user at most: no handler, accruals and fee withdrawals
\* included, mints or burns at the expense of a third party's share count.
OneHolderMoves ==
  \E u \in Users :
    /\ \A v \in Users \ {u} :
         positions'[v].shares_owned = positions[v].shares_owned
    /\ total_shares_outstanding' - total_shares_outstanding =
         (protocol_fee_shares' - protocol_fee_shares)
         + (positions'[u].shares_owned - positions[u].shares_owned)

SupplyMovesWithOneHolder == [][OneHolderMoves]_vars

\* From the final settlement on, the shares redeemed and the shares still
\* outstanding add up to the snapshot the final NAV was divided by.
FinalSnapshotAccounted ==
  status = "Redeemable" =>
    final_shares_consumed + total_shares_outstanding = final_share_snapshot

\* However redemptions are sized and ordered, rounding included, what has been
\* paid out of the final NAV leaves enough for every claim still outstanding.
RemainingNavCoversClaims ==
  status = "Redeemable" =>
    final_nav_value - final_paid >=
      pro_rata_value(final_nav_value, protocol_fee_shares, final_share_snapshot)
      + MapThenSumSet(LAMBDA u : pro_rata_value(final_nav_value,
                        positions[u].shares_owned, final_share_snapshot), Users)

\* Redemptions, of users and of the protocol, never pay out more than the
\* final NAV that record_final_settlement stored.
PayoutsWithinFinalNav == final_paid <= final_nav_value

\* Each signed intent settles at most once: the receipts of a user carry the
\* nonces 1, 2, ... up to the position's last one, each exactly once, whatever
\* batch hashes and settlement nonces the backend retried with.
IntentsSettleOnceInOrder ==
  \A u \in Users :
    LET own == {r \in receipts : r.user = u}
    IN /\ {r.intent_nonce : r \in own} = 1 .. positions[u].last_intent_nonce
       /\ \A r, s \in own : r.intent_nonce = s.intent_nonce => r = s

\* While fees accrue, the share-seconds not yet billed are exactly the present
\* supply times the time since the last accrual: no handler changes the supply
\* without first billing the interval at the supply held in it, and none bills
\* an interval twice.
FeeBilledAtHeldSupply ==
  AccruingStatus =>
    unbilled = IF UserShares > 0
               THEN total_shares_outstanding * (now - last_management_fee_at)
               ELSE 0

\* A holder of a redeemable basket can always redeem everything: no sequence of
\* deposits, partial withdrawals and accruals leaves a position that the checks
\* of complete_withdrawal would refuse.
HolderCanRedeem ==
  status = "Redeemable" =>
    \A u \in Users :
      LET p == positions[u]
          gross == pro_rata_value(final_nav_value, p.shares_owned,
                                  final_share_snapshot)
      IN p.shares_owned > 0 =>
           /\ p.shares_owned <= total_shares_outstanding
           /\ share_price_from_nav(final_nav_value, final_share_snapshot) \in U64
           /\ p.weighted_deposit_timestamp \in 1 .. now
           /\ gross >= WithdrawalFees(p, p.shares_owned, gross)

\* A basket whose share price exists is closed exactly when its last share is
\* gone: a depositor never meets an initialized basket without supply, and no
\* path through the other handlers closes a basket that still owes shares.
ClosedExactlyWhenEmpty ==
  has_initialized_share_price =>
    (status = "Closed" <=> total_shares_outstanding = 0)

=============================================================================
