# AlphaBasket in TLA+

AlphaBasket sells shares of baskets of prediction-market positions and spot
tokens. The shares live in a Solana program; the assets are bought and sold by a
backend that trades on Polymarket and Jupiter, moves funds over bridges, and
reports what it did to the program. This directory models the parts of that
system in which order and failure decide about money: the program's share
registry and its registry of baskets, the workflows that execute deposits and
withdrawals, the queue that hands them out, the lease that guards an execution
wallet, the gateway that signs and broadcasts, the runs that recompose and
resolve a basket with the submitter of their transactions, and the indexer that
brings the chain's state back. TLC checks them on small instances; TLAPS proves,
for every value of the constants, what matters most.

Paths below are relative to `src/`; `backend/` is short for `src/backend/src/`
and `escrow/` for `src/solana-escrow/programs/polybaskets-escrow/src/`.

## The system

| part | state | operations | talks to |
|---|---|---|---|
| share registry (`escrow/instructions/settlement.rs`, `math.rs`, `state.rs`) | one basket account, positions, settlement receipts | `complete_deposit`, `complete_withdrawal`, protocol fee withdrawal, fee accrual, reconstitution, resolution, final settlement, pause | called by the settlement gateway, the keeper, the lifecycle workflows |
| basket registry (`escrow/instructions/registry.rs`, `create_basket.rs`, `phoenix.rs`, `admin.rs`) | configuration, tokens, eligibility lists, drafts, baskets, Phoenix receipts | publish, create, recompose, settle trades, pause | the API's creation gateway, the Composer |
| API (`backend/server`, `runtime/anchor-basket-creation-gateway.ts`) | portfolios, operations, work items | `createBasket`, intents | the program, the queue |
| deposit and withdrawal workflows (`backend/deposits`, `withdrawals`, `execution`) | `execution_operations` rows with a checkpoint; FAK journal; portfolio commits | one activity per operation, run and retried by Temporal | gateway, bridge, settlement, lease, projection |
| execution gateway (`backend/gateway`) | `execution_gateway_requests`, capital claims | sign an order, transfer pUSD, swap, split | CLOB, Polygon, Jupiter, Solana |
| settlement gateway (`backend/settlement`) | none: looks for the receipt first | `completeDeposit`, `completeWithdrawal` | the program |
| work queue and dispatcher (`backend/execution/work-queue.ts`, `workers`) | `execution_work_items` | claim, start, mark, release | Temporal, API store |
| wallet lease (`backend/wallets/operation-leases.ts`) | `wallet_operation_leases` | acquire, renew, release, heartbeat | every side-effecting workflow |
| transaction submitter (`backend/lifecycle/transaction-*.ts`) | submissions and numbered attempts | sign, broadcast, observe, expire, replace | Solana RPC |
| lifecycle runs (`backend/lifecycle`) | run store, external executions, redemption records | reconstitute, resolve | submitter, wallet lease, FAK journal, relayer |
| indexer (`backend/indexer`) | projected accounts and supplies, event log, cursors | two periodic syncs | Solana RPC; read by API, NAV, workflows |
| keeper, NAV, ledger | `distributed_leases`, reports, double-entry accounts | periodic, idempotent writes | read by the workflows' contexts |
| outbox, canary, reconciliation, signers, adapters, frontend, older bots | their own tables or none | | |

How the parts meet: the API inserts an operation and its work item; a dispatcher
claims the item and starts a Temporal workflow; its activity reads a context from
the indexer's projection and the ledger, takes the wallet's lease, walks through
the operation's states with an effect at each (order, bridge, transfer, payout),
settles on chain, commits the portfolio, and completes the item. The indexer
brings the new chain state back to the projection. A lifecycle run locks the
basket on chain, trades or redeems under the same lease, commits the portfolio,
and releases the basket with its next composition or its final settlement.

What is hard about it: an activity is retried as a whole, so every effect must be
found again by its key and its content; its first attempt may still be running
when the second starts; what it reads (projection, book, report, clock, ledger
version, nonce, balance) moves between its awaits; leases and claims expire under
slow holders; a transaction may be confirmed, dropped, replaced or expired while
nobody looks; what was checked when it was published may have lapsed when it is
used; integer rounding decides who gets the last unit. `PROJECT.json` lists these
hazards line by line, with the property that covers each or the reason none does.

What makes each part correct: the registry's final NAV covers every claim, and
time is billed at the supply held then; a basket takes up only what is eligible
at that moment; an operation settles once, is attributed once, and accounts for
what really moved; one signed payload per key leaves the gateway, and a source of
capital pays one split; a queue item is held by one dispatcher and does get
started; a wallet has one actor at a time, but for effects that outlive their
lease, and does not stay blocked; a submitted
transaction's outcome is final; lifecycle runs lock, move and release the basket
one after the other; the projection is true of the slot it names, and its cursors
promise only what the tables hold.

## Modules

| module | models | checked by |
|---|---|---|
| `Escrow` | the share registry of one basket | `MCEscrow` |
| `Registry` | configuration, lists, drafts, baskets, Phoenix trades, the API's `createBasket` | `MCRegistry` |
| `RegistryProofs` | theorems about it | TLAPS |
| `FinancialOperation` | what the backend promises: settle once, then attribute once | refined by `Execution` |
| `Execution` | the two workflows, the stores and gateways they call, and the world | `MCExecution`, three configurations |
| `ExecutionProofs` | `Execution` implements `FinancialOperation`, and theorems about its effects | TLAPS |
| `Gateway` | the execution gateway over its journal, Polygon and Solana | `MCGateway` |
| `GatewayProofs` | theorems about it | TLAPS |
| `WorkQueue` | work items, dispatchers, workflow starts | `MCWorkQueue` |
| `WorkQueueProofs` | theorems about it | TLAPS |
| `WalletLease` | lease rows, workers, heartbeats, clocks | `MCWalletLease` |
| `WalletLeaseProofs` | theorems about it | TLAPS |
| `TransactionSubmitter` | submissions, attempts, the cluster, competing callers | `MCTransactionSubmitter` |
| `TransactionSubmitterProofs` | theorems about it | TLAPS |
| `LifecyclePromise` | what a lifecycle run promises: lock, move, release, one run at a time | refined by `Lifecycle` |
| `Lifecycle` | run store, workflows, executors and gateway, composed with `Escrow` | `MCLifecycle`, two configurations |
| `LifecycleProofs` | theorems about `Escrow`, alone and under the runs, and about `Lifecycle` | TLAPS |
| `Indexer` | both streams, the supply projector, the cursors | `MCIndexer` |
| `IndexerProofs` | theorems about it | TLAPS |

`PROJECT.json` maps every definition that stands for code to its lines.

### Escrow

Variables carry the names of the account fields of `state.rs`. One action is one
instruction handler, with the accrual it runs first, the receipt it creates and
the status it leaves; a transaction is atomic, so there is nothing in between.
`Tick` is the cluster's clock. Numbers are unsigned integers of the program's
widths: a handler whose checked arithmetic would leave `MaxU64` or `MaxU128` is
not enabled. Fee rates, scales and periods are constants, because a basket of
thirteen share units at rates of tenths shows every rounding that a basket of
10^15 at rates of basis points has. `final_paid` and `unbilled` are history
variables: what redemptions have been paid, and the share-seconds not billed yet.
Left out: hashes and signatures, expiry of intents, the caller's own
`min_shares_out` and `min_value_out`, the content of a composition and its
expected version, and the gross counter, which nothing reads.

### Registry

One action is one instruction handler. An account at the address of a hash is a
record in a set, and a hash is what it is a hash of: `canonical_composition`
keeps of an item the terms that `canonical_composition_bytes` covers, and drops
the margin and entry price that settlements write into it. A draft is validated
twice, when it is published and when a basket takes it up (`Authorised`), against
the lists, tokens and clock of that moment. `complete_phoenix_trade` and `settle`
share the basket's settlement nonce. The API's request is a sequence of awaits:
look up the list and the draft, publish what is missing, create, open the
portfolio; a transaction may land although its confirmation is lost, and the
process may die after any step. Cadence, fees and shares are `Escrow`'s.

Left out: `attest_perp_event` and the price attestations, which emit events or
store single records that no modelled handler reads; the two-step change of the
admin and the limits; weights, outcomes and CTF ids of an item, which its market
stands for. Every configuration handler is called with the signer it requires.

### Execution

A worker is one attempt at a time of an activity, at a position `pc` of its
workflow's `Plan`; two workers may serve one operation. A plan is the sequence of
awaited calls of `DepositWorkflow.execute` or `WithdrawalWorkflow.execute` in the
source's order, and each call is an action that may interleave with the other
workers, the indexer, the market, crashes and lost leases. `Throw` ends an
attempt the way an exception does (the lease is released in `finally`), after
which Temporal starts it again.

Data is abstracted to what distinguishes one retry from another. A deposit's
amounts are fixed by its signed quote (`Quoted`). A withdrawal's amounts are a
function of the context it read, so the context stands for them. An order's price
bound is the number of the book it was computed from. A batch hash is the record
of what is hashed. A report or a fill newer than the attempt's sampled clock is
"from the future" (`loadLatestPricing`, `FromTheFuture`). One prediction leg
stands for the loop over legs.

A NAV report stands for its number and the supply it was computed from: the
indexed settlements, and the management fee projected to the second of its
observation (`ObservedSupply`). The program decides in `Accepts`: it books the fee
that has come due by then and requires the price of the report to be the price of
its own supply (`PriceMatches`), the intent's and the settlement's nonce, and an
intent that has not lapsed. An intent lapses (`Lapse`) when it expires, when its
composition version is replaced, when the basket resolves, or when the price leaves
the user's minimum behind; that is for good. A paused program, a basket that is
locked for a while, and a report more than 15 s old at the attempt's clock refuse
one attempt (`Refuse`, up to `MaxRefusals` of them) and not the operation. The
supply counts from `Baseline`, a basket that has its share price already; for the
first deposit of all see Disagreements.

Modelled is `live_bridge`; the Jupiter legs and `prefunded_staging` are not.
The gateway is seen from outside: a journaled request is replayed by its content.
What it does below that is `Gateway`.

### Gateway

A call is one HTTP request, with one action per await. `prepare` runs in a
serializable transaction behind an advisory lock: its snapshot (`seen`) is taken
when the call arrives, before it holds the lock, so that a call which waited may
sign a second payload; the primary key then refuses its row. The payload is
signed from what the chain says at that moment (the pending nonce of a transfer,
a fresh blockhash), journaled, and only then sent. A call can end at every await;
the caller sends the request again, and a key may come with other content.

The chains are external: a transaction is off chain, pending, included, final,
reverted or expired; a transfer of the same nonce replaces it; an inclusion can
be reorganised away. `WaitTransfer` follows a replacement, as viem's
`waitForTransactionReceipt` does. A row names its transaction (`reference`) from
the start when `build` knows it, a transfer's and a split's; a swap's is what
Jupiter reports, which `VerifySwap` takes to be any final swap of the wallet, since
the code does not compare it with the transaction in the journal. A split names the
swaps it is paid from by that signature. Amounts, fees, the signers' policies and the
shape of messages are abstracted: a failed check is one more way for a call to
end (`Fail`). So is the refusal of a second, differing result of the same swap.

### WorkQueue, WalletLease, TransactionSubmitter

`WorkQueue`: one action per statement of `work-queue.ts` and per await of
`runOnce`; a claim's token is its attempt number. The rows of one `claimReady`
change together or, if one of them would break the table's `CHECK`, not at all.

`WalletLease`: time is discrete, a row has a remaining life, every worker has a
clock skew of its own, every database call takes up to `Lag`, and an effect up to
`Effect`. The heartbeat runs beside the operation and aborts it through its
signal, which an effect under way does not see.

`TransactionSubmitter`: the loop of `submit` with one action per await, over a
cluster that knows a signature as unknown, pending, confirmed, finalized or
failed, can fork away one that is not final, confirmed or failed (`fork`), and
passes the height of a blockhash.

### Lifecycle

It extends `Escrow`, whose handlers are the program. Callers are processes that
execute a run, at a step `at` of the workflow with local variables `my`; a run
is executed by any of them, again and by several at once. One action is one
await: the run store's insert and versioned transitions, the gateway's submission
and observation of a batch, the executor's lease, `prepare`, load, orders,
redemptions, and the commit under the ledger version that was read.

It stands on two assumptions. Of the submitter it takes that an operation key
stands for one batch, which lands at most once, perhaps after its caller has given
up, and that a lost attempt is signed again (`Land`, `Drop`, `Usable`); no module
checks that, and `TransactionSubmitter` has steps that break it. Of the lease it
takes one `holder`, which `OnlyOverrunsOverlap` gives it only as long as no effect
outlives its lease. Where they fail (see Disagreements), so do conclusions drawn
here.

Amounts are abstracted to the portfolio version from which they are computed: an
order of a retry that read another version is another order under the same
client order id, which the FAK journal refuses; or the portfolio as read now
needs no order. One sale and one purchase stand for the loops over positions, and
for the hybrid branch with its spot trades, which goes through the same steps. A
redemption's only amount is its payout, since the balance check compares it with
what other operations on the wallet do to the balance (`OtherOperation`).
`check` has `completeReconstitution` as it is: missing lists or drafts are
refused by the submitter's signing policy, which knows five instructions and no
`publish_*`, so someone else has to publish them (`Publish`).

### Indexer

A sync is a sequence of database transactions, one action each, that ends with a
compare-and-set of its stream's cursor; two syncs of either stream overlap. A
finalized account is abstracted to its version, the number of transactions that
changed it by the end of a slot, and an event to the position of its transaction.
A node answers from any finalized slot, so one request may see an older state
than the last. `applySnapshotMonotonic` is one transaction; the supplies are
written in one transaction for each basket after it. The event scan reads pages
of signatures down to the cursor, appends what is above it oldest first, and
gives up with an error when the window ends first (`EventCursorGapError`,
`EventBackfillTruncatedError`). The program closes no account, so an account
that a snapshot does not have is one that was created later.

## Runs

| run | instance | question |
|---|---|---|
| `escrow` | 2 users, 3 batches, 4 ticks, u64 = 13 | does the registry stay consistent over every order of the instructions? |
| `registry` | 2 Composer keys, 3 compositions, 1 basket, 2 rival requests, 1 change of configuration, 1 fault | do baskets hold only what was eligible, and do portfolios and margins match them? |
| `execution` | a deposit, a withdrawal with two overlapping attempts, 1 fault | do retries and overlaps keep effects, settlement and attribution unique? |
| `execution_live` | 2 deposits, one of which may lapse, a fee that comes due, 1 refusal, no fault | does every activity return, whatever moves the price meanwhile? |
| `gateway` | 2 concurrent calls, an order, a transfer, 2 swaps, 2 splits, 3 signatures | do races and retries keep one effect per key, and is finalized final? |
| `queue` | a deposit, a withdrawal, 2 dispatchers, 2 faults, 5 attempts | is every item dispatched, once per claim? |
| `lease` | 2 workers, duration 10, lag and skew 1, effects up to 15 (units of 12 s) | whom does the lease exclude, and is it freed? |
| `submitter` | 2 callers, 2 attempts, 1 fault | are outcomes final, and does every call return? |
| `lifecycle` | 2 callers, 2 rival reconstitutions or a resolution, another operation, a deposit, 2 ticks, 1 fault | do runs take turns, and do stores, portfolio and program agree? |
| `indexer` | 2 syncs, 2 baskets, 3 slots, 3 transactions, pages of 1 | are rows true of their slot, and cursors of their tables? |

All of them hold. Two more runs each find a violation of what the repository says
of itself; `PROJECT.json` quotes the sentences and names the lines.

| run | what the repository says | what TLC shows |
|---|---|---|
| `settled_unattributed` | the attribution hook is exactly-once | a failure after settling and a projection that moves on: no retry can attribute it |
| `resolution_stuck` | a share-snapshot race is retried with a fresh read | a fee comes due before the final settlement lands: its key is used up, and every later call of the resolution is refused |

In both the fairness is the most a deployment could hope for (all retries,
indexer and bridge progress, landing transactions), so that what fails does not
fail for want of a retry; `resolution_stuck` needs no fault at all.

### Disagreements

While modelling, more places came up where the code does not do what its comments
and documents say. No run is kept for them; but for the first deposit, the models
contain the steps.

- A failure between a filled order and its journal entry, and a book that moves:
  the retry's price bound differs, the gateway refuses the reused key, and the
  fill is never journaled (`backend/execution/operation-runner.ts:521`, against
  `backend/gateway/clob-order-service.ts:88-90`).
- A withdrawal that read a stale projection pays its user before the program
  refuses the settlement, and its retry fails at the FAK journal
  (`backend/withdrawals/withdrawal-workflow.ts:385`).
- An operation at the table's limit of dispatch attempts makes the claim of all
  others fail (`backend/execution/work-queue.ts:127`; set `MAX_ATTEMPTS` to 2).
- The first deposit of a basket cannot be settled. Without shares a report has no
  price (`backend/nav/snapshot-service.ts:272-275`), and the settlement refuses such
  a report (`backend/settlement/postgres-pricing.ts:34`) after the order is filled.
  The program takes the first deposit at one dollar a share, as
  `src/README.md:84` says, and so does the API's quote
  (`backend/server/postgres-api-store.ts:195-197`).
- The relayer polls for up to 180 s (`backend/polymarket/relayer-rest.ts:182`) under
  a lease of 120 s. A worker whose renewal fails meanwhile is not interrupted, and
  a rival acts beside it: a wallet does not have one actor at a time, as
  `src/backend/README.md:217-219` and `src/backend/docs/phase-5-6-runbook.md:144-147`
  say. What is true is `OnlyOverrunsOverlap`.
- Two transfers prepared at once sign the same nonce. The one that is never mined
  is recorded as finalized with the other's receipt, since
  `waitForTransactionReceipt` follows the replacement and its hash is not compared
  (`backend/gateway/polygon-transfer-service.ts:120-127`,
  `backend/apps/execution-gateway.ts:165-172`). `FinalizedIsOnChain` leaves transfers
  out.
- A swap is finalized with the signature that Jupiter reported, which is verified
  on chain and never compared with the signed transaction in the journal
  (`backend/gateway/jupiter-swap-service.ts:209-217`, `245-246`).
- A run whose `completeReconstitution` landed before the run store recorded it
  cannot go on: the gateway reads the basket first, finds it active, and throws on
  every retry (`backend/lifecycle/anchor-gateway.ts:93`). The basket is recomposed
  and released, so that neither `CompletedIsOnChain` nor `RunsTakeTurns` notices;
  `check` in `Lifecycle` stops there.
- `observeSignature` believes a status with an error whatever its commitment
  (`backend/lifecycle/transaction-submitter.ts:263-267`): a transaction that failed
  on a fork is rejected for good, and may land afterwards.
- A submitted attempt whose blockhash expired cannot be marked expired, since the
  table forbids it; it is never replaced
  (`backend/lifecycle/transaction-journal.ts:240`). And a signed attempt that
  is confirmed but not final is unknown to `observeSignature`, so that it can be
  expired and replaced although it landed (`transaction-submitter.ts:155`).

### Bounds

Every bound is a constant named in its configuration. `escrow`: two users are the
smallest number with a third party to a transfer (the protocol is the other
holder); three batches let one user deposit, another join and one of them leave;
four ticks with a period of two cross a fee period and the maturity of a holding;
13 as u64 makes overflow an ordinary event. `registry`: one market of each kind
meets every rule between kinds; two requests for one basket are the race; a list
that lives one tick expires between draft and use; two settlement nonces put two
trades in either order. `execution`: one deposit beside one withdrawal gives both
plans and a ledger version that moves; the second attempt of the withdrawal is
the overlap; one fault suffices to separate any two neighbouring steps, and one
move of the book two attempts at the same order. `execution_live` moves the report
and the supply without a fault: by a fee that comes due, by the other operation's
settlement, and by the reports of either (`MaxNav` bounds only the reports that say
the same again); one refusal suffices to send an attempt back anywhere.
`MaxVersion` bounds the versions at which a pending bridge is saved in its row; only
`execution_live` leaves room for that. `gateway`: two calls are
the race, on one key or on two splits that name the same swap; a second swap is the
one that Jupiter may report instead; three signatures
are a pair on one key (or one nonce) and another. `queue`: five attempts exceed
what two faults can use, so the table's limit is not met there. `lease`: with a
duration of 10 (120 s) the heartbeat is 3 (a third of the duration, as deployed), and
an effect of 15 is the relayer's 180 s of polling; with one unit of lag and skew
`Grace` is 10 - 3 - 3 - 2 = 2, and with one more TLC finds a worker that has acted
for exactly `Grace` beside its rival. `submitter`: two attempts are one replacement, and
`FreshLimit` bounds the loop iterations in which one call signs again.
`lifecycle`: two requests for one version are rivals, of which at most one can
finish; two callers are the overlap; two attempts at the final settlement are one
retry; one other operation moves the ledger version and the balance under a run.
`resolution_stuck` has more time and no rival, as its question is about time.
`indexer`: two slots can be final, so one node may lag another; a window of two
pages of one signature can be exceeded by three transactions.

Symmetry is declared for interchangeable users, callers, attempts, syncs and keys
of one kind, and in no run with a liveness property.

### Fairness

Temporal retries an activity that threw or whose worker died: weak fairness of
`Start` and of the next step of a worker, in `Execution`. It backs off up to a
minute between them (`backend/workflows/temporal-workflows.ts:15-17`), so that the
wallet is free in between: strong fairness of starting and of asking for the lease
while nobody holds it. Without it an operation whose intent has lapsed, and which is
retried in vain, can take the lease whenever the other one asks, and TLC finds that
behaviour. Temporal's hundred attempts are not counted: the bounded refusals and
moves stay far below in the instance, and in a deployment the property says "unless
a hundred attempts in a row find the basket closed, or a report from another supply,
from the future or over 15 s old". The NAV loop publishes when the supply has moved.
Only deposits are asked to return, since a withdrawal can be stuck after its payout
(Disagreements). The dispatchers and the indexer are periodic loops, and the bridge delivers what was
sent. Leases and claims expire by the passing of time. Crashes, failed calls and
moves of the market are never required to happen. In `WalletLease`, `Tick` is
fair and bounded by the deadlines of the calls in progress: a call takes its lag
and no more. In `TransactionSubmitter` the cluster finalizes a confirmed
transaction or passes its blockhash's height. In `Lifecycle` (`FairSpec`) a run
is called again for ever, a call that has begun goes on, a transaction under way
lands or fails, and what the Composer must publish appears. `Registry`, `Gateway`
and `Indexer` are checked for safety only.

## Proofs

| module | theorem | property |
|---|---|---|
| `ExecutionProofs` | `ImplementsFinancialOperation` | `ExactlyOnce` |
| | `ExecutionTypes`, `RequestsTakeEffectOnce`, `SettlementsAccountForEffects` | `TypeOK`, `EffectsAreUnique`, `SettlementMatchesEffects` |
| `LifecycleProofs`, registry | `TypeCorrect` | `TypeOK` |
| | `HoldersStayDated` | `PositionsDated` |
| | `SharesAlwaysOwned` | `SharesAreOwned` |
| | `FinalNavCoversPayouts` | `PayoutsWithinFinalNav` |
| | `FinalSnapshotExact` | `FinalSnapshotAccounted` |
| | `NavAlwaysCoversClaims` | `RemainingNavCoversClaims` |
| | `HoldersCanAlwaysRedeem` | `HolderCanRedeem` |
| | `IntentsSettleOnce` | `IntentsSettleOnceInOrder` |
| | `FeeAlwaysBilledAtHeldSupply` | `FeeBilledAtHeldSupply` |
| | `ClosesExactlyWhenEmpty` | `ClosedExactlyWhenEmpty` |
| | `SupplyAlwaysMovesWithOneHolder` | `SupplyMovesWithOneHolder` |
| `LifecycleProofs`, both | `RegistryHoldsUnderRuns`, `HoldersCanRedeemAfterRuns` | the above, under `LifecycleSpec` |
| `LifecycleProofs`, runs | `LifecycleTypeCorrect` | `LifecycleTypeOK` |
| | `RunsAlwaysTakeTurns` | `RunsTakeTurns` |
| | `TradesOnlyWhileLocked` | `TradesWhileLocked` |
| | `PortfolioAlwaysBacked` | `PortfolioIsBacked` |
| | `CompletedRunsAreOnChain` | `CompletedIsOnChain` |
| `RegistryProofs` | `TypeCorrect`, `PerpStaysOutOfResolution`, `MarginStaysLastFill`, `PortfolioStaysOfItsBasket`, `ActivationIsEligible` | `TypeOK`, `PerpNeverResolves`, `MarginIsLastFill`, `PortfolioIsOfItsBasket`, `ActivatedWasEligible` |
| `GatewayProofs` | `TypeCorrect`, `NoSecondEffect`, `NoSourceSpentTwice`, `FinalizedStaysOnChain` | `TypeOK`, `OnePayloadPerRequest`, `SourcePaysOneSplit`, `FinalizedIsOnChain` |
| `IndexerProofs` | `TypeCorrect`, `RowsStayOfTheirSlot`, `CursorStaysProjected`, `LogHasNoHole` | `TypeOK`, `RowsAreOfTheirSlot`, `CursorIsProjected`, `EventsUpToCursor` |
| `WorkQueueProofs` | `TypeCorrect`, `ClaimHasOneHolder`, `CompletedStaysFinal` | `TypeOK`, `OneHolderPerClaim`, `CompletedIsFinal` |
| `TransactionSubmitterProofs` | `TypeCorrect`, `FinalizedStaysLanded`, `OutcomeStaysFinal` | `TypeOK`, `FinalizedIsLanded`, `OutcomeIsFinal` |
| `WalletLeaseProofs` | `TypeCorrect`, `WalletHasOneLease`, `LeaseOutlastsItsHolder`, `OverlapsAreOverruns` | `TypeOK`, `OneRow`, `HolderKeepsRow`, `OnlyOverrunsOverlap` |

**Exactly once.** `ExactlyOnce` is the specification of `FinancialOperation` with
the receipts for its settlements and the portfolio commits for its attributions.
The inductive invariant `SettledInv` says that a receipt's nonce is used
(`NoncesUsed`: the intent nonce of its operation is at most the position's last
one), that what a worker takes for settled is a receipt of its own operation
(`ResultsSettled`), and that commits name receipts. A second settlement of an
operation would need the nonce after the last one, which the first has passed:
the argument never uses the lease, so a lost lease or an overlapping attempt
cannot break it. All steps but `complete` and `commit` are `Quiet`: they change
none of the variables involved. The assumption is `OperationAssumption`: each
worker serves an operation, nonces are positive.

**Effects of an operation.** `EffectsInv` follows an attempt along its plan: for
every request the attempt is past, an effect of its own amount exists (`AttemptOK`),
whether it sent the request, found it sent by an overlapping attempt, or skipped
the order because the journal had its amount (`JournalMoved`). What is sent is what
was signed first for its key (`SignedFirst`), and a signature is never replaced, so
that an effect has one content and never another later. `complete` is at the end of
the plan, past every request, hence the batch it settles names what moved. Which
step of a plan follows which is a fact about the two sequences (`PlanFacts`),
established once. The operations are finitely many, and a request not made is told
from every request made (`NoneAssumption`).

**The share registry.** `Handler(N)` is any instruction with any arguments, N being
the NAVs that final settlements may record: the bounds which the runs put on
nonces, amounts and values play no part. Every promise is shown for one handler at
a time, then for every system whose steps are handlers (`RegistryAlways`), of which
`Spec` is one and the runs of `Lifecycle` another (`LifecycleHandles`). So each
theorem holds twice, for the registry alone and under `LifecycleSpec`.

`RegistryInv` is the inductive invariant. Type correctness needs to know that
averaged deposit dates stay between the two dates averaged (`PositionsDated`) and
that products of u64s fit u128 quotients (`AccrualWidths`). The redemption theorems
rest on `FinalFunds`: what was paid times the snapshot is at most the final NAV
times the shares consumed; each floored redemption preserves it. A receipt is
created only with the position's next nonce, whatever its batch; billing is proved
from the fact that each handler calls the accrual before it changes the supply.

`RemainingNavCoversClaims` is about a sum over the holders, and the program never
adds them up: it needs `SharesAreOwned` (the supply is the protocol's shares plus
the sum of the positions') to know that the shares not consumed are those of the
holders who still claim. Facts about sums over a finite set would need induction;
they are had from a least counterexample, as strict inclusion of finite sets is well
founded (`SmallestSubset`): `SumTakesOut` takes one holder out of a sum, and
`SumMovesWithTerm` says that a sum moves as its one changed term does. This is why
the users must be finitely many.

`HolderCanRedeem` needs more: that the fees of a claim stay within it. No fee rate
alone exceeds the whole, but two are deducted together; `FeeAssumption` says that
the performance fee and either exit fee are at most `MAX_BPS` together, as
`create_basket` limits the former to 2000 basis points and the latter are constants
of 200 and 100 (`escrow/constants.rs`). And that the final price fits u64:
`record_final_settlement` checks the NAV and the snapshot but not the price which
every redemption computes, so that this is the hypothesis of the two theorems about
it and not a fact about the code. An honest report meets it with room to spare.

**The runs.** Each invariant of the runs rests on those before it. `LifecycleTypes`
and `KindsInv` say that a caller is at a step of its kind of run. `OrderInv` says
how far things are: who executes holds the lease and the run has begun, who has
sent the completion has executed it, and no key is submitted before its time.
With it `StatusInv` is inductive: a run that has begun and is not completed has the
basket locked in its own status, and there is one such run; hence a batch that lands
late, of whatever run, can only begin when no other is open, and complete only
the one that is. `RunsTakeTurns` follows step by step, and `TradesWhileLocked`
because who trades has not executed yet. `BackedInv` says of a caller that the
portfolio it has read is the present one unless the ledger has moved on, so that
its commit under that ledger loses nothing. `CompletionInv` takes the snapshot from
the caller's variable through the submitted batch to the program and the run store.
The assumptions are `LifecycleAssumption` and those of `Escrow`, and what the model
takes of the submitter and the lease (under Lifecycle, above).

**Baskets and compositions.** Three facts carry `IInv` of `RegistryProofs`. A
basket takes up a composition only from a draft that is validated at that moment,
so it is eligible then, keeps the markets of perpetual items apart, and holds
none unless the basket is perpetual (`BasketIsSound`); a perpetual item keeps its
basket among `Active` and `Reconstituting`, as the way to `Resolving` refuses it.
A settlement changes one item but not its terms, and its nonce is above every
earlier one, so that the hash still describes the items and the last receipt of a
market is the one just made (`ItemIsSettled`). And baskets move `Forward` only:
the version and the settlement nonce grow, and the composition changes with the
version alone; so what a request knows of the basket it has created
(`ReadyToOpen`) stays true through crashes, retries and other requests until it
opens the portfolio. The assumption is `RegistryAssumption`, the types of the
constants.

**The gateway.** The journal, the claims and what is final only grow (`GrowOnly`),
so what a call has read stays true while others run. `IInv` adds to the types what
each call has established by its stage (`Knows`): past the journal, its payload
and content are those of the row; past the claim of a split, every source is
claimed by it; before it marks the row of a swap or a split finalized, the
transaction it verified is final (`Landed`), and the row keeps the reference to that
transaction. Transfers are no part of `Landed`: the code follows a replacement
(Disagreements). For a swap the transaction is the one that Jupiter named, which need
not be the journaled one. What has left the gateway is the payload of its
journaled row, and a split's sources are claimed by it (`ReleasedIsSound`); from
this the three properties follow, the first two without any assumption on the
chains. The assumption is `GatewayAssumption`, the types of the constants.

**The indexer.** The finalized history is fixed and the tables only move forward
(`Forward`), so what a sync knows about a slot or a range of positions holds
however long it takes (`Knows`): after its snapshot every basket of its slot has
a row as new, and every basket not pending has a supply row as new; before it
moves the event cursor, the log holds everything above the cursor it expects. A
cursor that is moved inherits what its sync knows; the compare-and-set is needed
for the event stream alone, whose range starts at the cursor it replaces. The
proof holds for every page size, window and number of syncs.

**The queue.** The attempts of an item only grow and its token is the number of its
last claim. Every claim a dispatcher still goes through names an attempt of the past
(`TokensAreOfThePast`), so the next claim has a token nobody holds. A dispatcher
writes only to an item whose token it holds, which a completed one has none of
(`CompletedIsDone` adds that it is not due either, so that no timer touches it).
All steps but the claim are `Tame`: they touch one item and shorten one batch. The
assumption is `QueueAssumption`; the operations are finitely many.

**The submitter.** `Latest` counts the rows, which are added one by one and never
unmade, so a submitter's attempt is a row of the journal (`WorkersInv`) however
long ago it was loaded. Nothing that is final on the cluster is ever anything else
(`ChainMoves`), and an operation becomes finalized only on the sight of such a
transaction and never after it has failed (`Forward`). The assumption is
`SubmitterAssumption`: both limits are positive.

**The lease.** The theorem `OverlapsAreOverruns` bounds no effect: it holds whatever
time an effect takes, the effects of aborted and of crashed workers included. `Grace`
is what the duration exceeds one heartbeat interval, three lags and two skews by.
`Prompt` says that it is positive, that is, that a heartbeat at its slowest renews the
lease in time; it is an assumption of the theorems and not of the module. A worker is
`Covered` while it may act under a live lease, and while its effect is younger than
`Grace` if the lease was lost. `LInv` adds to the types `Clocks` (no call is older
than its lag, and only an effect under way has an age), `OneRow` and `Kept`: the row
of a covered worker is in the store and has a reserve left, namely what its last
renewal gave it, less all that can have passed since. Two workers cannot both be
covered, so that of two effects at once one has outlived its lease. The bound is
tight: with one unit more TLC finds the overlap. The deployed 120 s and 40 s satisfy
`Prompt` for lags and skews of some seconds; the relayer's 180 s of polling is far
beyond `Grace`, and the theorem says just when such an effect meets another.

Only model-checked: the four properties under fairness (`EveryOperationReturns`,
`PendingIsDispatched`, `WalletIsFreed`, `EverySubmitReturns`), since liveness and
ENABLED are out of the prover's reach. Every invariant and action property that a
run checks has a theorem, and so have both refinements.

## Plan

1. Done: `Escrow`, `Execution` with `FinancialOperation`, `WorkQueue`,
   `WalletLease`, `TransactionSubmitter`; then `Lifecycle` with
   `LifecyclePromise`, `Registry`, `Gateway`, `Indexer`; and the proofs above.
2. Proofs, next: where a promise is assumed by one module and proved of another
   (the submitter's batch per key in `Lifecycle`, the gateway's journal in
   `Execution`), a refinement that joins the two.
3. Would follow: the NAV snapshot, which reads the holdings, the supply and its
   sequence number in separate transactions (a report can combine the supply after
   a settlement with the portfolio before its commit, and a later number can name
   an older state); the keeper and its lease, whose clock is sampled once for a
   whole scan; the outbox's leases; the Jupiter legs and `prefunded_staging` of
   `Execution`; pure arithmetic against references (dilution by the floored share
   price, fee tiers of the backend against the program's, the ledger's double
   entries).

## Not modelled

The keeper, NAV, the ledger's accounts, the protocol fee workflow, the outbox,
the canary policy and the wallet allocator are not modelled; each is short, and
the models that depend on it have its result instead (an accrual, a report, a
portfolio version, a settlement). Signers and provider adapters are policies over
single requests, reconciliation reads and reports, quotes and composition are
calculations before anything is committed. The API's quotes, authentication and
reads, process wiring and generated clients (the Anchor IDL and the types made
from it are a large part of the repository's lines), the frontend, and two
services of an earlier product have no state that the modelled parts depend on.
`PROJECT.json` lists each with its reason.
