----------------------------- MODULE Execution -----------------------------
(***************************************************************************)
(* Deposits and withdrawals of one basket, run by the execution workers in *)
(* live_bridge mode: DepositWorkflow and WithdrawalWorkflow with the       *)
(* operation store, the FAK journal, the execution gateway's request       *)
(* store, the settlement gateway and the portfolio commit.                 *)
(*                                                                         *)
(* A worker is one activity attempt at a time of its operation's workflow; *)
(* two workers may serve one operation, since an attempt whose heartbeat   *)
(* timed out goes on running while Temporal starts the next one.  Every    *)
(* await of the code is a point where another worker, the indexer, the     *)
(* market or a crash may come in between: one step of the plan is one      *)
(* await.  One prediction leg stands for the loop over the legs.           *)
(***************************************************************************)
EXTENDS Naturals, Sequences, FiniteSets

CONSTANTS
  Ops,            \* financial operations
  Deposits,       \* the deposits among them; the others are withdrawals
  Owner,          \* the user of each operation
  Nonce,          \* the intent nonce each operation's user signed
  Workers,        \* activity attempts
  Serves,         \* the operation each worker runs
  MaxNav,         \* bound on NAV reports published although the supply is the same
  MaxBook,        \* bound on order book changes
  MaxAccruals,    \* bound on management fees that come due
  MaxRefusals,    \* bound on attempts that find an old report or a closed basket
  Lapsing,        \* the operations whose intent may lapse
  MaxVersion,     \* bound on the version of an operation row
  MaxFaults,      \* bound on crashes, failed calls and leases lost by a live worker
  Quoted,         \* the amount of a deposit: what its signed quote says
  None            \* a missing row, attempt or batch

ASSUME OperationAssumption ==
  /\ IsFiniteSet(Ops) /\ Deposits \subseteq Ops
  /\ Serves \in [Workers -> Ops]
  /\ Nonce \in [Ops -> Nat \ {0}]
  /\ None \notin Workers

VARIABLES
  \* PostgreSQL
  row,         \* execution_operations: state, version and checkpoint
  journal,     \* clob_execution_orders: the amount of the operation's order
  commits,     \* portfolio_execution_commits: the batch, or None
  projection,  \* the indexer's projection of the chain
  lease,       \* the worker named in wallet_operation_leases, or None
  prepared,    \* execution_gateway_requests: the content first signed
  \* external systems
  effects,     \* orders filled, pUSD transfers and payouts made
  bridged,     \* bridge transfers that completed
  receipts,    \* settlement receipts: the batches that settled
  chain,       \* the basket account: settlements and accruals so far
  intentNonce, \* the position accounts: last_intent_nonce
  nav, book,   \* the latest NAV report, and the number of the order book
  due,         \* management fees that have come due, booked on chain or not yet
  lapsed,      \* operations whose signed intent will be refused for good
  refusals,    \* attempts that found an old report or a closed basket
  \* workers
  run,         \* the attempt each worker is in, or None
  result,      \* the batch that its attempt knows to be settled, or None
  done,        \* workers whose activity returned
  faults       \* crashes, failed calls and lost leases so far

dbVars     == <<row, journal, commits, prepared>>
worldVars  == <<effects, bridged, receipts, chain, intentNonce>>
marketVars == <<nav, book, projection, due, lapsed, refusals>>
attempts   == <<run, result>>
vars == <<dbVars, lease, worldVars, marketVars, attempts, done, faults>>

-----------------------------------------------------------------------------
(* The two workflows as plans of awaited steps *)

Do(call) == [do |-> call]

\* `if (operation.state === from) transition(operation, to)'
Transition(from, to) == [do |-> "transition", from |-> from, to |-> to]

\* The request is sent without having been journaled.
Request_Unprepared(kind) == <<[do |-> "send", kind |-> kind]>>

\* A request to the execution gateway: journaled and signed, then sent.
Request(kind) == <<[do |-> "prepare", kind |-> kind], [do |-> "send", kind |-> kind]>>

Locked == <<Do("tryAcquire"), Do("assertFreshContext"), Do("createOrLoad")>>

executeFak == <<Do("load")>> \o Request("order") \o <<Do("insert")>>

DepositPlan ==
  Locked
  \o <<Transition("intent_verified", "funding_verified"),
       Transition("funding_verified", "bridge_pending"),
       Do("getStatus"),
       Transition("bridge_pending", "bridge_completed")>>
  \o executeFak
  \o <<Transition("bridge_completed", "trading_completed"),
       Do("loadLatestPricing"),
       Do("complete"),
       Transition("trading_completed", "settlement_submitted"),
       Transition("settlement_submitted", "completed"),
       Do("commit"),
       Do("return")>>

WithdrawalPlan ==
  Locked
  \o <<Transition("created", "intent_verified")>>
  \o executeFak
  \o <<Transition("intent_verified", "trading_completed"),
       Transition("trading_completed", "bridge_pending")>>
  \o Request("transfer")
  \o <<Do("noteTransfer"),
       Do("getStatus"),
       Transition("bridge_pending", "bridge_completed"),
       Do("loadLatestPricing")>>
  \o Request("split")
  \o <<Do("complete"),
       Transition("bridge_completed", "settlement_submitted"),
       Transition("settlement_submitted", "completed"),
       Do("commit"),
       Do("return")>>

Plan(op) == IF op \in Deposits THEN DepositPlan ELSE WithdrawalPlan

Requests == {"order", "transfer", "split"}

\* The transitions of the state machine that the workflows ask for.
Allowed ==
  {<<"created", "intent_verified">>,
   <<"intent_verified", "funding_verified">>,
   <<"intent_verified", "trading_completed">>,
   <<"funding_verified", "bridge_pending">>,
   <<"bridge_pending", "bridge_pending">>,
   <<"bridge_pending", "bridge_completed">>,
   <<"bridge_completed", "trading_completed">>,
   <<"bridge_completed", "settlement_submitted">>,
   <<"trading_completed", "bridge_pending">>,
   <<"trading_completed", "settlement_submitted">>,
   <<"settlement_submitted", "completed">>}

ExecutionState == {edge[1] : edge \in Allowed} \cup {"completed"}

-----------------------------------------------------------------------------
\* No settlement and no fee since the initial state, in which the basket has a
\* share price already.
Baseline == [settlements |-> 0, accruals |-> 0]

Init ==
  /\ row = [op \in Ops |->
       [state |-> IF op \in Deposits THEN "intent_verified" ELSE "created",
        version |-> 0, noted |-> FALSE, batch |-> None]]
  /\ journal = [op \in Ops |-> None]
  /\ commits = [op \in Ops |-> None]
  /\ projection = Baseline
  /\ lease = None
  /\ prepared = [op \in Ops |-> [kind \in Requests |-> None]]
  /\ effects = {}
  /\ bridged = {}
  /\ receipts = {}
  /\ chain = Baseline
  /\ intentNonce = [u \in {Owner[op] : op \in Ops} |-> 0]
  /\ nav = [no |-> 1, supply |-> Baseline]
  /\ book = 1
  /\ due = 0
  /\ lapsed = {}
  /\ refusals = 0
  /\ run = [w \in Workers |-> None]
  /\ result = [w \in Workers |-> None]
  /\ done = {}
  /\ faults = 0

-----------------------------------------------------------------------------
(* What an attempt computes from what it read *)

Ledger == Cardinality({op \in Ops : commits[op] # None})

\* The fingerprint of the execution context.
Context == [chain |-> projection, ledger |-> Ledger]

\* A deposit's amounts are fixed by the signed quote; what a withdrawal sells,
\* bridges and pays out is its pro-rata part of the basket it read.
Amount(w) == IF Serves[w] \in Deposits THEN Quoted ELSE run[w].context

Content(w, kind) ==
  [amount |-> Amount(w), price |-> IF kind = "order" THEN run[w].book ELSE 0]

\* executionBatchHash: everything the hash is taken over.
Batch(w) ==
  [op |-> Serves[w], nav |-> run[w].nav.no,
   settlementNonce |-> run[w].context.chain.settlements + 1,
   amount |-> Amount(w)]

-----------------------------------------------------------------------------
(* Environment *)

\* The report takes the supply as it is on chain.
ObservedSupply_AsBooked == projection

\* The supply that a report is computed from: the indexed one, with the fee that
\* has come due by the second of the observation.
ObservedSupply == [settlements |-> projection.settlements, accruals |-> due]

\* The NAV loop publishes a report on its period; reports of the same supply are
\* counted up to a bound.
PublishNav ==
  /\ nav.no < MaxNav \/ nav.supply # ObservedSupply
  /\ nav' = [no |-> nav.no + 1, supply |-> ObservedSupply]
  /\ UNCHANGED <<dbVars, lease, worldVars, book, projection, due, lapsed, refusals,
                 attempts, done, faults>>

MoveBook ==
  /\ book < MaxBook
  /\ book' = book + 1
  /\ UNCHANGED <<dbVars, lease, worldVars, nav, projection, due, lapsed, refusals,
                 attempts, done, faults>>

\* Time passes until the management fee mints a share more.
FeeComesDue ==
  /\ due < MaxAccruals
  /\ due' = due + 1
  /\ UNCHANGED <<dbVars, lease, worldVars, nav, book, projection, lapsed, refusals,
                 attempts, done, faults>>

\* The fee keeper books on chain what has come due.
Accrue ==
  /\ chain.accruals # due
  /\ chain' = [chain EXCEPT !.accruals = due]
  /\ UNCHANGED <<dbVars, lease, effects, bridged, receipts, intentNonce,
                 marketVars, attempts, done, faults>>

\* The intent expires, or the composition that it was signed for is replaced, or
\* prices leave its minimum behind.
Lapse(op) ==
  /\ op \in Lapsing \ lapsed
  /\ lapsed' = lapsed \cup {op}
  /\ UNCHANGED <<dbVars, lease, worldVars, nav, book, projection, due, refusals,
                 attempts, done, faults>>

\* The indexer catches up with the finalized chain.
Index ==
  /\ projection # chain
  /\ projection' = chain
  /\ UNCHANGED <<dbVars, lease, worldVars, nav, book, due, lapsed, refusals,
                 attempts, done, faults>>

\* The bridge credits a deposit's funding, or delivers what was transferred.
CompleteBridge(op) ==
  /\ \E amount \in IF op \in Deposits THEN {Quoted}
                   ELSE {e.content.amount :
                           e \in {f \in effects : f.op = op /\ f.kind = "transfer"}} :
       /\ [op |-> op, amount |-> amount] \notin bridged
       /\ bridged' = bridged \cup {[op |-> op, amount |-> amount]}
  /\ UNCHANGED <<dbVars, lease, effects, receipts, chain, intentNonce,
                 marketVars, attempts, done, faults>>

-----------------------------------------------------------------------------
(* Attempts *)

Step(w) == Plan(Serves[w])[run[w].pc]

At(w, call) == run[w] # None /\ Step(w).do = call

GoOn(w, steps) == run' = [run EXCEPT ![w].pc = @ + steps] /\ UNCHANGED result

\* Leaving the lock releases the lease row that still carries our token.
Leave(w) ==
  /\ run' = [run EXCEPT ![w] = None]
  /\ result' = [result EXCEPT ![w] = None]
  /\ lease' = IF lease = w THEN None ELSE lease

\* The call throws: Temporal starts the activity again later.
Throw(w) ==
  /\ Leave(w)
  /\ UNCHANGED <<dbVars, worldVars, marketVars, done, faults>>

\* A worker whose heartbeat lost the lease throws at the next check of its
\* signal, and at the latest when the lock is left.
Checked == {"assertFreshContext", "load", "prepare", "getStatus", "complete", "return"}

Abort(w) ==
  /\ run[w] # None
  /\ lease # w
  /\ Step(w).do \in Checked
  /\ Throw(w)

\* run() reads its context and the order book, and samples its `now', before it
\* asks for the lease.
Start(w) ==
  /\ run[w] = None
  /\ w \notin done
  /\ run' = [run EXCEPT ![w] =
       [pc |-> 1, context |-> Context, book |-> book, row |-> None, nav |-> nav,
        filled |-> FALSE]]
  /\ UNCHANGED <<result, dbVars, lease, worldVars, marketVars, done, faults>>

tryAcquire(w) ==
  /\ At(w, "tryAcquire")
  /\ IF lease = None
     THEN /\ lease' = w
          /\ GoOn(w, 1)
          /\ UNCHANGED <<dbVars, worldVars, marketVars, done, faults>>
     ELSE Throw(w)

assertFreshContext(w) ==
  /\ At(w, "assertFreshContext")
  /\ IF run[w].context = Context
     THEN /\ GoOn(w, 1)
          /\ UNCHANGED <<dbVars, lease, worldVars, marketVars, done, faults>>
     ELSE Throw(w)

createOrLoad(w) ==
  /\ At(w, "createOrLoad")
  /\ run' = [run EXCEPT ![w].pc = @ + 1, ![w].row = row[Serves[w]]]
  /\ UNCHANGED <<result, dbVars, lease, worldVars, marketVars, done, faults>>

\* The optimistic lock of the operation store.
CanUpdate(mine, stored) == mine.version = stored.version

\* operations.transition: a completed row is returned as it is.
Update(w, next) ==
  LET op == Serves[w]
      stored == [next EXCEPT !.version = next.version + 1]
  IN \/ /\ row[op].state = "completed"
        /\ run' = [run EXCEPT ![w].pc = @ + 1, ![w].row = row[op]]
        /\ UNCHANGED <<result, dbVars, lease, worldVars, marketVars, done, faults>>
     \/ /\ CanUpdate(run[w].row, row[op])
        /\ <<row[op].state, next.state>> \in Allowed
        /\ row' = [row EXCEPT ![op] = stored]
        /\ run' = [run EXCEPT ![w].pc = @ + 1, ![w].row = stored]
        /\ UNCHANGED <<result, journal, commits, prepared, lease, worldVars,
                       marketVars, done, faults>>
     \/ /\ row[op].state # "completed"
        /\ ~(CanUpdate(run[w].row, row[op]) /\ <<row[op].state, next.state>> \in Allowed)
        /\ Throw(w)

Skip(w) ==
  /\ GoOn(w, 1)
  /\ UNCHANGED <<dbVars, lease, worldVars, marketVars, done, faults>>

transition(w) ==
  /\ At(w, "transition")
  /\ IF run[w].row.state = Step(w).from
     THEN Update(w, [run[w].row EXCEPT
            !.state = Step(w).to,
            !.batch = IF Step(w).to = "settlement_submitted" THEN result[w] ELSE @])
     ELSE Skip(w)

\* The bridge transfer is noted in the checkpoint, once.
noteTransfer(w) ==
  /\ At(w, "noteTransfer")
  /\ IF run[w].row.state = "bridge_pending" /\ ~run[w].row.noted
     THEN Update(w, [run[w].row EXCEPT !.noted = TRUE])
     ELSE Skip(w)

\* A bridge that is still pending is saved in the row (up to a bound) and ends
\* the attempt.
getStatus(w) ==
  LET op == Serves[w]
      arrived == [op |-> op, amount |-> Amount(w)] \in bridged
      saves == run[w].row.state = "bridge_pending" /\ CanUpdate(run[w].row, row[op])
  IN /\ At(w, "getStatus")
     /\ \/ arrived /\ Skip(w)
        \/ /\ ~arrived /\ saves
           /\ row[op].version < MaxVersion
           /\ row' = [row EXCEPT ![op] = [run[w].row EXCEPT !.version = run[w].row.version + 1]]
           /\ Leave(w)
           /\ UNCHANGED <<journal, commits, prepared, worldVars, marketVars,
                          done, faults>>
        \/ ~arrived /\ ~saves /\ Throw(w)

-----------------------------------------------------------------------------
(* Effects behind the execution gateway *)

\* The request is built and signed afresh, whatever was sent before.
prepare_Rebuilds(w) ==
  /\ At(w, "prepare")
  /\ prepared' = [prepared EXCEPT ![Serves[w]][Step(w).kind] = Content(w, Step(w).kind)]
  /\ GoOn(w, 1)
  /\ UNCHANGED <<row, journal, commits, lease, worldVars, marketVars, done, faults>>

\* A request key that was used must be used again with the same content, and
\* then stands for the payload signed first.
prepare(w) ==
  LET op == Serves[w]
      kind == Step(w).kind
  IN /\ At(w, "prepare")
     /\ \/ /\ prepared[op][kind] = None
           /\ prepared' = [prepared EXCEPT ![op][kind] = Content(w, kind)]
           /\ GoOn(w, 1)
           /\ UNCHANGED <<row, journal, commits, lease, worldVars, marketVars,
                          done, faults>>
        \/ prepared[op][kind] = Content(w, kind) /\ Skip(w)
        \/ prepared[op][kind] \notin {None, Content(w, kind)} /\ Throw(w)

\* What was signed is sent; the provider knows a replay by its content.
send(w) ==
  /\ At(w, "send")
  /\ effects' = effects \cup
       {[op |-> Serves[w], kind |-> Step(w).kind,
         content |-> prepared[Serves[w]][Step(w).kind]]}
  /\ GoOn(w, 1)
  /\ UNCHANGED <<dbVars, lease, bridged, receipts, chain, intentNonce,
                 marketVars, done, faults>>

\* The journal's amount is not compared.
SameRequest_AnyAmount(fill, amount) == TRUE

SameRequest(fill, amount) == fill = amount

\* The FAK journal: an order already journaled is not sent again, provided the
\* amount is the same.
load(w) ==
  LET known == journal[Serves[w]]
  IN /\ At(w, "load")
     /\ IF known = None \/ SameRequest(known, Amount(w))
        THEN /\ GoOn(w, IF known = None THEN 1 ELSE Len(executeFak))
             /\ UNCHANGED <<dbVars, lease, worldVars, marketVars, done, faults>>
        ELSE Throw(w)

insert(w) ==
  LET op == Serves[w]
      kept == IF journal[op] = None THEN Amount(w) ELSE journal[op]
  IN /\ At(w, "insert")
     /\ journal' = [journal EXCEPT ![op] = kept]
     /\ IF SameRequest(kept, Amount(w))
        THEN /\ run' = [run EXCEPT ![w].pc = @ + 1, ![w].filled = TRUE]
             /\ UNCHANGED <<result, lease>>
        ELSE Leave(w)
     /\ UNCHANGED <<row, commits, prepared, worldVars, marketVars, done, faults>>

-----------------------------------------------------------------------------
(* Settlement and attribution *)

\* The latest report is priced against the `now' that the attempt sampled: one
\* published since is from the future, unless in the same second.  (One that is
\* older than fifteen seconds is refused: Refuse.)
loadLatestPricing(w) ==
  /\ At(w, "loadLatestPricing")
  /\ \/ /\ run' = [run EXCEPT ![w].pc = @ + 1, ![w].nav = nav]
        /\ UNCHANGED <<result, dbVars, lease, worldVars, marketVars, done, faults>>
     \/ run[w].nav # nav /\ Throw(w)

\* assertExecutionTimestamp: so is an order that this attempt has filled itself.
FromTheFuture(w) == run[w].filled

\* The signed nonce is not compared.
IntentFits_AnyNonce(op) == TRUE

\* What the program requires of the signed intent: Escrow's
\* validate_position_and_nonce.
IntentFits(op) == Nonce[op] = intentNonce[Owner[op]] + 1

\* The handler books the fee that has come due, and then compares the share price
\* of the report with its own supply.
PriceMatches(w) ==
  run[w].nav.supply = [settlements |-> chain.settlements, accruals |-> due]

\* The handler's requirements, in its order: intent and composition still hold, the
\* intent's nonce, the settlement's nonce, the price.  (A program that is paused or
\* a basket that is locked is a refusal: Refuse.)
Accepts(w) ==
  /\ Serves[w] \notin lapsed
  /\ IntentFits(Serves[w])
  /\ Batch(w).settlementNonce > chain.settlements
  /\ PriceMatches(w)

\* A batch whose receipt exists is taken as settled; otherwise the transaction
\* is sent, and the program decides.
complete(w) ==
  LET op == Serves[w]
      batch == Batch(w)
      settled == /\ run' = [run EXCEPT ![w].pc = @ + 1]
                 /\ result' = [result EXCEPT ![w] = batch]
  IN /\ At(w, "complete")
     /\ \/ /\ batch \in receipts
           /\ settled
           /\ UNCHANGED <<dbVars, lease, worldVars, marketVars, done, faults>>
        \/ /\ batch \notin receipts
           /\ Accepts(w)
           /\ receipts' = receipts \cup {batch}
           /\ chain' = [settlements |-> batch.settlementNonce, accruals |-> due]
           /\ intentNonce' = [intentNonce EXCEPT ![Owner[op]] = Nonce[op]]
           /\ settled
           /\ UNCHANGED <<dbVars, lease, effects, bridged, marketVars, done,
                          faults>>
        \/ batch \notin receipts /\ ~Accepts(w) /\ Throw(w)
        \/ FromTheFuture(w) /\ Throw(w)

CanCommit(op, expected) == commits[op] = None /\ Ledger = expected

\* The portfolio commit: once per operation, on the ledger version the attempt
\* started from.
commit(w) ==
  LET op == Serves[w]
      batch == result[w]
  IN /\ At(w, "commit")
     /\ \/ /\ commits[op] = batch
           /\ GoOn(w, 1)
           /\ UNCHANGED <<dbVars, lease, worldVars, marketVars, done, faults>>
        \/ /\ commits[op] # batch
           /\ CanCommit(op, run[w].context.ledger)
           /\ commits' = [commits EXCEPT ![op] = batch]
           /\ GoOn(w, 1)
           /\ UNCHANGED <<row, journal, prepared, lease, worldVars, marketVars,
                          done, faults>>
        \/ /\ commits[op] # batch
           /\ ~CanCommit(op, run[w].context.ledger)
           /\ Throw(w)

\* execute() returns: the lease is released and the activity is over.
return(w) ==
  /\ At(w, "return")
  /\ done' = done \cup {w}
  /\ Leave(w)
  /\ UNCHANGED <<dbVars, worldVars, marketVars, faults>>

-----------------------------------------------------------------------------
(* Faults *)

\* A call fails or times out, or the heartbeat has lost the lease.
Fail(w) ==
  /\ run[w] # None
  /\ faults < MaxFaults
  /\ faults' = faults + 1
  /\ Leave(w)
  /\ UNCHANGED <<dbVars, worldVars, marketVars, done>>

\* The report is more than fifteen seconds old when the attempt prices it, or the
\* program is paused or the basket locked when it settles.
Refuse(w) ==
  /\ At(w, "loadLatestPricing") \/ (At(w, "complete") /\ Batch(w) \notin receipts)
  /\ refusals < MaxRefusals
  /\ refusals' = refusals + 1
  /\ Leave(w)
  /\ UNCHANGED <<dbVars, worldVars, nav, book, projection, due, lapsed, done, faults>>

\* A worker dies: its lease row stays behind.
Crash(w) ==
  /\ run[w] # None
  /\ faults < MaxFaults
  /\ faults' = faults + 1
  /\ run' = [run EXCEPT ![w] = None]
  /\ result' = [result EXCEPT ![w] = None]
  /\ UNCHANGED <<dbVars, lease, worldVars, marketVars, done>>

ExpireLease(w) ==
  /\ lease = w
  /\ run[w] = None
  /\ lease' = None
  /\ UNCHANGED <<dbVars, worldVars, marketVars, attempts, done, faults>>

\* The heartbeat is late: the lease runs out under a worker that goes on.
LoseLease(w) ==
  /\ lease = w
  /\ run[w] # None
  /\ faults < MaxFaults
  /\ faults' = faults + 1
  /\ lease' = None
  /\ UNCHANGED <<dbVars, worldVars, marketVars, attempts, done>>

Work(w) ==
  \/ tryAcquire(w) \/ assertFreshContext(w) \/ createOrLoad(w)
  \/ transition(w) \/ noteTransfer(w) \/ getStatus(w)
  \/ load(w) \/ prepare(w) \/ send(w) \/ insert(w)
  \/ loadLatestPricing(w) \/ complete(w) \/ commit(w) \/ return(w)

\* Every activity has returned: there is nothing left to do.
AllReturned == done = Workers /\ UNCHANGED vars

Next ==
  \/ AllReturned
  \/ PublishNav \/ MoveBook \/ FeeComesDue \/ Accrue \/ Index
  \/ \E op \in Ops : CompleteBridge(op) \/ Lapse(op)
  \/ \E w \in Workers :
       Start(w) \/ Work(w) \/ Abort(w) \/ Refuse(w) \/ Fail(w)
       \/ Crash(w) \/ ExpireLease(w) \/ LoseLease(w)

Spec == Init /\ [][Next]_vars

\* Temporal retries every activity, the indexer, the NAV loop and the bridge make
\* progress, and the lease of a dead worker runs out.  Retries back off, so that one
\* operation's attempts do not find the lease taken by another's for ever.
FairSpec ==
  /\ Spec
  /\ WF_vars(Index) /\ WF_vars(PublishNav)
  /\ \A op \in Ops : WF_vars(CompleteBridge(op))
  /\ \A w \in Workers : WF_vars(Start(w)) /\ WF_vars(Work(w))
                         /\ WF_vars(ExpireLease(w))
                         /\ SF_vars(Start(w) /\ lease = None)
                         /\ SF_vars(tryAcquire(w) /\ lease = None)

-----------------------------------------------------------------------------
(* Properties *)

Counts == [settlements : Nat, accruals : Nat]

Amounts == [chain : Counts, ledger : Nat] \cup {Quoted}

Batches == [op : Ops, nav : Nat, settlementNonce : Nat \ {0}, amount : Amounts]

Reports == [no : Nat, supply : Counts]

Rows == [state : ExecutionState, version : Nat, noted : BOOLEAN,
         batch : Batches \cup {None}]

Contents == [amount : Amounts, price : Nat]

Attempts == [pc : Nat, context : [chain : Counts, ledger : Nat], book : Nat,
             row : Rows \cup {None}, nav : Reports, filled : BOOLEAN]

\* A request that was not made is told from every request that was.
ASSUME NoneAssumption == None \notin Contents

\* Every row, journal entry, request, receipt and attempt has the shape its table or
\* object has in the code; only the transitions' states are stored.
TypeOK ==
  /\ row \in [Ops -> Rows]
  /\ journal \in [Ops -> Amounts \cup {None}]
  /\ commits \in [Ops -> Batches \cup {None}]
  /\ prepared \in [Ops -> [Requests -> Contents \cup {None}]]
  /\ effects \subseteq [op : Ops, kind : Requests, content : Contents]
  /\ bridged \subseteq [op : Ops, amount : Amounts]
  /\ chain \in Counts /\ projection \in Counts
  /\ lease \in Workers \cup {None}
  /\ receipts \subseteq Batches
  /\ intentNonce \in [{Owner[op] : op \in Ops} -> Nat]
  /\ nav \in Reports /\ book \in Nat
  /\ due \in Nat /\ lapsed \subseteq Ops /\ refusals \in Nat
  /\ run \in [Workers -> Attempts \cup {None}]
  /\ result \in [Workers -> Batches \cup {None}]
  /\ done \subseteq Workers /\ faults \in Nat

\* However attempts overlap and retry, each of the operation's requests (order,
\* bridge transfer, payout) takes effect with one content only.
EffectsAreUnique ==
  \A e, f \in effects : e.op = f.op /\ e.kind = f.kind => e = f

\* A settlement on chain accounts for the amounts that really moved: the order
\* that was filled and, for a withdrawal, the payout that was made.
SettlementMatchesEffects ==
  \A r \in receipts :
    \A kind \in IF r.op \in Deposits THEN {"order"} ELSE Requests :
      \E e \in effects : e.op = r.op /\ e.kind = kind /\ e.content.amount = r.amount

\* The abstract promise, of the settlements and of the portfolio ledger.
Promise == INSTANCE FinancialOperation WITH
             settlements <- receipts, attributed <- commits

ExactlyOnce == Promise!Spec

\* An intent that lapsed before anything was settled for it.
Refused(op) == op \in lapsed /\ \A r \in receipts : r.op # op

\* However the market, the fee and the other operation move between its
\* awaits, and whatever refuses it for a while, an activity returns in the end, its
\* operation settled and attributed, unless its intent lapses first.
EveryOperationReturns == \A w \in Workers : <>(w \in done \/ Refused(Serves[w]))

\* The comment on afterSettlement calls it an exactly-once attribution hook: an
\* operation that settled on chain gets attributed to the portfolio.
SettledIsAttributed ==
  \A op \in Ops : (\E r \in receipts : r.op = op) ~> (commits[op] # None)

=============================================================================
