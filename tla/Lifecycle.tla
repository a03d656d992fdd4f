----------------------------- MODULE Lifecycle -----------------------------
(***************************************************************************)
(* The lifecycle runs of one basket: ReconstitutionWorkflow and            *)
(* ResolutionWorkflow over the run store, their executors over the         *)
(* portfolio, the FAK journal and the redemption records, the Anchor       *)
(* gateway, and the program itself, whose handlers are those of Escrow.    *)
(*                                                                         *)
(* Two things are assumed of what it runs on.  Below the gateway an        *)
(* operation key stands for one batch, which lands at most once, perhaps   *)
(* after its caller has given up; an attempt that died is replaced.        *)
(* Around the executors the wallet's lease has one holder.                 *)
(* Amounts are abstracted to the portfolio version they are computed from. *)
(***************************************************************************)
EXTENDS Escrow

CONSTANTS
  Callers,        \* processes that call execute, and call it again
  Runs,           \* requests: a key, a kind, the version and nonce authorised
  NoOne,          \* no caller holds the wallet
  NumConditions,  \* the basket's conditions, redeemed in this order
  Payout,         \* walletPayoutUnits of each
  InitialPusd,    \* pUSD in the execution wallet
  FinalNav,       \* what the portfolio of a funded basket comes to
  FinalSettlementAttempts,
  MaxOthers,      \* bound on commits of other operations
  MaxFaults       \* bound on crashes and dropped transactions

ASSUME LifecycleAssumption ==
  /\ Runs \subseteq [key : Nat, kind : {"reconstitution", "resolution"},
                     version : Nat, nonce : Nat]
  /\ NoOne \notin Callers
  /\ {Payout, InitialPusd, FinalNav, MaxOthers, MaxFaults, NumConditions}
       \subseteq Nat
  /\ FinalSettlementAttempts \in Nat \ {0}

VARIABLES
  runs,         \* lifecycle_runs: state, version, share snapshot in the checkpoint
  exec,         \* lifecycle_external_executions: state, and the effects in its result
  submissions,  \* solana_lifecycle_operations by key: state and batch
  published,    \* runs whose eligibility list and draft exist on chain
  portfolio,    \* basket_portfolio_states: ledger and composition version, and
                \* the effects it reflects
  redemptions,  \* polymarket_condition_redemptions: state, balance before
  effects,      \* what happened outside: orders, redemptions, other operations
  pusd,         \* pUSD balance of the execution wallet
  holder,       \* who holds the wallet's lease
  at, my,       \* the next call of each caller, and its local variables
  others, faults

stores == <<runs, exec, submissions, portfolio, redemptions>>
world  == <<published, effects, pusd>>
lifecycleVars == <<vars, stores, world, holder, at, my, others, faults>>

-----------------------------------------------------------------------------
Conditions == 1 .. NumConditions

Effect == [what : {"sell", "buy", "redeem", "other"}, by : Nat, from : Nat]

Keys == [run : Runs, step : {"begin", "complete", "accrue", "submit"},
         attempt : 0 .. FinalSettlementAttempts]

Key(r, step, n) == [run |-> r, step |-> step, attempt |-> n]

\* The local variables of a caller at rest.
Fresh == [run |-> NoOne, version |-> 0, base |-> NoOne, orders |-> {},
          condition |-> 1, attempt |-> 1, snapshot |-> 0]

LifecycleInit ==
  /\ Init
  /\ runs = [r \in Runs |-> [state |-> "absent", version |-> 0, snapshot |-> 0]]
  /\ exec = [r \in Runs |-> [state |-> "absent", result |-> {}]]
  /\ submissions = [k \in Keys |-> [state |-> "none", batch |-> 0]]
  /\ published = {}
  /\ portfolio = [ledger |-> 0, composition |-> composition_version,
                  includes |-> {}]
  /\ redemptions = [c \in Conditions |-> [state |-> "absent", before |-> 0]]
  /\ effects = {}
  /\ pusd = InitialPusd
  /\ holder = NoOne
  /\ at = [w \in Callers |-> "idle"]
  /\ my = [w \in Callers |-> Fresh]
  /\ others = 0
  /\ faults = 0

-----------------------------------------------------------------------------
(* Steps of a caller *)

Goto(w, step) == at' = [at EXCEPT ![w] = step]

Set(w, local) == my' = [my EXCEPT ![w] = local]

\* The call returned, threw or died; what it held is released.
Stop(w) ==
  /\ Goto(w, "idle")
  /\ Set(w, Fresh)
  /\ holder' = IF holder = w THEN NoOne ELSE holder

Fault == faults < MaxFaults /\ faults' = faults + 1

Crash(w) ==
  /\ at[w] # "idle"
  /\ Fault
  /\ Stop(w)
  /\ UNCHANGED <<vars, stores, world, others>>

-----------------------------------------------------------------------------
(* The program's instructions, under the gateway's operation keys *)

\* Would the program accept the batch of this key now?
Accepts(key, batch) ==
  LET r == key.run
  IN /\ CanAccrue(Accrual)
     /\ CASE key.step = "begin" /\ r.kind = "reconstitution" ->
               /\ is_perpetual
               /\ status = "Active"
               /\ now >= last_reconstitution_at + Cadence
          [] key.step = "begin" /\ r.kind = "resolution" ->
               ~is_perpetual /\ status = "Active"
          [] key.step = "complete" ->
               /\ status = "Reconstituting"
               /\ r.nonce > last_composition_nonce
               /\ r.version = composition_version + 1
          [] key.step = "accrue" -> AccruingStatus
          [] key.step = "submit" ->
               /\ status = "Resolving"
               /\ batch = Accrual.total

\* The portfolio of a basket that nobody has deposited into is empty.
ReportedNav == IF has_initialized_share_price THEN FinalNav ELSE 0

Instruction(key, batch) ==
  LET r == key.run
  IN \/ key.step = "begin" /\ r.kind = "reconstitution" /\ begin_reconstitution
     \/ key.step = "begin" /\ r.kind = "resolution" /\ begin_resolution
     \/ key.step = "complete" /\ complete_reconstitution(r.nonce)
     \/ key.step = "accrue" /\ accrue_management_fee
     \/ key.step = "submit" /\ record_final_settlement(batch, ReportedNav)

Submission(key, state, batch) ==
  submissions' = [submissions EXCEPT ![key] = [state |-> state, batch |-> batch]]

\* A transaction under way takes effect or fails; the submitter that observes
\* it, now or on a retry, records the outcome under the key for good.
Land(key) ==
  LET batch == submissions[key].batch
  IN /\ submissions[key].state = "sent"
     /\ \/ /\ Accepts(key, batch)
           /\ Instruction(key, batch)
           /\ Submission(key, "finalized", batch)
        \/ /\ ~Accepts(key, batch)
           /\ Submission(key, "failed", batch)
           /\ UNCHANGED vars
     /\ UNCHANGED <<runs, exec, portfolio, redemptions, world, holder, at, my,
                    others, faults>>

\* The transaction is lost, or its blockhash expires: it is signed again.
Drop(key) ==
  /\ submissions[key].state = "sent"
  /\ Fault
  /\ Submission(key, "signed", submissions[key].batch)
  /\ UNCHANGED <<vars, runs, exec, portfolio, redemptions, world, holder, at, my,
                 others>>

\* A key stands for one batch, and a failed one is never tried again.
Usable_AnyBatch(key, batch) == submissions[key].state # "failed"

Usable(key, batch) ==
  LET s == submissions[key]
  IN s.state = "none" \/ (s.state # "failed" /\ s.batch = batch)

Unsent(key) == submissions[key].state \in {"none", "signed"}

\* sendRawTransaction simulates the transaction before it broadcasts it.
Send(key, batch) ==
  /\ Usable(key, batch)
  /\ Unsent(key) => Accepts(key, batch)
  /\ IF Unsent(key) THEN Submission(key, "sent", batch)
                    ELSE UNCHANGED submissions

\* A refused simulation leaves the signed attempt in the journal.
SendFails(key, batch) ==
  \/ ~Usable(key, batch) /\ UNCHANGED submissions
  \/ /\ Usable(key, batch)
     /\ Unsent(key)
     /\ ~Accepts(key, batch)
     /\ Submission(key, "signed", batch)

\* The calls of the gateway that submit one batch, and the steps after them.
CallOf(w) ==
  LET r == my[w].run
      n == my[w].attempt
  IN CASE at[w] \in {"begin", "begin_sent"} -> [key |-> Key(r, "begin", 0), batch |-> 0]
       [] at[w] \in {"complete", "complete_sent"} -> [key |-> Key(r, "complete", 0), batch |-> 0]
       [] at[w] \in {"accrue", "accrue_sent"} -> [key |-> Key(r, "accrue", n), batch |-> 0]
       [] at[w] \in {"submit", "submit_sent"} ->
            [key |-> Key(r, "submit", n), batch |-> my[w].snapshot]

Sent(step) == CASE step = "begin" -> "begin_sent"
                [] step = "complete" -> "complete_sent"
                [] step = "accrue" -> "accrue_sent"
                [] step = "submit" -> "submit_sent"

\* isFinalSnapshotRace: the simulation refused the snapshot, nothing else.
FinalSnapshotRace(key, batch) ==
  /\ key.step = "submit"
  /\ Usable(key, batch)
  /\ Unsent(key)
  /\ status = "Resolving"
  /\ CanAccrue(Accrual)
  /\ batch # Accrual.total

submit(w) ==
  /\ at[w] \in {"begin", "complete", "accrue", "submit"}
  /\ LET call == CallOf(w)
     IN \/ /\ Send(call.key, call.batch)
           /\ Goto(w, Sent(at[w]))
           /\ UNCHANGED <<my, holder>>
        \/ /\ SendFails(call.key, call.batch)
           /\ IF /\ FinalSnapshotRace(call.key, call.batch)
                 /\ my[w].attempt < FinalSettlementAttempts
              THEN /\ Goto(w, "accrue")
                   /\ Set(w, [my[w] EXCEPT !.attempt = my[w].attempt + 1])
                   /\ UNCHANGED holder
              ELSE Stop(w)
  /\ UNCHANGED <<vars, runs, exec, portfolio, redemptions, world, others, faults>>

\* The outcome is observed: an expired attempt is replaced, a rejected one throws.
observe(w) ==
  /\ at[w] \in {"begin_sent", "complete_sent", "accrue_sent", "submit_sent"}
  /\ LET outcome == submissions[CallOf(w).key].state
     IN \/ /\ outcome = "finalized"
           /\ Goto(w, CASE at[w] = "begin_sent" -> "start"
                        [] at[w] = "accrue_sent" -> "supply"
                        [] OTHER -> "record")
           /\ UNCHANGED <<my, holder>>
        \/ /\ outcome = "signed"
           /\ Goto(w, CallOf(w).key.step)
           /\ UNCHANGED <<my, holder>>
        \/ outcome = "failed" /\ Stop(w)
  /\ UNCHANGED <<vars, stores, world, others, faults>>

-----------------------------------------------------------------------------
(* The run store and the workflows *)

Resume(r, state) ==
  CASE state = "created" -> "begin"
    [] state = "onchain_started" -> "acquire"
    [] state = "external_execution_completed" /\ r.kind = "reconstitution" -> "check"
    [] state = "external_execution_completed" /\ r.kind = "resolution" -> "accrue"

\* createOrLoad, and the jump to where the run stands.  A completed run is
\* returned as it is.  Only perpetual baskets are planned for reconstitution.
execute(w, r) ==
  LET row == IF runs[r].state = "absent"
             THEN [state |-> "created", version |-> 0, snapshot |-> 0]
             ELSE runs[r]
  IN /\ at[w] = "idle"
     /\ runs[r].state # "onchain_completed"
     /\ is_perpetual <=> r.kind = "reconstitution"
     /\ runs' = [runs EXCEPT ![r] = row]
     /\ Set(w, [Fresh EXCEPT !.run = r, !.version = row.version])
     /\ Goto(w, Resume(r, row.state))
     /\ UNCHANGED <<vars, exec, submissions, portfolio, redemptions, world,
                    holder, others, faults>>

\* PostgresLifecycleRunStore.transition: a completed run is handed back, and
\* another caller's progress is a version conflict.
Transition(w, state, snapshot, next) ==
  LET r == my[w].run
  IN \/ /\ runs[r].state = "onchain_completed" \/ runs[r].version # my[w].version
        /\ Stop(w)
        /\ UNCHANGED runs
     \/ /\ runs[r].state # "onchain_completed"
        /\ runs[r].version = my[w].version
        /\ runs' = [runs EXCEPT ![r] = [state |-> state, version |-> @.version + 1,
                                        snapshot |-> snapshot]]
        /\ Set(w, [my[w] EXCEPT !.version = my[w].version + 1])
        /\ Goto(w, next)
        /\ UNCHANGED holder

transition(w) ==
  /\ \/ /\ at[w] = "start"
        /\ Transition(w, "onchain_started", 0, "acquire")
     \/ /\ at[w] = "finish"
        /\ Transition(w, "external_execution_completed", 0,
                      Resume(my[w].run, "external_execution_completed"))
     \/ /\ at[w] = "record"
        /\ Transition(w, "onchain_completed", my[w].snapshot, "return")
  /\ UNCHANGED <<vars, exec, submissions, portfolio, redemptions, world, others,
                 faults>>

return(w) ==
  /\ at[w] = "return"
  /\ Stop(w)
  /\ UNCHANGED <<vars, stores, world, others, faults>>

\* completeReconstitution reads the basket, and the accounts of its eligibility
\* list and draft.  Missing ones it cannot publish: the signer's policy refuses
\* every instruction outside its list of five.
check(w) ==
  LET r == my[w].run
  IN /\ at[w] = "check"
     /\ IF /\ is_perpetual /\ status = "Reconstituting"
           /\ r.version = composition_version + 1
           /\ r.nonce > last_composition_nonce
           /\ r \in published
        THEN Goto(w, "complete") /\ UNCHANGED <<my, holder>>
        ELSE Stop(w)
     /\ UNCHANGED <<vars, stores, world, others, faults>>

\* recordFinalSettlement reads the supply after its accrual is finalized.
supply(w) ==
  /\ at[w] = "supply"
  /\ Set(w, [my[w] EXCEPT !.snapshot = total_shares_outstanding])
  /\ Goto(w, "submit")
  /\ UNCHANGED <<vars, stores, world, holder, others, faults>>

-----------------------------------------------------------------------------
(* The executors, under the lease of the wallet *)

acquire(w) ==
  /\ at[w] = "acquire"
  /\ holder = NoOne
  /\ holder' = w
  /\ Goto(w, "prepare")
  /\ UNCHANGED <<vars, stores, world, my, others, faults>>

prepare_Reruns(w) ==
  LET r == my[w].run
  IN /\ at[w] = "prepare"
     /\ exec' = [exec EXCEPT ![r].state = "prepared"]
     /\ Goto(w, "load")
     /\ UNCHANGED <<vars, runs, submissions, portfolio, redemptions, world, my,
                    holder, others, faults>>

\* A finished execution is answered with its stored result.
prepare(w) ==
  LET r == my[w].run
  IN /\ at[w] = "prepare"
     /\ \/ /\ exec[r].state = "completed"
           /\ holder' = NoOne
           /\ Goto(w, "finish")
           /\ UNCHANGED exec
        \/ /\ exec[r].state # "completed"
           /\ exec' = [exec EXCEPT ![r].state = "prepared"]
           /\ Goto(w, "load")
           /\ UNCHANGED holder
     /\ UNCHANGED <<vars, runs, submissions, portfolio, redemptions, world, my,
                    others, faults>>

\* loadBasketState.  The market plan of a reconstitution, stored once, fixes
\* the prices; the amounts depend on the portfolio read here.
load(w) ==
  LET r == my[w].run
  IN /\ at[w] = "load"
     /\ IF r.kind = "reconstitution" /\ portfolio.composition # r.version - 1
        THEN Stop(w)
        ELSE /\ Set(w, [my[w] EXCEPT !.base = portfolio])
             /\ Goto(w, IF r.kind = "reconstitution" THEN "sell" ELSE "redeem")
             /\ UNCHANGED holder
     /\ UNCHANGED <<vars, stores, world, others, faults>>

Order(r, side, from) == [what |-> side, by |-> r.key, from |-> from]

\* The orders the FAK journal knows under this run's client order id.
Journaled(r, side) == {e \in effects : e.what = side /\ e.by = r.key}

After(side) == IF side = "sell" THEN "buy" ELSE "commit"

\* One order, or none when the portfolio needs none.  A journaled one is
\* answered from the journal, if the amount is still the same.
trade(w) ==
  LET r == my[w].run
      side == at[w]
      order == Order(r, side, my[w].base.ledger)
  IN /\ side \in {"sell", "buy"}
     /\ \/ /\ Journaled(r, side) \subseteq {order}
           /\ effects' = effects \cup {order}
           /\ Set(w, [my[w] EXCEPT !.orders = my[w].orders \cup {order}])
           /\ Goto(w, After(side))
           /\ UNCHANGED holder
        \/ /\ order \notin effects
           /\ Goto(w, After(side))
           /\ UNCHANGED <<effects, my, holder>>
        \/ /\ ~(Journaled(r, side) \subseteq {order})
           /\ Stop(w)
           /\ UNCHANGED effects
     /\ UNCHANGED <<vars, stores, published, pusd, others, faults>>

Redemption(c) == [what |-> "redeem", by |-> c, from |-> 0]

redeem_FloorAfterPayout(w) ==
  LET c == my[w].condition
  IN /\ at[w] = "redeem"
     /\ \/ /\ c \notin Conditions
           /\ Goto(w, "commit")
           /\ UNCHANGED <<redemptions, my, holder>>
        \/ /\ c \in Conditions
           /\ redemptions[c].state = "completed"
           /\ Set(w, [my[w] EXCEPT !.condition = c + 1])
           /\ UNCHANGED <<redemptions, at, holder>>
        \/ /\ c \in Conditions
           /\ redemptions[c].state = "prepared"
           /\ Goto(w, "relay")
           /\ UNCHANGED <<redemptions, my, holder>>
        \/ /\ c \in Conditions
           /\ redemptions[c].state = "absent"
           /\ Redemption(c) \notin effects
           /\ redemptions' = [redemptions EXCEPT ![c] =
                                [state |-> "prepared", before |-> pusd - Payout]]
           /\ Goto(w, "relay")
           /\ UNCHANGED <<my, holder>>
        \/ /\ c \in Conditions
           /\ redemptions[c].state = "absent"
           /\ Redemption(c) \in effects
           /\ Stop(w)
           /\ UNCHANGED redemptions
     /\ UNCHANGED <<vars, runs, exec, submissions, portfolio, world, others, faults>>

\* The condition in hand: its payout and the balance are stored before the
\* relayer is called; without a record there must be a redeemable position.
redeem(w) ==
  LET c == my[w].condition
  IN /\ at[w] = "redeem"
     /\ \/ /\ c \notin Conditions
           /\ Goto(w, "commit")
           /\ UNCHANGED <<redemptions, my, holder>>
        \/ /\ c \in Conditions
           /\ redemptions[c].state = "completed"
           /\ Set(w, [my[w] EXCEPT !.condition = c + 1])
           /\ UNCHANGED <<redemptions, at, holder>>
        \/ /\ c \in Conditions
           /\ redemptions[c].state = "prepared"
           /\ Goto(w, "relay")
           /\ UNCHANGED <<redemptions, my, holder>>
        \/ /\ c \in Conditions
           /\ redemptions[c].state = "absent"
           /\ Redemption(c) \notin effects
           /\ redemptions' = [redemptions EXCEPT ![c] =
                                [state |-> "prepared", before |-> pusd]]
           /\ Goto(w, "relay")
           /\ UNCHANGED <<my, holder>>
        \/ /\ c \in Conditions
           /\ redemptions[c].state = "absent"
           /\ Redemption(c) \in effects
           /\ Stop(w)
           /\ UNCHANGED redemptions
     /\ UNCHANGED <<vars, runs, exec, submissions, portfolio, world, others, faults>>

relay_AlreadyPrepared(w) ==
  /\ at[w] = "relay"
  /\ Goto(w, "verify")
  /\ UNCHANGED <<vars, stores, world, my, holder, others, faults>>

\* relayer.execute, keyed by wallet and condition.
relay(w) ==
  LET paid == Redemption(my[w].condition)
  IN /\ at[w] = "relay"
     /\ effects' = effects \cup {paid}
     /\ pusd' = IF paid \in effects THEN pusd ELSE pusd + Payout
     /\ Goto(w, "verify")
     /\ UNCHANGED <<vars, stores, published, my, holder, others, faults>>

\* The balance must have reached the prepared floor.
verify(w) ==
  LET c == my[w].condition
  IN /\ at[w] = "verify"
     /\ IF pusd >= redemptions[c].before + Payout
        THEN /\ redemptions' = [redemptions EXCEPT ![c].state = "completed"]
             /\ Set(w, [my[w] EXCEPT !.condition = c + 1])
             /\ Goto(w, "redeem")
             /\ UNCHANGED holder
        ELSE Stop(w) /\ UNCHANGED redemptions
     /\ UNCHANGED <<vars, runs, exec, submissions, portfolio, world, others, faults>>

Result(w) ==
  IF my[w].run.kind = "reconstitution" THEN my[w].orders
                                       ELSE {Redemption(c) : c \in Conditions}

Commit(w) ==
  LET r == my[w].run
      base == my[w].base
  IN /\ exec' = [exec EXCEPT ![r] = [state |-> "completed", result |-> Result(w)]]
     /\ portfolio' =
          [ledger |-> portfolio.ledger + 1,
           composition |-> IF r.kind = "reconstitution" THEN r.version
                                                        ELSE base.composition,
           includes |-> base.includes \cup Result(w)]
     /\ holder' = NoOne
     /\ Goto(w, "finish")
     /\ Set(w, [Fresh EXCEPT !.run = r, !.version = my[w].version])

\* The portfolio is replaced, if its ledger version is the one that was read.
commit(w) ==
  LET r == my[w].run
  IN /\ at[w] = "commit"
     /\ IF portfolio.ledger = my[w].base.ledger
        THEN Commit(w)
        ELSE Stop(w) /\ UNCHANGED <<exec, portfolio>>
     /\ UNCHANGED <<vars, runs, submissions, redemptions, world, others, faults>>

-----------------------------------------------------------------------------
(* The rest of the system *)

\* The Composer's list and draft are put on chain by someone else.
Publish(r) ==
  /\ r \notin published
  /\ r.kind = "reconstitution"
  /\ published' = published \cup {r}
  /\ UNCHANGED <<vars, stores, effects, pusd, holder, at, my, others, faults>>

\* Another operation holds the wallet for its trades and its portfolio commit:
\* one that settled before the basket was locked, or a protocol fee withdrawal,
\* which the lock does not keep out.
OtherOperation(pusdAfter) ==
  LET effect == [what |-> "other", by |-> others + 1, from |-> 0]
  IN /\ holder = NoOne
     /\ others < MaxOthers
     /\ others' = others + 1
     /\ effects' = effects \cup {effect}
     /\ pusd' = pusdAfter
     /\ portfolio' = [portfolio EXCEPT !.ledger = @ + 1,
                                       !.includes = @ \cup {effect}]
     /\ UNCHANGED <<vars, runs, exec, submissions, redemptions, published, holder,
                    at, my, faults>>

\* The instructions others send to the program, and its clock.  A deposit stands
\* for every settlement that the lock keeps out; afterwards the holders
\* redeem.  A holder deposits once (a bound).
Chain ==
  /\ \/ Tick
     \/ accrue_management_fee
     \/ \E u \in Users, b \in Batches, gross \in GrossAmounts, nav \in NavValues :
          /\ positions[u].shares_owned = 0 /\ status = "Active"
          /\ complete_deposit(u, b, positions[u].last_intent_nonce + 1,
                              last_settlement_nonce + 1, gross,
                              gross - fee_ceil(gross, DEPOSIT_FEE_BPS), nav)
     \/ \E u \in Users, b \in Batches :
          /\ status = "Redeemable"
          /\ complete_withdrawal(u, b, positions[u].last_intent_nonce + 1,
                                 last_settlement_nonce + 1,
                                 positions[u].shares_owned,
                                 pro_rata_value(final_nav_value,
                                                positions[u].shares_owned,
                                                final_share_snapshot),
                                 final_nav_value)
  /\ UNCHANGED <<stores, world, holder, at, my, others, faults>>

Step(w) ==
  \/ \E r \in Runs : execute(w, r)
  \/ submit(w) \/ observe(w)
  \/ transition(w) \/ return(w)
  \/ check(w) \/ supply(w)
  \/ acquire(w) \/ prepare(w) \/ load(w) \/ trade(w)
  \/ redeem(w) \/ relay(w) \/ verify(w) \/ commit(w)

LifecycleNext ==
  \/ \E w \in Callers : Step(w) \/ Crash(w)
  \/ \E k \in Keys : Land(k) \/ Drop(k)
  \/ \E r \in Runs : Publish(r)
  \/ \E after \in {pusd - 1, pusd + Payout} \cap Nat : OtherOperation(after)
  \/ Chain

LifecycleSpec == LifecycleInit /\ [][LifecycleNext]_lifecycleVars

\* Each run is called again and again, a call that has begun goes on, a
\* transaction under way lands or fails, and the Composer's accounts come to exist.
FairSpec ==
  /\ LifecycleSpec
  /\ \A r \in Runs : SF_lifecycleVars(\E w \in Callers : execute(w, r))
  /\ \A w \in Callers : WF_lifecycleVars(at[w] # "idle" /\ Step(w))
  /\ \A k \in Keys : WF_lifecycleVars(Land(k))
  /\ \A r \in Runs : WF_lifecycleVars(Publish(r))

-----------------------------------------------------------------------------
(* Properties *)

LifecycleTypeOK ==
  /\ \A r \in Runs :
       /\ runs[r].state \in {"absent", "created", "onchain_started",
                             "external_execution_completed", "onchain_completed"}
       /\ {runs[r].version, runs[r].snapshot} \subseteq Nat
       /\ exec[r].state \in {"absent", "prepared", "completed"}
       /\ exec[r].result \subseteq Effect
  /\ \A k \in Keys :
       /\ submissions[k].state \in {"none", "signed", "sent", "finalized", "failed"}
       /\ submissions[k].batch \in Nat
  /\ published \subseteq Runs
  /\ {portfolio.ledger, portfolio.composition, pusd, others, faults} \subseteq Nat
  /\ portfolio.includes \cup effects \subseteq Effect
  /\ \A c \in Conditions :
       /\ redemptions[c].state \in {"absent", "prepared", "completed"}
       /\ redemptions[c].before \in Nat
  /\ holder \in Callers \cup {NoOne}

\* A run is marked complete only when the program shows it: the authorised
\* composition has become the basket's, or the final settlement stands, divided
\* by the very share snapshot the run has recorded, however often and at what
\* supply the completion was retried.
CompletedIsOnChain ==
  \A r \in Runs : runs[r].state = "onchain_completed" =>
    IF r.kind = "reconstitution"
    THEN composition_version >= r.version /\ last_composition_nonce >= r.nonce
    ELSE /\ status \in {"Redeemable", "Closed"}
         /\ final_share_snapshot = runs[r].snapshot

\* The portfolio reflects nothing that did not happen (no redemption that was
\* prepared and not paid), loses no other operation's commit, and keeps the
\* results of finished executions, whatever interleaved with them.
PortfolioIsBacked ==
  /\ portfolio.includes \subseteq effects
  /\ {e \in effects : e.what = "other"} \subseteq portfolio.includes
  /\ \A r \in Runs : exec[r].result \subseteq portfolio.includes

\* Orders and redemptions of a run are placed only while the program keeps
\* deposits and withdrawals of the basket out, even by a caller that fell behind
\* while another one finished the run.
TradesWhileLocked ==
  \A w \in Callers :
    at[w] \in {"load", "sell", "buy", "redeem", "relay", "verify", "commit"} =>
      status = IF my[w].run.kind = "reconstitution" THEN "Reconstituting"
                                                    ELSE "Resolving"

\* Counting effects, not rows, runs lock, execute and complete once each, in
\* this order and one after the other.
Promise == INSTANCE LifecyclePromise WITH
  begun     <- {r \in Runs : submissions[Key(r, "begin", 0)].state = "finalized"},
  executed  <- {r \in Runs : exec[r].state = "completed"},
  completed <- {r \in Runs :
                  \/ submissions[Key(r, "complete", 0)].state = "finalized"
                  \/ \E n \in 1 .. FinalSettlementAttempts :
                       submissions[Key(r, "submit", n)].state = "finalized"}

RunsTakeTurns == Promise!Spec

\* A run that was begun is completed.
BegunIsCompleted ==
  \A r \in Runs : runs[r].state = "onchain_started"
                    ~> runs[r].state = "onchain_completed"

=============================================================================
