----------------------------- MODULE WorkQueue -----------------------------
(***************************************************************************)
(* The PostgreSQL-to-Temporal outbox of financial operations: the work     *)
(* items that the API inserts (execution_work_items), the dispatchers that *)
(* claim them and start one workflow each, and the activity that runs the  *)
(* operation and completes its item.                                       *)
(*                                                                         *)
(* Dispatchers interleave at every await.  Time enters as the moment at    *)
(* which a claim expires or a retry falls due.                             *)
(***************************************************************************)
EXTENDS Naturals, Sequences, FiniteSets

CONSTANTS
  Ops,             \* financial operations
  Deposits,        \* the deposits among them
  Dispatchers,     \* dispatcher replicas
  BatchSize,       \* items claimed by one runOnce
  MAX_ATTEMPTS,    \* the CHECK on dispatch_attempts
  MaxFaults        \* bound on crashes, failed calls and claims outlived

ASSUME QueueAssumption ==
  /\ IsFiniteSet(Ops) /\ Deposits \subseteq Ops
  /\ BatchSize \in Nat \ {0}
  /\ MAX_ATTEMPTS \in Nat \ {0}

VARIABLES
  item,       \* execution_work_items: state, token of the claim, attempts, due
  addressed,  \* deposits with a funding address
  funded,     \* deposits with a funding transaction
  completed,  \* operations whose execution_operations row is completed
  workflow,   \* the Temporal workflow of each operation
  batch,      \* the claimed work each dispatcher has still to go through
  doing,      \* the call each dispatcher makes next for the head of its batch
  faults

vars == <<item, addressed, funded, completed, workflow, batch, doing, faults>>

api   == <<addressed, funded>>
items == <<item, api>>

\* dispatch_attempts grows with every claim, so it names the claim as well as
\* the random claim_token does; 0 is NULL.
Absent == [state |-> "absent", token |-> 0, attempts |-> 0, due |-> FALSE]

Init ==
  /\ item = [op \in Ops |-> Absent]
  /\ addressed = {}
  /\ funded = {}
  /\ completed = {}
  /\ workflow = [op \in Ops |-> "none"]
  /\ batch = [p \in Dispatchers |-> <<>>]
  /\ doing = [p \in Dispatchers |-> "claim"]
  /\ faults = 0

Fault == faults < MaxFaults /\ faults' = faults + 1

-----------------------------------------------------------------------------
(* The API *)

\* A deposit waits for its funding transaction.
InitialState(op) == IF op \in Deposits THEN "awaiting_funding" ELSE "pending"

createIntent(op) ==
  /\ item[op].state = "absent"
  /\ item' = [item EXCEPT ![op].state = InitialState(op), ![op].due = TRUE]
  /\ UNCHANGED <<api, completed, workflow, batch, doing, faults>>

setDepositFundingAddress(op) ==
  /\ op \in Deposits \ addressed
  /\ item[op].state # "absent"
  /\ addressed' = addressed \cup {op}
  /\ UNCHANGED <<item, funded, completed, workflow, batch, doing, faults>>

submitDepositFunding(op) ==
  /\ op \in addressed \ funded
  /\ item[op].state = "awaiting_funding"
  /\ funded' = funded \cup {op}
  /\ item' = [item EXCEPT ![op].state = "pending", ![op].due = TRUE]
  /\ UNCHANGED <<addressed, completed, workflow, batch, doing, faults>>

-----------------------------------------------------------------------------
(* Dispatchers *)

\* Only pending items are claimed, never an expired claim.
Ready_PendingOnly ==
  {op \in Ops : item[op].state = "pending" /\ item[op].due /\ op \notin completed}

Ready ==
  {op \in Ops : /\ item[op].state \in {"pending", "claimed"}
                /\ item[op].due
                /\ op \notin completed}

\* The orders in which one statement may lock and return the ready items.
Selections ==
  LET n == IF Cardinality(Ready) < BatchSize THEN Cardinality(Ready) ELSE BatchSize
  IN {s \in [1 .. n -> Ready] : \A i, j \in 1 .. n : i # j => s[i] # s[j]}

\* An item that is claimed again keeps the token that it has.
claimed_KeepsToken(it) ==
  [state |-> "claimed", token |-> IF it.token = 0 THEN it.attempts + 1 ELSE it.token,
   attempts |-> it.attempts + 1, due |-> FALSE]

claimed(it) ==
  [state |-> "claimed", token |-> it.attempts + 1, attempts |-> it.attempts + 1,
   due |-> FALSE]

\* One statement claims the whole batch: a violated CHECK claims nothing.
claimReady(p) ==
  /\ doing[p] = "claim"
  /\ \E s \in Selections :
       /\ s # <<>>
       /\ \A i \in DOMAIN s : item[s[i]].attempts < MAX_ATTEMPTS
       /\ item' = [op \in Ops |->
            IF \E i \in DOMAIN s : s[i] = op THEN claimed(item[op]) ELSE item[op]]
       /\ batch' = [batch EXCEPT ![p] =
            [i \in DOMAIN s |-> [op |-> s[i], token |-> claimed(item[s[i]]).token]]]
  /\ doing' = [doing EXCEPT ![p] = "start"]
  /\ UNCHANGED <<api, completed, workflow, faults>>

Work(p) == Head(batch[p])

\* The loop goes on with the next item of the batch, or ends.
NextItem(p) ==
  /\ batch' = [batch EXCEPT ![p] = Tail(@)]
  /\ doing' = [doing EXCEPT ![p] = IF Len(batch[p]) = 1 THEN "claim" ELSE "start"]

\* An exception leaves runOnce: the rest of the batch stays claimed.
Escape(p) ==
  /\ batch' = [batch EXCEPT ![p] = <<>>]
  /\ doing' = [doing EXCEPT ![p] = "claim"]

Then(p, call) == doing' = [doing EXCEPT ![p] = call] /\ UNCHANGED batch

\* Only the exact condition counts; any other failure is rescheduled.
AfterFailedStart == "releaseClaim"

AfterAlreadyStarted == "markStarted"

\* workflows.start with reject_duplicate.
start(p) ==
  LET op == Work(p).op
  IN /\ doing[p] = "start"
     /\ \/ /\ workflow[op] = "none"
           /\ workflow' = [workflow EXCEPT ![op] = "running"]
           /\ Then(p, "markDispatched")
           /\ UNCHANGED faults
        \/ /\ workflow[op] # "none"
           /\ Then(p, AfterAlreadyStarted)
           /\ UNCHANGED <<workflow, faults>>
     /\ UNCHANGED <<items, completed>>

\* The call fails, whether or not Temporal has started the workflow.
failStart(p) ==
  LET op == Work(p).op
  IN /\ doing[p] = "start"
     /\ Fault
     /\ \/ UNCHANGED workflow
        \/ /\ workflow[op] = "none"
           /\ workflow' = [workflow EXCEPT ![op] = "running"]
     /\ Then(p, AfterFailedStart)
     /\ UNCHANGED <<items, completed>>

HoldsClaim_Unchecked(work) == TRUE

HoldsClaim(work) ==
  item[work.op].state = "claimed" /\ item[work.op].token = work.token

\* The claim's columns are not cleared.
Dispatched_KeepsToken(op) == item' = [item EXCEPT ![op].state = "dispatched"]

Dispatched(op) ==
  item' = [item EXCEPT ![op].state = "dispatched", ![op].token = 0, ![op].due = FALSE]

\* A claim that was lost is an error; inside the try block that error leads to
\* releaseClaim, inside the catch block it leaves runOnce.
markDispatched(p) ==
  /\ doing[p] \in {"markDispatched", "markStarted"}
  /\ IF HoldsClaim(Work(p))
     THEN Dispatched(Work(p).op) /\ NextItem(p)
     ELSE /\ UNCHANGED item
          /\ IF doing[p] = "markDispatched" THEN Then(p, "releaseClaim") ELSE Escape(p)
  /\ UNCHANGED <<api, completed, workflow, faults>>

\* The update fails, before or after PostgreSQL has committed it.
failMark(p) ==
  /\ doing[p] \in {"markDispatched", "markStarted"}
  /\ Fault
  /\ UNCHANGED item \/ (HoldsClaim(Work(p)) /\ Dispatched(Work(p).op))
  /\ IF doing[p] = "markDispatched" THEN Then(p, "releaseClaim") ELSE Escape(p)
  /\ UNCHANGED <<api, completed, workflow>>

releaseClaim(p) ==
  /\ doing[p] = "releaseClaim"
  /\ IF HoldsClaim(Work(p))
     THEN /\ item' = [item EXCEPT ![Work(p).op] =
                       [@ EXCEPT !.state = "pending", !.token = 0, !.due = FALSE]]
          /\ NextItem(p)
     ELSE UNCHANGED item /\ Escape(p)
  /\ UNCHANGED <<api, completed, workflow, faults>>

Crash(p) ==
  /\ doing[p] # "claim"
  /\ Fault
  /\ Escape(p)
  /\ UNCHANGED <<items, completed, workflow>>

\* next_attempt_at passes.
RetryDue(op) ==
  /\ item[op].state = "pending" /\ ~item[op].due
  /\ item' = [item EXCEPT ![op].due = TRUE]
  /\ UNCHANGED <<api, completed, workflow, batch, doing, faults>>

Held(op) ==
  \E p \in Dispatchers : \E i \in DOMAIN batch[p] :
    batch[p][i] = [op |-> op, token |-> item[op].token]

\* claim_expires_at passes: for a claim whose dispatcher has gone, or (a fault)
\* for one whose dispatcher is slow.
ClaimExpires(op) ==
  /\ item[op].state = "claimed" /\ ~item[op].due
  /\ IF Held(op) THEN Fault ELSE UNCHANGED faults
  /\ item' = [item EXCEPT ![op].due = TRUE]
  /\ UNCHANGED <<api, completed, workflow, batch, doing>>

-----------------------------------------------------------------------------
(* The workflow's activity *)

\* The runner settles and commits the operation; a deposit without funding is
\* refused.
Run(op) ==
  /\ workflow[op] = "running"
  /\ op \notin completed
  /\ op \in Deposits => op \in funded
  /\ completed' = completed \cup {op}
  /\ UNCHANGED <<items, workflow, batch, doing, faults>>

markCompleted(op) ==
  /\ workflow[op] = "running"
  /\ op \in completed
  /\ item' = [item EXCEPT ![op].state = "completed", ![op].token = 0, ![op].due = FALSE]
  /\ workflow' = [workflow EXCEPT ![op] = "completed"]
  /\ UNCHANGED <<api, completed, batch, doing, faults>>

\* The attempts of the workflow are used up, or its hour is over.
FailWorkflow(op) ==
  /\ workflow[op] = "running"
  /\ Fault
  /\ workflow' = [workflow EXCEPT ![op] = "failed"]
  /\ UNCHANGED <<items, completed, batch, doing>>

\* No item is left to dispatch.  An item whose workflow failed stays behind,
\* dispatched or with its operation complete.
Idle ==
  /\ \A op \in Ops :
       \/ item[op].state = "completed"
       \/ workflow[op] = "failed" /\ (item[op].state = "dispatched" \/ op \in completed)
  /\ \A p \in Dispatchers : doing[p] = "claim"
  /\ UNCHANGED vars

Dispatch(p) ==
  claimReady(p) \/ start(p) \/ markDispatched(p) \/ releaseClaim(p)

Next ==
  \/ Idle
  \/ \E op \in Ops :
       \/ createIntent(op) \/ setDepositFundingAddress(op) \/ submitDepositFunding(op)
       \/ RetryDue(op) \/ ClaimExpires(op)
       \/ Run(op) \/ markCompleted(op) \/ FailWorkflow(op)
  \/ \E p \in Dispatchers :
       Dispatch(p) \/ failStart(p) \/ failMark(p) \/ Crash(p)

Spec == Init /\ [][Next]_vars

\* Dispatchers run periodically, time passes, and Temporal runs what it started.
FairSpec ==
  /\ Spec
  /\ \A p \in Dispatchers : WF_vars(Dispatch(p))
  /\ \A op \in Ops : /\ WF_vars(RetryDue(op))
                     /\ WF_vars(~Held(op) /\ ClaimExpires(op))
                     /\ WF_vars(Run(op)) /\ WF_vars(markCompleted(op))

-----------------------------------------------------------------------------
(* Properties *)

States == {"absent", "awaiting_funding", "pending", "claimed", "dispatched", "completed"}

\* A work item has a claim token exactly while it is claimed, and has had as
\* many claims as the CHECK allows at most.
TypeOK ==
  /\ item \in [Ops -> [state : States, token : 0 .. MAX_ATTEMPTS,
                       attempts : 0 .. MAX_ATTEMPTS, due : BOOLEAN]]
  /\ \A op \in Ops : item[op].token > 0 <=> item[op].state = "claimed"
  /\ addressed \subseteq Deposits /\ funded \subseteq addressed
  /\ completed \subseteq Ops
  /\ workflow \in [Ops -> {"none", "running", "completed", "failed"}]
  /\ \A p \in Dispatchers : (batch[p] = <<>>) <=> (doing[p] = "claim")

\* At most one dispatcher holds the current claim of an item: a claim that
\* expired under a slow dispatcher is not the claim of the one that took over.
OneHolderPerClaim ==
  \A p, q \in Dispatchers : \A i \in DOMAIN batch[p], j \in DOMAIN batch[q] :
    (p # q \/ i # j) => batch[p][i] # batch[q][j]

\* A completed item stays completed: a dispatcher whose markDispatched comes
\* after the activity's markCompleted does not take it back.
CompletedIsFinal ==
  [][\A op \in Ops : item[op].state = "completed" => item'[op] = item[op]]_item

\* Any failure other than an already started workflow is rescheduled: an item
\* that is pending gets its workflow in the end.
PendingIsDispatched ==
  \A op \in Ops : (item[op].state = "pending") ~> (workflow[op] # "none")

=============================================================================
