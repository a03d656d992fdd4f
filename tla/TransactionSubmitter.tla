------------------------ MODULE TransactionSubmitter ------------------------
(***************************************************************************)
(* One lifecycle operation on its way to Solana: the journal of signed     *)
(* attempts (PostgresLifecycleTransactionJournal), the workers that submit *)
(* it under the same operation key (KmsLifecycleTransactionSubmitter), and *)
(* what the cluster makes of the transactions they broadcast.              *)
(*                                                                         *)
(* Workers interleave at every await.  Attempts are named by their number: *)
(* each is signed over a blockhash of its own.                             *)
(***************************************************************************)
EXTENDS Integers, FiniteSets

CONSTANTS
  Submitters,   \* replicas and retries that submit the operation
  MaxAttempts,  \* the journal's retry limit (attempt_number <= 32)
  FreshLimit,   \* maximumBlockhashAttempts
  MaxFaults     \* bound on crashes, failed calls and transactions that fail

ASSUME SubmitterAssumption ==
  MaxAttempts \in Nat \ {0} /\ FreshLimit \in Nat \ {0}

VARIABLES
  operation,  \* solana_lifecycle_operations: state, version, finalized signature
  attempt,    \* state of each solana_lifecycle_submission_attempts row
  stamped,    \* attempts whose submitted_at is set
  chain,      \* what the cluster knows of each attempt's transaction
  stale,      \* attempts whose last valid block height has passed
  guarded,    \* the program admits the batch only once
  step,       \* the call each submitter makes next
  mine,       \* the attempt it works on
  version,    \* the operation version it has loaded
  fresh,      \* passes through the loop of submit
  faults

vars == <<operation, attempt, stamped, chain, stale, guarded, step, mine, version, fresh, faults>>

journal == <<operation, attempt, stamped>>
cluster == <<chain, stale, guarded>>
local   == <<mine, version, fresh>>

Attempts == 1 .. MaxAttempts

Init ==
  /\ operation = [state |-> "absent", version |-> 0, signature |-> 0]
  /\ attempt = [n \in Attempts |-> "none"]
  /\ stamped = {}
  /\ chain = [n \in Attempts |-> "unknown"]
  /\ stale = {}
  /\ guarded \in BOOLEAN
  /\ step = [s \in Submitters |-> "idle"]
  /\ mine = [s \in Submitters |-> 0]
  /\ version = [s \in Submitters |-> 0]
  /\ fresh = [s \in Submitters |-> 0]
  /\ faults = 0

Fault == faults < MaxFaults /\ faults' = faults + 1

Applied == {n \in Attempts : chain[n] \in {"confirmed", "finalized"}}

Latest == Cardinality({n \in Attempts : attempt[n] # "none"})

Goto(s, call) == step' = [step EXCEPT ![s] = call]

\* submit returns or throws.
Leave(s) == Goto(s, "idle") /\ mine' = [mine EXCEPT ![s] = 0]
                            /\ version' = [version EXCEPT ![s] = 0]
                            /\ fresh' = [fresh EXCEPT ![s] = 0]

-----------------------------------------------------------------------------
(* The journal *)

Open(n) == attempt[n] \in {"signed", "submitted"}

\* The row keeps its submitted_at when it is expired.
ExpiryPassesCheck_Unchecked(n) == TRUE

\* CHECK ((state IN ('submitted', 'finalized', 'rejected')) =
\*        (submitted_at IS NOT NULL)), of an attempt that is to be expired.
ExpiryPassesCheck(n) == n \notin stamped

CanExpire(n) == Open(n) /\ ExpiryPassesCheck(n)

\* The operation is finalized whatever became of it before.
MayFinalize_Any(n) == attempt[n] \in {"signed", "submitted", "finalized"}

MayFinalize(n) ==
  /\ attempt[n] \in {"signed", "submitted", "finalized"}
  /\ operation.state \in {"pending", "finalized"}

\* An update that finds another state throws, and changes nothing.
markFinalized(n) ==
  IF MayFinalize(n)
  THEN /\ attempt' = [attempt EXCEPT ![n] = "finalized"]
       /\ stamped' = stamped \cup {n}
       /\ operation' = [state |-> "finalized", version |-> operation.version + 1,
                        signature |-> n]
  ELSE UNCHANGED journal

markRejected(n) ==
  IF Open(n) /\ operation.state = "pending"
  THEN /\ attempt' = [attempt EXCEPT ![n] = "rejected"]
       /\ stamped' = stamped \cup {n}
       /\ operation' = [operation EXCEPT !.state = "failed", !.version = @ + 1]
  ELSE UNCHANGED journal

-----------------------------------------------------------------------------
(* submit *)

submit(s) ==
  /\ step[s] = "idle"
  /\ operation.state \in {"absent", "pending"}
  /\ operation' = [operation EXCEPT !.state = "pending"]
  /\ Goto(s, "latest")
  /\ UNCHANGED <<attempt, stamped, cluster, local, faults>>

\* The branches on an attempt that has been loaded.
Dispatch(s, n) ==
  IF attempt[n] \in {"finalized", "rejected"}
  THEN Leave(s)
  ELSE /\ Goto(s, "observe")
       /\ mine' = [mine EXCEPT ![s] = n]
       /\ UNCHANGED <<version, fresh>>

latestAttempt(s) ==
  /\ step[s] = "latest"
  /\ IF Latest = 0 \/ attempt[Latest] = "expired"
     THEN Goto(s, "reload") /\ UNCHANGED local
     ELSE Dispatch(s, Latest)
  /\ UNCHANGED <<journal, cluster, faults>>

createOrLoad(s) ==
  /\ step[s] = "reload"
  /\ Goto(s, "sign")
  /\ version' = [version EXCEPT ![s] = operation.version]
  /\ UNCHANGED <<journal, cluster, mine, fresh, faults>>

\* The KMS signs over the latest blockhash, and the journal appends the bytes.
createSignedAttempt(s) ==
  /\ step[s] = "sign"
  /\ IF operation.state = "pending" /\ operation.version = version[s]
     THEN IF Latest < MaxAttempts
          THEN /\ attempt' = [attempt EXCEPT ![Latest + 1] = "signed"]
               /\ operation' = [operation EXCEPT !.version = @ + 1]
               /\ Goto(s, "observe")
               /\ mine' = [mine EXCEPT ![s] = Latest + 1]
               /\ UNCHANGED <<version, fresh, stamped>>
          ELSE Leave(s) /\ UNCHANGED journal
     ELSE Goto(s, "conflict") /\ UNCHANGED <<journal, local>>
  /\ UNCHANGED <<cluster, faults>>

\* A version conflict falls back to the attempt that another submitter made.
afterConflict(s) ==
  /\ step[s] = "conflict"
  /\ IF Latest = 0 THEN Leave(s) ELSE Dispatch(s, Latest)
  /\ UNCHANGED <<journal, cluster, faults>>

\* A confirmed transaction counts as finalized.
ObservedFinal_Confirmed(n) == chain[n] \in {"confirmed", "finalized"}

ObservedFinal(n) == chain[n] = "finalized"

\* getSignatureStatuses: an error is rejected and a finalized signature recorded;
\* a transaction that is not final yet is not reported.
Observe(s, otherwise) ==
  LET n == mine[s]
  IN \/ chain[n] = "failed" /\ markRejected(n) /\ Leave(s)
     \/ ObservedFinal(n) /\ markFinalized(n) /\ Leave(s)
     \/ /\ chain[n] # "failed" /\ ~ObservedFinal(n)
        /\ Goto(s, otherwise)
        /\ UNCHANGED <<journal, local>>

observeSignature(s) ==
  /\ \/ step[s] = "observe" /\ Observe(s, "height")
     \/ step[s] = "caught" /\ Observe(s, "heightAgain")
  /\ UNCHANGED <<cluster, faults>>

HeightPassed(n) == n \in stale

\* getBlockHeight: an attempt whose blockhash has expired is expired, and the loop
\* begins again; otherwise the bytes are sent, or the error is thrown.
getBlockHeight(s) ==
  LET n == mine[s]
  IN /\ step[s] \in {"height", "heightAgain"}
     /\ \/ /\ HeightPassed(n) /\ CanExpire(n)
           /\ attempt' = [attempt EXCEPT ![n] = "expired"]
           /\ IF fresh[s] + 1 < FreshLimit
              THEN /\ Goto(s, "latest")
                   /\ fresh' = [fresh EXCEPT ![s] = @ + 1]
                   /\ UNCHANGED <<mine, version>>
              ELSE Leave(s)
        \/ HeightPassed(n) /\ ~CanExpire(n) /\ Leave(s) /\ UNCHANGED attempt
        \/ /\ ~HeightPassed(n)
           /\ IF step[s] = "height" THEN Goto(s, "send") /\ UNCHANGED local ELSE Leave(s)
           /\ UNCHANGED attempt
     /\ UNCHANGED <<operation, stamped, cluster, faults>>

\* The preflight refuses what has expired, has been processed or would fail.
Preflight(n) ==
  /\ n \notin stale
  /\ chain[n] \in {"unknown", "pending"}
  /\ guarded => Applied = {}

sendRawTransaction(s) ==
  /\ step[s] = "send"
  /\ IF Preflight(mine[s])
     THEN /\ chain' = [chain EXCEPT ![mine[s]] = "pending"]
          /\ Goto(s, "mark")
          /\ UNCHANGED local
     ELSE Leave(s) /\ UNCHANGED chain
  /\ UNCHANGED <<journal, stale, guarded, faults>>

markSubmitted(s) ==
  LET n == mine[s]
  IN /\ step[s] = "mark"
     /\ IF attempt[n] \in {"signed", "submitted", "finalized"}
        THEN /\ attempt' = [attempt EXCEPT ![n] = IF @ = "signed" THEN "submitted" ELSE @]
             /\ stamped' = stamped \cup {n}
             /\ Goto(s, "confirm")
             /\ UNCHANGED local
        ELSE Leave(s) /\ UNCHANGED <<attempt, stamped>>
     /\ UNCHANGED <<operation, cluster, faults>>

\* The confirmation is awaited however long it takes.
GivesUp_Never(n) == FALSE

\* The finalized height has passed the blockhash of what has not landed.
GivesUp(n) == n \in stale /\ chain[n] = "pending"

confirmTransaction(s) ==
  LET n == mine[s]
  IN /\ step[s] = "confirm"
     /\ \/ chain[n] = "failed" /\ markRejected(n) /\ Leave(s)
        \/ chain[n] = "finalized" /\ Goto(s, "observe") /\ UNCHANGED <<journal, local>>
        \/ GivesUp(n) /\ Goto(s, "caught") /\ UNCHANGED <<journal, local>>
     /\ UNCHANGED <<cluster, faults>>

failConfirmation(s) ==
  /\ step[s] = "confirm"
  /\ Fault
  /\ Goto(s, "caught")
  /\ UNCHANGED <<journal, cluster, local>>

\* The submitter crashes, or one of its other calls throws.
Crash(s) ==
  /\ step[s] # "idle"
  /\ Fault
  /\ Leave(s)
  /\ UNCHANGED <<journal, cluster>>

-----------------------------------------------------------------------------
(* The cluster *)

land(n) ==
  /\ chain[n] = "pending" /\ n \notin stale
  /\ chain' = [chain EXCEPT ![n] = IF guarded /\ Applied # {} THEN "failed" ELSE "confirmed"]
  /\ UNCHANGED <<journal, stale, guarded, step, local, faults>>

\* The program refuses the transaction after the preflight has let it through.
refuse(n) ==
  /\ chain[n] = "pending" /\ n \notin stale
  /\ Fault
  /\ chain' = [chain EXCEPT ![n] = "failed"]
  /\ UNCHANGED <<journal, stale, guarded, step, local>>

finalize(n) ==
  /\ chain[n] = "confirmed"
  /\ chain' = [chain EXCEPT ![n] = "finalized"]
  /\ UNCHANGED <<journal, stale, guarded, step, local, faults>>

\* Until it is final, what became of a transaction may be forked away, also that
\* it failed: a failure counts as final once its blockhash has expired.
fork(n) ==
  /\ chain[n] = "confirmed" \/ (chain[n] = "failed" /\ n \notin stale)
  /\ chain' = [chain EXCEPT ![n] = "pending"]
  /\ UNCHANGED <<journal, stale, guarded, step, local, faults>>

\* The cluster passes lastValidBlockHeight.
passHeight(n) ==
  /\ attempt[n] # "none" /\ n \notin stale
  /\ stale' = stale \cup {n}
  /\ UNCHANGED <<journal, chain, guarded, step, local, faults>>

\* The operation is answered, and the cluster has nothing left to do.
Answered ==
  /\ operation.state \in {"finalized", "failed"}
  /\ \A s \in Submitters : step[s] = "idle"
  /\ UNCHANGED vars

Call(s) ==
  \/ latestAttempt(s) \/ createOrLoad(s) \/ createSignedAttempt(s) \/ afterConflict(s)
  \/ observeSignature(s) \/ getBlockHeight(s) \/ sendRawTransaction(s)
  \/ markSubmitted(s) \/ confirmTransaction(s)

Next ==
  \/ Answered
  \/ \E s \in Submitters : submit(s) \/ Call(s) \/ failConfirmation(s) \/ Crash(s)
  \/ \E n \in Attempts : land(n) \/ refuse(n) \/ finalize(n) \/ fork(n) \/ passHeight(n)

Spec == Init /\ [][Next]_vars

\* Callers submit again until they have an answer, and the cluster goes on; no
\* transaction is bound to land.
FairSpec ==
  /\ Spec
  /\ \A s \in Submitters : WF_vars(submit(s)) /\ WF_vars(Call(s))
  /\ \A n \in Attempts : WF_vars(finalize(n)) /\ WF_vars(passHeight(n))

-----------------------------------------------------------------------------
(* Properties *)

\* The attempts are numbered without gaps, an operation has a signature exactly
\* when it is finalized, and submitted_at is set as the CHECK demands.
TypeOK ==
  /\ operation \in [state : {"absent", "pending", "finalized", "failed"},
                    version : Nat, signature : 0 .. MaxAttempts]
  /\ attempt \in [Attempts ->
                   {"none", "signed", "submitted", "expired", "finalized", "rejected"}]
  /\ stamped = {n \in Attempts : attempt[n] \in {"submitted", "finalized", "rejected"}}
  /\ chain \in [Attempts -> {"unknown", "pending", "confirmed", "finalized", "failed"}]
  /\ \A n \in Attempts : attempt[n] = "none" <=> n > Latest
  /\ stale \subseteq 1 .. Latest
  /\ \A s \in Submitters : mine[s] \in 0 .. Latest /\ fresh[s] < FreshLimit
  /\ operation.signature > 0 <=> operation.state = "finalized"

\* A result that submit returns is final: its transaction has been applied, and
\* no fork takes it back.
FinalizedIsLanded ==
  operation.state = "finalized" => chain[operation.signature] = "finalized"

\* An answer is never taken back: an operation that callers have been told has
\* failed is not finalized later, by another submitter with another attempt.
OutcomeIsFinal ==
  [][operation.state \in {"finalized", "failed"} =>
       operation'.state = operation.state]_operation

\* Every submit returns or throws, whatever becomes of its transactions.
EverySubmitReturns ==
  \A s \in Submitters : (step[s] # "idle") ~> (step[s] = "idle")

=============================================================================
