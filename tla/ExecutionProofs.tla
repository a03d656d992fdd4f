-------------------------- MODULE ExecutionProofs --------------------------
(***************************************************************************)
(* The workers implement FinancialOperation: however attempts of the same  *)
(* operation overlap, crash and retry, an operation settles at most once,  *)
(* and is attributed at most once, with the batch that settled.            *)
(*                                                                         *)
(* What makes it so is kept on chain: a batch settles only with the next   *)
(* nonce of its user, and leaves the user's counter there, so that the     *)
(* nonce of a settled operation never fits again.  What a worker holds as  *)
(* its result is a batch of its own operation that has settled.            *)
(*                                                                         *)
(* The second part is about what moves outside the database.  A request is *)
(* signed once, so that its effect has one content; and an attempt that is *)
(* past a request has moved its own amount, by sending what it would have  *)
(* signed itself or by finding its amount in the journal.  The invariant   *)
(* is stated over the plan of the attempt: whatever it is past has moved.  *)
(***************************************************************************)
EXTENDS Execution, FiniteSetTheorems, TLAPS

Users == {Owner[op] : op \in Ops}

NoncesUsed ==
  \A r \in receipts : r.op \in Ops /\ Nonce[r.op] <= intentNonce[Owner[r.op]]

ResultsSettled ==
  \A w \in Workers : result[w] # None =>
    result[w] \in receipts /\ result[w].op = Serves[w]

SettledInv ==
  /\ intentNonce \in [Users -> Nat]
  /\ result \in [Workers -> receipts \cup {None}]
  /\ commits \in [Ops -> receipts \cup {None}]
  /\ NoncesUsed
  /\ ResultsSettled

\* A step that settles and attributes nothing, and leaves no worker with
\* another result than it had.
Quiet ==
  /\ UNCHANGED <<receipts, intentNonce, commits>>
  /\ \/ UNCHANGED result
     \/ \E w \in Workers : result' = [result EXCEPT ![w] = None]

-----------------------------------------------------------------------------
\* Leaving the lock, throwing or going on settles nothing.
LEMMA LeaveIsQuiet ==
  ASSUME NEW w \in Workers, Leave(w), UNCHANGED <<receipts, intentNonce, commits>>
  PROVE  Quiet
BY DEF Leave, Quiet

LEMMA ThrowIsQuiet ==
  ASSUME NEW w \in Workers, Throw(w)
  PROVE  Quiet
BY LeaveIsQuiet DEF Throw, dbVars, worldVars

LEMMA SkipIsQuiet ==
  ASSUME NEW w \in Workers, Skip(w)
  PROVE  Quiet
BY DEF Skip, GoOn, Quiet, dbVars, worldVars

LEMMA UpdateIsQuiet ==
  ASSUME NEW w \in Workers, NEW next, Update(w, next)
  PROVE  Quiet
BY ThrowIsQuiet DEF Update, Quiet, dbVars, worldVars

\* Of all that a worker does, only complete settles and only commit attributes.
LEMMA WorkIsQuiet ==
  ASSUME NEW w \in Workers, Work(w), ~complete(w), ~commit(w)
  PROVE  Quiet
<1>1. CASE tryAcquire(w)
  BY <1>1, ThrowIsQuiet DEF tryAcquire, GoOn, Quiet, dbVars, worldVars
<1>2. CASE assertFreshContext(w)
  BY <1>2, ThrowIsQuiet DEF assertFreshContext, GoOn, Quiet, dbVars, worldVars
<1>3. CASE createOrLoad(w)
  BY <1>3 DEF createOrLoad, Quiet, dbVars, worldVars
<1>4. CASE transition(w)
  BY <1>4, UpdateIsQuiet, SkipIsQuiet DEF transition
<1>5. CASE noteTransfer(w)
  BY <1>5, UpdateIsQuiet, SkipIsQuiet DEF noteTransfer
<1>6. CASE getStatus(w)
  BY <1>6, ThrowIsQuiet, SkipIsQuiet, LeaveIsQuiet DEF getStatus, worldVars
<1>7. CASE load(w)
  BY <1>7, ThrowIsQuiet DEF load, GoOn, Quiet, dbVars, worldVars
<1>8. CASE prepare(w)
  BY <1>8, ThrowIsQuiet, SkipIsQuiet DEF prepare, GoOn, Quiet, worldVars
<1>9. CASE send(w)
  BY <1>9 DEF send, GoOn, Quiet, dbVars
<1>10. CASE insert(w)
  BY <1>10, LeaveIsQuiet DEF insert, GoOn, Quiet, worldVars
<1>11. CASE loadLatestPricing(w)
  BY <1>11, ThrowIsQuiet DEF loadLatestPricing, Quiet, dbVars, worldVars
<1>12. CASE return(w)
  BY <1>12, LeaveIsQuiet DEF return, dbVars, worldVars
<1>. QED
  BY <1>1, <1>2, <1>3, <1>4, <1>5, <1>6, <1>7, <1>8, <1>9, <1>10, <1>11, <1>12
     DEF Work

\* Nor does anything else, but for the two of them.
LEMMA OtherwiseQuiet ==
  ASSUME Next, \A w \in Workers : ~complete(w) /\ ~commit(w)
  PROVE  Quiet
<1>1. CASE AllReturned
  BY <1>1 DEF AllReturned, Quiet, vars, dbVars, worldVars, attempts
<1>2. CASE PublishNav \/ MoveBook \/ FeeComesDue \/ Index
  BY <1>2 DEF PublishNav, MoveBook, FeeComesDue, Index, Quiet, dbVars, worldVars,
              attempts
<1>3. CASE Accrue
  BY <1>3 DEF Accrue, Quiet, dbVars, attempts
<1>4. ASSUME NEW op \in Ops, CompleteBridge(op) \/ Lapse(op)
      PROVE  Quiet
  BY <1>4 DEF CompleteBridge, Lapse, Quiet, dbVars, worldVars, attempts
<1>5. ASSUME NEW w \in Workers, Start(w)
      PROVE  Quiet
  BY <1>5 DEF Start, Quiet, dbVars, worldVars
<1>6. ASSUME NEW w \in Workers, Work(w)
      PROVE  Quiet
  BY <1>6, WorkIsQuiet
<1>7. ASSUME NEW w \in Workers, Abort(w)
      PROVE  Quiet
  BY <1>7, ThrowIsQuiet DEF Abort
<1>8. ASSUME NEW w \in Workers, Fail(w) \/ Refuse(w)
      PROVE  Quiet
  BY <1>8, LeaveIsQuiet DEF Fail, Refuse, dbVars, worldVars
<1>9. ASSUME NEW w \in Workers, Crash(w)
      PROVE  Quiet
  BY <1>9 DEF Crash, Quiet, dbVars, worldVars
<1>10. ASSUME NEW w \in Workers, ExpireLease(w) \/ LoseLease(w)
       PROVE  Quiet
  BY <1>10 DEF ExpireLease, LoseLease, Quiet, dbVars, worldVars, attempts
<1>. QED
  BY <1>1, <1>2, <1>3, <1>4, <1>5, <1>6, <1>7, <1>8, <1>9, <1>10 DEF Next

-----------------------------------------------------------------------------
LEMMA QuietKeepsInv ==
  ASSUME SettledInv, Quiet
  PROVE  SettledInv'
<1>1. CASE UNCHANGED result
  BY <1>1 DEF SettledInv, Quiet, NoncesUsed, ResultsSettled
<1>2. ASSUME NEW w \in Workers, result' = [result EXCEPT ![w] = None]
      PROVE  SettledInv'
  <2>1. result' \in [Workers -> receipts \cup {None}]
    BY <1>2 DEF SettledInv
  <2>2. \A v \in Workers : result'[v] # None => v # w /\ result'[v] = result[v]
    BY <1>2 DEF SettledInv
  <2>. QED
    BY <2>1, <2>2 DEF SettledInv, Quiet, NoncesUsed, ResultsSettled
<1>. QED
  BY <1>1, <1>2 DEF Quiet

\* A settlement is one of an operation that had none, and leaves the others'.
LEMMA CompleteSettles ==
  ASSUME SettledInv, NEW w \in Workers, complete(w)
  PROVE  SettledInv' /\ [Promise!Next]_Promise!vars
<1>. DEFINE op == Serves[w]
            batch == Batch(w)
<1>1. op \in Ops /\ Owner[op] \in Users /\ Nonce[op] \in Nat
  BY OperationAssumption DEF Users
<1>2. batch.op = op
  BY DEF Batch
<1>3. UNCHANGED commits
  <2>1. CASE Throw(w)
    BY <2>1 DEF Throw, dbVars
  <2>. QED
    BY <2>1 DEF complete, dbVars
<1>4. CASE Throw(w)
  <2>1. Quiet
    BY <1>4, ThrowIsQuiet
  <2>. QED
    BY <2>1, QuietKeepsInv DEF Quiet, Promise!vars
<1>. HIDE DEF batch
<1>5. ASSUME batch \in receipts', result' = [result EXCEPT ![w] = batch],
             receipts \subseteq receipts'
      PROVE  /\ result' \in [Workers -> receipts' \cup {None}]
             /\ commits' \in [Ops -> receipts' \cup {None}]
             /\ ResultsSettled'
  <2>1. result' \in [Workers -> receipts' \cup {None}]
    BY <1>5 DEF SettledInv
  <2>2. \A v \in Workers : v # w => result'[v] = result[v]
    BY <1>5 DEF SettledInv
  <2>3. result'[w] = batch
    BY <1>5 DEF SettledInv
  <2>4. commits' \in [Ops -> receipts' \cup {None}]
    BY <1>3, <1>5 DEF SettledInv
  <2>. QED
    BY <1>2, <1>5, <2>1, <2>2, <2>3, <2>4 DEF SettledInv, ResultsSettled
<1>6. CASE /\ batch \in receipts
           /\ result' = [result EXCEPT ![w] = batch]
           /\ UNCHANGED <<receipts, intentNonce>>
  <2>1. SettledInv'
    BY <1>5, <1>6 DEF SettledInv, NoncesUsed
  <2>. QED
    BY <1>3, <1>6, <2>1 DEF Promise!vars
<1>7. CASE /\ IntentFits(op)
           /\ receipts' = receipts \cup {batch}
           /\ intentNonce' = [intentNonce EXCEPT ![Owner[op]] = Nonce[op]]
           /\ result' = [result EXCEPT ![w] = batch]
  <2>1. intentNonce[Owner[op]] \in Nat /\ Nonce[op] = intentNonce[Owner[op]] + 1
    BY <1>1, <1>7 DEF SettledInv, IntentFits
  <2>2. intentNonce' \in [Users -> Nat]
    BY <1>1, <1>7 DEF SettledInv
  <2>3. \A u \in Users : intentNonce[u] \in Nat /\ intentNonce[u] <= intentNonce'[u]
    BY <1>1, <1>7, <2>1 DEF SettledInv
  <2>4. NoncesUsed'
    <3>1. Nonce[op] <= intentNonce'[Owner[op]]
      BY <1>1, <1>7 DEF SettledInv
    <3>2. ASSUME NEW r \in receipts
          PROVE  r.op \in Ops /\ Nonce[r.op] <= intentNonce'[Owner[r.op]]
      <4>1. r.op \in Ops /\ Nonce[r.op] <= intentNonce[Owner[r.op]]
        BY DEF SettledInv, NoncesUsed
      <4>2. Owner[r.op] \in Users /\ Nonce[r.op] \in Nat
        BY <4>1, OperationAssumption DEF Users
      <4>3. /\ intentNonce[Owner[r.op]] \in Nat
            /\ intentNonce'[Owner[r.op]] \in Nat
            /\ intentNonce[Owner[r.op]] <= intentNonce'[Owner[r.op]]
        BY <2>2, <2>3, <4>2
      <4>. QED
        BY <4>1, <4>2, <4>3
    <3>. QED
      BY <1>1, <1>2, <1>7, <3>1, <3>2 DEF NoncesUsed
  <2>5. SettledInv'
    BY <1>5, <1>7, <2>2, <2>4 DEF SettledInv
  <2>6. \A s \in receipts : s.op # op
    BY <1>1, <2>1 DEF SettledInv, NoncesUsed
  <2>7. Promise!Settle(op)
    BY <1>2, <1>3, <1>7, <2>6 DEF Promise!Settle
  <2>. QED
    BY <1>1, <2>5, <2>7 DEF Promise!Next
<1>. QED
  BY <1>4, <1>6, <1>7 DEF complete, Accepts, batch, worldVars

\* A commit attributes a settled batch to an operation that had none.
LEMMA CommitAttributes ==
  ASSUME SettledInv, NEW w \in Workers, commit(w)
  PROVE  SettledInv' /\ [Promise!Next]_Promise!vars
<1>. DEFINE op == Serves[w]
            batch == result[w]
<1>1. op \in Ops
  BY OperationAssumption
<1>2. batch \in receipts \cup {None} /\ (batch # None => batch.op = op)
  BY DEF SettledInv, ResultsSettled
<1>3. CASE Throw(w)
  <2>1. Quiet
    BY <1>3, ThrowIsQuiet
  <2>. QED
    BY <2>1, QuietKeepsInv DEF Quiet, Promise!vars
<1>4. CASE commits[op] = batch /\ GoOn(w, 1) /\ UNCHANGED <<dbVars, worldVars>>
  <2>1. Quiet
    BY <1>4 DEF Quiet, GoOn, dbVars, worldVars
  <2>. QED
    BY <2>1, QuietKeepsInv DEF Quiet, Promise!vars
<1>5. CASE /\ commits[op] # batch
           /\ commits[op] = None
           /\ commits' = [commits EXCEPT ![op] = batch]
           /\ UNCHANGED <<result, receipts, intentNonce>>
  <2>1. batch \in receipts /\ batch.op = op
    BY <1>2, <1>5
  <2>2. SettledInv'
    BY <1>1, <1>5, <2>1 DEF SettledInv, NoncesUsed, ResultsSettled
  <2>3. Promise!Attribute(op)
    BY <1>5, <2>1 DEF Promise!Attribute
  <2>. QED
    BY <1>1, <2>2, <2>3 DEF Promise!Next
<1>. QED
  BY <1>3, <1>4, <1>5 DEF commit, CanCommit, GoOn, worldVars

LEMMA StepImplements ==
  ASSUME SettledInv, [Next]_vars
  PROVE  SettledInv' /\ [Promise!Next]_Promise!vars
<1>1. CASE \E w \in Workers : complete(w) \/ commit(w)
  BY <1>1, CompleteSettles, CommitAttributes
<1>2. CASE Next /\ \A w \in Workers : ~complete(w) /\ ~commit(w)
  <2>1. Quiet
    BY <1>2, OtherwiseQuiet
  <2>. QED
    BY <2>1, QuietKeepsInv DEF Quiet, Promise!vars
<1>3. CASE UNCHANGED vars
  <2>1. Quiet
    BY <1>3 DEF Quiet, vars, dbVars, worldVars, attempts
  <2>. QED
    BY <2>1, QuietKeepsInv DEF Quiet, Promise!vars
<1>. QED
  BY <1>1, <1>2, <1>3

LEMMA InitImplements ==
  ASSUME Init
  PROVE  SettledInv /\ Promise!Init
BY DEF Init, SettledInv, NoncesUsed, ResultsSettled, Users, Promise!Init

-----------------------------------------------------------------------------
\* The workers, the stores and the program together implement the promise of
\* FinancialOperation: settled at most once, attributed at most once, with the
\* batch that settled.
THEOREM ImplementsFinancialOperation == Spec => ExactlyOnce
<1>1. Init => SettledInv /\ Promise!Init
  BY InitImplements
<1>2. SettledInv /\ [Next]_vars => SettledInv' /\ [Promise!Next]_Promise!vars
  BY StepImplements
<1>. QED
  BY <1>1, <1>2, PTL DEF Spec, ExactlyOnce, Promise!Spec

-----------------------------------------------------------------------------
(* The plans, step by step *)

Prepare(kind) == [do |-> "prepare", kind |-> kind]

Send(kind) == [do |-> "send", kind |-> kind]

\* The plan of a deposit, with its two legs written out.
LEMMA DepositSteps ==
  /\ Len(DepositPlan) = 18
  /\ DepositPlan[1] = Do("tryAcquire")
  /\ DepositPlan[2] = Do("assertFreshContext")
  /\ DepositPlan[3] = Do("createOrLoad")
  /\ DepositPlan[4] = Transition("intent_verified", "funding_verified")
  /\ DepositPlan[5] = Transition("funding_verified", "bridge_pending")
  /\ DepositPlan[6] = Do("getStatus")
  /\ DepositPlan[7] = Transition("bridge_pending", "bridge_completed")
  /\ DepositPlan[8] = Do("load")
  /\ DepositPlan[9] = Prepare("order")
  /\ DepositPlan[10] = Send("order")
  /\ DepositPlan[11] = Do("insert")
  /\ DepositPlan[12] = Transition("bridge_completed", "trading_completed")
  /\ DepositPlan[13] = Do("loadLatestPricing")
  /\ DepositPlan[14] = Do("complete")
  /\ DepositPlan[15] = Transition("trading_completed", "settlement_submitted")
  /\ DepositPlan[16] = Transition("settlement_submitted", "completed")
  /\ DepositPlan[17] = Do("commit")
  /\ DepositPlan[18] = Do("return")
BY DEF DepositPlan, Locked, executeFak, Request, Send, Prepare

\* The plan of a withdrawal, likewise.
LEMMA WithdrawalSteps ==
  /\ Len(WithdrawalPlan) = 23
  /\ WithdrawalPlan[1] = Do("tryAcquire")
  /\ WithdrawalPlan[2] = Do("assertFreshContext")
  /\ WithdrawalPlan[3] = Do("createOrLoad")
  /\ WithdrawalPlan[4] = Transition("created", "intent_verified")
  /\ WithdrawalPlan[5] = Do("load")
  /\ WithdrawalPlan[6] = Prepare("order")
  /\ WithdrawalPlan[7] = Send("order")
  /\ WithdrawalPlan[8] = Do("insert")
  /\ WithdrawalPlan[9] = Transition("intent_verified", "trading_completed")
  /\ WithdrawalPlan[10] = Transition("trading_completed", "bridge_pending")
  /\ WithdrawalPlan[11] = Prepare("transfer")
  /\ WithdrawalPlan[12] = Send("transfer")
  /\ WithdrawalPlan[13] = Do("noteTransfer")
  /\ WithdrawalPlan[14] = Do("getStatus")
  /\ WithdrawalPlan[15] = Transition("bridge_pending", "bridge_completed")
  /\ WithdrawalPlan[16] = Do("loadLatestPricing")
  /\ WithdrawalPlan[17] = Prepare("split")
  /\ WithdrawalPlan[18] = Send("split")
  /\ WithdrawalPlan[19] = Do("complete")
  /\ WithdrawalPlan[20] = Transition("bridge_completed", "settlement_submitted")
  /\ WithdrawalPlan[21] = Transition("settlement_submitted", "completed")
  /\ WithdrawalPlan[22] = Do("commit")
  /\ WithdrawalPlan[23] = Do("return")
BY DEF WithdrawalPlan, Locked, executeFak, Request, Send, Prepare

\* What the proofs below use of the plan of a deposit: it starts under the lock
\* and ends with the return, sends a request right after preparing it, journals
\* the order after sending it, and settles after its order.
LEMMA DepositFacts ==
  ASSUME NEW i \in 1 .. Len(DepositPlan)
  PROVE  /\ Len(DepositPlan) \in Nat /\ 1 \in 1 .. Len(DepositPlan) /\ DepositPlan[1] = Do("tryAcquire")
         /\ DepositPlan[i].do # "return" => i + 1 \in 1 .. Len(DepositPlan)
         /\ DepositPlan[i].do = "load" =>
           /\ i + 4 \in 1 .. Len(DepositPlan)
           /\ DepositPlan[i + 4].do # "send"
         /\ DepositPlan[i].do = "load" =>
           \A j \in i .. (i + 3), kind \in Requests :
             DepositPlan[j] = Send(kind) => kind = "order"
         /\ (i < 4) <=> (DepositPlan[i].do \in
                      {"tryAcquire", "assertFreshContext", "createOrLoad"})
         /\ (i = 3) <=> (DepositPlan[i].do = "createOrLoad")
         /\ DepositPlan[i].do = "prepare" =>
           DepositPlan[i].kind \in Requests /\ DepositPlan[i + 1] = Send(DepositPlan[i].kind)
         /\ DepositPlan[i].do = "send" =>
           DepositPlan[i].kind \in Requests /\ DepositPlan[i] = Send(DepositPlan[i].kind)
         /\ i + 1 \in 1 .. Len(DepositPlan) /\ DepositPlan[i + 1].do = "send" => DepositPlan[i].do = "prepare"
         /\ DepositPlan[i].do = "insert" => \E j \in 1 .. (i - 1) : DepositPlan[j] = Send("order")
         /\ DepositPlan[i].do = "complete" => \E j \in 1 .. (i - 1) : DepositPlan[j] = Send("order")
<1>1. Len(DepositPlan) \in Nat /\ 1 \in 1 .. Len(DepositPlan) /\ DepositPlan[1] = Do("tryAcquire")
  BY DepositSteps DEF Do, Transition, Prepare, Send, Requests
<1>2. DepositPlan[i].do # "return" => i + 1 \in 1 .. Len(DepositPlan)
  BY DepositSteps DEF Do, Transition, Prepare, Send, Requests
<1>3. DepositPlan[i].do = "load" =>
       /\ i + 4 \in 1 .. Len(DepositPlan)
       /\ DepositPlan[i + 4].do # "send"
  BY DepositSteps DEF Do, Transition, Prepare, Send, Requests
<1>4. DepositPlan[i].do = "load" =>
       \A j \in i .. (i + 3), kind \in Requests :
         DepositPlan[j] = Send(kind) => kind = "order"
  BY DepositSteps DEF Do, Transition, Prepare, Send, Requests
<1>5. (i < 4) <=> (DepositPlan[i].do \in
                  {"tryAcquire", "assertFreshContext", "createOrLoad"})
  BY DepositSteps DEF Do, Transition, Prepare, Send, Requests
<1>6. (i = 3) <=> (DepositPlan[i].do = "createOrLoad")
  BY DepositSteps DEF Do, Transition, Prepare, Send, Requests
<1>7. DepositPlan[i].do = "prepare" =>
       DepositPlan[i].kind \in Requests /\ DepositPlan[i + 1] = Send(DepositPlan[i].kind)
  BY DepositSteps DEF Do, Transition, Prepare, Send, Requests
<1>8. DepositPlan[i].do = "send" =>
       DepositPlan[i].kind \in Requests /\ DepositPlan[i] = Send(DepositPlan[i].kind)
  BY DepositSteps DEF Do, Transition, Prepare, Send, Requests
<1>9. i + 1 \in 1 .. Len(DepositPlan) /\ DepositPlan[i + 1].do = "send" => DepositPlan[i].do = "prepare"
  BY DepositSteps DEF Do, Transition, Prepare, Send, Requests
<1>10. DepositPlan[i].do = "insert" => \E j \in 1 .. (i - 1) : DepositPlan[j] = Send("order")
  BY DepositSteps DEF Do, Transition, Prepare, Send, Requests
<1>11. DepositPlan[i].do = "complete" => \E j \in 1 .. (i - 1) : DepositPlan[j] = Send("order")
  BY DepositSteps DEF Do, Transition, Prepare, Send, Requests
<1>. QED
  BY <1>1, <1>2, <1>3, <1>4, <1>5, <1>6, <1>7, <1>8, <1>9, <1>10, <1>11

\* And of the plan of a withdrawal, which settles after all its requests.
LEMMA WithdrawalFacts ==
  ASSUME NEW i \in 1 .. Len(WithdrawalPlan)
  PROVE  /\ Len(WithdrawalPlan) \in Nat /\ 1 \in 1 .. Len(WithdrawalPlan) /\ WithdrawalPlan[1] = Do("tryAcquire")
         /\ WithdrawalPlan[i].do # "return" => i + 1 \in 1 .. Len(WithdrawalPlan)
         /\ WithdrawalPlan[i].do = "load" =>
           /\ i + 4 \in 1 .. Len(WithdrawalPlan)
           /\ WithdrawalPlan[i + 4].do # "send"
         /\ WithdrawalPlan[i].do = "load" =>
           \A j \in i .. (i + 3), kind \in Requests :
             WithdrawalPlan[j] = Send(kind) => kind = "order"
         /\ (i < 4) <=> (WithdrawalPlan[i].do \in
                      {"tryAcquire", "assertFreshContext", "createOrLoad"})
         /\ (i = 3) <=> (WithdrawalPlan[i].do = "createOrLoad")
         /\ WithdrawalPlan[i].do = "prepare" =>
           WithdrawalPlan[i].kind \in Requests /\ WithdrawalPlan[i + 1] = Send(WithdrawalPlan[i].kind)
         /\ WithdrawalPlan[i].do = "send" =>
           WithdrawalPlan[i].kind \in Requests /\ WithdrawalPlan[i] = Send(WithdrawalPlan[i].kind)
         /\ i + 1 \in 1 .. Len(WithdrawalPlan) /\ WithdrawalPlan[i + 1].do = "send" => WithdrawalPlan[i].do = "prepare"
         /\ WithdrawalPlan[i].do = "insert" => \E j \in 1 .. (i - 1) : WithdrawalPlan[j] = Send("order")
         /\ WithdrawalPlan[i].do = "complete" =>
           \A kind \in Requests : \E j \in 1 .. (i - 1) : WithdrawalPlan[j] = Send(kind)
<1>1. Len(WithdrawalPlan) \in Nat /\ 1 \in 1 .. Len(WithdrawalPlan) /\ WithdrawalPlan[1] = Do("tryAcquire")
  BY WithdrawalSteps DEF Do, Transition, Prepare, Send, Requests
<1>2. WithdrawalPlan[i].do # "return" => i + 1 \in 1 .. Len(WithdrawalPlan)
  BY WithdrawalSteps DEF Do, Transition, Prepare, Send, Requests
<1>3. WithdrawalPlan[i].do = "load" =>
       /\ i + 4 \in 1 .. Len(WithdrawalPlan)
       /\ WithdrawalPlan[i + 4].do # "send"
  BY WithdrawalSteps DEF Do, Transition, Prepare, Send, Requests
<1>4. WithdrawalPlan[i].do = "load" =>
       \A j \in i .. (i + 3), kind \in Requests :
         WithdrawalPlan[j] = Send(kind) => kind = "order"
  BY WithdrawalSteps DEF Do, Transition, Prepare, Send, Requests
<1>5. (i < 4) <=> (WithdrawalPlan[i].do \in
                  {"tryAcquire", "assertFreshContext", "createOrLoad"})
  BY WithdrawalSteps DEF Do, Transition, Prepare, Send, Requests
<1>6. (i = 3) <=> (WithdrawalPlan[i].do = "createOrLoad")
  BY WithdrawalSteps DEF Do, Transition, Prepare, Send, Requests
<1>7. WithdrawalPlan[i].do = "prepare" =>
       WithdrawalPlan[i].kind \in Requests /\ WithdrawalPlan[i + 1] = Send(WithdrawalPlan[i].kind)
  BY WithdrawalSteps DEF Do, Transition, Prepare, Send, Requests
<1>8. WithdrawalPlan[i].do = "send" =>
       WithdrawalPlan[i].kind \in Requests /\ WithdrawalPlan[i] = Send(WithdrawalPlan[i].kind)
  BY WithdrawalSteps DEF Do, Transition, Prepare, Send, Requests
<1>9. i + 1 \in 1 .. Len(WithdrawalPlan) /\ WithdrawalPlan[i + 1].do = "send" => WithdrawalPlan[i].do = "prepare"
  BY WithdrawalSteps DEF Do, Transition, Prepare, Send, Requests
<1>10. WithdrawalPlan[i].do = "insert" => \E j \in 1 .. (i - 1) : WithdrawalPlan[j] = Send("order")
  BY WithdrawalSteps DEF Do, Transition, Prepare, Send, Requests
<1>11. WithdrawalPlan[i].do = "complete" =>
       \A kind \in Requests : \E j \in 1 .. (i - 1) : WithdrawalPlan[j] = Send(kind)
  BY WithdrawalSteps DEF Do, Transition, Prepare, Send, Requests
<1>. QED
  BY <1>1, <1>2, <1>3, <1>4, <1>5, <1>6, <1>7, <1>8, <1>9, <1>10, <1>11

LEMMA PlanFacts ==
  ASSUME NEW op \in Ops, NEW i \in 1 .. Len(Plan(op))
  PROVE  /\ Len(Plan(op)) \in Nat
         /\ 1 \in 1 .. Len(Plan(op))
         /\ Plan(op)[1] = Do("tryAcquire")
         /\ Plan(op)[i].do # "return" => i + 1 \in 1 .. Len(Plan(op))
         /\ Plan(op)[i].do = "load" =>
              /\ i + Len(executeFak) \in 1 .. Len(Plan(op))
              /\ Plan(op)[i + Len(executeFak)].do # "send"
              /\ \A j \in i .. (i + Len(executeFak) - 1), kind \in Requests :
                   Plan(op)[j] = Send(kind) => kind = "order"
         /\ (i < 4) <=> (Plan(op)[i].do \in
                         {"tryAcquire", "assertFreshContext", "createOrLoad"})
         /\ (i = 3) <=> (Plan(op)[i].do = "createOrLoad")
         /\ Plan(op)[i].do = "prepare" =>
              /\ Plan(op)[i].kind \in Requests
              /\ Plan(op)[i + 1] = Send(Plan(op)[i].kind)
         /\ Plan(op)[i].do = "send" =>
              /\ Plan(op)[i].kind \in Requests
              /\ Plan(op)[i] = Send(Plan(op)[i].kind)
         /\ i + 1 \in 1 .. Len(Plan(op)) /\ Plan(op)[i + 1].do = "send" =>
              Plan(op)[i].do = "prepare"
         /\ Plan(op)[i].do = "insert" =>
              \E j \in 1 .. (i - 1) : Plan(op)[j] = Send("order")
         /\ Plan(op)[i].do = "complete" =>
              \A kind \in IF op \in Deposits THEN {"order"} ELSE Requests :
                \E j \in 1 .. (i - 1) : Plan(op)[j] = Send(kind)
<1>1. Len(executeFak) = 4
  BY DEF executeFak, Request
<1>2. CASE op \in Deposits
  <2>1. Plan(op) = DepositPlan
    BY <1>2 DEF Plan
  <2>. QED
    BY <1>1, <1>2, <2>1, DepositFacts
<1>3. CASE op \notin Deposits
  <2>1. Plan(op) = WithdrawalPlan
    BY <1>3 DEF Plan
  <2>. QED
    BY <1>1, <1>3, <2>1, WithdrawalFacts
<1>. QED
  BY <1>2, <1>3

-----------------------------------------------------------------------------
(* What an attempt has sent, it has sent with its own amounts *)

\* The attempt is past the request.
Sent(w, kind) ==
  \E i \in 1 .. (run[w].pc - 1) : Plan(Serves[w])[i] = Send(kind)

Moved(op, kind, amount) ==
  \E e \in effects : e.op = op /\ e.kind = kind /\ e.content.amount = amount

\* The attempt is at a step of its plan, holds its row once it has read it,
\* sends only what it would sign itself, and everything it is past has moved.
AttemptOK(w) ==
  run[w] # None =>
    /\ run[w].pc \in 1 .. Len(Plan(Serves[w]))
    /\ run[w].pc > 3 => run[w].row \in Rows
    /\ Step(w).do = "send" =>
         prepared[Serves[w]][Step(w).kind] = Content(w, Step(w).kind)
    /\ \A kind \in Requests : Sent(w, kind) => Moved(Serves[w], kind, Amount(w))

\* An effect carries what was signed for it.
SignedFirst == \A e \in effects : e.content = prepared[e.op][e.kind]

\* A journaled order was filled.
JournalMoved ==
  \A op \in Ops : journal[op] # None => Moved(op, "order", journal[op])

EffectsInv ==
  /\ \A w \in Workers : AttemptOK(w)
  /\ SignedFirst
  /\ JournalMoved
  /\ SettlementMatchesEffects

\* Effects stay, and what was signed stays signed.
Grows ==
  /\ effects \subseteq effects'
  /\ \A op \in Ops, kind \in Requests :
       prepared[op][kind] # None => prepared'[op][kind] = prepared[op][kind]

\* The attempt goes on by some steps, with the context and the book it read.
Advanced(w, steps) ==
  /\ run[w] # None
  /\ run' \in [Workers -> Attempts \cup {None}]
  /\ \A v \in Workers \ {w} : run'[v] = run[v]
  /\ run'[w].pc = run[w].pc + steps
  /\ run'[w].context = run[w].context /\ run'[w].book = run[w].book

-----------------------------------------------------------------------------
LEMMA ContextType ==
  ASSUME TypeOK
  PROVE  Context \in [chain : Counts, ledger : Nat]
<1>1. IsFiniteSet({op \in Ops : commits[op] # None})
  BY OperationAssumption, FS_Subset
<1>2. Ledger \in Nat
  BY <1>1, FS_CardinalityType DEF Ledger
<1>. QED
  BY <1>2 DEF Context, TypeOK

LEMMA ContentType ==
  ASSUME TypeOK, NEW w \in Workers, run[w] # None, NEW kind
  PROVE  /\ Amount(w) \in Amounts
         /\ Content(w, kind) \in Contents
         /\ Content(w, kind).amount = Amount(w)
<1>1. run[w] \in Attempts
  BY DEF TypeOK
<1>2. Amount(w) \in Amounts
  BY <1>1 DEF Amount, Amounts, Attempts
<1>3. (IF kind = "order" THEN run[w].book ELSE 0) \in Nat
  BY <1>1 DEF Attempts
<1>. QED
  BY <1>2, <1>3 DEF Content, Contents

LEMMA BatchType ==
  ASSUME TypeOK, NEW w \in Workers, run[w] # None
  PROVE  /\ Batch(w) \in Batches
         /\ Batch(w).op = Serves[w] /\ Batch(w).amount = Amount(w)
<1>1. run[w] \in Attempts
  BY DEF TypeOK
<1>2. Amount(w) \in Amounts /\ Serves[w] \in Ops
  BY ContentType, OperationAssumption
<1>3. run[w].nav.no \in Nat /\ run[w].context.chain.settlements + 1 \in Nat \ {0}
  BY <1>1 DEF Attempts, Counts, Reports
<1>. QED
  BY <1>2, <1>3 DEF Batch, Batches

LEMMA LeaveTypes ==
  ASSUME TypeOK, NEW w \in Workers, Leave(w)
  PROVE  /\ run' \in [Workers -> Attempts \cup {None}]
         /\ result' \in [Workers -> Batches \cup {None}]
         /\ lease' \in Workers \cup {None}
         /\ run'[w] = None
         /\ \A v \in Workers \ {w} : run'[v] = run[v]
BY DEF Leave, TypeOK

LEMMA GoOnTypes ==
  ASSUME TypeOK, NEW w \in Workers, run[w] # None, NEW steps \in Nat,
         GoOn(w, steps)
  PROVE  Advanced(w, steps) /\ run'[w].row = run[w].row /\ result' = result
<1>1. run \in [Workers -> Attempts \cup {None}] /\ run[w] \in Attempts
  BY DEF TypeOK
<1>2. [run[w] EXCEPT !.pc = run[w].pc + steps] \in Attempts
  BY <1>1 DEF Attempts
<1>3. run' = [run EXCEPT ![w] = [run[w] EXCEPT !.pc = run[w].pc + steps]]
  BY DEF GoOn
<1>. QED
  BY <1>1, <1>2, <1>3 DEF Advanced, Attempts, GoOn

LEMMA ReadsRow ==
  ASSUME TypeOK, NEW w \in Workers, run[w] # None, NEW r \in Rows,
         run' = [run EXCEPT ![w].pc = @ + 1, ![w].row = r]
  PROVE  Advanced(w, 1) /\ run'[w].row = r
<1>1. run \in [Workers -> Attempts \cup {None}] /\ run[w] \in Attempts
  BY DEF TypeOK
<1>. DEFINE next == [run[w] EXCEPT !.pc = run[w].pc + 1]
<1>2. [next EXCEPT !.row = r] \in Attempts
  <2>1. next \in Attempts
    BY <1>1 DEF Attempts
  <2>. HIDE DEF next
  <2>. QED
    BY <2>1 DEF Attempts
<1>3. run' = [run EXCEPT ![w] = [next EXCEPT !.row = r]]
  BY <1>1
<1>. QED
  BY <1>1, <1>2, <1>3 DEF Advanced, Attempts

-----------------------------------------------------------------------------
LEMMA MovedStays ==
  ASSUME Grows, NEW op, NEW kind, NEW amount, Moved(op, kind, amount)
  PROVE  Moved(op, kind, amount)'
BY DEF Grows, Moved

LEMMA AttemptKept ==
  ASSUME TypeOK, Grows, NEW w \in Workers, AttemptOK(w), run'[w] = run[w]
  PROVE  AttemptOK(w)'
<1>. SUFFICES ASSUME run[w] # None
              PROVE  AttemptOK(w)'
  BY DEF AttemptOK
<1>. DEFINE op == Serves[w]
            kind == Step(w).kind
<1>1. op \in Ops /\ run[w].pc \in 1 .. Len(Plan(op))
  BY OperationAssumption DEF AttemptOK
<1>2. Step(w)' = Step(w) /\ Amount(w)' = Amount(w)
  BY DEF Step, Amount
<1>3. Content(w, kind)' = Content(w, kind)
  BY <1>2 DEF Content
<1>4. Step(w).do = "send" => prepared'[op][kind] = Content(w, kind)
  <2>1. Step(w).do = "send" =>
          kind \in Requests /\ prepared[op][kind] = Content(w, kind)
    BY <1>1, PlanFacts DEF AttemptOK, Step
  <2>2. Content(w, kind) # None
    BY ContentType, NoneAssumption
  <2>. QED
    BY <1>1, <2>1, <2>2 DEF Grows
<1>5. ASSUME NEW k \in Requests, Sent(w, k)'
      PROVE  Moved(op, k, Amount(w))'
  <2>1. Sent(w, k)
    BY <1>5 DEF Sent
  <2>2. Moved(op, k, Amount(w))
    BY <2>1 DEF AttemptOK
  <2>. QED
    BY <1>2, <2>2 DEF Grows, Moved
<1>. QED
  BY <1>1, <1>2, <1>3, <1>4, <1>5 DEF AttemptOK

LEMMA AttemptEnds ==
  ASSUME NEW w \in Workers, run'[w] = None
  PROVE  AttemptOK(w)'
BY DEF AttemptOK

LEMMA AttemptStarts ==
  ASSUME NEW w \in Workers, run'[w].pc = 1
  PROVE  AttemptOK(w)'
<1>1. Serves[w] \in Ops
  BY OperationAssumption
<1>2. 1 \in 1 .. Len(Plan(Serves[w])) /\ Plan(Serves[w])[1] = Do("tryAcquire")
  <2>1. Len(DepositPlan) = 18 /\ Len(WithdrawalPlan) = 23
    BY DepositSteps, WithdrawalSteps
  <2>2. 1 \in 1 .. Len(Plan(Serves[w]))
    <3>1. Plan(Serves[w]) = DepositPlan \/ Plan(Serves[w]) = WithdrawalPlan
      BY DEF Plan
    <3>2. PICK n \in {18, 23} : n = Len(Plan(Serves[w]))
      BY <2>1, <3>1
    <3>3. 1 \in 1 .. n
      OBVIOUS
    <3>. QED
      BY <3>2, <3>3
  <2>. QED
    BY <1>1, <2>2, PlanFacts
<1>3. Step(w)'.do # "send"
  BY <1>2 DEF Step, Do
<1>4. \A kind : ~Sent(w, kind)'
  BY DEF Sent
<1>. QED
  BY <1>2, <1>3, <1>4 DEF AttemptOK

\* One step on: the request that was prepared may be sent now, and the one that
\* was sent has moved.
LEMMA AttemptAdvances ==
  ASSUME TypeOK, Grows, NEW w \in Workers, AttemptOK(w), Advanced(w, 1),
         Step(w).do # "return",
         run'[w].row = run[w].row \/ run'[w].row \in Rows,
         Step(w).do = "createOrLoad" => run'[w].row \in Rows,
         Step(w).do = "prepare" =>
           prepared'[Serves[w]][Step(w).kind] = Content(w, Step(w).kind),
         \A kind : Step(w) = Send(kind) =>
           \E e \in effects' : /\ e.op = Serves[w] /\ e.kind = kind
                               /\ e.content.amount = Amount(w)
  PROVE  AttemptOK(w)'
<1>. PICK op \in Ops : op = Serves[w]
  BY OperationAssumption
<1>. PICK pc \in Nat : pc = run[w].pc
  BY DEF TypeOK, Attempts, Advanced
<1>1. run[w] # None /\ pc \in 1 .. Len(Plan(op)) /\ run'[w].pc = pc + 1
  BY DEF AttemptOK, Advanced
<1>2. Step(w) = Plan(op)[pc] /\ Step(w)' = Plan(op)[pc + 1]
  BY <1>1 DEF Step
<1>3. /\ pc + 1 \in 1 .. Len(Plan(op))
      /\ pc < 4 => Plan(op)[pc].do \in
                   {"tryAcquire", "assertFreshContext", "createOrLoad"}
      /\ pc = 3 => Plan(op)[pc].do = "createOrLoad"
      /\ Plan(op)[pc + 1].do = "send" => Plan(op)[pc].do = "prepare"
      /\ Plan(op)[pc].do = "prepare" => Plan(op)[pc + 1] = Send(Plan(op)[pc].kind)
  BY <1>1, <1>2, PlanFacts
<1>4. pc + 1 > 3 => run'[w].row \in Rows
  BY <1>1, <1>2, <1>3 DEF AttemptOK
<1>5. Amount(w)' = Amount(w) /\ \A k : Content(w, k)' = Content(w, k)
  BY DEF Amount, Content, Advanced
<1>6. ASSUME Plan(op)[pc + 1].do = "send"
      PROVE  prepared'[op][Plan(op)[pc + 1].kind] = Content(w, Plan(op)[pc + 1].kind)
  BY <1>2, <1>3, <1>6 DEF Send
<1>7. ASSUME NEW k \in Requests, Sent(w, k)'
      PROVE  Moved(op, k, Amount(w))'
  <2>1. PICK i \in 1 .. pc : Plan(op)[i] = Send(k)
    BY <1>1, <1>7 DEF Sent
  <2>2. CASE i = pc
    BY <1>2, <1>5, <2>1, <2>2 DEF Moved
  <2>3. CASE i # pc
    <3>1. Sent(w, k)
      BY <1>1, <2>1, <2>3 DEF Sent
    <3>2. Moved(op, k, Amount(w))
      BY <1>1, <3>1 DEF AttemptOK
    <3>. QED
      BY <1>5, <3>2 DEF Grows, Moved
  <2>. QED
    BY <2>2, <2>3
<1>. QED
  BY <1>1, <1>2, <1>3, <1>4, <1>5, <1>6, <1>7 DEF AttemptOK

\* An order found in the journal is passed over: it has moved already.
LEMMA AttemptPasses ==
  ASSUME TypeOK, Grows, NEW w \in Workers, AttemptOK(w),
         Advanced(w, Len(executeFak)), Step(w).do = "load",
         run'[w].row = run[w].row,
         Moved(Serves[w], "order", Amount(w))
  PROVE  AttemptOK(w)'
<1>. PICK op \in Ops : op = Serves[w]
  BY OperationAssumption
<1>. PICK pc \in Nat : pc = run[w].pc
  BY DEF TypeOK, Attempts, Advanced
<1>. DEFINE n == Len(executeFak)
<1>1. /\ run[w] # None /\ pc \in 1 .. Len(Plan(op))
      /\ run'[w].pc = pc + n
  BY DEF AttemptOK, Advanced
<1>2. Step(w) = Plan(op)[pc] /\ Step(w)' = Plan(op)[pc + n]
  BY <1>1 DEF Step
<1>3. n \in Nat
  BY DEF executeFak, Request
<1>. HIDE DEF n
<1>4. /\ pc + n \in 1 .. Len(Plan(op))
      /\ Plan(op)[pc + n].do # "send"
      /\ ~(pc < 4)
      /\ \A j \in pc .. (pc + n - 1), kind \in Requests :
           Plan(op)[j] = Send(kind) => kind = "order"
  <2>1. Plan(op)[pc].do = "load"
    BY <1>2
  <2>2. ~(pc < 4)
    BY <1>1, <2>1, PlanFacts
  <2>3. /\ pc + n \in 1 .. Len(Plan(op))
        /\ Plan(op)[pc + n].do # "send"
    BY <1>1, <2>1, PlanFacts DEF n
  <2>4. \A j \in pc .. (pc + n - 1), kind \in Requests :
          Plan(op)[j] = Send(kind) => kind = "order"
    BY <1>1, <2>1, PlanFacts DEF n
  <2>. QED
    BY <2>2, <2>3, <2>4
<1>5. Amount(w)' = Amount(w)
  BY DEF Amount, Advanced
<1>6. ASSUME NEW k \in Requests, Sent(w, k)'
      PROVE  Moved(op, k, Amount(w))'
  <2>1. PICK i \in 1 .. (pc + n - 1) : Plan(op)[i] = Send(k)
    BY <1>1, <1>3, <1>6 DEF Sent
  <2>2. Moved(op, k, Amount(w))
    <3>1. CASE i < pc
      <4>1. Sent(w, k)
        BY <2>1, <3>1 DEF Sent
      <4>. QED
        BY <1>1, <4>1 DEF AttemptOK
    <3>2. CASE i >= pc
      <4>1. i \in pc .. (pc + n - 1)
        BY <1>1, <1>3, <2>1, <3>2
      <4>2. k = "order"
        BY <1>4, <2>1, <4>1
      <4>. QED
        BY <4>2
    <3>. QED
      BY <1>1, <1>3, <3>1, <3>2
  <2>. QED
    BY <1>5, <2>2 DEF Grows, Moved
<1>. QED
  BY <1>1, <1>2, <1>4, <1>5, <1>6 DEF AttemptOK

-----------------------------------------------------------------------------
(* The steps of an attempt *)

\* Nothing but the attempt and its result has changed.
Idle == UNCHANGED <<dbVars, lease, worldVars, marketVars, done, faults>>

LEMMA NothingMoves ==
  ASSUME UNCHANGED <<effects, prepared>>
  PROVE  Grows
BY DEF Grows

LEMMA StoresKept ==
  ASSUME TypeOK, EffectsInv, Grows, UNCHANGED <<effects, journal, receipts>>
  PROVE  SignedFirst' /\ JournalMoved' /\ SettlementMatchesEffects'
<1>1. SignedFirst'
  <2>. SUFFICES ASSUME NEW e \in effects
                PROVE  e.content = prepared'[e.op][e.kind]
    BY DEF SignedFirst
  <2>1. e.op \in Ops /\ e.kind \in Requests /\ e.content \in Contents
    BY DEF TypeOK
  <2>2. e.content = prepared[e.op][e.kind]
    BY DEF EffectsInv, SignedFirst
  <2>. QED
    BY <2>1, <2>2, NoneAssumption DEF Grows
<1>. QED
  BY <1>1 DEF EffectsInv, JournalMoved, Moved, SettlementMatchesEffects

LEMMA OthersKept ==
  ASSUME TypeOK, EffectsInv, Grows, NEW w \in Workers, AttemptOK(w)',
         \A v \in Workers \ {w} : run'[v] = run[v]
  PROVE  \A v \in Workers : AttemptOK(v)'
<1>. SUFFICES ASSUME NEW v \in Workers \ {w}
              PROVE  AttemptOK(v)'
  OBVIOUS
<1>. QED
  BY AttemptKept DEF EffectsInv

LEMMA LeaveKeeps ==
  ASSUME TypeOK, EffectsInv, NEW w \in Workers, Leave(w),
         UNCHANGED <<effects, journal, prepared, receipts>>
  PROVE  EffectsInv'
<1>1. run'[w] = None /\ \A v \in Workers \ {w} : run'[v] = run[v]
  BY LeaveTypes
<1>. QED
  BY <1>1, NothingMoves, StoresKept, OthersKept, AttemptEnds DEF EffectsInv

LEMMA ThrowKeeps ==
  ASSUME TypeOK, EffectsInv, NEW w \in Workers, Throw(w)
  PROVE  TypeOK' /\ EffectsInv'
<1>1. TypeOK'
  BY LeaveTypes DEF Throw, TypeOK, dbVars, worldVars, marketVars
<1>. QED
  BY <1>1, LeaveKeeps DEF Throw, dbVars, worldVars

\* An attempt that only goes on keeps everything.
LEMMA GoOnKeeps ==
  ASSUME TypeOK, EffectsInv, NEW w \in Workers, Advanced(w, 1), Idle,
         UNCHANGED result,
         Step(w).do \notin {"return", "prepare", "send"},
         run'[w].row = run[w].row \/ run'[w].row \in Rows,
         Step(w).do = "createOrLoad" => run'[w].row \in Rows
  PROVE  TypeOK' /\ EffectsInv'
<1>1. TypeOK'
  BY DEF Advanced, Idle, TypeOK, dbVars, worldVars, marketVars
<1>2. Grows
  BY NothingMoves DEF Idle, dbVars, worldVars
<1>3. AttemptOK(w)'
  <2>1. \A kind : Step(w) # Send(kind)
    BY DEF Send
  <2>2. AttemptOK(w)
    BY DEF EffectsInv
  <2>. QED
    BY <1>2, <2>1, <2>2, AttemptAdvances
<1>. QED
  BY <1>1, <1>2, <1>3, StoresKept, OthersKept
     DEF Advanced, Idle, EffectsInv, dbVars, worldVars

LEMMA SkipKeeps ==
  ASSUME TypeOK, EffectsInv, NEW w \in Workers, run[w] # None, Skip(w),
         Step(w).do \notin {"return", "prepare", "send", "createOrLoad"}
  PROVE  TypeOK' /\ EffectsInv'
<1>1. Advanced(w, 1) /\ run'[w].row = run[w].row /\ UNCHANGED result
  BY GoOnTypes DEF Skip
<1>. QED
  BY <1>1, GoOnKeeps DEF Skip, Idle

LEMMA StartKeeps ==
  ASSUME TypeOK, EffectsInv, NEW w \in Workers, Start(w)
  PROVE  TypeOK' /\ EffectsInv'
<1>. DEFINE begun == [pc |-> 1, context |-> Context, book |-> book, row |-> None,
                      nav |-> nav, filled |-> FALSE]
<1>1. begun \in Attempts /\ begun.pc = 1
  BY ContextType DEF Attempts, TypeOK
<1>2. run' = [run EXCEPT ![w] = begun]
  BY DEF Start
<1>. HIDE DEF begun
<1>3. /\ run' \in [Workers -> Attempts \cup {None}]
      /\ run'[w] = begun
      /\ \A v \in Workers \ {w} : run'[v] = run[v]
  BY <1>1, <1>2 DEF TypeOK
<1>4. TypeOK'
  BY <1>3 DEF Start, TypeOK, dbVars, worldVars, marketVars
<1>5. AttemptOK(w)'
  BY <1>1, <1>3, AttemptStarts
<1>6. Grows
  BY NothingMoves DEF Start, dbVars, worldVars
<1>. QED
  BY <1>3, <1>4, <1>5, <1>6, StoresKept, OthersKept
     DEF Start, EffectsInv, dbVars, worldVars

LEMMA tryAcquireKeeps ==
  ASSUME TypeOK, EffectsInv, NEW w \in Workers, tryAcquire(w)
  PROVE  TypeOK' /\ EffectsInv'
<1>1. CASE Throw(w)
  BY <1>1, ThrowKeeps
<1>2. CASE lease' = w /\ GoOn(w, 1) /\ UNCHANGED <<dbVars, worldVars, marketVars, done, faults>>
  <2>1. Advanced(w, 1) /\ run'[w].row = run[w].row /\ UNCHANGED result
    BY <1>2, GoOnTypes DEF tryAcquire, At
  <2>2. TypeOK'
    BY <1>2, <2>1 DEF Advanced, TypeOK, dbVars, worldVars, marketVars
  <2>3. Grows
    BY <1>2, NothingMoves DEF dbVars, worldVars
  <2>4. AttemptOK(w)'
    <3>1. \A kind : Step(w) # Send(kind)
      BY DEF tryAcquire, At, Send
    <3>. QED
      BY <2>1, <2>3, <3>1, AttemptAdvances DEF tryAcquire, At, EffectsInv
  <2>. QED
    BY <1>2, <2>1, <2>2, <2>3, <2>4, StoresKept, OthersKept
       DEF Advanced, EffectsInv, dbVars, worldVars
<1>. QED
  BY <1>1, <1>2 DEF tryAcquire

LEMMA assertFreshContextKeeps ==
  ASSUME TypeOK, EffectsInv, NEW w \in Workers, assertFreshContext(w)
  PROVE  TypeOK' /\ EffectsInv'
BY ThrowKeeps, SkipKeeps DEF assertFreshContext, At, Skip

LEMMA createOrLoadKeeps ==
  ASSUME TypeOK, EffectsInv, NEW w \in Workers, createOrLoad(w)
  PROVE  TypeOK' /\ EffectsInv'
<1>1. row[Serves[w]] \in Rows
  BY OperationAssumption DEF TypeOK
<1>2. Advanced(w, 1) /\ run'[w].row \in Rows
  BY <1>1, ReadsRow DEF createOrLoad, At
<1>. QED
  BY <1>2, GoOnKeeps DEF createOrLoad, At, Idle

\* The state machine of an operation leads from its states to its states.
LEMMA AllowedStates ==
  ASSUME NEW from, NEW to, <<from, to>> \in Allowed
  PROVE  from \in ExecutionState /\ to \in ExecutionState
BY DEF Allowed, ExecutionState

\* An attempt past the lock holds its operation's row.
LEMMA HoldsRow ==
  ASSUME TypeOK, EffectsInv, NEW w \in Workers, run[w] # None,
         Step(w).do \notin {"tryAcquire", "assertFreshContext", "createOrLoad"}
  PROVE  run[w].row \in Rows
<1>1. AttemptOK(w) /\ Serves[w] \in Ops
  BY OperationAssumption DEF EffectsInv
<1>. PICK pc \in Nat : pc = run[w].pc
  BY DEF TypeOK, Attempts
<1>2. pc \in 1 .. Len(Plan(Serves[w])) /\ Step(w) = Plan(Serves[w])[pc]
  BY <1>1 DEF AttemptOK, Step
<1>3. ~(pc < 4)
  BY <1>1, <1>2, PlanFacts
<1>. QED
  BY <1>1, <1>3 DEF AttemptOK

LEMMA UpdateKeeps ==
  ASSUME TypeOK, EffectsInv, NEW w \in Workers, run[w] # None,
         NEW next, Update(w, next),
         next.state \in ExecutionState => next \in Rows,
         Step(w).do \notin {"return", "prepare", "send", "createOrLoad"}
  PROVE  TypeOK' /\ EffectsInv'
<1>. DEFINE op == Serves[w]
            stored == [next EXCEPT !.version = next.version + 1]
<1>1. op \in Ops /\ row[op] \in Rows
  BY OperationAssumption DEF TypeOK
<1>2. CASE /\ run' = [run EXCEPT ![w].pc = @ + 1, ![w].row = row[op]]
           /\ Idle /\ UNCHANGED result
  BY <1>1, <1>2, ReadsRow, GoOnKeeps
<1>3. CASE /\ <<row[op].state, next.state>> \in Allowed
           /\ row' = [row EXCEPT ![op] = stored]
           /\ run' = [run EXCEPT ![w].pc = @ + 1, ![w].row = stored]
           /\ UNCHANGED <<result, journal, commits, prepared, lease, worldVars,
                          marketVars, done, faults>>
  <2>1. next \in Rows
    BY <1>3, AllowedStates
  <2>2. stored \in Rows
    BY <2>1 DEF Rows
  <2>. HIDE DEF stored
  <2>3. Advanced(w, 1) /\ run'[w].row \in Rows
    BY <1>3, <2>2, ReadsRow
  <2>4. row' \in [Ops -> Rows]
    BY <1>3, <2>2 DEF TypeOK
  <2>5. TypeOK'
    BY <1>3, <2>3, <2>4 DEF Advanced, TypeOK, worldVars, marketVars
  <2>6. Grows
    BY <1>3, NothingMoves DEF worldVars
  <2>7. AttemptOK(w)'
    <3>1. \A kind : Step(w) # Send(kind)
      BY DEF Send
    <3>. QED
      BY <2>3, <2>6, <3>1, AttemptAdvances DEF EffectsInv
  <2>. QED
    BY <1>3, <2>3, <2>5, <2>6, <2>7, StoresKept, OthersKept
       DEF Advanced, EffectsInv, worldVars
<1>. QED
  BY <1>2, <1>3, ThrowKeeps DEF Update, Idle

LEMMA transitionKeeps ==
  ASSUME TypeOK, EffectsInv, NEW w \in Workers, transition(w)
  PROVE  TypeOK' /\ EffectsInv'
<1>. DEFINE mine == run[w].row
            batch == IF Step(w).to = "settlement_submitted" THEN result[w]
                     ELSE mine.batch
            next == [mine EXCEPT !.state = Step(w).to, !.batch = batch]
<1>1. run[w] # None /\ Step(w).do = "transition"
  BY DEF transition, At
<1>2. mine \in Rows
  BY <1>1, HoldsRow
<1>3. batch \in Batches \cup {None}
  BY <1>2 DEF TypeOK, Rows
<1>4. next.state \in ExecutionState => next \in Rows
  <2>1. next.state = Step(w).to
    BY <1>2 DEF Rows
  <2>. HIDE DEF batch
  <2>2. ASSUME Step(w).to \in ExecutionState
        PROVE  next \in Rows
    <3>. DEFINE half == [mine EXCEPT !.state = Step(w).to]
    <3>1. half \in Rows
      BY <1>2, <2>2 DEF Rows
    <3>2. next = [half EXCEPT !.batch = batch]
      BY <1>2 DEF Rows
    <3>. HIDE DEF half, next
    <3>. QED
      BY <1>3, <3>1, <3>2 DEF Rows
  <2>. QED
    BY <2>1, <2>2
<1>5. Update(w, next) \/ Skip(w)
  BY DEF transition
<1>. HIDE DEF next
<1>. QED
  BY <1>1, <1>4, <1>5, UpdateKeeps, SkipKeeps

LEMMA noteTransferKeeps ==
  ASSUME TypeOK, EffectsInv, NEW w \in Workers, noteTransfer(w)
  PROVE  TypeOK' /\ EffectsInv'
<1>. DEFINE next == [run[w].row EXCEPT !.noted = TRUE]
<1>1. run[w] # None /\ Step(w).do = "noteTransfer"
  BY DEF noteTransfer, At
<1>2. next \in Rows
  BY <1>1, HoldsRow DEF Rows
<1>3. Update(w, next) \/ Skip(w)
  BY DEF noteTransfer
<1>. HIDE DEF next
<1>. QED
  BY <1>1, <1>2, <1>3, UpdateKeeps, SkipKeeps

LEMMA getStatusKeeps ==
  ASSUME TypeOK, EffectsInv, NEW w \in Workers, getStatus(w)
  PROVE  TypeOK' /\ EffectsInv'
<1>. DEFINE op == Serves[w]
            saved == [run[w].row EXCEPT !.version = run[w].row.version + 1]
<1>1. run[w] # None /\ Step(w).do = "getStatus"
  BY DEF getStatus, At
<1>2. CASE /\ row' = [row EXCEPT ![op] = saved]
           /\ Leave(w)
           /\ UNCHANGED <<journal, commits, prepared, worldVars, marketVars,
                          done, faults>>
  <2>1. saved \in Rows
    BY <1>1, HoldsRow DEF Rows
  <2>. HIDE DEF saved
  <2>2. row' \in [Ops -> Rows]
    BY <1>2, <2>1 DEF TypeOK
  <2>3. TypeOK'
    BY <1>2, <2>2, LeaveTypes DEF TypeOK, worldVars, marketVars
  <2>. QED
    BY <1>2, <2>3, LeaveKeeps DEF worldVars
<1>. QED
  BY <1>1, <1>2, ThrowKeeps, SkipKeeps DEF getStatus

LEMMA prepareKeeps ==
  ASSUME TypeOK, EffectsInv, NEW w \in Workers, prepare(w)
  PROVE  TypeOK' /\ EffectsInv'
<1>. PICK op \in Ops : op = Serves[w]
  BY OperationAssumption
<1>. PICK kind : kind = Step(w).kind
  OBVIOUS
<1>. PICK content : content = Content(w, kind)
  OBVIOUS
<1>1. run[w] # None /\ Step(w).do = "prepare" /\ kind \in Requests
  <2>1. run[w] # None /\ Step(w).do = "prepare"
    BY DEF prepare, At
  <2>. QED
    BY <2>1, PlanFacts DEF EffectsInv, AttemptOK, Step
<1>2. content \in Contents
  BY <1>1, ContentType
<1>3. CASE Throw(w)
  BY <1>3, ThrowKeeps
<1>4. ASSUME GoOn(w, 1), prepared' \in [Ops -> [Requests -> Contents \cup {None}]],
             prepared'[op][kind] = content, Grows,
             UNCHANGED <<row, journal, commits, lease, worldVars, marketVars,
                         done, faults>>
      PROVE  TypeOK' /\ EffectsInv'
  <2>1. Advanced(w, 1) /\ run'[w].row = run[w].row /\ UNCHANGED result
    BY <1>1, <1>4, GoOnTypes
  <2>2. TypeOK'
    BY <1>4, <2>1 DEF Advanced, TypeOK, worldVars, marketVars
  <2>3. AttemptOK(w)'
    <3>1. \A k : Step(w) # Send(k)
      BY <1>1 DEF Send
    <3>. QED
      BY <1>1, <1>4, <2>1, <3>1, AttemptAdvances DEF EffectsInv
  <2>. QED
    BY <1>4, <2>1, <2>2, <2>3, StoresKept, OthersKept
       DEF Advanced, EffectsInv, worldVars
<1>5. CASE /\ prepared[op][kind] = None
           /\ prepared' = [prepared EXCEPT ![op][kind] = content]
           /\ GoOn(w, 1)
           /\ UNCHANGED <<row, journal, commits, lease, worldVars, marketVars,
                          done, faults>>
  <2>1. prepared' \in [Ops -> [Requests -> Contents \cup {None}]]
    BY <1>1, <1>2, <1>5 DEF TypeOK
  <2>2. prepared'[op][kind] = content
    BY <1>1, <1>5 DEF TypeOK
  <2>3. \A o \in Ops, k \in Requests :
          prepared[o][k] # None => prepared'[o][k] = prepared[o][k]
    BY <1>1, <1>5 DEF TypeOK
  <2>. QED
    BY <1>4, <1>5, <2>1, <2>2, <2>3 DEF Grows, worldVars
<1>6. CASE prepared[op][kind] = content /\ Skip(w)
  <2>1. prepared' = prepared /\ prepared \in [Ops -> [Requests -> Contents \cup {None}]]
    BY <1>6 DEF Skip, dbVars, TypeOK
  <2>. QED
    BY <1>4, <1>6, <2>1, NothingMoves DEF Skip, dbVars, worldVars
<1>. QED
  BY <1>3, <1>5, <1>6 DEF prepare

\* What is sent was signed with the attempt's own amounts.
LEMMA sendKeeps ==
  ASSUME TypeOK, EffectsInv, NEW w \in Workers, send(w)
  PROVE  TypeOK' /\ EffectsInv'
<1>. PICK op \in Ops : op = Serves[w]
  BY OperationAssumption
<1>. PICK kind : kind = Step(w).kind
  OBVIOUS
<1>. PICK content : content = Content(w, kind)
  OBVIOUS
<1>. DEFINE sent == [op |-> op, kind |-> kind, content |-> content]
<1>1. run[w] # None /\ Step(w).do = "send" /\ AttemptOK(w)
  BY DEF send, At, EffectsInv
<1>2. kind \in Requests /\ prepared[op][kind] = content
  BY <1>1, PlanFacts DEF AttemptOK, Step
<1>3. content \in Contents /\ content.amount = Amount(w)
  BY <1>1, ContentType
<1>4. /\ effects' = effects \cup {sent} /\ GoOn(w, 1)
      /\ UNCHANGED <<dbVars, lease, bridged, receipts, chain, intentNonce,
                     marketVars, done, faults>>
  BY <1>2 DEF send
<1>5. /\ sent \in [op : Ops, kind : Requests, content : Contents]
      /\ sent.op = op /\ sent.kind = kind /\ sent.content = content
  BY <1>2, <1>3
<1>. HIDE DEF sent
<1>6. Advanced(w, 1) /\ run'[w].row = run[w].row /\ UNCHANGED result
  BY <1>1, <1>4, GoOnTypes
<1>7. TypeOK'
  BY <1>4, <1>5, <1>6 DEF Advanced, TypeOK, dbVars, marketVars
<1>8. Grows
  BY <1>4 DEF Grows, dbVars
<1>9. AttemptOK(w)'
  <2>1. \A k : Step(w) = Send(k) =>
          \E e \in effects' : /\ e.op = Serves[w] /\ e.kind = k
                              /\ e.content.amount = Amount(w)
    BY <1>3, <1>4, <1>5 DEF Send
  <2>. QED
    BY <1>1, <1>6, <1>8, <2>1, AttemptAdvances
<1>10. SignedFirst'
  BY <1>2, <1>4, <1>5 DEF SignedFirst, EffectsInv, dbVars
<1>11. JournalMoved' /\ SettlementMatchesEffects'
  BY <1>4 DEF JournalMoved, Moved, SettlementMatchesEffects, EffectsInv, dbVars
<1>. QED
  BY <1>6, <1>7, <1>8, <1>9, <1>10, <1>11, OthersKept DEF Advanced, EffectsInv

\* An order in the journal has moved, with the amount that was compared.
LEMMA loadKeeps ==
  ASSUME TypeOK, EffectsInv, NEW w \in Workers, load(w)
  PROVE  TypeOK' /\ EffectsInv'
<1>. DEFINE op == Serves[w]
            known == journal[op]
<1>1. run[w] # None /\ Step(w).do = "load" /\ op \in Ops
  BY OperationAssumption DEF load, At
<1>2. CASE Throw(w)
  BY <1>2, ThrowKeeps
<1>3. CASE GoOn(w, 1) /\ Idle
  BY <1>1, <1>3, SkipKeeps DEF Skip, Idle
<1>4. CASE known # None /\ known = Amount(w) /\ GoOn(w, Len(executeFak)) /\ Idle
  <2>1. Len(executeFak) \in Nat
    BY DEF executeFak, Request
  <2>2. /\ Advanced(w, Len(executeFak))
        /\ run'[w].row = run[w].row /\ UNCHANGED result
    BY <1>1, <1>4, <2>1, GoOnTypes
  <2>3. TypeOK'
    BY <1>4, <2>2 DEF Advanced, Idle, TypeOK, dbVars, worldVars, marketVars
  <2>4. Grows
    BY <1>4, NothingMoves DEF Idle, dbVars, worldVars
  <2>5. Moved(op, "order", Amount(w))
    BY <1>1, <1>4 DEF EffectsInv, JournalMoved
  <2>6. AttemptOK(w)'
    BY <1>1, <2>2, <2>4, <2>5, AttemptPasses DEF EffectsInv
  <2>. QED
    BY <1>4, <2>2, <2>3, <2>4, <2>6, StoresKept, OthersKept
       DEF Advanced, Idle, EffectsInv, dbVars, worldVars
<1>. QED
  BY <1>2, <1>3, <1>4 DEF load, SameRequest, Idle

\* What is journaled was filled just before, by this attempt or by another.
LEMMA insertKeeps ==
  ASSUME TypeOK, EffectsInv, NEW w \in Workers, insert(w)
  PROVE  TypeOK' /\ EffectsInv'
<1>. PICK op \in Ops : op = Serves[w]
  BY OperationAssumption
<1>. PICK kept : kept = IF journal[op] = None THEN Amount(w) ELSE journal[op]
  OBVIOUS
<1>1. run[w] # None /\ Step(w).do = "insert" /\ AttemptOK(w)
  BY DEF insert, At, EffectsInv
<1>2. kept \in Amounts
  BY <1>1, ContentType DEF TypeOK
<1>3. /\ journal' = [journal EXCEPT ![op] = kept]
      /\ UNCHANGED <<row, commits, prepared, worldVars, marketVars, done, faults>>
  BY DEF insert
<1>4. journal' \in [Ops -> Amounts \cup {None}]
  BY <1>2, <1>3 DEF TypeOK
<1>5. Grows
  BY <1>3, NothingMoves DEF worldVars
<1>6. Moved(op, "order", Amount(w))
  <2>1. Sent(w, "order")
    BY <1>1, PlanFacts DEF AttemptOK, Step, Sent
  <2>. QED
    BY <1>1, <2>1 DEF AttemptOK, Requests
<1>7. JournalMoved'
  <2>1. \A o \in Ops : journal[o] # None => Moved(o, "order", journal[o])
    BY DEF EffectsInv, JournalMoved
  <2>2. \A o \in Ops : journal'[o] # None => Moved(o, "order", journal'[o])
    BY <1>3, <1>6, <2>1 DEF TypeOK
  <2>. QED
    BY <1>3, <2>2 DEF JournalMoved, Moved, worldVars
<1>8. SignedFirst' /\ SettlementMatchesEffects'
  BY <1>3 DEF SignedFirst, SettlementMatchesEffects, EffectsInv, worldVars
<1>9. CASE Leave(w)
  <2>1. TypeOK'
    BY <1>3, <1>4, <1>9, LeaveTypes DEF TypeOK, worldVars, marketVars
  <2>2. \A v \in Workers : AttemptOK(v)'
    BY <1>5, <1>9, LeaveTypes, AttemptEnds, OthersKept
  <2>. QED
    BY <1>7, <1>8, <2>1, <2>2 DEF EffectsInv
<1>10. CASE /\ run' = [run EXCEPT ![w].pc = @ + 1, ![w].filled = TRUE]
            /\ UNCHANGED <<result, lease>>
  <2>. DEFINE next == [run[w] EXCEPT !.pc = run[w].pc + 1]
              filled == [next EXCEPT !.filled = TRUE]
  <2>1. run[w] \in Attempts /\ run \in [Workers -> Attempts \cup {None}]
    BY <1>1 DEF TypeOK
  <2>2. /\ next \in Attempts /\ next.pc = run[w].pc + 1 /\ next.row = run[w].row
        /\ next.context = run[w].context /\ next.book = run[w].book
    BY <2>1 DEF Attempts
  <2>3. run' = [run EXCEPT ![w] = filled]
    BY <1>10, <2>1
  <2>. HIDE DEF next
  <2>4. /\ filled \in Attempts /\ filled.pc = next.pc /\ filled.row = next.row
        /\ filled.context = next.context /\ filled.book = next.book
    BY <2>2 DEF Attempts
  <2>. HIDE DEF filled
  <2>5. Advanced(w, 1) /\ run'[w].row = run[w].row
    BY <1>1, <2>1, <2>2, <2>3, <2>4 DEF Advanced
  <2>6. TypeOK'
    BY <1>3, <1>4, <1>10, <2>5 DEF Advanced, TypeOK, worldVars, marketVars
  <2>7. AttemptOK(w)'
    <3>1. \A k : Step(w) # Send(k)
      BY <1>1 DEF Send
    <3>. QED
      BY <1>1, <1>5, <2>5, <3>1, AttemptAdvances
  <2>. QED
    BY <1>5, <1>7, <1>8, <2>5, <2>6, <2>7, OthersKept DEF Advanced, EffectsInv
<1>. QED
  BY <1>9, <1>10 DEF insert

LEMMA loadLatestPricingKeeps ==
  ASSUME TypeOK, EffectsInv, NEW w \in Workers, loadLatestPricing(w)
  PROVE  TypeOK' /\ EffectsInv'
<1>1. run[w] # None /\ Step(w).do = "loadLatestPricing"
  BY DEF loadLatestPricing, At
<1>2. CASE Throw(w)
  BY <1>2, ThrowKeeps
<1>3. CASE run' = [run EXCEPT ![w].pc = @ + 1, ![w].nav = nav] /\ UNCHANGED result /\ Idle
  <2>. DEFINE next == [run[w] EXCEPT !.pc = run[w].pc + 1]
              priced == [next EXCEPT !.nav = nav]
  <2>1. run[w] \in Attempts /\ run \in [Workers -> Attempts \cup {None}] /\ nav \in Reports
    BY <1>1 DEF TypeOK
  <2>2. /\ next \in Attempts /\ next.pc = run[w].pc + 1 /\ next.row = run[w].row
        /\ next.context = run[w].context /\ next.book = run[w].book
    BY <2>1 DEF Attempts
  <2>3. run' = [run EXCEPT ![w] = priced]
    BY <1>3, <2>1
  <2>. HIDE DEF next
  <2>4. /\ priced \in Attempts /\ priced.pc = next.pc /\ priced.row = next.row
        /\ priced.context = next.context /\ priced.book = next.book
    BY <2>1, <2>2 DEF Attempts
  <2>. HIDE DEF priced
  <2>5. Advanced(w, 1) /\ run'[w].row = run[w].row
    BY <1>1, <2>1, <2>2, <2>3, <2>4 DEF Advanced
  <2>. QED
    BY <1>1, <1>3, <2>5, GoOnKeeps
<1>. QED
  BY <1>2, <1>3 DEF loadLatestPricing, Idle

\* An attempt settles only when all that its settlement accounts for has moved.
LEMMA completeKeeps ==
  ASSUME TypeOK, EffectsInv, NEW w \in Workers, complete(w)
  PROVE  TypeOK' /\ EffectsInv'
<1>. PICK op \in Ops : op = Serves[w]
  BY OperationAssumption
<1>. PICK batch : batch = Batch(w)
  OBVIOUS
<1>1. run[w] # None /\ Step(w).do = "complete" /\ AttemptOK(w)
  BY DEF complete, At, EffectsInv
<1>2. batch \in Batches /\ batch.op = op /\ batch.amount = Amount(w)
  BY <1>1, BatchType
<1>3. CASE Throw(w)
  BY <1>3, ThrowKeeps
<1>4. ASSUME run' = [run EXCEPT ![w].pc = @ + 1],
             result' = [result EXCEPT ![w] = batch],
             UNCHANGED <<dbVars, lease, effects, bridged, marketVars, done, faults>>,
             receipts' \subseteq Batches, chain' \in Counts,
             intentNonce' \in [Users -> Nat],
             SettlementMatchesEffects'
      PROVE  TypeOK' /\ EffectsInv'
  <2>1. /\ Advanced(w, 1) /\ run'[w].row = run[w].row
        /\ run' \in [Workers -> Attempts \cup {None}]
    <3>1. run \in [Workers -> Attempts \cup {None}] /\ run[w] \in Attempts
      BY <1>1 DEF TypeOK
    <3>2. [run[w] EXCEPT !.pc = run[w].pc + 1] \in Attempts
      BY <3>1 DEF Attempts
    <3>3. run' = [run EXCEPT ![w] = [run[w] EXCEPT !.pc = run[w].pc + 1]]
      BY <1>4
    <3>. QED
      BY <1>1, <3>1, <3>2, <3>3 DEF Advanced, Attempts
  <2>2. result' \in [Workers -> Batches \cup {None}]
    BY <1>2, <1>4 DEF TypeOK
  <2>3. TypeOK'
    BY <1>4, <2>1, <2>2 DEF TypeOK, Users, dbVars, marketVars
  <2>4. Grows
    BY <1>4, NothingMoves DEF dbVars
  <2>5. AttemptOK(w)'
    <3>1. \A k : Step(w) # Send(k)
      BY <1>1 DEF Send
    <3>. QED
      BY <1>1, <2>1, <2>4, <3>1, AttemptAdvances
  <2>6. SignedFirst' /\ JournalMoved'
    BY <1>4 DEF SignedFirst, JournalMoved, Moved, EffectsInv, dbVars
  <2>. QED
    BY <1>4, <2>1, <2>3, <2>4, <2>5, <2>6, OthersKept DEF Advanced, EffectsInv
<1>5. CASE /\ run' = [run EXCEPT ![w].pc = @ + 1]
           /\ result' = [result EXCEPT ![w] = batch]
           /\ Idle
  <2>1. receipts' \subseteq Batches /\ chain' \in Counts /\ intentNonce' \in [Users -> Nat]
    BY <1>5 DEF Idle, worldVars, TypeOK, Users
  <2>2. SettlementMatchesEffects'
    BY <1>5 DEF Idle, worldVars, EffectsInv, SettlementMatchesEffects
  <2>. QED
    BY <1>4, <1>5, <2>1, <2>2 DEF Idle, worldVars
<1>6. CASE /\ receipts' = receipts \cup {batch}
           /\ chain' = [settlements |-> batch.settlementNonce, accruals |-> due]
           /\ intentNonce' = [intentNonce EXCEPT ![Owner[op]] = Nonce[op]]
           /\ run' = [run EXCEPT ![w].pc = @ + 1]
           /\ result' = [result EXCEPT ![w] = batch]
           /\ UNCHANGED <<dbVars, lease, effects, bridged, marketVars, done, faults>>
  <2>1. receipts' \subseteq Batches
    BY <1>2, <1>6 DEF TypeOK
  <2>2. chain' \in Counts
    BY <1>2, <1>6 DEF TypeOK, Counts, Batches
  <2>3. intentNonce' \in [Users -> Nat]
    BY <1>6, OperationAssumption DEF TypeOK, Users
  <2>4. ASSUME NEW kind \in IF op \in Deposits THEN {"order"} ELSE Requests
        PROVE  Moved(op, kind, batch.amount)
    <3>. PICK pc : pc = run[w].pc
      OBVIOUS
    <3>1. kind \in Requests
      BY DEF Requests
    <3>2. pc \in 1 .. Len(Plan(op)) /\ Plan(op)[pc].do = "complete"
      BY <1>1 DEF AttemptOK, Step
    <3>3. \E j \in 1 .. (pc - 1) : Plan(op)[j] = Send(kind)
      BY <3>2, PlanFacts
    <3>4. Sent(w, kind)
      BY <3>3 DEF Sent
    <3>. QED
      BY <1>1, <1>2, <3>1, <3>4 DEF AttemptOK
  <2>5. SettlementMatchesEffects'
    BY <1>2, <1>6, <2>4 DEF EffectsInv, SettlementMatchesEffects, Moved
  <2>. QED
    BY <1>4, <1>6, <2>1, <2>2, <2>3, <2>5
<1>. QED
  BY <1>3, <1>5, <1>6 DEF complete, Idle

LEMMA commitKeeps ==
  ASSUME TypeOK, EffectsInv, NEW w \in Workers, commit(w)
  PROVE  TypeOK' /\ EffectsInv'
<1>. DEFINE op == Serves[w]
            batch == result[w]
<1>1. run[w] # None /\ Step(w).do = "commit" /\ op \in Ops
  BY OperationAssumption DEF commit, At
<1>2. CASE Throw(w)
  BY <1>2, ThrowKeeps
<1>3. CASE GoOn(w, 1) /\ Idle
  BY <1>1, <1>3, SkipKeeps DEF Skip, Idle
<1>4. CASE /\ commits' = [commits EXCEPT ![op] = batch]
           /\ GoOn(w, 1)
           /\ UNCHANGED <<row, journal, prepared, lease, worldVars, marketVars,
                          done, faults>>
  <2>1. Advanced(w, 1) /\ run'[w].row = run[w].row /\ UNCHANGED result
    BY <1>1, <1>4, GoOnTypes
  <2>2. commits' \in [Ops -> Batches \cup {None}]
    BY <1>4 DEF TypeOK
  <2>3. TypeOK'
    BY <1>4, <2>1, <2>2 DEF Advanced, TypeOK, worldVars, marketVars
  <2>4. Grows
    BY <1>4, NothingMoves DEF worldVars
  <2>5. AttemptOK(w)'
    <3>1. \A k : Step(w) # Send(k)
      BY <1>1 DEF Send
    <3>. QED
      BY <1>1, <2>1, <2>4, <3>1, AttemptAdvances DEF EffectsInv
  <2>. QED
    BY <1>4, <2>1, <2>3, <2>4, <2>5, StoresKept, OthersKept
       DEF Advanced, EffectsInv, worldVars
<1>. QED
  BY <1>2, <1>3, <1>4 DEF commit, Idle

\* An attempt that is over, however it ended, takes nothing back.
LEMMA EndKeeps ==
  ASSUME TypeOK, EffectsInv, NEW w \in Workers,
         return(w) \/ Abort(w) \/ Refuse(w) \/ Fail(w) \/ Crash(w)
  PROVE  TypeOK' /\ EffectsInv'
<1>1. CASE return(w)
  <2>1. TypeOK'
    BY <1>1, LeaveTypes DEF return, TypeOK, dbVars, worldVars, marketVars
  <2>. QED
    BY <1>1, <2>1, LeaveKeeps DEF return, dbVars, worldVars
<1>2. CASE Abort(w)
  BY <1>2, ThrowKeeps DEF Abort
<1>3. CASE Fail(w)
  <2>1. TypeOK'
    BY <1>3, LeaveTypes DEF Fail, TypeOK, dbVars, worldVars, marketVars
  <2>. QED
    BY <1>3, <2>1, LeaveKeeps DEF Fail, dbVars, worldVars
<1>4. CASE Crash(w)
  <2>1. run'[w] = None /\ \A v \in Workers \ {w} : run'[v] = run[v]
    BY <1>4 DEF Crash, TypeOK
  <2>2. TypeOK'
    BY <1>4 DEF Crash, TypeOK, dbVars, worldVars, marketVars
  <2>3. Grows
    BY <1>4, NothingMoves DEF Crash, dbVars, worldVars
  <2>. QED
    BY <1>4, <2>1, <2>2, <2>3, StoresKept, OthersKept, AttemptEnds
       DEF Crash, EffectsInv, dbVars, worldVars
<1>5. CASE Refuse(w)
  <2>1. TypeOK'
    BY <1>5, LeaveTypes DEF Refuse, TypeOK, dbVars, worldVars
  <2>. QED
    BY <1>5, <2>1, LeaveKeeps DEF Refuse, dbVars, worldVars
<1>. QED
  BY <1>1, <1>2, <1>3, <1>4, <1>5

LEMMA WorkKeeps ==
  ASSUME TypeOK, EffectsInv, NEW w \in Workers, Work(w)
  PROVE  TypeOK' /\ EffectsInv'
BY tryAcquireKeeps, assertFreshContextKeeps, createOrLoadKeeps, transitionKeeps,
   noteTransferKeeps, getStatusKeeps, loadKeeps, prepareKeeps, sendKeeps,
   insertKeeps, loadLatestPricingKeeps, completeKeeps, commitKeeps, EndKeeps
   DEF Work

\* The market, the chain, the bridge and the clock of a lease touch no attempt.
LEMMA WorldKeeps ==
  ASSUME TypeOK, EffectsInv,
         UNCHANGED <<dbVars, effects, receipts, run, result>>, TypeOK'
  PROVE  TypeOK' /\ EffectsInv'
<1>1. Grows
  BY NothingMoves DEF dbVars
<1>2. \A w \in Workers : AttemptOK(w)'
  BY <1>1, AttemptKept DEF EffectsInv
<1>. QED
  BY <1>1, <1>2, StoresKept DEF EffectsInv, dbVars

LEMMA StepKeeps ==
  ASSUME TypeOK, EffectsInv, [Next]_vars
  PROVE  TypeOK' /\ EffectsInv'
<1>1. CASE PublishNav
  <2>1. nav' \in Reports
    BY <1>1 DEF PublishNav, ObservedSupply, TypeOK, Reports, Counts
  <2>2. TypeOK'
    BY <1>1, <2>1 DEF PublishNav, TypeOK, dbVars, worldVars, attempts
  <2>. QED
    BY <1>1, <2>2, WorldKeeps DEF PublishNav, worldVars, attempts
<1>2. CASE MoveBook
  <2>1. TypeOK'
    BY <1>2 DEF MoveBook, TypeOK, dbVars, worldVars, attempts
  <2>. QED
    BY <1>2, <2>1, WorldKeeps DEF MoveBook, worldVars, attempts
<1>3. CASE Accrue
  <2>1. chain' \in Counts
    BY <1>3 DEF Accrue, TypeOK, Counts
  <2>2. TypeOK'
    BY <1>3, <2>1 DEF Accrue, TypeOK, dbVars, marketVars, attempts
  <2>. QED
    BY <1>3, <2>2, WorldKeeps DEF Accrue, attempts
<1>4. CASE Index
  <2>1. TypeOK'
    BY <1>4 DEF Index, TypeOK, dbVars, worldVars, attempts
  <2>. QED
    BY <1>4, <2>1, WorldKeeps DEF Index, worldVars, attempts
<1>5. ASSUME NEW op \in Ops, CompleteBridge(op)
      PROVE  TypeOK' /\ EffectsInv'
  <2>. PICK amount \in IF op \in Deposits THEN {Quoted}
                       ELSE {e.content.amount :
                               e \in {f \in effects : f.op = op /\ f.kind = "transfer"}} :
         bridged' = bridged \cup {[op |-> op, amount |-> amount]}
    BY <1>5 DEF CompleteBridge
  <2>1. amount \in Amounts
    BY DEF TypeOK, Contents, Amounts
  <2>2. bridged' \subseteq [op : Ops, amount : Amounts]
    BY <2>1 DEF TypeOK
  <2>3. TypeOK'
    BY <1>5, <2>2 DEF CompleteBridge, TypeOK, dbVars, marketVars, attempts
  <2>. QED
    BY <1>5, <2>3, WorldKeeps DEF CompleteBridge, attempts
<1>6. ASSUME NEW w \in Workers, ExpireLease(w) \/ LoseLease(w)
      PROVE  TypeOK' /\ EffectsInv'
  <2>1. TypeOK'
    BY <1>6 DEF ExpireLease, LoseLease, TypeOK, dbVars, worldVars, marketVars, attempts
  <2>. QED
    BY <1>6, <2>1, WorldKeeps DEF ExpireLease, LoseLease, worldVars, attempts
<1>7. CASE UNCHANGED vars
  <2>1. TypeOK'
    BY <1>7 DEF TypeOK, vars, dbVars, worldVars, marketVars, attempts
  <2>. QED
    BY <1>7, <2>1, WorldKeeps DEF vars, worldVars, attempts
<1>8. ASSUME NEW w \in Workers,
             Start(w) \/ Work(w) \/ Abort(w) \/ Refuse(w) \/ Fail(w) \/ Crash(w)
      PROVE  TypeOK' /\ EffectsInv'
  BY <1>8, StartKeeps, WorkKeeps, EndKeeps
<1>9. CASE FeeComesDue
  <2>1. TypeOK'
    BY <1>9 DEF FeeComesDue, TypeOK, dbVars, worldVars, attempts
  <2>. QED
    BY <1>9, <2>1, WorldKeeps DEF FeeComesDue, worldVars, attempts
<1>10. ASSUME NEW op \in Ops, Lapse(op)
       PROVE  TypeOK' /\ EffectsInv'
  <2>1. TypeOK'
    BY <1>10 DEF Lapse, TypeOK, dbVars, worldVars, attempts
  <2>. QED
    BY <1>10, <2>1, WorldKeeps DEF Lapse, worldVars, attempts
<1>. QED
  BY <1>1, <1>2, <1>3, <1>4, <1>5, <1>6, <1>7, <1>8, <1>9, <1>10
     DEF Next, AllReturned

LEMMA InitOK ==
  ASSUME Init
  PROVE  TypeOK /\ EffectsInv
<1>1. row \in [Ops -> Rows]
  <2>. SUFFICES ASSUME NEW op \in Ops
                PROVE  [state |-> IF op \in Deposits THEN "intent_verified" ELSE "created",
                        version |-> 0, noted |-> FALSE, batch |-> None] \in Rows
    BY DEF Init
  <2>1. "intent_verified" \in ExecutionState /\ "created" \in ExecutionState
    BY AllowedStates DEF Allowed
  <2>. QED
    BY <2>1 DEF Rows
<1>2. TypeOK
  BY <1>1 DEF Init, TypeOK, Counts, Reports, Baseline
<1>3. EffectsInv
  BY DEF Init, EffectsInv, AttemptOK, SignedFirst, JournalMoved, SettlementMatchesEffects
<1>. QED
  BY <1>2, <1>3

\* Two effects for one request carry what was signed for it, hence the same.
LEMMA SignedOnce ==
  ASSUME TypeOK, EffectsInv
  PROVE  EffectsAreUnique
<1>. SUFFICES ASSUME NEW e \in effects, NEW f \in effects,
                     e.op = f.op, e.kind = f.kind
              PROVE  e = f
  BY DEF EffectsAreUnique
<1>1. e.content = f.content
  BY DEF EffectsInv, SignedFirst
<1>. QED
  BY <1>1 DEF TypeOK

LEMMA EffectsInvariant == Spec => [](TypeOK /\ EffectsInv)
<1>1. Init => TypeOK /\ EffectsInv
  BY InitOK
<1>2. TypeOK /\ EffectsInv /\ [Next]_vars => TypeOK' /\ EffectsInv'
  BY StepKeeps
<1>. QED
  BY <1>1, <1>2, PTL DEF Spec

-----------------------------------------------------------------------------
\* Every row, journal entry, request, receipt and attempt keeps its shape.
THEOREM ExecutionTypes == Spec => []TypeOK
BY EffectsInvariant, PTL

\* However many attempts of an operation overlap, crash and retry, the provider
\* and the chain see each of its requests with one content.
THEOREM RequestsTakeEffectOnce == Spec => []EffectsAreUnique
<1>1. TypeOK /\ EffectsInv => EffectsAreUnique
  BY SignedOnce
<1>. QED
  BY <1>1, EffectsInvariant, PTL

\* A settlement accounts for what moved: the order, and for a withdrawal the
\* transfer and the payout, of the amount the batch names.
THEOREM SettlementsAccountForEffects == Spec => []SettlementMatchesEffects
<1>1. EffectsInv => SettlementMatchesEffects
  BY DEF EffectsInv
<1>. QED
  BY <1>1, EffectsInvariant, PTL

=============================================================================
