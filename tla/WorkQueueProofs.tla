--------------------------- MODULE WorkQueueProofs ---------------------------
(***************************************************************************)
(* Theorems about the claims of module WorkQueue, for every finite set of  *)
(* operations and every number of dispatchers, faults and attempts.        *)
(*                                                                         *)
(* The argument: the attempts of an item only grow, and a claim is named   *)
(* by the attempts there had been when it was made; so every claim that a  *)
(* dispatcher still goes through names an attempt of the past, and the     *)
(* next claim one that nobody has.                                         *)
(***************************************************************************)
EXTENDS WorkQueue, SequenceTheorems, FiniteSetTheorems, TLAPS

-----------------------------------------------------------------------------
(* The inductive invariant                                                 *)

Calls == {"claim", "start", "markDispatched", "markStarted", "releaseClaim"}

WorkType == [op : Ops, token : 1 .. MAX_ATTEMPTS]

BatchesTyped ==
  /\ batch \in [Dispatchers -> Seq(WorkType)]
  /\ doing \in [Dispatchers -> Calls]
  /\ faults \in Nat

\* The token of an item is the number of its last claim, and a claim that is
\* still gone through is one of its claims.
TokensAreOfThePast ==
  /\ \A op \in Ops : item[op].token <= item[op].attempts
  /\ \A p \in Dispatchers : \A i \in DOMAIN batch[p] :
       batch[p][i].token <= item[batch[p][i].op].attempts

\* Nothing of a completed item is left to fall due.
CompletedIsDone == \A op \in Ops : item[op].state = "completed" => ~item[op].due

IInv ==
  /\ TypeOK
  /\ BatchesTyped
  /\ TokensAreOfThePast
  /\ CompletedIsDone
  /\ OneHolderPerClaim

\* What a step may do to an item: its claims are counted, never forgotten, and a
\* completed item stays as it is.
ItemsForward ==
  \A op \in Ops : /\ item[op].attempts <= item'[op].attempts
                  /\ item[op].state = "completed" => item'[op] = item[op]

\* The items after a step are typed, and sound by themselves.
ItemsSound ==
  /\ item \in [Ops -> [state : States, token : 0 .. MAX_ATTEMPTS,
                       attempts : 0 .. MAX_ATTEMPTS, due : BOOLEAN]]
  /\ \A op \in Ops : /\ item[op].token > 0 <=> item[op].state = "claimed"
                     /\ item[op].token <= item[op].attempts
  /\ CompletedIsDone

RestTyped ==
  /\ addressed \subseteq Deposits /\ funded \subseteq addressed
  /\ completed \subseteq Ops
  /\ workflow \in [Ops -> {"none", "running", "completed", "failed"}]
  /\ faults \in Nat

\* The batches by themselves.
BatchesSound ==
  /\ batch \in [Dispatchers -> Seq(WorkType)]
  /\ doing \in [Dispatchers -> Calls]
  /\ \A p \in Dispatchers : (batch[p] = <<>>) <=> (doing[p] = "claim")
  /\ OneHolderPerClaim

BatchesOfThePast ==
  \A p \in Dispatchers : \A i \in DOMAIN batch[p] :
    batch[p][i].token <= item[batch[p][i].op].attempts

LEMMA Parts == IInv <=> ItemsSound /\ RestTyped /\ BatchesSound /\ BatchesOfThePast
BY DEF IInv, TypeOK, BatchesTyped, TokensAreOfThePast, ItemsSound, RestTyped,
       BatchesSound, BatchesOfThePast

-----------------------------------------------------------------------------
(* Steps that claim nothing                                                *)

\* A batch after a step holds work that it, or another batch of the same
\* dispatcher, held before.
ShorterBatches ==
  /\ batch' = [p \in Dispatchers |-> batch'[p]]
  /\ doing' = [p \in Dispatchers |-> doing'[p]]
  /\ \A p \in Dispatchers :
       \/ UNCHANGED <<batch[p], doing[p]>>
       \/ batch'[p] = batch[p] /\ doing'[p] \in Calls \ {"claim"} /\ doing[p] # "claim"
       \/ batch'[p] = <<>> /\ doing'[p] = "claim"
       \/ /\ batch[p] # <<>>
          /\ batch'[p] = Tail(batch[p])
          /\ doing'[p] = IF Len(batch[p]) = 1 THEN "claim" ELSE "start"

LEMMA BatchShortens ==
  ASSUME BatchesSound, ShorterBatches, NEW p \in Dispatchers
  PROVE  /\ batch'[p] \in Seq(WorkType)
         /\ doing'[p] \in Calls
         /\ (batch'[p] = <<>>) <=> (doing'[p] = "claim")
         /\ \/ batch'[p] = batch[p]
            \/ batch'[p] = <<>>
            \/ /\ \A i \in DOMAIN batch'[p] : i + 1 \in DOMAIN batch[p]
               /\ \A i \in DOMAIN batch'[p] : batch'[p][i] = batch[p][i + 1]
<1>1. batch[p] \in Seq(WorkType)
  BY DEF BatchesSound
<1>2. CASE UNCHANGED <<batch[p], doing[p]>>
  BY <1>2 DEF BatchesSound
<1>3. CASE batch'[p] = batch[p] /\ doing'[p] \in Calls \ {"claim"} /\ doing[p] # "claim"
  BY <1>3 DEF BatchesSound
<1>4. CASE batch'[p] = <<>> /\ doing'[p] = "claim"
  BY <1>4, EmptySeq DEF Calls
<1>5. CASE /\ batch[p] # <<>>
           /\ batch'[p] = Tail(batch[p])
           /\ doing'[p] = IF Len(batch[p]) = 1 THEN "claim" ELSE "start"
  <2>1. /\ Len(batch[p]) \in Nat \ {0}
        /\ DOMAIN batch[p] = 1 .. Len(batch[p])
    BY <1>1, <1>5, LenProperties, EmptySeq
  <2>2. /\ batch'[p] \in Seq(WorkType)
        /\ Len(batch'[p]) = Len(batch[p]) - 1
        /\ \A i \in 1 .. Len(batch'[p]) : batch'[p][i] = batch[p][i + 1]
    BY <1>1, <1>5, HeadTailProperties
  <2>3. DOMAIN batch'[p] = 1 .. Len(batch'[p])
    BY <2>2, LenProperties
  <2>4. (batch'[p] = <<>>) <=> (Len(batch'[p]) = 0)
    BY <2>2, EmptySeq
  <2>5. (batch'[p] = <<>>) <=> (doing'[p] = "claim")
    BY <1>5, <2>1, <2>2, <2>4
  <2>6. doing'[p] \in Calls
    BY <1>5 DEF Calls
  <2>7. \A i \in DOMAIN batch'[p] :
          i + 1 \in DOMAIN batch[p] /\ batch'[p][i] = batch[p][i + 1]
    BY <2>1, <2>2, <2>3
  <2>8. QED
    BY <2>2, <2>5, <2>6, <2>7
<1>6. QED
  BY <1>2, <1>3, <1>4, <1>5 DEF ShorterBatches

LEMMA BatchesShorten ==
  ASSUME BatchesSound, BatchesOfThePast, ShorterBatches, ItemsForward, ItemsSound,
         ItemsSound'
  PROVE  BatchesSound' /\ BatchesOfThePast'
<1>1. \A p \in Dispatchers :
        /\ batch'[p] \in Seq(WorkType)
        /\ doing'[p] \in Calls
        /\ (batch'[p] = <<>>) <=> (doing'[p] = "claim")
  BY BatchShortens
<1>2. DOMAIN <<>> = {}
  OBVIOUS
<1>3. ASSUME NEW p \in Dispatchers, NEW i \in DOMAIN batch'[p]
      PROVE  \E k \in {i, i + 1} :
               /\ batch'[p] = batch[p] => k = i
               /\ batch'[p] # batch[p] => k = i + 1
               /\ k \in DOMAIN batch[p]
               /\ batch'[p][i] = batch[p][k]
  BY <1>2, <1>3, BatchShortens
<1>4. \A p \in Dispatchers : DOMAIN batch'[p] \subseteq Nat
  BY <1>1, LenProperties
<1>5. OneHolderPerClaim'
  <2>1. SUFFICES ASSUME NEW p \in Dispatchers, NEW q \in Dispatchers,
                        NEW i \in DOMAIN batch'[p], NEW j \in DOMAIN batch'[q],
                        p # q \/ i # j
                 PROVE  batch'[p][i] # batch'[q][j]
    BY DEF OneHolderPerClaim
  <2>2. PICK k \in {i, i + 1} :
               /\ batch'[p] = batch[p] => k = i
               /\ batch'[p] # batch[p] => k = i + 1
               /\ k \in DOMAIN batch[p]
               /\ batch'[p][i] = batch[p][k]
    BY <1>3
  <2>3. PICK l \in {j, j + 1} :
               /\ batch'[q] = batch[q] => l = j
               /\ batch'[q] # batch[q] => l = j + 1
               /\ l \in DOMAIN batch[q]
               /\ batch'[q][j] = batch[q][l]
    BY <1>3
  <2>4. p # q \/ k # l
    BY <1>4, <2>1, <2>2, <2>3
  <2>5. QED
    BY <2>2, <2>3, <2>4 DEF BatchesSound, OneHolderPerClaim
<1>6. ASSUME NEW p \in Dispatchers, NEW i \in DOMAIN batch'[p]
      PROVE  batch'[p][i].token <= item'[batch'[p][i].op].attempts
  <2>1. PICK k \in DOMAIN batch[p] : batch'[p][i] = batch[p][k]
    BY <1>3, <1>6
  <2>2. batch[p][k] \in WorkType
    BY <2>1, ElementOfSeq, LenProperties DEF BatchesSound
  <2>3. /\ batch[p][k].op \in Ops
        /\ batch[p][k].token \in Nat
    BY <2>2, QueueAssumption DEF WorkType
  <2>4. batch[p][k].token <= item[batch[p][k].op].attempts
    BY <2>1 DEF BatchesOfThePast
  <2>5. /\ item[batch[p][k].op].attempts \in Nat
        /\ item'[batch[p][k].op].attempts \in Nat
    BY <2>3, QueueAssumption DEF ItemsSound
  <2>6. QED
    BY <2>1, <2>3, <2>4, <2>5 DEF ItemsForward
<1>7. BatchesOfThePast'
  BY <1>6 DEF BatchesOfThePast
<1>8. /\ batch' \in [Dispatchers -> Seq(WorkType)]
      /\ doing' \in [Dispatchers -> Calls]
  BY <1>1 DEF ShorterBatches
<1>9. QED
  BY <1>1, <1>5, <1>7, <1>8 DEF BatchesSound

\* The ways in which a step of one dispatcher leaves its batch.
LEMMA OneBatchShortens ==
  ASSUME BatchesSound, NEW p \in Dispatchers, doing[p] # "claim",
         \/ NextItem(p)
         \/ Escape(p)
         \/ \E call \in Calls \ {"claim"} : Then(p, call)
  PROVE  ShorterBatches
<1>1. /\ batch \in [Dispatchers -> Seq(WorkType)]
      /\ doing \in [Dispatchers -> Calls]
      /\ batch[p] # <<>>
  BY DEF BatchesSound
<1>2. CASE NextItem(p)
  BY <1>1, <1>2 DEF ShorterBatches, NextItem
<1>3. CASE Escape(p)
  BY <1>1, <1>3 DEF ShorterBatches, Escape
<1>4. CASE \E call \in Calls \ {"claim"} : Then(p, call)
  BY <1>1, <1>4 DEF ShorterBatches, Then
<1>5. QED
  BY <1>2, <1>3, <1>4

LEMMA SameBatches ==
  ASSUME BatchesSound, UNCHANGED <<batch, doing>>
  PROVE  ShorterBatches
BY DEF BatchesSound, ShorterBatches

-----------------------------------------------------------------------------
(* One item at a time                                                      *)

\* An update of one item that is not completed, or that changes nothing.
Updated(op, new) ==
  /\ item' = [item EXCEPT ![op] = new]
  /\ new \in [state : States, token : 0 .. MAX_ATTEMPTS,
              attempts : 0 .. MAX_ATTEMPTS, due : BOOLEAN]
  /\ new.token > 0 <=> new.state = "claimed"
  /\ new.token <= new.attempts
  /\ new.state = "completed" => ~new.due
  /\ new.attempts = item[op].attempts
  /\ item[op].state = "completed" => new = item[op]

LEMMA UpdateKeepsItems ==
  ASSUME ItemsSound, NEW op \in Ops, NEW new, Updated(op, new)
  PROVE  ItemsSound' /\ ItemsForward
<1>1. \A o \in Ops : item'[o] = IF o = op THEN new ELSE item[o]
  BY DEF Updated, ItemsSound
<1>2. item' \in [Ops -> [state : States, token : 0 .. MAX_ATTEMPTS,
                        attempts : 0 .. MAX_ATTEMPTS, due : BOOLEAN]]
  BY DEF Updated, ItemsSound
<1>3. \A o \in Ops : item[o].attempts \in Nat
  BY QueueAssumption DEF ItemsSound
<1>4. ItemsSound'
  BY <1>1, <1>2 DEF Updated, ItemsSound, CompletedIsDone
<1>5. ItemsForward
  BY <1>1, <1>3 DEF Updated, ItemsForward
<1>6. QED
  BY <1>4, <1>5

LEMMA SameItems ==
  ASSUME ItemsSound, UNCHANGED item
  PROVE  ItemsSound' /\ ItemsForward
<1>1. \A o \in Ops : item[o].attempts \in Nat
  BY QueueAssumption DEF ItemsSound
<1>2. QED
  BY <1>1 DEF ItemsSound, CompletedIsDone, ItemsForward

-----------------------------------------------------------------------------
(* The actions                                                             *)

\* A step that claims nothing.
Tame == ItemsSound' /\ ItemsForward /\ RestTyped' /\ ShorterBatches

LEMMA ApiIsTame ==
  ASSUME IInv, NEW op \in Ops,
         createIntent(op) \/ setDepositFundingAddress(op) \/ submitDepositFunding(op)
  PROVE  Tame
<1>1. ItemsSound /\ RestTyped /\ BatchesSound
  BY Parts
<1>2. item[op] \in [state : States, token : 0 .. MAX_ATTEMPTS,
                   attempts : 0 .. MAX_ATTEMPTS, due : BOOLEAN]
  BY <1>1 DEF ItemsSound
<1>3. CASE createIntent(op)
  <2> DEFINE new == [item[op] EXCEPT !.state = InitialState(op), !.due = TRUE]
  <2>1. item' = [item EXCEPT ![op] = new]
    BY <1>1, <1>2, <1>3 DEF createIntent, ItemsSound
  <2>2. Updated(op, new)
    BY <1>1, <1>2, <1>3, <2>1 DEF createIntent, Updated, ItemsSound, InitialState, States
  <2>3. ItemsSound' /\ ItemsForward
    BY <1>1, <2>2, UpdateKeepsItems
  <2>4. QED
    BY <1>1, <1>3, <2>3, SameBatches DEF createIntent, api, Tame, RestTyped
<1>4. CASE setDepositFundingAddress(op)
  <2>1. ItemsSound' /\ ItemsForward
    BY <1>1, <1>4, SameItems DEF setDepositFundingAddress
  <2>2. QED
    BY <1>1, <1>4, <2>1, SameBatches DEF setDepositFundingAddress, Tame, RestTyped
<1>5. CASE submitDepositFunding(op)
  <2> DEFINE new == [item[op] EXCEPT !.state = "pending", !.due = TRUE]
  <2>1. item' = [item EXCEPT ![op] = new]
    BY <1>1, <1>2, <1>5 DEF submitDepositFunding, ItemsSound
  <2>2. Updated(op, new)
    BY <1>1, <1>2, <1>5, <2>1 DEF submitDepositFunding, Updated, ItemsSound, States
  <2>3. ItemsSound' /\ ItemsForward
    BY <1>1, <2>2, UpdateKeepsItems
  <2>4. QED
    BY <1>1, <1>5, <2>3, SameBatches DEF submitDepositFunding, Tame, RestTyped
<1>6. QED
  BY <1>3, <1>4, <1>5

LEMMA TimeIsTame ==
  ASSUME IInv, NEW op \in Ops, RetryDue(op) \/ ClaimExpires(op)
  PROVE  Tame
<1>1. ItemsSound /\ RestTyped /\ BatchesSound
  BY Parts
<1>2. item[op] \in [state : States, token : 0 .. MAX_ATTEMPTS,
                   attempts : 0 .. MAX_ATTEMPTS, due : BOOLEAN]
  BY <1>1 DEF ItemsSound
<1> DEFINE new == [item[op] EXCEPT !.due = TRUE]
<1>3. item' = [item EXCEPT ![op] = new]
  BY <1>1, <1>2 DEF RetryDue, ClaimExpires, ItemsSound
<1>4. Updated(op, new)
  BY <1>1, <1>2, <1>3 DEF RetryDue, ClaimExpires, Updated, ItemsSound, States
<1>5. ItemsSound' /\ ItemsForward
  BY <1>1, <1>4, UpdateKeepsItems
<1>6. RestTyped'
  BY <1>1 DEF RetryDue, ClaimExpires, api, RestTyped, Fault
<1>7. ShorterBatches
  BY <1>1, SameBatches DEF RetryDue, ClaimExpires
<1>8. QED
  BY <1>5, <1>6, <1>7 DEF Tame

\* An item that gives its claim up.
Unclaimed(it, state) == [it EXCEPT !.state = state, !.token = 0, !.due = FALSE]

LEMMA UnclaimedItem ==
  ASSUME NEW it \in [state : States, token : 0 .. MAX_ATTEMPTS,
                     attempts : 0 .. MAX_ATTEMPTS, due : BOOLEAN],
         NEW state \in States \ {"claimed"}
  PROVE  LET new == Unclaimed(it, state)
         IN /\ new \in [state : States, token : 0 .. MAX_ATTEMPTS,
                        attempts : 0 .. MAX_ATTEMPTS, due : BOOLEAN]
            /\ new.token > 0 <=> new.state = "claimed"
            /\ new.token <= new.attempts
            /\ ~new.due
            /\ new.attempts = it.attempts
<1> DEFINE new == Unclaimed(it, state)
<1>1. /\ 0 \in 0 .. MAX_ATTEMPTS
      /\ it.attempts \in 0 .. MAX_ATTEMPTS /\ it.attempts \in Nat
  BY QueueAssumption
<1>2. new.state = state /\ new.token = 0 /\ new.due = FALSE /\ new.attempts = it.attempts
  BY DEF Unclaimed
<1>3. new \in [state : States, token : 0 .. MAX_ATTEMPTS,
               attempts : 0 .. MAX_ATTEMPTS, due : BOOLEAN]
  BY <1>1 DEF Unclaimed
<1>4. QED
  BY <1>1, <1>2, <1>3

\* The activity completes an item once, or finds it completed.
LEMMA ActivityIsTame ==
  ASSUME IInv, NEW op \in Ops, Run(op) \/ markCompleted(op) \/ FailWorkflow(op)
  PROVE  Tame
<1>1. ItemsSound /\ RestTyped /\ BatchesSound
  BY Parts
<1>2. item[op] \in [state : States, token : 0 .. MAX_ATTEMPTS,
                   attempts : 0 .. MAX_ATTEMPTS, due : BOOLEAN]
  BY <1>1 DEF ItemsSound
<1>3. RestTyped' /\ ShorterBatches
  BY <1>1, SameBatches DEF Run, markCompleted, FailWorkflow, items, api, RestTyped, Fault
<1>4. CASE markCompleted(op)
  <2> DEFINE new == Unclaimed(item[op], "completed")
  <2>1. item' = [item EXCEPT ![op] = new]
    BY <1>1, <1>2, <1>4 DEF markCompleted, ItemsSound, Unclaimed
  <2>2. item[op].token \in Nat
    BY <1>2, QueueAssumption
  <2>3. item[op].state = "completed" => item[op].token = 0 /\ item[op].due = FALSE
    BY <1>1, <1>2, <2>2 DEF ItemsSound, CompletedIsDone
  <2>4. item[op].state = "completed" => new = item[op]
    BY <1>2, <2>3 DEF Unclaimed
  <2>5. "completed" \in States \ {"claimed"}
    BY DEF States
  <2>6. Updated(op, new)
    BY <1>2, <2>1, <2>4, <2>5, UnclaimedItem DEF Updated
  <2>7. QED
    BY <1>1, <1>3, <2>6, UpdateKeepsItems DEF Tame
<1>5. CASE Run(op) \/ FailWorkflow(op)
  BY <1>1, <1>3, <1>5, SameItems DEF Run, FailWorkflow, items, Tame
<1>6. QED
  BY <1>4, <1>5

LEMMA BusyHasWork ==
  ASSUME BatchesSound, NEW p \in Dispatchers, doing[p] # "claim"
  PROVE  Work(p) \in WorkType /\ Work(p).op \in Ops
<1>1. batch[p] \in Seq(WorkType) /\ batch[p] # <<>>
  BY DEF BatchesSound
<1>2. Work(p) \in WorkType
  BY <1>1, HeadTailProperties DEF Work
<1>3. QED
  BY <1>2 DEF WorkType

LEMMA StartIsTame ==
  ASSUME IInv, NEW p \in Dispatchers, start(p) \/ failStart(p) \/ Crash(p)
  PROVE  Tame
<1>1. ItemsSound /\ RestTyped /\ BatchesSound
  BY Parts
<1>2. doing[p] # "claim" /\ UNCHANGED item
  BY DEF start, failStart, Crash, items
<1>3. ItemsSound' /\ ItemsForward
  BY <1>1, <1>2, SameItems
<1>4. \/ Escape(p)
      \/ \E call \in Calls \ {"claim"} : Then(p, call)
  BY DEF start, failStart, Crash, AfterAlreadyStarted, AfterFailedStart, Calls
<1>5. ShorterBatches
  BY <1>1, <1>2, <1>4, OneBatchShortens
<1>6. RestTyped'
  BY <1>1 DEF start, failStart, Crash, items, api, RestTyped, Fault
<1>7. QED
  BY <1>3, <1>5, <1>6 DEF Tame

LEMMA MarkIsTame ==
  ASSUME IInv, NEW p \in Dispatchers,
         markDispatched(p) \/ failMark(p) \/ releaseClaim(p)
  PROVE  Tame
<1>1. ItemsSound /\ RestTyped /\ BatchesSound
  BY Parts
<1>2. doing[p] # "claim"
  BY DEF markDispatched, failMark, releaseClaim
<1> DEFINE op == Work(p).op
<1>3. op \in Ops
  BY <1>1, <1>2, BusyHasWork
<1>4. item[op] \in [state : States, token : 0 .. MAX_ATTEMPTS,
                   attempts : 0 .. MAX_ATTEMPTS, due : BOOLEAN]
  BY <1>1, <1>3 DEF ItemsSound
<1>5. {"dispatched", "pending"} \subseteq States \ {"claimed"}
  BY DEF States
<1>6. ASSUME HoldsClaim(Work(p)), Dispatched(op)
      PROVE  ItemsSound' /\ ItemsForward
  <2> DEFINE new == Unclaimed(item[op], "dispatched")
  <2>1. item' = [item EXCEPT ![op] = new]
    BY <1>1, <1>3, <1>4, <1>6 DEF Dispatched, ItemsSound, Unclaimed
  <2>2. Updated(op, new)
    BY <1>4, <1>5, <1>6, <2>1, UnclaimedItem DEF Updated, HoldsClaim
  <2>3. QED
    BY <1>1, <1>3, <2>2, UpdateKeepsItems
<1>7. ASSUME HoldsClaim(Work(p)),
             item' = [item EXCEPT ![op] = [@ EXCEPT !.state = "pending", !.token = 0,
                                                    !.due = FALSE]]
      PROVE  ItemsSound' /\ ItemsForward
  <2> DEFINE new == Unclaimed(item[op], "pending")
  <2>1. Updated(op, new)
    <3>1. item' = [item EXCEPT ![op] = new]
      BY <1>1, <1>3, <1>7 DEF Unclaimed, ItemsSound
    <3>2. QED
      BY <1>4, <1>5, <1>7, <3>1, UnclaimedItem DEF Updated, HoldsClaim
  <2>2. QED
    BY <1>1, <1>3, <2>1, UpdateKeepsItems
<1>8. ItemsSound' /\ ItemsForward
  BY <1>1, <1>6, <1>7, SameItems DEF markDispatched, failMark, releaseClaim
<1>9. \/ NextItem(p)
      \/ Escape(p)
      \/ \E call \in Calls \ {"claim"} : Then(p, call)
  BY DEF markDispatched, failMark, releaseClaim, Calls
<1>10. ShorterBatches
  BY <1>1, <1>2, <1>9, OneBatchShortens
<1>11. RestTyped'
  BY <1>1 DEF markDispatched, failMark, releaseClaim, api, RestTyped, Fault
<1>12. QED
  BY <1>8, <1>10, <1>11 DEF Tame

\* The next claim of an item has a token that no dispatcher has.
LEMMA ClaimIsNew ==
  ASSUME IInv, NEW p \in Dispatchers, claimReady(p)
  PROVE  ItemsSound' /\ ItemsForward /\ BatchesSound' /\ BatchesOfThePast'
<1>1. ItemsSound /\ BatchesSound /\ BatchesOfThePast
  BY Parts
<1> DEFINE n == IF Cardinality(Ready) < BatchSize THEN Cardinality(Ready) ELSE BatchSize
<1>2. n \in Nat /\ Ready \subseteq Ops
  <2>1. Ready \in SUBSET Ops
    BY DEF Ready
  <2>2. Cardinality(Ready) \in Nat
    BY <2>1, FS_Subset, FS_CardinalityType, QueueAssumption
  <2>3. QED
    BY <2>1, <2>2, QueueAssumption
<1>3. PICK s \in Selections :
        /\ s # <<>>
        /\ \A i \in DOMAIN s : item[s[i]].attempts < MAX_ATTEMPTS
        /\ item' = [op \in Ops |->
             IF \E i \in DOMAIN s : s[i] = op THEN claimed(item[op]) ELSE item[op]]
        /\ batch' = [batch EXCEPT ![p] =
             [i \in DOMAIN s |-> [op |-> s[i], token |-> claimed(item[s[i]]).token]]]
  BY DEF claimReady
<1>4. /\ s \in [1 .. n -> Ready]
      /\ DOMAIN s = 1 .. n
      /\ \A i, j \in 1 .. n : i # j => s[i] # s[j]
  BY <1>3 DEF Selections
<1>5. n # 0
  BY <1>2, <1>3, <1>4
<1> HIDE DEF n
<1> DEFINE Taken == {s[i] : i \in 1 .. n}
<1>6. Taken \subseteq Ready
  BY <1>4
<1>7. \A op \in Ops : item'[op] = IF op \in Taken THEN claimed(item[op]) ELSE item[op]
  BY <1>3, <1>4
<1>8. \A op \in Ops : /\ item[op].attempts \in Nat /\ item[op].token \in Nat
                      /\ op \in Taken => item[op].attempts < MAX_ATTEMPTS
                      /\ op \in Taken => item[op].state # "completed"
  <2>1. \A op \in Ops : item[op].attempts \in Nat /\ item[op].token \in Nat
    BY <1>1, QueueAssumption DEF ItemsSound
  <2>2. \A op \in Taken : item[op].attempts < MAX_ATTEMPTS
    BY <1>3, <1>4
  <2>3. \A op \in Taken : item[op].state # "completed"
    BY <1>6 DEF Ready
  <2>4. QED
    BY <2>1, <2>2, <2>3
<1> HIDE DEF Taken
<1>9. ItemsSound'
  <2>1. \A op \in Taken : claimed(item[op]) \in
            [state : States, token : 0 .. MAX_ATTEMPTS,
             attempts : 0 .. MAX_ATTEMPTS, due : BOOLEAN]
    BY <1>2, <1>6, <1>8, QueueAssumption DEF claimed, States
  <2>2. \A op \in Taken : /\ claimed(item[op]).token > 0
                         /\ claimed(item[op]).state = "claimed"
                         /\ claimed(item[op]).token = claimed(item[op]).attempts
                         /\ claimed(item[op]).attempts \in Nat
    BY <1>2, <1>6, <1>8 DEF claimed
  <2>3. item' = [op \in Ops |-> item'[op]]
    BY <1>3
  <2>4. item' \in [Ops -> [state : States, token : 0 .. MAX_ATTEMPTS,
                          attempts : 0 .. MAX_ATTEMPTS, due : BOOLEAN]]
    BY <1>1, <1>7, <2>1, <2>3 DEF ItemsSound
  <2>5. QED
    BY <1>1, <1>7, <2>2, <2>4 DEF ItemsSound, CompletedIsDone
<1>10. ItemsForward
  <2>1. \A op \in Ops : claimed(item[op]).attempts = item[op].attempts + 1
    BY DEF claimed
  <2>2. \A op \in Ops : item[op].attempts <= item'[op].attempts
    BY <1>7, <1>8, <2>1
  <2>3. QED
    BY <1>7, <1>8, <2>2 DEF ItemsForward
<1> DEFINE new == [i \in 1 .. n |-> [op |-> s[i], token |-> item[s[i]].attempts + 1]]
<1>11. batch[p] = <<>> /\ doing[p] = "claim"
  BY <1>1 DEF claimReady, BatchesSound
<1>12. /\ batch \in [Dispatchers -> Seq(WorkType)]
       /\ doing \in [Dispatchers -> Calls]
  BY <1>1 DEF BatchesSound
<1>13. batch' = [batch EXCEPT ![p] = new]
  BY <1>3, <1>4 DEF claimed
<1>14. \A i \in 1 .. n : /\ s[i] \in Ops
                         /\ item[s[i]].attempts + 1 \in 1 .. MAX_ATTEMPTS
                         /\ item'[s[i]].attempts = item[s[i]].attempts + 1
  <2>1. \A i \in 1 .. n : s[i] \in Taken /\ s[i] \in Ops
    BY <1>2, <1>4 DEF Taken
  <2>2. \A i \in 1 .. n : item'[s[i]].attempts = item[s[i]].attempts + 1
    <3>1. \A i \in 1 .. n : item'[s[i]] = claimed(item[s[i]])
      BY <1>7, <2>1
    <3>2. \A op \in Ops : claimed(item[op]).attempts = item[op].attempts + 1
      BY DEF claimed
    <3>3. QED
      BY <2>1, <3>1, <3>2
  <2>3. QED
    BY <1>8, <2>1, <2>2, QueueAssumption
<1>15. new \in Seq(WorkType) /\ new # <<>> /\ DOMAIN new = 1 .. n
  <2>1. \A i \in 1 .. n : [op |-> s[i], token |-> item[s[i]].attempts + 1] \in WorkType
    BY <1>14 DEF WorkType
  <2>2. new \in Seq(WorkType)
    BY <1>2, <2>1
  <2>3. DOMAIN new = 1 .. n
    OBVIOUS
  <2>4. new # <<>>
    BY <1>2, <1>5, <2>3
  <2>5. QED
    BY <2>2, <2>3, <2>4
<1>16. \A q \in Dispatchers : batch'[q] = IF q = p THEN new ELSE batch[q]
  BY <1>12, <1>13
<1> DEFINE Fresh(work, i) == /\ work.op = s[i]
                             /\ work.token = item[s[i]].attempts + 1
<1>17. \A i \in 1 .. n : Fresh(new[i], i)
  OBVIOUS
<1> HIDE DEF new
<1>18. \A q \in Dispatchers : \A j \in DOMAIN batch[q] :
         /\ batch[q][j].op \in Ops
         /\ batch[q][j].token \in Nat
         /\ batch[q][j].token <= item[batch[q][j].op].attempts
  <2>1. \A q \in Dispatchers : \A j \in DOMAIN batch[q] : batch[q][j] \in WorkType
    BY <1>12, ElementOfSeq, LenProperties
  <2>2. QED
    BY <1>1, <2>1, QueueAssumption DEF WorkType, BatchesOfThePast
<1>19. OneHolderPerClaim'
  <2>1. SUFFICES ASSUME NEW q \in Dispatchers, NEW r \in Dispatchers,
                        NEW i \in DOMAIN batch'[q], NEW j \in DOMAIN batch'[r],
                        q # r \/ i # j
                 PROVE  batch'[q][i] # batch'[r][j]
    BY DEF OneHolderPerClaim
  <2>2. CASE q = p /\ r = p
    <3>1. i \in 1 .. n /\ j \in 1 .. n /\ i # j
      BY <1>15, <1>16, <2>1, <2>2
    <3>2. batch'[q][i].op = s[i] /\ batch'[r][j].op = s[j]
      BY <1>16, <1>17, <2>2, <3>1
    <3>3. QED
      BY <1>4, <3>1, <3>2
  <2>3. CASE q # p /\ r # p
    <3>1. batch'[q] = batch[q] /\ batch'[r] = batch[r]
      BY <1>16, <2>3
    <3>2. OneHolderPerClaim
      BY <1>1 DEF BatchesSound
    <3>3. QED
      BY <2>1, <3>1, <3>2 DEF OneHolderPerClaim
  <2>4. ASSUME NEW k \in 1 .. n, NEW o \in Dispatchers, NEW l \in DOMAIN batch[o]
        PROVE  new[k] # batch[o][l]
    BY <1>8, <1>14, <1>18, <1>17
  <2>5. CASE q = p /\ r # p
    BY <1>15, <1>16, <2>1, <2>4, <2>5
  <2>6. CASE q # p /\ r = p
    BY <1>15, <1>16, <2>1, <2>4, <2>6
  <2>7. QED
    BY <2>2, <2>3, <2>5, <2>6
<1>20. BatchesOfThePast'
  <2>1. SUFFICES ASSUME NEW q \in Dispatchers, NEW i \in DOMAIN batch'[q]
                 PROVE  batch'[q][i].token <= item'[batch'[q][i].op].attempts
    BY DEF BatchesOfThePast
  <2>2. CASE q = p
    <3>1. i \in 1 .. n /\ Fresh(batch'[q][i], i)
      BY <1>15, <1>16, <1>17, <2>1, <2>2
    <3>2. s[i] \in Ops /\ item[s[i]].attempts + 1 \in Int
      BY <1>14, <3>1
    <3>3. QED
      BY <1>14, <3>1, <3>2
  <2>3. CASE q # p
    <3>1. \A op \in Ops : item'[op].attempts \in Nat
      BY <1>9, QueueAssumption DEF ItemsSound
    <3>2. batch'[q] = batch[q]
      BY <1>16, <2>3
    <3>3. batch[q][i].op \in Ops /\ batch[q][i].token <= item[batch[q][i].op].attempts
      BY <1>18, <2>1, <3>2
    <3>4. batch[q][i].token \in Nat
      BY <1>18, <2>1, <3>2
    <3>5. item[batch[q][i].op].attempts <= item'[batch[q][i].op].attempts
      BY <1>10, <3>3 DEF ItemsForward
    <3>6. QED
      BY <1>8, <3>1, <3>2, <3>3, <3>4, <3>5
  <2>4. QED
    BY <2>2, <2>3
<1>21. BatchesSound'
  <2>1. doing' = [doing EXCEPT ![p] = "start"]
    BY DEF claimReady
  <2>2. /\ batch' \in [Dispatchers -> Seq(WorkType)]
        /\ doing' \in [Dispatchers -> Calls]
    BY <1>12, <1>13, <1>15, <2>1 DEF Calls
  <2>3. \A q \in Dispatchers : (batch'[q] = <<>>) <=> (doing'[q] = "claim")
    BY <1>1, <1>12, <1>15, <1>16, <2>1 DEF BatchesSound
  <2>4. QED
    BY <1>19, <2>2, <2>3 DEF BatchesSound
<1>22. QED
  BY <1>9, <1>10, <1>20, <1>21

-----------------------------------------------------------------------------
(* The invariant is inductive                                              *)

LEMMA InitIInv == Init => IInv
<1>1. ASSUME Init
      PROVE  ItemsSound /\ RestTyped
  BY <1>1, QueueAssumption DEF Init, Absent, ItemsSound, RestTyped, CompletedIsDone, States
<1>2. ASSUME Init
      PROVE  BatchesSound /\ BatchesOfThePast
  BY <1>2, EmptySeq
     DEF Init, BatchesSound, BatchesOfThePast, OneHolderPerClaim, Calls
<1>3. QED
  BY <1>1, <1>2, Parts

LEMMA TameKeeps ==
  ASSUME IInv, Tame
  PROVE  IInv' /\ ItemsForward
<1>1. ItemsSound /\ BatchesSound /\ BatchesOfThePast
  BY Parts
<1>2. BatchesSound' /\ BatchesOfThePast'
  BY <1>1, BatchesShorten DEF Tame
<1>3. QED
  BY <1>2, Parts DEF Tame, IInv, TypeOK, BatchesTyped, TokensAreOfThePast, ItemsSound,
     RestTyped, BatchesSound, BatchesOfThePast

LEMMA NextKeeps ==
  ASSUME IInv, [Next]_vars
  PROVE  IInv' /\ ItemsForward
<1>1. CASE UNCHANGED vars
  <2>1. Tame
    BY <1>1, Parts, SameItems, SameBatches DEF vars, Tame, RestTyped
  <2>2. QED
    BY <2>1, TameKeeps
<1>2. ASSUME NEW p \in Dispatchers, claimReady(p)
      PROVE  IInv' /\ ItemsForward
  <2>1. RestTyped'
    BY <1>2, Parts DEF claimReady, api, RestTyped
  <2>2. ItemsSound' /\ ItemsForward /\ BatchesSound' /\ BatchesOfThePast'
    BY <1>2, ClaimIsNew
  <2>3. QED
    BY <2>1, <2>2 DEF IInv, TypeOK, BatchesTyped, TokensAreOfThePast, ItemsSound,
       RestTyped, BatchesSound, BatchesOfThePast
<1>3. ASSUME NEW p \in Dispatchers,
             \/ start(p) \/ failStart(p) \/ Crash(p)
             \/ markDispatched(p) \/ failMark(p) \/ releaseClaim(p)
      PROVE  IInv' /\ ItemsForward
  BY <1>3, StartIsTame, MarkIsTame, TameKeeps
<1>4. ASSUME NEW op \in Ops,
             \/ createIntent(op) \/ setDepositFundingAddress(op) \/ submitDepositFunding(op)
             \/ RetryDue(op) \/ ClaimExpires(op)
             \/ Run(op) \/ markCompleted(op) \/ FailWorkflow(op)
      PROVE  IInv' /\ ItemsForward
  BY <1>4, ApiIsTame, TimeIsTame, ActivityIsTame, TameKeeps
<1>5. QED
  BY <1>1, <1>2, <1>3, <1>4 DEF Next, Dispatch, Idle

\* Everything that is claimed here of the queue, in one inductive invariant.
THEOREM Invariance == Spec => []IInv
<1>1. IInv /\ [Next]_vars => IInv'
  BY NextKeeps
<1>2. QED
  BY <1>1, InitIInv, PTL DEF Spec

-----------------------------------------------------------------------------
(* What follows                                                            *)

\* The rows of the queue keep their types, a token is there exactly while its
\* item is claimed, and the CHECK on the attempts is never violated.
THEOREM TypeCorrect == Spec => []TypeOK
<1>1. IInv => TypeOK
  BY DEF IInv
<1>2. QED
  BY <1>1, Invariance, PTL

\* A claim has one holder, whatever expires under a slow dispatcher.
THEOREM ClaimHasOneHolder == Spec => []OneHolderPerClaim
<1>1. IInv => OneHolderPerClaim
  BY DEF IInv
<1>2. QED
  BY <1>1, Invariance, PTL

\* What the activity has completed no dispatcher takes back, however late it
\* writes.
THEOREM CompletedStaysFinal == Spec => CompletedIsFinal
<1>1. IInv /\ [Next]_vars =>
        [\A op \in Ops : item[op].state = "completed" => item'[op] = item[op]]_item
  BY NextKeeps DEF ItemsForward
<1>2. QED
  BY <1>1, Invariance, PTL DEF Spec, CompletedIsFinal
=============================================================================
