---------------------- MODULE TransactionSubmitterProofs ----------------------
(***************************************************************************)
(* Theorems about the journal of module TransactionSubmitter, for every    *)
(* number of submitters, attempts and faults.                              *)
(*                                                                         *)
(* The argument: attempts are only added and never forgotten, so what a    *)
(* submitter works on is a row of the journal; and the cluster never takes *)
(* a finalized transaction back, so a row that was finalized on the sight  *)
(* of one stays true, whoever else is at work.                             *)
(***************************************************************************)
EXTENDS TransactionSubmitter, FiniteSetTheorems, TLAPS

-----------------------------------------------------------------------------
(* The inductive invariant                                                 *)

\* The calls that are made for an attempt.
Working == {"observe", "caught", "height", "heightAgain", "send", "mark", "confirm"}

Steps == {"idle", "latest", "reload", "sign", "conflict"} \cup Working

AttemptStates == {"none", "signed", "submitted", "expired", "finalized", "rejected"}

ChainStates == {"unknown", "pending", "confirmed", "finalized", "failed"}

JournalInv ==
  /\ operation \in [state : {"absent", "pending", "finalized", "failed"},
                    version : Nat, signature : 0 .. MaxAttempts]
  /\ attempt \in [Attempts -> AttemptStates]
  /\ stamped = {n \in Attempts : attempt[n] \in {"submitted", "finalized", "rejected"}}
  /\ \A n \in Attempts : attempt[n] = "none" <=> n > Latest
  /\ operation.signature > 0 <=> operation.state = "finalized"

ClusterInv ==
  /\ chain \in [Attempts -> ChainStates]
  /\ stale \subseteq 1 .. Latest

\* A submitter that has a call to make for an attempt has one of the journal.
WorkersInv ==
  /\ step \in [Submitters -> Steps]
  /\ mine \in [Submitters -> Nat]
  /\ version \in [Submitters -> Nat]
  /\ fresh \in [Submitters -> Nat]
  /\ \A s \in Submitters : /\ mine[s] <= Latest
                           /\ fresh[s] < FreshLimit
                           /\ step[s] \in Working => mine[s] > 0

IInv == JournalInv /\ ClusterInv /\ WorkersInv /\ FinalizedIsLanded

\* What a step may do to the journal and to the cluster.
Forward ==
  /\ Latest <= Latest'
  /\ operation.state \in {"finalized", "failed"} => operation'.state = operation.state

-----------------------------------------------------------------------------
(* The attempts are counted                                                *)

LEMMA LatestTyped == Latest \in Nat /\ Latest <= MaxAttempts
<1> DEFINE S == {n \in Attempts : attempt[n] # "none"}
<1>1. MaxAttempts \in Nat \ {0}
  BY SubmitterAssumption
<1>2. IsFiniteSet(1 .. MaxAttempts) /\ Cardinality(1 .. MaxAttempts) = MaxAttempts
  BY <1>1, FS_Interval
<1>3. S \in SUBSET (1 .. MaxAttempts)
  BY DEF Attempts
<1>4. IsFiniteSet(S) /\ Cardinality(S) <= MaxAttempts
  BY <1>2, <1>3, FS_Subset
<1>5. Cardinality(S) \in Nat
  BY <1>4, FS_CardinalityType
<1>6. QED
  BY <1>4, <1>5 DEF Latest

LEMMA LatestTypedNext == (Latest \in Nat /\ Latest <= MaxAttempts)'
BY LatestTyped, PTL

\* Rows that change their state and are neither made nor unmade.
LEMMA SameLatest ==
  ASSUME \A n \in Attempts : attempt'[n] = "none" <=> attempt[n] = "none"
  PROVE  Latest' = Latest
<1>1. {n \in Attempts : attempt'[n] # "none"} = {n \in Attempts : attempt[n] # "none"}
  OBVIOUS
<1>2. Attempts' = Attempts
  BY DEF Attempts
<1>3. QED
  BY <1>1, <1>2 DEF Latest

LEMMA NextLatest ==
  ASSUME JournalInv, Latest < MaxAttempts,
         attempt' = [attempt EXCEPT ![Latest + 1] = "signed"]
  PROVE  Latest' = Latest + 1
<1> DEFINE k == Latest + 1
<1>1. Latest \in Nat /\ MaxAttempts \in Nat
  BY LatestTyped, SubmitterAssumption
<1>2. {n \in Attempts : attempt'[n] # "none"} = 1 .. k
  <2>1. \A n \in Attempts : n \in Nat /\ attempt'[n] # "none" <=> n <= k
    BY <1>1 DEF JournalInv, Attempts
  <2>2. k \in Nat /\ k <= MaxAttempts
    BY <1>1
  <2>3. QED
    BY <1>1, <2>1, <2>2 DEF Attempts
<1>3. Cardinality(1 .. k) = k
  BY <1>1, FS_Interval
<1>4. QED
  BY <1>2, <1>3 DEF Latest, Attempts

\* An attempt that a submitter works on is in the journal.
LEMMA MineIsInJournal ==
  ASSUME IInv, NEW s \in Submitters, step[s] \in Working
  PROVE  mine[s] \in Attempts /\ attempt[mine[s]] # "none"
<1>1. Latest \in Nat /\ Latest <= MaxAttempts /\ MaxAttempts \in Nat
  BY LatestTyped, SubmitterAssumption
<1>2. mine[s] \in Nat /\ mine[s] > 0 /\ mine[s] <= Latest
  BY DEF IInv, WorkersInv
<1>3. mine[s] \in Attempts
  BY <1>1, <1>2 DEF Attempts
<1>4. QED
  BY <1>1, <1>2, <1>3 DEF IInv, JournalInv

-----------------------------------------------------------------------------
(* The submitters                                                          *)

LEMMA LeaveKeeps ==
  ASSUME WorkersInv, NEW s \in Submitters, Leave(s), Latest <= Latest'
  PROVE  WorkersInv'
<1>1. Latest \in Nat /\ Latest' \in Nat
  BY LatestTyped, LatestTypedNext
<1>2. QED
  BY <1>1, SubmitterAssumption DEF WorkersInv, Leave, Goto, Steps, Working

LEMMA GotoKeeps ==
  ASSUME WorkersInv, NEW s \in Submitters, NEW call \in Steps, Goto(s, call),
         UNCHANGED local, call \in Working => mine[s] > 0, Latest <= Latest'
  PROVE  WorkersInv'
<1>1. Latest \in Nat /\ Latest' \in Nat
  BY LatestTyped, LatestTypedNext
<1>2. QED
  BY <1>1 DEF WorkersInv, Goto, local

\* A submitter takes up an attempt of the journal.
LEMMA TakeKeeps ==
  ASSUME WorkersInv, NEW s \in Submitters, NEW n \in Attempts, n <= Latest',
         Goto(s, "observe"), mine' = [mine EXCEPT ![s] = n],
         UNCHANGED <<version, fresh>>, Latest <= Latest'
  PROVE  WorkersInv'
<1>1. Latest \in Nat /\ Latest' \in Nat /\ n \in Nat /\ n > 0
  BY LatestTyped, LatestTypedNext DEF Attempts
<1>2. QED
  BY <1>1 DEF WorkersInv, Goto, Steps, Working

LEMMA SameWorkers ==
  ASSUME WorkersInv, UNCHANGED <<step, local>>, Latest <= Latest'
  PROVE  WorkersInv'
<1>1. Latest \in Nat /\ Latest' \in Nat
  BY LatestTyped, LatestTypedNext
<1>2. QED
  BY <1>1 DEF WorkersInv, local

-----------------------------------------------------------------------------
(* The journal                                                             *)

Keeps == JournalInv' /\ ClusterInv' /\ FinalizedIsLanded' /\ Forward

LEMMA SameJournal ==
  ASSUME IInv, UNCHANGED journal
  PROVE  JournalInv' /\ Latest' = Latest /\ Forward
<1>1. Latest' = Latest
  BY SameLatest DEF journal
<1>2. QED
  BY <1>1, LatestTyped DEF IInv, JournalInv, journal, Forward, Attempts

LEMMA SameCluster ==
  ASSUME IInv, UNCHANGED cluster, Latest <= Latest'
  PROVE  ClusterInv'
<1>1. Latest \in Nat /\ Latest' \in Nat
  BY LatestTyped, LatestTypedNext
<1>2. QED
  BY <1>1 DEF IInv, ClusterInv, cluster, Attempts

LEMMA SameWorld ==
  ASSUME IInv, UNCHANGED <<journal, cluster>>
  PROVE  Keeps /\ Latest <= Latest'
<1>1. JournalInv' /\ Latest' = Latest /\ Forward
  BY SameJournal
<1>2. Latest <= Latest'
  BY <1>1, LatestTyped
<1>3. FinalizedIsLanded'
  BY DEF IInv, FinalizedIsLanded, journal, cluster
<1>4. QED
  BY <1>1, <1>2, <1>3, SameCluster DEF Keeps

\* A row of the journal takes another state, and submitted_at goes with it.
LEMMA RowMoves ==
  ASSUME IInv, NEW n \in Attempts, attempt[n] # "none",
         NEW a \in AttemptStates \ {"none"},
         attempt' = [attempt EXCEPT ![n] = a],
         stamped' = IF a \in {"submitted", "finalized", "rejected"}
                    THEN stamped \cup {n} ELSE stamped \ {n},
         operation' \in [state : {"absent", "pending", "finalized", "failed"},
                        version : Nat, signature : 0 .. MaxAttempts],
         operation'.signature > 0 <=> operation'.state = "finalized"
  PROVE  JournalInv' /\ Latest' = Latest
<1>1. attempt \in [Attempts -> AttemptStates] /\ attempt' \in [Attempts -> AttemptStates]
  BY DEF IInv, JournalInv
<1>2. Attempts' = Attempts
  BY DEF Attempts
<1>3. Latest' = Latest
  BY <1>1, SameLatest
<1>4. stamped' = {m \in Attempts : attempt'[m] \in {"submitted", "finalized", "rejected"}}
  <2>1. stamped = {m \in Attempts : attempt[m] \in {"submitted", "finalized", "rejected"}}
    BY DEF IInv, JournalInv
  <2>2. \A m \in Attempts : attempt'[m] = IF m = n THEN a ELSE attempt[m]
    BY <1>1
  <2>3. QED
    BY <2>1, <2>2
<1>5. \A m \in Attempts : attempt'[m] = "none" <=> m > Latest'
  BY <1>1, <1>3 DEF IInv, JournalInv
<1>6. QED
  BY <1>1, <1>2, <1>3, <1>4, <1>5 DEF JournalInv

LEMMA FinalizingKeeps ==
  ASSUME IInv, NEW n \in Attempts, attempt[n] # "none", chain[n] = "finalized",
         markFinalized(n), UNCHANGED cluster
  PROVE  Keeps /\ Latest <= Latest'
<1>1. CASE ~MayFinalize(n)
  BY <1>1, SameWorld DEF markFinalized
<1>2. CASE MayFinalize(n)
  <2>1. /\ operation \in [state : {"absent", "pending", "finalized", "failed"},
                          version : Nat, signature : 0 .. MaxAttempts]
        /\ n \in 1 .. MaxAttempts /\ n > 0 /\ n \in 0 .. MaxAttempts
    BY SubmitterAssumption DEF IInv, JournalInv, Attempts
  <2>2. operation' = [state |-> "finalized", version |-> operation.version + 1,
                      signature |-> n]
    BY <1>2 DEF markFinalized
  <2>3. JournalInv' /\ Latest' = Latest
    BY <1>2, <2>1, <2>2, RowMoves DEF markFinalized, AttemptStates
  <2>4. Latest <= Latest'
    BY <2>3, LatestTyped
  <2>5. FinalizedIsLanded'
    BY <2>2 DEF FinalizedIsLanded, cluster
  <2>6. Forward
    BY <1>2, <2>2, <2>4 DEF Forward, MayFinalize
  <2>7. QED
    BY <2>3, <2>4, <2>5, <2>6, SameCluster DEF Keeps
<1>3. QED
  BY <1>1, <1>2

LEMMA RejectingKeeps ==
  ASSUME IInv, NEW n \in Attempts, attempt[n] # "none", markRejected(n),
         UNCHANGED cluster
  PROVE  Keeps /\ Latest <= Latest'
<1>1. CASE ~(Open(n) /\ operation.state = "pending")
  BY <1>1, SameWorld DEF markRejected
<1>2. CASE Open(n) /\ operation.state = "pending"
  <2>1. /\ operation \in [state : {"absent", "pending", "finalized", "failed"},
                          version : Nat, signature : 0 .. MaxAttempts]
        /\ operation.signature > 0 <=> operation.state = "finalized"
    BY DEF IInv, JournalInv
  <2>2. operation' = [operation EXCEPT !.state = "failed", !.version = @ + 1]
    BY <1>2 DEF markRejected
  <2>3. /\ operation'.state = "failed"
        /\ operation'.signature = operation.signature
        /\ operation' \in [state : {"absent", "pending", "finalized", "failed"},
                           version : Nat, signature : 0 .. MaxAttempts]
    <3>1. operation.version + 1 \in Nat
      BY <2>1
    <3>2. operation'.state = "failed" /\ operation'.signature = operation.signature
      BY <2>1, <2>2
    <3>3. operation' \in [state : {"absent", "pending", "finalized", "failed"},
                         version : Nat, signature : 0 .. MaxAttempts]
      BY <2>1, <2>2, <3>1
    <3>4. QED
      BY <3>2, <3>3
  <2>4. JournalInv' /\ Latest' = Latest
    BY <1>2, <2>1, <2>3, RowMoves DEF markRejected, AttemptStates
  <2>5. Latest <= Latest'
    BY <2>4, LatestTyped
  <2>6. FinalizedIsLanded' /\ Forward
    BY <1>2, <2>3, <2>5 DEF FinalizedIsLanded, Forward
  <2>7. QED
    BY <2>4, <2>5, <2>6, SameCluster DEF Keeps
<1>3. QED
  BY <1>1, <1>2

\* A row moves while its operation stays.
LEMMA MovingKeeps ==
  ASSUME IInv, NEW n \in Attempts, attempt[n] # "none",
         NEW a \in AttemptStates \ {"none"},
         attempt' = [attempt EXCEPT ![n] = a],
         stamped' = IF a \in {"submitted", "finalized", "rejected"}
                    THEN stamped \cup {n} ELSE stamped \ {n},
         UNCHANGED <<operation, cluster>>
  PROVE  Keeps /\ Latest <= Latest'
<1>1. JournalInv' /\ Latest' = Latest
  BY RowMoves DEF IInv, JournalInv
<1>2. Latest <= Latest'
  BY <1>1, LatestTyped
<1>3. FinalizedIsLanded' /\ Forward
  BY <1>2 DEF IInv, FinalizedIsLanded, Forward, cluster
<1>4. QED
  BY <1>1, <1>2, <1>3, SameCluster DEF Keeps

-----------------------------------------------------------------------------
(* The actions                                                             *)

Preserves == Keeps /\ WorkersInv'

LEMMA DispatchKeeps ==
  ASSUME IInv, NEW s \in Submitters, Latest # 0, Dispatch(s, Latest),
         UNCHANGED <<journal, cluster>>
  PROVE  Preserves
<1>1. Keeps /\ Latest <= Latest' /\ WorkersInv
  BY SameWorld DEF IInv
<1>2. Latest \in Attempts
  BY LatestTyped, SubmitterAssumption DEF Attempts
<1>3. CASE attempt[Latest] \in {"finalized", "rejected"}
  BY <1>1, <1>3, LeaveKeeps DEF Dispatch, Preserves
<1>4. CASE attempt[Latest] \notin {"finalized", "rejected"}
  BY <1>1, <1>2, <1>4, TakeKeeps DEF Dispatch, Preserves
<1>5. QED
  BY <1>3, <1>4

LEMMA SubmitKeeps ==
  ASSUME IInv, NEW s \in Submitters, submit(s)
  PROVE  Preserves
<1>1. /\ operation \in [state : {"absent", "pending", "finalized", "failed"},
                        version : Nat, signature : 0 .. MaxAttempts]
      /\ operation.signature > 0 <=> operation.state = "finalized"
  BY DEF IInv, JournalInv
<1>2. operation' = [operation EXCEPT !.state = "pending"]
  BY DEF submit
<1>3. /\ operation'.state = "pending" /\ operation'.signature = operation.signature
      /\ operation' \in [state : {"absent", "pending", "finalized", "failed"},
                         version : Nat, signature : 0 .. MaxAttempts]
  BY <1>1, <1>2
<1>4. Latest' = Latest /\ Latest <= Latest'
  BY SameLatest, LatestTyped DEF submit
<1>5. JournalInv'
  BY <1>1, <1>3, <1>4 DEF submit, IInv, JournalInv, Attempts
<1>6. FinalizedIsLanded' /\ Forward
  BY <1>3, <1>4 DEF submit, FinalizedIsLanded, Forward
<1>7. WorkersInv'
  BY <1>4, GotoKeeps DEF submit, IInv, Steps, Working
<1>8. QED
  BY <1>4, <1>5, <1>6, <1>7, SameCluster DEF submit, Keeps, Preserves

LEMMA LoadKeeps ==
  ASSUME IInv, NEW s \in Submitters,
         latestAttempt(s) \/ createOrLoad(s) \/ afterConflict(s)
  PROVE  Preserves
<1>1. Keeps /\ Latest <= Latest' /\ WorkersInv
  BY SameWorld DEF latestAttempt, createOrLoad, afterConflict, IInv
<1>2. CASE latestAttempt(s)
  <2>1. CASE Latest = 0 \/ attempt[Latest] = "expired"
    BY <1>1, <1>2, <2>1, GotoKeeps DEF latestAttempt, Preserves, Steps, Working
  <2>2. CASE ~(Latest = 0 \/ attempt[Latest] = "expired")
    BY <1>2, <2>2, DispatchKeeps DEF latestAttempt
  <2>3. QED
    BY <2>1, <2>2
<1>3. CASE createOrLoad(s)
  <2>1. operation.version \in Nat
    BY DEF IInv, JournalInv
  <2>2. Latest \in Nat /\ Latest' \in Nat
    BY LatestTyped, LatestTypedNext
  <2>3. WorkersInv'
    BY <1>1, <1>3, <2>1, <2>2 DEF createOrLoad, WorkersInv, Goto, Steps, Working
  <2>4. QED
    BY <1>1, <2>3 DEF Preserves
<1>4. CASE afterConflict(s)
  BY <1>1, <1>4, LeaveKeeps, DispatchKeeps DEF afterConflict, Preserves
<1>5. QED
  BY <1>2, <1>3, <1>4

LEMMA SignKeeps ==
  ASSUME IInv, NEW s \in Submitters, createSignedAttempt(s)
  PROVE  Preserves
<1>1. UNCHANGED cluster /\ WorkersInv
  BY DEF createSignedAttempt, IInv
<1>2. CASE operation.state = "pending" /\ operation.version = version[s]
           /\ Latest < MaxAttempts
  <2>1. /\ attempt' = [attempt EXCEPT ![Latest + 1] = "signed"]
        /\ operation' = [operation EXCEPT !.version = @ + 1]
        /\ Goto(s, "observe")
        /\ mine' = [mine EXCEPT ![s] = Latest + 1]
        /\ UNCHANGED <<version, fresh, stamped>>
    BY <1>2 DEF createSignedAttempt
  <2>2. Latest' = Latest + 1
    BY <1>2, <2>1, NextLatest DEF IInv
  <2>3. /\ Latest \in Nat /\ MaxAttempts \in Nat /\ Latest <= Latest'
        /\ Latest + 1 \in Attempts
    BY <1>2, <2>2, LatestTyped, SubmitterAssumption DEF Attempts
  <2>4. /\ operation \in [state : {"absent", "pending", "finalized", "failed"},
                          version : Nat, signature : 0 .. MaxAttempts]
        /\ operation.signature > 0 <=> operation.state = "finalized"
        /\ attempt \in [Attempts -> AttemptStates]
        /\ attempt[Latest + 1] = "none"
    BY <2>3 DEF IInv, JournalInv
  <2>5. /\ operation'.state = operation.state
        /\ operation'.signature = operation.signature
        /\ operation' \in [state : {"absent", "pending", "finalized", "failed"},
                           version : Nat, signature : 0 .. MaxAttempts]
    BY <2>1, <2>4
  <2>6. \A n \in Attempts : attempt'[n] = IF n = Latest + 1 THEN "signed" ELSE attempt[n]
    BY <2>1, <2>4
  <2>7. attempt' \in [Attempts -> AttemptStates]
    BY <2>1, <2>4 DEF AttemptStates
  <2>8. stamped' = {n \in Attempts : attempt'[n] \in {"submitted", "finalized", "rejected"}}
    BY <2>1, <2>4, <2>6 DEF IInv, JournalInv
  <2>9. \A n \in Attempts : attempt'[n] = "none" <=> n > Latest'
    BY <2>2, <2>3, <2>6 DEF IInv, JournalInv, Attempts
  <2>10. JournalInv'
    BY <2>4, <2>5, <2>7, <2>8, <2>9 DEF JournalInv, Attempts
  <2>11. FinalizedIsLanded' /\ Forward
    BY <1>2, <2>3, <2>5 DEF FinalizedIsLanded, Forward
  <2>12. WorkersInv'
    <3> DEFINE n == Latest + 1
    <3>1. n \in Attempts /\ n <= Latest' /\ mine' = [mine EXCEPT ![s] = n]
      BY <2>1, <2>2, <2>3
    <3> HIDE DEF n
    <3>2. QED
      BY <1>1, <2>1, <2>3, <3>1, TakeKeeps
  <2>13. QED
    BY <1>1, <2>3, <2>10, <2>11, <2>12, SameCluster DEF Keeps, Preserves
<1>3. CASE ~(operation.state = "pending" /\ operation.version = version[s]
             /\ Latest < MaxAttempts)
  <2>1. UNCHANGED journal /\ (Leave(s) \/ (Goto(s, "conflict") /\ UNCHANGED local))
    BY <1>3 DEF createSignedAttempt
  <2>2. Keeps /\ Latest <= Latest'
    BY <1>1, <2>1, SameWorld
  <2>3. QED
    BY <1>1, <2>1, <2>2, LeaveKeeps, GotoKeeps DEF Preserves, Steps, Working
<1>4. QED
  BY <1>2, <1>3

LEMMA ObserveKeeps ==
  ASSUME IInv, NEW s \in Submitters, step[s] \in Working, NEW otherwise \in Working,
         Observe(s, otherwise), UNCHANGED cluster
  PROVE  Preserves
<1> DEFINE n == mine[s]
<1>1. n \in Attempts /\ attempt[n] # "none" /\ WorkersInv
  BY MineIsInJournal DEF IInv
<1>2. CASE markRejected(n) /\ Leave(s)
  BY <1>1, <1>2, RejectingKeeps, LeaveKeeps DEF Preserves
<1>3. CASE ObservedFinal(n) /\ markFinalized(n) /\ Leave(s)
  BY <1>1, <1>3, FinalizingKeeps, LeaveKeeps DEF Preserves, ObservedFinal
<1>4. CASE Goto(s, otherwise) /\ UNCHANGED <<journal, local>>
  <2>1. Keeps /\ Latest <= Latest'
    BY <1>4, SameWorld
  <2>2. mine[s] > 0 /\ otherwise \in Steps
    BY DEF IInv, WorkersInv, Steps
  <2>3. QED
    BY <1>1, <1>4, <2>1, <2>2, GotoKeeps DEF Preserves
<1>5. QED
  BY <1>2, <1>3, <1>4 DEF Observe

LEMMA HeightKeeps ==
  ASSUME IInv, NEW s \in Submitters, getBlockHeight(s)
  PROVE  Preserves
<1> DEFINE n == mine[s]
<1>1. step[s] \in Working /\ WorkersInv
  BY DEF getBlockHeight, Working, IInv
<1>2. n \in Attempts /\ attempt[n] # "none" /\ n > 0
  BY <1>1, MineIsInJournal DEF WorkersInv
<1>3. UNCHANGED <<operation, stamped, cluster>>
  BY DEF getBlockHeight
<1>4. CASE HeightPassed(n) /\ CanExpire(n) /\ attempt' = [attempt EXCEPT ![n] = "expired"]
  <2>1. stamped' = stamped \ {n}
    BY <1>3, <1>4 DEF CanExpire, ExpiryPassesCheck
  <2>2. Keeps /\ Latest <= Latest'
    BY <1>2, <1>3, <1>4, <2>1, MovingKeeps DEF AttemptStates
  <2>3. CASE fresh[s] + 1 < FreshLimit
    <3>1. /\ Goto(s, "latest")
          /\ fresh' = [fresh EXCEPT ![s] = @ + 1]
          /\ UNCHANGED <<mine, version>>
      BY <1>4, <2>3 DEF getBlockHeight, CanExpire
    <3>2. Latest \in Nat /\ Latest' \in Nat
      BY LatestTyped, LatestTypedNext
    <3>3. WorkersInv'
      BY <1>1, <2>2, <2>3, <3>1, <3>2 DEF WorkersInv, Goto, Steps, Working
    <3>4. QED
      BY <2>2, <3>3 DEF Preserves
  <2>4. CASE ~(fresh[s] + 1 < FreshLimit)
    BY <1>1, <1>4, <2>2, <2>4, LeaveKeeps DEF getBlockHeight, Preserves
  <2>5. QED
    BY <2>3, <2>4
<1>5. CASE UNCHANGED attempt /\ (Leave(s) \/ (Goto(s, "send") /\ UNCHANGED local))
  <2>1. Keeps /\ Latest <= Latest'
    BY <1>3, <1>5, SameWorld DEF journal
  <2>2. QED
    BY <1>1, <1>2, <1>5, <2>1, LeaveKeeps, GotoKeeps DEF Preserves, Steps, Working
<1>6. QED
  BY <1>4, <1>5 DEF getBlockHeight

LEMMA MarkKeeps ==
  ASSUME IInv, NEW s \in Submitters, markSubmitted(s)
  PROVE  Preserves
<1> DEFINE n == mine[s]
<1>1. step[s] \in Working /\ WorkersInv
  BY DEF markSubmitted, Working, IInv
<1>2. n \in Attempts /\ attempt[n] # "none" /\ n > 0
  BY <1>1, MineIsInJournal DEF WorkersInv
<1>3. CASE attempt[n] \in {"signed", "submitted", "finalized"}
  <2> DEFINE a == IF attempt[n] = "signed" THEN "submitted" ELSE attempt[n]
  <2>1. a \in {"submitted", "finalized"} /\ a \in AttemptStates \ {"none"}
    BY <1>3 DEF AttemptStates
  <2>2. attempt' = [attempt EXCEPT ![n] = a]
    BY <1>2, <1>3 DEF markSubmitted, IInv, JournalInv
  <2>3. /\ stamped' = stamped \cup {n}
        /\ UNCHANGED <<operation, cluster>>
        /\ Goto(s, "confirm") /\ UNCHANGED local
    BY <1>3 DEF markSubmitted
  <2> HIDE DEF a
  <2>4. Keeps /\ Latest <= Latest'
    BY <1>2, <2>1, <2>2, <2>3, MovingKeeps
  <2>5. QED
    BY <1>1, <1>2, <2>3, <2>4, GotoKeeps DEF Preserves, Steps, Working
<1>4. CASE attempt[n] \notin {"signed", "submitted", "finalized"}
  <2>1. Keeps /\ Latest <= Latest' /\ Leave(s)
    BY <1>4, SameWorld DEF markSubmitted, journal
  <2>2. QED
    BY <1>1, <2>1, LeaveKeeps DEF Preserves
<1>5. QED
  BY <1>3, <1>4

LEMMA ConfirmKeeps ==
  ASSUME IInv, NEW s \in Submitters, confirmTransaction(s)
  PROVE  Preserves
<1> DEFINE n == mine[s]
<1>1. step[s] \in Working /\ WorkersInv /\ UNCHANGED cluster
  BY DEF confirmTransaction, Working, IInv
<1>2. n \in Attempts /\ attempt[n] # "none" /\ n > 0
  BY <1>1, MineIsInJournal DEF WorkersInv
<1>3. CASE markRejected(n) /\ Leave(s)
  BY <1>1, <1>2, <1>3, RejectingKeeps, LeaveKeeps DEF Preserves
<1>4. CASE /\ Goto(s, "observe") \/ Goto(s, "caught")
           /\ UNCHANGED <<journal, local>>
  <2>1. Keeps /\ Latest <= Latest'
    BY <1>1, <1>4, SameWorld
  <2>2. QED
    BY <1>1, <1>2, <1>4, <2>1, GotoKeeps DEF Preserves, Steps, Working
<1>5. QED
  BY <1>3, <1>4 DEF confirmTransaction

LEMMA FaultKeeps ==
  ASSUME IInv, NEW s \in Submitters, failConfirmation(s) \/ Crash(s)
  PROVE  Preserves
<1>1. Keeps /\ Latest <= Latest' /\ WorkersInv
  BY SameWorld DEF failConfirmation, Crash, IInv
<1>2. CASE failConfirmation(s)
  <2>1. mine[s] > 0
    BY <1>2 DEF failConfirmation, IInv, WorkersInv, Working
  <2>2. QED
    BY <1>1, <1>2, <2>1, GotoKeeps DEF failConfirmation, Preserves, Steps, Working
<1>3. CASE Crash(s)
  BY <1>1, <1>3, LeaveKeeps DEF Crash, Preserves
<1>4. QED
  BY <1>2, <1>3

\* Nothing finalized on the chain is ever anything else.
LEMMA ChainMoves ==
  ASSUME IInv, NEW n \in Attempts, chain[n] # "finalized", NEW c \in ChainStates,
         chain' = [chain EXCEPT ![n] = c], UNCHANGED <<journal, stale>>
  PROVE  Keeps /\ Latest <= Latest'
<1>1. JournalInv' /\ Latest' = Latest /\ Forward
  BY SameJournal
<1>2. Latest <= Latest'
  BY <1>1, LatestTyped
<1>3. ClusterInv'
  BY <1>1 DEF IInv, ClusterInv, Attempts
<1>4. FinalizedIsLanded'
  <2>1. operation.state = "finalized" =>
          operation.signature \in Attempts /\ chain[operation.signature] = "finalized"
    BY SubmitterAssumption DEF IInv, JournalInv, FinalizedIsLanded, Attempts
  <2>2. \A m \in Attempts : m # n => chain'[m] = chain[m]
    BY DEF IInv, ClusterInv
  <2>3. QED
    BY <2>1, <2>2 DEF FinalizedIsLanded, journal
<1>5. QED
  BY <1>1, <1>2, <1>3, <1>4 DEF Keeps

LEMMA SendKeeps ==
  ASSUME IInv, NEW s \in Submitters, sendRawTransaction(s)
  PROVE  Preserves
<1> DEFINE n == mine[s]
<1>1. step[s] \in Working /\ WorkersInv
  BY DEF sendRawTransaction, Working, IInv
<1>2. n \in Attempts /\ n > 0
  BY <1>1, MineIsInJournal DEF WorkersInv
<1>3. CASE Preflight(n)
  <2>1. Keeps /\ Latest <= Latest'
    BY <1>2, <1>3, ChainMoves DEF sendRawTransaction, Preflight, ChainStates
  <2>2. QED
    BY <1>1, <1>2, <1>3, <2>1, GotoKeeps DEF sendRawTransaction, Preserves, Steps, Working
<1>4. CASE ~Preflight(n)
  <2>1. Keeps /\ Latest <= Latest'
    BY <1>4, SameWorld DEF sendRawTransaction, cluster
  <2>2. QED
    BY <1>1, <1>4, <2>1, LeaveKeeps DEF sendRawTransaction, Preserves
<1>5. QED
  BY <1>3, <1>4

LEMMA ChainKeeps ==
  ASSUME IInv, NEW n \in Attempts, land(n) \/ refuse(n) \/ finalize(n) \/ fork(n) \/ passHeight(n)
  PROVE  Preserves
<1>1. UNCHANGED <<journal, step, local>> /\ WorkersInv
  BY DEF land, refuse, finalize, fork, passHeight, IInv
<1>2. CASE land(n) \/ refuse(n) \/ finalize(n) \/ fork(n)
  <2>1. PICK c \in ChainStates : chain' = [chain EXCEPT ![n] = c]
    BY <1>2 DEF land, refuse, finalize, fork, ChainStates
  <2>2. Keeps /\ Latest <= Latest'
    BY <1>2, <2>1, ChainMoves DEF land, refuse, finalize, fork
  <2>3. QED
    BY <1>1, <2>2, SameWorkers DEF Preserves
<1>3. CASE passHeight(n)
  <2>1. JournalInv' /\ Latest' = Latest /\ Forward
    BY <1>1, SameJournal
  <2>2. Latest \in Nat /\ Latest <= Latest'
    BY <2>1, LatestTyped
  <2>3. ClusterInv'
    BY <1>3, <2>1, <2>2 DEF passHeight, IInv, JournalInv, ClusterInv, Attempts
  <2>4. FinalizedIsLanded'
    BY <1>1, <1>3 DEF passHeight, IInv, FinalizedIsLanded, journal
  <2>5. QED
    BY <1>1, <2>1, <2>2, <2>3, <2>4, SameWorkers DEF Keeps, Preserves
<1>4. QED
  BY <1>2, <1>3

-----------------------------------------------------------------------------
(* The invariant is inductive                                              *)

LEMMA InitIInv == Init => IInv
<1> SUFFICES ASSUME Init PROVE IInv
  OBVIOUS
<1>1. \A n \in Attempts : attempt[n] = "none"
  BY DEF Init
<1>2. {n \in Attempts : attempt[n] # "none"} = {}
  BY <1>1
<1>3. Latest = 0
  BY <1>2, FS_EmptySet DEF Latest
<1>4. JournalInv
  BY <1>3, SubmitterAssumption DEF Init, JournalInv, Attempts, AttemptStates
<1>5. ClusterInv /\ FinalizedIsLanded
  BY <1>3 DEF Init, ClusterInv, ChainStates, FinalizedIsLanded
<1>6. WorkersInv
  BY <1>3, SubmitterAssumption DEF Init, WorkersInv, Steps, Working
<1>7. QED
  BY <1>4, <1>5, <1>6 DEF IInv

LEMMA NextKeeps ==
  ASSUME IInv, [Next]_vars
  PROVE  IInv' /\ Forward
<1>1. CASE UNCHANGED vars
  <2>1. Keeps /\ Latest <= Latest'
    BY <1>1, SameWorld DEF vars, journal, cluster
  <2>2. WorkersInv'
    BY <1>1, <2>1, SameWorkers DEF vars, local, IInv
  <2>3. QED
    BY <2>1, <2>2 DEF Keeps, IInv
<1>2. ASSUME NEW s \in Submitters,
             submit(s) \/ Call(s) \/ failConfirmation(s) \/ Crash(s)
      PROVE  Preserves
  <2>1. CASE observeSignature(s)
    BY <2>1, ObserveKeeps DEF observeSignature, Working
  <2>2. QED
    BY <1>2, <2>1, SubmitKeeps, LoadKeeps, SignKeeps, HeightKeeps, SendKeeps, MarkKeeps,
       ConfirmKeeps, FaultKeeps DEF Call
<1>3. ASSUME NEW n \in Attempts, land(n) \/ refuse(n) \/ finalize(n) \/ fork(n) \/ passHeight(n)
      PROVE  Preserves
  BY <1>3, ChainKeeps
<1>4. CASE Preserves
  BY <1>4 DEF Preserves, Keeps, IInv
<1>5. QED
  BY <1>1, <1>2, <1>3, <1>4 DEF Next, Answered

\* Everything that is claimed here of the journal, in one inductive invariant.
THEOREM Invariance == Spec => []IInv
<1>1. IInv /\ [Next]_vars => IInv'
  BY NextKeeps
<1>2. QED
  BY <1>1, InitIInv, PTL DEF Spec

-----------------------------------------------------------------------------
(* What follows                                                            *)

\* The attempts are numbered without gaps, submitted_at is set as the CHECK
\* demands, and every submitter works on a row of the journal.
THEOREM TypeCorrect == Spec => []TypeOK
<1>1. IInv => TypeOK
  BY DEF IInv, JournalInv, ClusterInv, WorkersInv, TypeOK, AttemptStates, ChainStates
<1>2. QED
  BY <1>1, Invariance, PTL

\* A finalized operation rests on a transaction that is final on the cluster,
\* for every number of submitters that race for it.
THEOREM FinalizedStaysLanded == Spec => []FinalizedIsLanded
<1>1. IInv => FinalizedIsLanded
  BY DEF IInv
<1>2. QED
  BY <1>1, Invariance, PTL

\* Finalized and failed are final: no other submitter, with whatever attempt,
\* turns one into the other.
THEOREM OutcomeStaysFinal == Spec => OutcomeIsFinal
<1>1. IInv /\ [Next]_vars =>
        [operation.state \in {"finalized", "failed"} =>
           operation'.state = operation.state]_operation
  BY NextKeeps DEF Forward
<1>2. QED
  BY <1>1, Invariance, PTL DEF Spec, OutcomeIsFinal
=============================================================================
