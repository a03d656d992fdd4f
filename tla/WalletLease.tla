---------------------------- MODULE WalletLease ----------------------------
(***************************************************************************)
(* The exclusive lease of one execution wallet: the rows that              *)
(* PostgresWalletOperationLeaseStore keeps for it, and the workers that    *)
(* WalletExecutionCoordinator.execute lets act on it, each with a          *)
(* heartbeat that renews its row and aborts it when a renewal fails.       *)
(*                                                                         *)
(* Time is discrete.  Every instant the store compares or writes is a      *)
(* `new Date()` that a worker sampled before the call, so it is off by the *)
(* worker's clock and by the age of the sample.                            *)
(***************************************************************************)
EXTENDS Integers, FiniteSets

CONSTANTS
  Workers,   \* processes with an operation for the wallet
  Tokens,    \* lease tokens
  None,      \* no token
  Duration,  \* leaseDurationMs
  Lag,       \* longest delay of a timer, or from a sample to the answer of its call
  Skew,      \* largest error of a clock
  Effect,    \* longest external effect between two looks at the signal
  MaxFaults  \* bound on crashes and failed calls

ASSUME LeaseAssumption ==
  /\ None \notin Tokens
  /\ Duration \in Nat \ {0}
  /\ Lag \in Nat /\ Skew \in Nat /\ Effect \in Nat

VARIABLES
  rows,   \* tokens in wallet_operation_leases
  left,   \* time until the expires_at of each row, by the true clock
  skew,   \* error of each worker's clock
  phase,  \* where each worker stands in execute
  token,  \* the lease it holds, or under which its orphaned effect began
  heart,  \* its heartbeat
  clock,  \* age of its timer, or of the sample of the call it makes
  acted,  \* for how long its effect has been in flight
  faults

vars == <<rows, left, skew, phase, token, heart, clock, acted, faults>>

store == <<rows, left>>

\* A crashed worker leaves its effect "orphaned" at the provider.
Phases == {"idle", "acquiring", "running", "acting", "leaving", "orphaned"}

\* The heartbeat sleeps for the whole lease.
HeartbeatInterval_WholeLease == Duration

HeartbeatInterval == Duration \div 3

\* An instant at which every clock agrees that a row has expired.
Floor == 0 - (Skew + Lag)

Init ==
  /\ rows = {}
  /\ left = [t \in Tokens |-> 0]
  /\ skew \in [Workers -> -Skew .. Skew]
  /\ phase = [w \in Workers |-> "idle"]
  /\ token = [w \in Workers |-> None]
  /\ heart = [w \in Workers |-> "stopped"]
  /\ clock = [w \in Workers |-> 0]
  /\ acted = [w \in Workers |-> 0]
  /\ faults = 0

Fault == faults < MaxFaults /\ faults' = faults + 1

InFlight(w) == phase[w] \in {"acting", "orphaned"}

\* The instant that w sampled, from now.
Sample(w) == skew[w] - clock[w]

-----------------------------------------------------------------------------
(* The store *)

\* Expired rows are left where they are.
Expired_None(w) == {}

Expired(w) == {t \in rows : left[t] <= Sample(w)}

\* The capacity of a live wallet is one.
HasCapacity(w) == \A t \in rows : left[t] <= Sample(w)

\* The lease is extended from the moment at which it would have expired.
ExpiresIn_FromExpiry(w, t) == IF t \in rows THEN left[t] + Duration ELSE Sample(w) + Duration

ExpiresIn(w, t) == Sample(w) + Duration

Released(w) == rows \cap {token[w]}

Delete(gone) ==
  /\ rows' = rows \ gone
  /\ left' = [t \in Tokens |-> IF t \in gone THEN 0 ELSE left[t]]

Fresh == {t \in Tokens : t \notin rows /\ \A w \in Workers : token[w] # t}

-----------------------------------------------------------------------------
(* WalletExecutionCoordinator.execute *)

execute(w) ==
  /\ phase[w] = "idle"
  /\ phase' = [phase EXCEPT ![w] = "acquiring"]
  /\ UNCHANGED <<store, skew, token, heart, clock, acted, faults>>

\* The lease is taken, or the wallet is at capacity.
tryAcquire(w) ==
  /\ phase[w] = "acquiring"
  /\ IF HasCapacity(w)
     THEN \E t \in Fresh :
            /\ rows' = (rows \ Expired(w)) \cup {t}
            /\ left' = [u \in Tokens |-> IF u = t THEN ExpiresIn(w, t)
                                         ELSE IF u \in Expired(w) THEN 0 ELSE left[u]]
            /\ phase' = [phase EXCEPT ![w] = "running"]
            /\ token' = [token EXCEPT ![w] = t]
            /\ heart' = [heart EXCEPT ![w] = "waiting"]
     ELSE /\ Delete(Expired(w))
          /\ phase' = [phase EXCEPT ![w] = "idle"]
          /\ UNCHANGED <<token, heart>>
  /\ clock' = [clock EXCEPT ![w] = 0]
  /\ UNCHANGED <<skew, acted, faults>>

\* The transaction fails, whether or not it has been committed.
failAcquire(w) ==
  /\ phase[w] = "acquiring"
  /\ Fault
  /\ \/ UNCHANGED store
     \/ /\ HasCapacity(w)
        /\ \E t \in Fresh :
             /\ rows' = (rows \ Expired(w)) \cup {t}
             /\ left' = [u \in Tokens |-> IF u = t THEN ExpiresIn(w, t)
                                          ELSE IF u \in Expired(w) THEN 0 ELSE left[u]]
  /\ phase' = [phase EXCEPT ![w] = "idle"]
  /\ clock' = [clock EXCEPT ![w] = 0]
  /\ UNCHANGED <<skew, token, heart, acted>>

heartbeat(w) ==
  /\ heart[w] = "waiting"
  /\ phase[w] # "leaving"
  /\ clock[w] >= HeartbeatInterval
  /\ heart' = [heart EXCEPT ![w] = "renewing"]
  /\ clock' = [clock EXCEPT ![w] = 0]
  /\ UNCHANGED <<store, skew, phase, token, acted, faults>>

CanRenew(w) == token[w] \in rows /\ left[token[w]] > Sample(w)

\* A row that has gone, or has expired, is a lost lease: the signal is aborted.
renew(w) ==
  /\ heart[w] = "renewing"
  /\ IF CanRenew(w)
     THEN /\ left' = [left EXCEPT ![token[w]] = ExpiresIn(w, token[w])]
          /\ heart' = [heart EXCEPT ![w] = "waiting"]
     ELSE heart' = [heart EXCEPT ![w] = "lost"] /\ UNCHANGED left
  /\ clock' = [clock EXCEPT ![w] = 0]
  /\ UNCHANGED <<rows, skew, phase, token, acted, faults>>

\* One failed call is a lost lease too, whether or not it has been committed.
failRenew(w) ==
  /\ heart[w] = "renewing"
  /\ Fault
  /\ \/ UNCHANGED left
     \/ CanRenew(w) /\ left' = [left EXCEPT ![token[w]] = ExpiresIn(w, token[w])]
  /\ heart' = [heart EXCEPT ![w] = "lost"]
  /\ clock' = [clock EXCEPT ![w] = 0]
  /\ UNCHANGED <<rows, skew, phase, token, acted>>

\* assertLeaseActive, and the effect that follows it.
act(w) ==
  /\ phase[w] = "running"
  /\ heart[w] # "lost"
  /\ phase' = [phase EXCEPT ![w] = "acting"]
  /\ UNCHANGED <<store, skew, token, heart, clock, acted, faults>>

\* The effect lands: nothing stops it before.
landed(w) ==
  /\ InFlight(w)
  /\ IF phase[w] = "acting"
     THEN phase' = [phase EXCEPT ![w] = "running"] /\ UNCHANGED token
     ELSE phase' = [phase EXCEPT ![w] = "idle"] /\ token' = [token EXCEPT ![w] = None]
  /\ acted' = [acted EXCEPT ![w] = 0]
  /\ UNCHANGED <<store, skew, heart, clock, faults>>

\* The operation has returned or thrown, and stops a heartbeat that sleeps.
leave(w) ==
  /\ phase[w] = "running"
  /\ phase' = [phase EXCEPT ![w] = "leaving"]
  /\ UNCHANGED <<store, skew, token, heart, clock, acted, faults>>

\* A renewal under way is awaited first; a failed release is ignored.
release(w) ==
  /\ phase[w] = "leaving"
  /\ heart[w] # "renewing"
  /\ \/ Delete(Released(w)) /\ UNCHANGED faults
     \/ Fault /\ UNCHANGED store
  /\ phase' = [phase EXCEPT ![w] = "idle"]
  /\ token' = [token EXCEPT ![w] = None]
  /\ heart' = [heart EXCEPT ![w] = "stopped"]
  /\ clock' = [clock EXCEPT ![w] = 0]
  /\ UNCHANGED <<skew, acted>>

Crash(w) ==
  /\ phase[w] \in {"running", "acting", "leaving"}
  /\ Fault
  /\ IF phase[w] = "acting"
     THEN phase' = [phase EXCEPT ![w] = "orphaned"] /\ UNCHANGED token
     ELSE phase' = [phase EXCEPT ![w] = "idle"] /\ token' = [token EXCEPT ![w] = None]
  /\ heart' = [heart EXCEPT ![w] = "stopped"]
  /\ clock' = [clock EXCEPT ![w] = 0]
  /\ UNCHANGED <<store, skew, acted>>

-----------------------------------------------------------------------------
(* Time *)

Calling(w)  == phase[w] = "acquiring" \/ heart[w] = "renewing"
Sleeping(w) == heart[w] = "waiting" /\ phase[w] # "leaving"

\* Calls, timers and effects keep their bounds.
Tick ==
  /\ \A w \in Workers :
       /\ Calling(w) => clock[w] < Lag
       /\ Sleeping(w) => clock[w] < HeartbeatInterval + Lag
       /\ InFlight(w) => acted[w] < Effect
  /\ left' = [t \in Tokens |-> IF t \in rows /\ left[t] > Floor THEN left[t] - 1 ELSE left[t]]
  /\ clock' = [w \in Workers |-> IF Calling(w) \/ Sleeping(w) THEN clock[w] + 1 ELSE clock[w]]
  /\ acted' = [w \in Workers |-> IF InFlight(w) THEN acted[w] + 1 ELSE acted[w]]
  /\ UNCHANGED <<rows, skew, phase, token, heart, faults>>

Step(w) ==
  \/ execute(w) \/ tryAcquire(w) \/ heartbeat(w) \/ renew(w)
  \/ act(w) \/ landed(w) \/ leave(w) \/ release(w)

Next ==
  \/ Tick
  \/ \E w \in Workers : Step(w) \/ failAcquire(w) \/ failRenew(w) \/ Crash(w)

Spec == Init /\ [][Next]_vars

\* Workers try again while they have an operation, and answers arrive.
FairSpec ==
  /\ Spec
  /\ WF_vars(Tick)
  /\ \A w \in Workers :
       /\ WF_vars(execute(w)) /\ WF_vars(tryAcquire(w))
       /\ WF_vars(heartbeat(w)) /\ WF_vars(renew(w))
       /\ WF_vars(landed(w)) /\ WF_vars(leave(w)) /\ WF_vars(release(w))

-----------------------------------------------------------------------------
(* Properties *)

\* A worker has a token exactly while it or its effect runs under a lease, no two
\* have the same one, and a lease never lasts longer than one renewal makes it.
TypeOK ==
  /\ rows \subseteq Tokens
  /\ left \in [Tokens -> Floor .. Duration + Skew]
  /\ skew \in [Workers -> -Skew .. Skew]
  /\ phase \in [Workers -> Phases]
  /\ token \in [Workers -> Tokens \cup {None}]
  /\ heart \in [Workers -> {"stopped", "waiting", "renewing", "lost"}]
  /\ clock \in [Workers -> 0 .. HeartbeatInterval + Lag]
  /\ acted \in [Workers -> 0 .. Effect]
  /\ \A w \in Workers :
       /\ token[w] # None <=> phase[w] \in {"running", "acting", "leaving", "orphaned"}
       /\ heart[w] # "stopped" <=> phase[w] \in {"running", "acting", "leaving"}
  /\ \A w, v \in Workers : w # v => token[w] # token[v] \/ token[w] = None

\* A wallet has one lease at most.
OneRow == \A t, u \in rows : t = u

\* How long an effect that goes on after its lease was lost is still covered by
\* it: a heartbeat's sleep, the delays of the sample before it, of its timer and
\* of its call, and two clocks at their worst, short of the whole lease.
Grace == Duration - HeartbeatInterval - 3 * Lag - 2 * Skew

\* However long effects take, two are in flight on the wallet at once only when
\* one of them has outlived its lease: its worker was aborted or has crashed, and
\* it has been in flight for the grace of the lease.
OnlyOverrunsOverlap ==
  \A w, v \in Workers :
    InFlight(w) /\ InFlight(v) /\ w # v =>
      \E u \in {w, v} : heart[u] \in {"lost", "stopped"} /\ acted[u] >= Grace

\* The lease of a worker that may still act is in the store and live by every
\* clock: no rival takes it, and no late release of a former holder removes it.
HolderKeepsRow ==
  \A w \in Workers :
    phase[w] \in {"running", "acting"} /\ heart[w] # "lost" =>
      token[w] \in rows /\ left[token[w]] > Skew

\* A wallet never stays blocked: a lease whose holder is gone leaves the store.
WalletIsFreed ==
  \A t \in Tokens :
    (t \in rows /\ \A w \in Workers : token[w] # t) ~> (t \notin rows)

=============================================================================
