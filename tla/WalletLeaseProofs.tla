-------------------------- MODULE WalletLeaseProofs --------------------------
(***************************************************************************)
(* Theorems about the lease of module WalletLease, for every number of     *)
(* workers, effects of every length, every lease duration, and every bound *)
(* on delays and clocks that leaves the lease the time it needs.           *)
(***************************************************************************)
EXTENDS WalletLease, TLAPS

\* The lease lasts longer than its heartbeat takes to renew it at the slowest, by
\* the clocks that are furthest apart.
Prompt == Grace > 0

-----------------------------------------------------------------------------
(* The inductive invariant *)

\* Timers and samples are as old as the bounds allow at most, and only effects
\* in flight have an age.
Clocks ==
  \A w \in Workers :
    /\ phase[w] \in {"idle", "orphaned"} => clock[w] = 0
    /\ Calling(w) => clock[w] <= Lag
    /\ ~InFlight(w) => acted[w] = 0

\* Workers that may act under a live lease, and those that lost it no longer ago
\* than the grace that it leaves the effect they had begun.
Covered(w) ==
  \/ phase[w] \in {"running", "acting"} /\ heart[w] # "lost"
  \/ InFlight(w) /\ acted[w] < Grace

\* What the lease of a covered worker has left at least: what the last renewal
\* gave it, less what has passed since, the oldest that renewal can have been if
\* there will be no other.
Reserve(w) ==
  IF heart[w] = "waiting" THEN Duration + skew[w] - Lag - clock[w]
  ELSE IF heart[w] = "renewing"
       THEN Duration + skew[w] - 2 * Lag - HeartbeatInterval - clock[w]
       ELSE Duration + skew[w] - 3 * Lag - HeartbeatInterval - acted[w]

Kept == \A w \in Workers :
          Covered(w) => token[w] \in rows /\ left[token[w]] >= Reserve(w)

LInv == TypeOK /\ Clocks /\ OneRow /\ Kept

-----------------------------------------------------------------------------
(* Facts about the bounds *)

LEMMA Interval ==
  /\ HeartbeatInterval \in Nat
  /\ Floor \in Int
  /\ Floor = 0 - (Skew + Lag)
  BY LeaseAssumption DEF HeartbeatInterval, Floor

\* Nobody takes a covered lease for expired, whatever its clock says.
LEMMA CoveredIsLive ==
  ASSUME Prompt, LInv, NEW w \in Workers, Covered(w)
  PROVE  token[w] \in rows /\ left[token[w]] > Skew
<1>1. left[token[w]] >= Reserve(w) /\ token[w] \in rows
  BY DEF LInv, Kept
<1>2. /\ skew[w] \in Int /\ skew[w] >= -Skew
      /\ clock[w] \in Int /\ clock[w] <= HeartbeatInterval + Lag
      /\ acted[w] \in Int /\ acted[w] <= Effect /\ acted[w] >= 0
      /\ left[token[w]] \in Int
  BY <1>1, LeaseAssumption, Interval DEF LInv, TypeOK
<1>3. heart[w] = "renewing" => clock[w] <= Lag
  BY DEF LInv, Clocks, Calling
<1>4. Reserve(w) > Skew
  <2>1. CASE heart[w] \in {"waiting", "renewing"}
    BY <2>1, <1>2, <1>3, LeaseAssumption, Interval DEF Reserve, Prompt, Grace
  <2>2. CASE heart[w] \in {"lost", "stopped"}
    <3>1. acted[w] < Grace
      BY <2>2 DEF Covered, LInv, TypeOK
    <3> QED
      BY <2>2, <3>1, <1>2, LeaseAssumption, Interval DEF Reserve, Grace
  <2> QED
    BY <2>1, <2>2 DEF LInv, TypeOK
<1> QED
  BY <1>1, <1>2, <1>4, LeaseAssumption, Interval DEF Reserve

\* A sample lies within the error of the clock and the delay of the call.
LEMMA SampleBounds ==
  ASSUME LInv, NEW w \in Workers
  PROVE  /\ Sample(w) \in Int
         /\ Sample(w) <= Skew
         /\ Calling(w) => Sample(w) >= Floor
  BY LeaseAssumption, Interval DEF Sample, LInv, TypeOK, Clocks

-----------------------------------------------------------------------------
(* Each action preserves the invariant *)

LEMMA InitLInv == Init => LInv
  BY LeaseAssumption, Interval DEF Init, LInv, TypeOK, Clocks, OneRow, Kept, Covered, InFlight, Calling, Phases

LEMMA executeStep ==
  ASSUME Prompt, LInv, NEW w \in Workers, execute(w)
  PROVE  LInv'
<1> USE LeaseAssumption, Interval
<1>1. TypeOK'
  BY SampleBounds DEF LInv, execute, store, TypeOK, Phases, InFlight, Calling
<1>2. Clocks'
  BY DEF LInv, execute, store, TypeOK, Clocks, Calling, InFlight
<1>3. OneRow'
  BY CoveredIsLive, SampleBounds DEF LInv, execute, store, TypeOK, OneRow
<1>4. Kept'
  BY CoveredIsLive, SampleBounds DEF LInv, execute, store, TypeOK, Clocks, OneRow, Kept, Covered, Reserve, InFlight, Calling
<1> QED
  BY <1>1, <1>2, <1>3, <1>4 DEF LInv

LEMMA tryAcquireStep ==
  ASSUME Prompt, LInv, NEW w \in Workers, tryAcquire(w)
  PROVE  LInv'
<1> USE LeaseAssumption, Interval
<1>1. TypeOK'
  BY SampleBounds DEF LInv, tryAcquire, Expired, HasCapacity, ExpiresIn, Fresh, Delete, Sample, TypeOK, Phases, InFlight, Calling
<1>2. Clocks'
  BY DEF LInv, tryAcquire, Expired, HasCapacity, ExpiresIn, Fresh, Delete, Sample, TypeOK, Clocks, Calling, InFlight
<1>3. OneRow'
  BY CoveredIsLive, SampleBounds DEF LInv, tryAcquire, Expired, HasCapacity, ExpiresIn, Fresh, Delete, Sample, TypeOK, OneRow
<1>4. Kept'
  BY CoveredIsLive, SampleBounds DEF LInv, tryAcquire, Expired, HasCapacity, ExpiresIn, Fresh, Delete, Sample, TypeOK, Clocks, OneRow, Kept, Covered, Reserve, InFlight, Calling
<1> QED
  BY <1>1, <1>2, <1>3, <1>4 DEF LInv

LEMMA failAcquireStep ==
  ASSUME Prompt, LInv, NEW w \in Workers, failAcquire(w)
  PROVE  LInv'
<1> USE LeaseAssumption, Interval
<1>1. TypeOK'
  BY SampleBounds DEF LInv, failAcquire, Expired, HasCapacity, ExpiresIn, Fresh, Sample, Fault, store, TypeOK, Phases, InFlight, Calling
<1>2. Clocks'
  BY DEF LInv, failAcquire, Expired, HasCapacity, ExpiresIn, Fresh, Sample, Fault, store, TypeOK, Clocks, Calling, InFlight
<1>3. OneRow'
  BY CoveredIsLive, SampleBounds DEF LInv, failAcquire, Expired, HasCapacity, ExpiresIn, Fresh, Sample, Fault, store, TypeOK, OneRow
<1>4. Kept'
  BY CoveredIsLive, SampleBounds DEF LInv, failAcquire, Expired, HasCapacity, ExpiresIn, Fresh, Sample, Fault, store, TypeOK, Clocks, OneRow, Kept, Covered, Reserve, InFlight, Calling
<1> QED
  BY <1>1, <1>2, <1>3, <1>4 DEF LInv

LEMMA heartbeatStep ==
  ASSUME Prompt, LInv, NEW w \in Workers, heartbeat(w)
  PROVE  LInv'
<1> USE LeaseAssumption, Interval
<1>1. TypeOK'
  BY SampleBounds DEF LInv, heartbeat, store, TypeOK, Phases, InFlight, Calling
<1>2. Clocks'
  BY DEF LInv, heartbeat, store, TypeOK, Clocks, Calling, InFlight
<1>3. OneRow'
  BY CoveredIsLive, SampleBounds DEF LInv, heartbeat, store, TypeOK, OneRow
<1>4. Kept'
  BY CoveredIsLive, SampleBounds DEF LInv, heartbeat, store, TypeOK, Clocks, OneRow, Kept, Covered, Reserve, InFlight, Calling
<1> QED
  BY <1>1, <1>2, <1>3, <1>4 DEF LInv

LEMMA renewStep ==
  ASSUME Prompt, LInv, NEW w \in Workers, renew(w)
  PROVE  LInv'
<1> USE LeaseAssumption, Interval
<1>1. TypeOK'
  BY SampleBounds DEF LInv, renew, CanRenew, ExpiresIn, Sample, TypeOK, Phases, InFlight, Calling
<1>2. Clocks'
  BY DEF LInv, renew, CanRenew, ExpiresIn, Sample, TypeOK, Clocks, Calling, InFlight
<1>3. OneRow'
  BY CoveredIsLive, SampleBounds DEF LInv, renew, CanRenew, ExpiresIn, Sample, TypeOK, OneRow
<1>4. Kept'
  BY CoveredIsLive, SampleBounds DEF LInv, renew, CanRenew, ExpiresIn, Sample, TypeOK, Clocks, OneRow, Kept, Covered, Reserve, InFlight, Calling
<1> QED
  BY <1>1, <1>2, <1>3, <1>4 DEF LInv

LEMMA failRenewStep ==
  ASSUME Prompt, LInv, NEW w \in Workers, failRenew(w)
  PROVE  LInv'
<1> USE LeaseAssumption, Interval
<1>1. TypeOK'
  BY SampleBounds DEF LInv, failRenew, CanRenew, ExpiresIn, Sample, Fault, TypeOK, Phases, InFlight, Calling
<1>2. Clocks'
  BY DEF LInv, failRenew, CanRenew, ExpiresIn, Sample, Fault, TypeOK, Clocks, Calling, InFlight
<1>3. OneRow'
  BY CoveredIsLive, SampleBounds DEF LInv, failRenew, CanRenew, ExpiresIn, Sample, Fault, TypeOK, OneRow
<1>4. Kept'
  BY CoveredIsLive, SampleBounds DEF LInv, failRenew, CanRenew, ExpiresIn, Sample, Fault, TypeOK, Clocks, OneRow, Kept, Covered, Reserve, InFlight, Calling
<1> QED
  BY <1>1, <1>2, <1>3, <1>4 DEF LInv

LEMMA actStep ==
  ASSUME Prompt, LInv, NEW w \in Workers, act(w)
  PROVE  LInv'
<1> USE LeaseAssumption, Interval
<1>1. TypeOK'
  BY SampleBounds DEF LInv, act, store, TypeOK, Phases, InFlight, Calling
<1>2. Clocks'
  BY DEF LInv, act, store, TypeOK, Clocks, Calling, InFlight
<1>3. OneRow'
  BY CoveredIsLive, SampleBounds DEF LInv, act, store, TypeOK, OneRow
<1>4. Kept'
  BY CoveredIsLive, SampleBounds DEF LInv, act, store, TypeOK, Clocks, OneRow, Kept, Covered, Reserve, InFlight, Calling
<1> QED
  BY <1>1, <1>2, <1>3, <1>4 DEF LInv

LEMMA landedStep ==
  ASSUME Prompt, LInv, NEW w \in Workers, landed(w)
  PROVE  LInv'
<1> USE LeaseAssumption, Interval
<1>1. TypeOK'
  BY SampleBounds DEF LInv, landed, store, TypeOK, Phases, InFlight, Calling
<1>2. Clocks'
  BY DEF LInv, landed, store, TypeOK, Clocks, Calling, InFlight
<1>3. OneRow'
  BY CoveredIsLive, SampleBounds DEF LInv, landed, store, TypeOK, OneRow
<1>4. Kept'
  BY CoveredIsLive, SampleBounds DEF LInv, landed, store, TypeOK, Clocks, OneRow, Kept, Covered, Reserve, InFlight, Calling
<1> QED
  BY <1>1, <1>2, <1>3, <1>4 DEF LInv

LEMMA leaveStep ==
  ASSUME Prompt, LInv, NEW w \in Workers, leave(w)
  PROVE  LInv'
<1> USE LeaseAssumption, Interval
<1>1. TypeOK'
  BY SampleBounds DEF LInv, leave, store, TypeOK, Phases, InFlight, Calling
<1>2. Clocks'
  BY DEF LInv, leave, store, TypeOK, Clocks, Calling, InFlight
<1>3. OneRow'
  BY CoveredIsLive, SampleBounds DEF LInv, leave, store, TypeOK, OneRow
<1>4. Kept'
  BY CoveredIsLive, SampleBounds DEF LInv, leave, store, TypeOK, Clocks, OneRow, Kept, Covered, Reserve, InFlight, Calling
<1> QED
  BY <1>1, <1>2, <1>3, <1>4 DEF LInv

LEMMA releaseStep ==
  ASSUME Prompt, LInv, NEW w \in Workers, release(w)
  PROVE  LInv'
<1> USE LeaseAssumption, Interval
<1>1. TypeOK'
  BY SampleBounds DEF LInv, release, Released, Delete, Fault, store, TypeOK, Phases, InFlight, Calling
<1>2. Clocks'
  BY DEF LInv, release, Released, Delete, Fault, store, TypeOK, Clocks, Calling, InFlight
<1>3. OneRow'
  BY CoveredIsLive, SampleBounds DEF LInv, release, Released, Delete, Fault, store, TypeOK, OneRow
<1>4. Kept'
  BY CoveredIsLive, SampleBounds DEF LInv, release, Released, Delete, Fault, store, TypeOK, Clocks, OneRow, Kept, Covered, Reserve, InFlight, Calling
<1> QED
  BY <1>1, <1>2, <1>3, <1>4 DEF LInv

LEMMA CrashStep ==
  ASSUME Prompt, LInv, NEW w \in Workers, Crash(w)
  PROVE  LInv'
<1> USE LeaseAssumption, Interval
<1>1. TypeOK'
  BY SampleBounds DEF LInv, Crash, Fault, store, TypeOK, Phases, InFlight, Calling
<1>2. Clocks'
  BY DEF LInv, Crash, Fault, store, TypeOK, Clocks, Calling, InFlight
<1>3. OneRow'
  BY CoveredIsLive, SampleBounds DEF LInv, Crash, Fault, store, TypeOK, OneRow
<1>4. Kept'
  BY CoveredIsLive, SampleBounds DEF LInv, Crash, Fault, store, TypeOK, Clocks, OneRow, Kept, Covered, Reserve, InFlight, Calling
<1> QED
  BY <1>1, <1>2, <1>3, <1>4 DEF LInv

\* Time takes as much from a lease as it adds to the clock its reserve counts.
LEMMA TickStep ==
  ASSUME Prompt, LInv, Tick
  PROVE  LInv'
<1> USE LeaseAssumption, Interval
<1>1. TypeOK'
  BY DEF LInv, Tick, TypeOK, Phases, InFlight, Calling, Sleeping
<1>2. Clocks'
  BY DEF LInv, Tick, TypeOK, Clocks, Calling, Sleeping, InFlight
<1>3. OneRow'
  BY DEF LInv, Tick, OneRow
<1>4. ASSUME NEW w \in Workers, Covered(w)'
      PROVE  (token[w] \in rows /\ left[token[w]] >= Reserve(w))'
  <2>1. Covered(w) /\ token[w] \in rows /\ left[token[w]] >= Reserve(w)
    <3>1. Grace' = Grace /\ Grace \in Int
      BY DEF Grace
    <3>2. InFlight(w) => acted'[w] = acted[w] + 1 /\ acted[w] \in Int
      BY DEF Tick, LInv, TypeOK
    <3>3. phase' = phase /\ heart' = heart
      BY DEF Tick
    <3>4. Covered(w)
      BY <1>4, <3>1, <3>2, <3>3 DEF Covered, InFlight
    <3> QED
      BY <3>4 DEF LInv, Kept
  <2>2. left[token[w]] > Floor
    BY <2>1, CoveredIsLive DEF LInv, TypeOK
  <2>3. left'[token[w]] = left[token[w]] - 1
    BY <2>1, <2>2 DEF Tick, LInv, TypeOK
  <2>4. Reserve(w)' <= Reserve(w) - 1
    BY <2>1 DEF Tick, Reserve, Covered, Calling, Sleeping, InFlight, LInv, TypeOK
  <2> QED
    BY <2>1, <2>3, <2>4 DEF Tick, LInv, TypeOK, Reserve
<1> QED
  BY <1>1, <1>2, <1>3, <1>4 DEF LInv, Kept

LEMMA StutterStep ==
  ASSUME LInv, UNCHANGED vars
  PROVE  LInv'
  BY DEF LInv, vars, store, TypeOK, Clocks, OneRow, Kept, Covered, Reserve, InFlight, Calling

LEMMA NextLInv ==
  ASSUME Prompt, LInv, [Next]_vars
  PROVE  LInv'
<1>1. CASE Tick
  BY <1>1, TickStep
<1>2. ASSUME NEW w \in Workers, Step(w) \/ failAcquire(w) \/ failRenew(w) \/ Crash(w)
      PROVE  LInv'
  BY <1>2, executeStep, tryAcquireStep, failAcquireStep, heartbeatStep, renewStep,
     failRenewStep, actStep, landedStep, leaveStep, releaseStep, CrashStep DEF Step
<1>3. CASE UNCHANGED vars
  BY <1>3, StutterStep
<1> QED
  BY <1>1, <1>2, <1>3 DEF Next

-----------------------------------------------------------------------------
(* The theorems *)

LEMMA Invariance ==
  ASSUME Prompt
  PROVE  Spec => []LInv
<1>1. LInv /\ [Next]_vars => LInv'
  BY NextLInv
<1> QED
  BY <1>1, InitLInv, PTL DEF Spec

\* Whatever calls fail and whoever crashes, the store and the workers agree on
\* who holds what, and no lease is longer than one renewal makes it.
THEOREM TypeCorrect ==
  ASSUME Prompt
  PROVE  Spec => []TypeOK
<1>1. LInv => TypeOK
  BY DEF LInv
<1> QED
  BY <1>1, Invariance, PTL

\* tryAcquire never leaves two leases in the store.
THEOREM WalletHasOneLease ==
  ASSUME Prompt
  PROVE  Spec => []OneRow
<1>1. LInv => OneRow
  BY DEF LInv
<1> QED
  BY <1>1, Invariance, PTL

\* The lease of a worker that may still act is never taken from it, by a rival
\* with a fast clock or by the late release of a former holder.
THEOREM LeaseOutlastsItsHolder ==
  ASSUME Prompt
  PROVE  Spec => []HolderKeepsRow
<1>1. LInv => HolderKeepsRow
  BY CoveredIsLive DEF HolderKeepsRow, Covered, InFlight
<1> QED
  BY <1>1, Invariance, PTL

\* However long effects take, those of aborted and of crashed workers included,
\* an effect meets another on the wallet only after the grace of a lost lease.
THEOREM OverlapsAreOverruns ==
  ASSUME Prompt
  PROVE  Spec => []OnlyOverrunsOverlap
<1>1. ASSUME LInv PROVE OnlyOverrunsOverlap
  <2>1. SUFFICES ASSUME NEW w \in Workers, NEW v \in Workers,
                        InFlight(w), InFlight(v), w # v
                 PROVE  \E u \in {w, v} : heart[u] \in {"lost", "stopped"} /\ acted[u] >= Grace
    BY DEF OnlyOverrunsOverlap
  <2>2. ~(Covered(w) /\ Covered(v))
    <3>1. Covered(w) /\ Covered(v) => token[w] = token[v]
      BY <1>1 DEF LInv, Kept, OneRow
    <3>2. token[w] # token[v] \/ token[w] = None
      BY <1>1, <2>1 DEF LInv, TypeOK
    <3>3. token[w] # None
      BY <1>1, <2>1 DEF LInv, TypeOK, InFlight
    <3> QED
      BY <3>1, <3>2, <3>3
  <2>3. ASSUME NEW u \in Workers, InFlight(u), ~Covered(u)
        PROVE  heart[u] \in {"lost", "stopped"} /\ acted[u] >= Grace
    <3>1. acted[u] \in Int /\ Grace \in Int
      BY <1>1, LeaseAssumption, Interval DEF LInv, TypeOK, Grace
    <3> QED
      BY <1>1, <2>3, <3>1 DEF Covered, InFlight, LInv, TypeOK, Phases
  <2> QED
    BY <2>1, <2>2, <2>3
<1> QED
  BY <1>1, Invariance, PTL
=============================================================================
