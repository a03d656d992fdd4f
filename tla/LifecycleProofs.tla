-------------------------- MODULE LifecycleProofs --------------------------
(***************************************************************************)
(* Theorems about the share registry of module Escrow and about the        *)
(* lifecycle runs of module Lifecycle above it, for every number of users, *)
(* callers and runs, and every rate and bound their assumptions allow.     *)
(*                                                                         *)
(* First the registry: lemmas about its arithmetic and about sums over its *)
(* positions, one invariant per promise, each preserved by every handler   *)
(* with any arguments, and the theorems of Spec.  Then the runs: the       *)
(* registry sees only its own handlers, so its promises hold under         *)
(* LifecycleSpec too; after that what the runs themselves keep.            *)
(***************************************************************************)
EXTENDS Lifecycle, FiniteSetTheorems, WellFoundedInduction, TLAPS

-----------------------------------------------------------------------------
(* Integer division: the facts the rounding of math.rs rests on *)

\* The floor of a quotient is the natural number q with q d <= n < (q + 1) d.
LEMMA FloorDivision ==
  ASSUME NEW n \in Nat, NEW d \in Nat \ {0}
  PROVE  /\ n \div d \in Nat
         /\ (n \div d) * d <= n
         /\ n < (n \div d + 1) * d
  OBVIOUS

\* Products of naturals are naturals, and grow with their factors.
LEMMA ProductBounds ==
  ASSUME NEW a \in Nat, NEW b \in Nat, NEW c \in Nat, a <= b
  PROVE  /\ a * c \in Nat
         /\ a * c <= b * c
  OBVIOUS

\* A weighted average of two timestamps, rounded down, lies between them.
LEMMA WeightedAverage ==
  ASSUME NEW s \in Nat, NEW t \in Nat, s <= t,
         NEW x \in Nat \ {0}, NEW y \in Nat \ {0}
  PROVE  /\ (s * x + t * y) \div (x + y) \in Nat
         /\ s <= (s * x + t * y) \div (x + y)
         /\ (s * x + t * y) \div (x + y) <= t
<1> DEFINE n == s * x + t * y
           d == x + y
           q == n \div d
<1>1. n \in Nat /\ d \in Nat \ {0}
  OBVIOUS
<1> HIDE DEF n, d
<1>2. q \in Nat /\ q * d <= n /\ n < (q + 1) * d
  BY <1>1, FloorDivision
<1> HIDE DEF q
<1>3. s * d <= n /\ n <= t * d
  <2>1. s * y <= t * y /\ s * x <= t * x
    OBVIOUS
  <2>2. s * d = s * x + s * y /\ t * d = t * x + t * y
    BY DEF d
  <2>3. s * x \in Nat /\ s * y \in Nat /\ t * x \in Nat /\ t * y \in Nat
    OBVIOUS
  <2>4. QED
    BY <2>1, <2>2, <2>3 DEF n
<1>4. s <= q
  <2>1. SUFFICES ASSUME q + 1 <= s PROVE FALSE
    BY <1>2
  <2>2. (q + 1) * d <= s * d
    BY <1>1, <1>2, <2>1
  <2>3. QED
    BY <1>1, <1>2, <1>3, <2>2
<1>5. q <= t
  <2>1. SUFFICES ASSUME t + 1 <= q PROVE FALSE
    BY <1>2
  <2>2. (t + 1) * d <= q * d
    BY <1>1, <1>2, <2>1
  <2>3. (t + 1) * d = t * d + d
    BY <1>1
  <2>4. QED
    BY <1>1, <1>2, <1>3, <2>2, <2>3
<1>6. QED
  BY <1>2, <1>4, <1>5 DEF q, n, d

-----------------------------------------------------------------------------
(* Sums over a finite set.  MapThenSumSet recurses over the subsets of its *)
(* set; what it computes follows from the least counterexample, because    *)
(* strict inclusion is well-founded on the subsets of a finite set.        *)

\* Among finitely many elements, a nonempty family of subsets has a smallest one.
LEMMA SmallestSubset ==
  ASSUME NEW S, IsFiniteSet(S), NEW F, F \subseteq SUBSET S, F # {}
  PROVE  \E T \in F : \A R \in F : R \subseteq T => R = T
<1>1. IsWellFoundedOn(StrictSubsetOrdering(S), SUBSET S)
  BY FS_StrictSubsetOrderingWellFounded, FS_FiniteSubsetsOfFinite
<1>2. \E T \in F : \A R \in F : <<R, T>> \notin StrictSubsetOrdering(S)
  BY <1>1, WFMin
<1>3. QED
  BY <1>2 DEF StrictSubsetOrdering

SumOf(w, S) == MapThenSumSet(LAMBDA x : w[x], S)

Pick(T) == CHOOSE x \in T : TRUE

Summand(w, g, T) == IF T = {} THEN 0 ELSE w[Pick(T)] + g[T \ {Pick(T)}]

\* g holds the sums of w over all subsets of S.
Sums(w, g, S) == g = [T \in SUBSET S |-> Summand(w, g, T)]

LEMMA Picked ==
  ASSUME NEW T, T # {}
  PROVE  Pick(T) \in T /\ T \ {Pick(T)} \subseteq T /\ T \ {Pick(T)} # T
<1>1. Pick(T) \in T
  BY DEF Pick
<1>2. QED
  BY <1>1

LEMMA SumsAreUnique ==
  ASSUME NEW w, NEW S, IsFiniteSet(S), NEW R, NEW g, NEW h,
         Sums(w, g, S), Sums(w, h, R)
  PROVE  \A T \in SUBSET (S \cap R) : g[T] = h[T]
<1> DEFINE F == {T \in SUBSET (S \cap R) : g[T] # h[T]}
<1>1. SUFFICES ASSUME F # {} PROVE FALSE
  OBVIOUS
<1>2. PICK T \in F : \A Q \in F : Q \subseteq T => Q = T
  <2>1. F \subseteq SUBSET (S \cap R)
    OBVIOUS
  <2>2. IsFiniteSet(S \cap R)
    BY FS_Intersection
  <2> HIDE DEF F
  <2>3. QED
    BY <1>1, <2>1, <2>2, SmallestSubset
<1>3. T \in SUBSET S /\ T \in SUBSET R /\ g[T] # h[T]
  BY <1>2
<1>4. g[T] = Summand(w, g, T) /\ h[T] = Summand(w, h, T)
  BY <1>3 DEF Sums
<1>5. T # {}
  BY <1>3, <1>4 DEF Summand
<1>6. T \ {Pick(T)} \notin F
  BY <1>2, <1>5, Picked
<1>7. g[T \ {Pick(T)}] = h[T \ {Pick(T)}]
  BY <1>3, <1>6
<1>8. QED
  BY <1>3, <1>4, <1>5, <1>7 DEF Summand

LEMMA SumsExist ==
  ASSUME NEW w, NEW S, IsFiniteSet(S)
  PROVE  \E g : Sums(w, g, S)
<1> DEFINE F == {T \in SUBSET S : ~ \E g : Sums(w, g, T)}
<1>1. SUFFICES ASSUME F # {} PROVE FALSE
  OBVIOUS
<1>2. PICK T \in F : \A Q \in F : Q \subseteq T => Q = T
  <2>1. F \subseteq SUBSET S
    OBVIOUS
  <2> HIDE DEF F
  <2>3. QED
    BY <1>1, <2>1, SmallestSubset
<1>3. T \in SUBSET S /\ ~ \E g : Sums(w, g, T)
  BY <1>2
<1> DEFINE below(Q) == CHOOSE g : Sums(w, g, Q)
<1>4. \A Q \in SUBSET T : Q # T => Sums(w, below(Q), Q)
  BY <1>2, <1>3
<1> DEFINE rest == T \ {Pick(T)}
           top == IF T = {} THEN 0 ELSE w[Pick(T)] + below(rest)[rest]
           g == [Q \in SUBSET T |-> IF Q = T THEN top ELSE below(Q)[Q]]
<1> HIDE DEF below, top
<1>5. ASSUME NEW Q \in SUBSET T
      PROVE  g[Q] = Summand(w, g, Q)
  <2>1. CASE Q = T /\ T = {}
    BY <2>1 DEF Summand, top
  <2>2. CASE Q = T /\ T # {}
    <3>1. rest \in SUBSET T /\ rest # T
      BY <2>2, Picked
    <3>2. g[Q] = top /\ g[rest] = below(rest)[rest]
      BY <2>2, <3>1
    <3>3. QED
      BY <2>2, <3>2 DEF Summand, top
  <2>3. CASE Q # T
    <3>1. Sums(w, below(Q), Q) /\ g[Q] = below(Q)[Q]
      BY <1>4, <2>3
    <3>2. below(Q)[Q] = Summand(w, below(Q), Q)
      BY <3>1 DEF Sums
    <3>3. CASE Q = {}
      BY <3>1, <3>2, <3>3 DEF Summand
    <3>4. CASE Q # {}
      <4> DEFINE less == Q \ {Pick(Q)}
      <4>1. less \in SUBSET Q /\ less \in SUBSET T /\ less # T
        BY <3>4, Picked
      <4> HIDE DEF less
      <4>2. Sums(w, below(less), less)
        BY <1>4, <4>1
      <4>3. IsFiniteSet(Q)
        BY <1>3, FS_Subset
      <4>4. \A R \in SUBSET (Q \cap less) : below(Q)[R] = below(less)[R]
        BY <3>1, <4>2, <4>3, SumsAreUnique
      <4>5. below(Q)[less] = below(less)[less]
        BY <4>1, <4>4
      <4>6. g[less] = below(less)[less]
        BY <4>1
      <4>7. QED
        BY <3>1, <3>2, <3>4, <4>5, <4>6 DEF Summand, less
    <3>5. QED
      BY <3>3, <3>4
  <2>4. QED
    BY <2>1, <2>2, <2>3
<1>6. g = [Q \in SUBSET T |-> Summand(w, g, Q)]
  BY <1>5
<1> HIDE DEF g
<1>7. Sums(w, g, T)
  BY <1>6 DEF Sums
<1>8. QED
  BY <1>3, <1>7

\* The library's sum is the value at S of the sums over the subsets of S.
LEMMA SumOfIsItsSums ==
  ASSUME NEW w, NEW S, IsFiniteSet(S)
  PROVE  \E g : Sums(w, g, S) /\ SumOf(w, S) = g[S]
<1> DEFINE g == CHOOSE h : h = [T \in SUBSET S |->
                    IF T = {} THEN 0
                    ELSE w[CHOOSE x \in T : TRUE]
                           + h[T \ {CHOOSE x \in T : TRUE}]]
<1>1. g = [T \in SUBSET S |->
             IF T = {} THEN 0
             ELSE w[CHOOSE x \in T : TRUE] + g[T \ {CHOOSE x \in T : TRUE}]]
  <2>1. PICK h : Sums(w, h, S)
    BY SumsExist
  <2>2. h = [T \in SUBSET S |->
               IF T = {} THEN 0
               ELSE w[CHOOSE x \in T : TRUE] + h[T \ {CHOOSE x \in T : TRUE}]]
    BY <2>1 DEF Sums, Summand, Pick
  <2>3. QED
    BY <2>2
<1>2. Sums(w, g, S)
  BY <1>1 DEF Sums, Summand, Pick
<1>3. SumOf(w, S) = g[S]
  BY DEF SumOf, MapThenSumSet, MapThenFoldSet
<1>4. QED
  BY <1>2, <1>3

LEMMA SumOfEmpty ==
  ASSUME NEW w
  PROVE  SumOf(w, {}) = 0
<1>1. PICK g : Sums(w, g, {}) /\ SumOf(w, {}) = g[{}]
  BY SumOfIsItsSums, FS_EmptySet
<1>2. QED
  BY <1>1 DEF Sums, Summand

LEMMA SumUnfolds ==
  ASSUME NEW w, NEW S, IsFiniteSet(S), S # {}
  PROVE  SumOf(w, S) = w[Pick(S)] + SumOf(w, S \ {Pick(S)})
<1> DEFINE R == S \ {Pick(S)}
<1>1. R \in SUBSET S
  OBVIOUS
<1>2. IsFiniteSet(R)
  BY <1>1, FS_Subset
<1>3. PICK g : Sums(w, g, S) /\ SumOf(w, S) = g[S]
  BY SumOfIsItsSums
<1>4. g[S] = w[Pick(S)] + g[R]
  <2>1. g[S] = Summand(w, g, S)
    BY <1>3 DEF Sums
  <2>2. QED
    BY <2>1 DEF Summand
<1> HIDE DEF R
<1>5. PICK h : Sums(w, h, R) /\ SumOf(w, R) = h[R]
  BY <1>2, SumOfIsItsSums
<1>6. \A T \in SUBSET (S \cap R) : g[T] = h[T]
  BY <1>3, <1>5, SumsAreUnique
<1>7. g[R] = h[R]
  BY <1>1, <1>6
<1>8. QED
  BY <1>3, <1>4, <1>5, <1>7 DEF R

LEMMA SumTyped ==
  ASSUME NEW w, NEW S, IsFiniteSet(S), \A x \in S : w[x] \in Int
  PROVE  SumOf(w, S) \in Int
<1> DEFINE F == {T \in SUBSET S : SumOf(w, T) \notin Int}
<1>1. SUFFICES ASSUME F # {} PROVE FALSE
  OBVIOUS
<1>2. PICK T \in F : \A Q \in F : Q \subseteq T => Q = T
  <2>1. F \subseteq SUBSET S
    OBVIOUS
  <2> HIDE DEF F
  <2>3. QED
    BY <1>1, <2>1, SmallestSubset
<1>3. T \in SUBSET S /\ SumOf(w, T) \notin Int
  BY <1>2
<1>4. T # {}
  BY <1>3, SumOfEmpty
<1>5. IsFiniteSet(T)
  BY <1>3, FS_Subset
<1>6. SumOf(w, T) = w[Pick(T)] + SumOf(w, T \ {Pick(T)})
  BY <1>4, <1>5, SumUnfolds
<1>7. T \ {Pick(T)} \notin F
  BY <1>2, <1>4, Picked
<1>8. SumOf(w, T \ {Pick(T)}) \in Int /\ w[Pick(T)] \in Int
  BY <1>3, <1>4, <1>7, Picked
<1>9. QED
  BY <1>3, <1>6, <1>8

\* Two sums whose terms are ordered, one by one, after scaling each side.
LEMMA ScaledSums ==
  ASSUME NEW w, NEW v, NEW S, IsFiniteSet(S), NEW k \in Nat, NEW c \in Nat,
         \A x \in S : w[x] \in Int /\ v[x] \in Int /\ w[x] * k <= c * v[x]
  PROVE  SumOf(w, S) * k <= c * SumOf(v, S)
<1> DEFINE F == {T \in SUBSET S : ~ (SumOf(w, T) * k <= c * SumOf(v, T))}
<1>1. SUFFICES ASSUME F # {} PROVE FALSE
  OBVIOUS
<1>2. PICK T \in F : \A Q \in F : Q \subseteq T => Q = T
  <2>1. F \subseteq SUBSET S
    OBVIOUS
  <2> HIDE DEF F
  <2>3. QED
    BY <1>1, <2>1, SmallestSubset
<1>3. T \in SUBSET S /\ ~ (SumOf(w, T) * k <= c * SumOf(v, T))
  BY <1>2
<1>4. T # {}
  <2>1. 0 * k <= c * 0
    OBVIOUS
  <2>2. QED
    BY <1>3, <2>1, SumOfEmpty
<1>5. IsFiniteSet(T)
  BY <1>3, FS_Subset
<1> DEFINE x == Pick(T)
           R == T \ {x}
<1>6. x \in S /\ R \in SUBSET S
  BY <1>3, <1>4, Picked
<1>7. /\ SumOf(w, T) = w[x] + SumOf(w, R)
      /\ SumOf(v, T) = v[x] + SumOf(v, R)
  BY <1>4, <1>5, SumUnfolds
<1>8. SumOf(w, R) * k <= c * SumOf(v, R)
  <2>1. R \notin F
    BY <1>2, <1>4, Picked
  <2>2. QED
    BY <1>6, <2>1
<1>9. SumOf(w, R) \in Int /\ SumOf(v, R) \in Int
  <2>1. IsFiniteSet(R)
    BY <1>6, FS_Subset
  <2>2. (\A y \in R : w[y] \in Int) /\ (\A y \in R : v[y] \in Int)
    BY <1>6
  <2>3. QED
    BY <2>1, <2>2, SumTyped
<1> HIDE DEF x, R
<1>10. w[x] \in Int /\ v[x] \in Int /\ w[x] * k <= c * v[x]
  BY <1>6
<1>11. /\ (w[x] + SumOf(w, R)) * k = w[x] * k + SumOf(w, R) * k
       /\ c * (v[x] + SumOf(v, R)) = c * v[x] + c * SumOf(v, R)
       /\ w[x] * k \in Int /\ SumOf(w, R) * k \in Int
       /\ c * v[x] \in Int /\ c * SumOf(v, R) \in Int
  BY <1>9, <1>10
<1>12. QED
  BY <1>3, <1>7, <1>8, <1>10, <1>11

LEMMA EqualSums ==
  ASSUME NEW w, NEW v, NEW S, IsFiniteSet(S),
         \A x \in S : w[x] \in Int /\ v[x] = w[x]
  PROVE  SumOf(v, S) = SumOf(w, S)
<1>1. SumOf(v, S) * 1 <= 1 * SumOf(w, S) /\ SumOf(w, S) * 1 <= 1 * SumOf(v, S)
  BY ScaledSums
<1>2. SumOf(v, S) \in Int /\ SumOf(w, S) \in Int
  BY SumTyped
<1>3. QED
  BY <1>1, <1>2

\* A sum of naturals is not negative.
LEMMA SumOfNaturals ==
  ASSUME NEW w, NEW S, IsFiniteSet(S), \A x \in S : w[x] \in Nat
  PROVE  SumOf(w, S) \in Nat
<1>1. SumOf(w, S) \in Int
  BY SumTyped
<1>2. SumOf(w, S) * 0 <= 1 * SumOf(w, S)
  BY ScaledSums
<1>3. QED
  BY <1>1, <1>2

\* Any element may be taken out of the sum, not only the one the library picks.
LEMMA SumTakesOut ==
  ASSUME NEW w, NEW S, IsFiniteSet(S), \A x \in S : w[x] \in Int
  PROVE  \A y \in S : SumOf(w, S) = w[y] + SumOf(w, S \ {y})
<1> DEFINE Takes(T, y) == SumOf(w, T) = w[y] + SumOf(w, T \ {y})
           F == {T \in SUBSET S : ~ \A y \in T : Takes(T, y)}
<1>1. SUFFICES ASSUME F # {} PROVE FALSE
  OBVIOUS
<1>2. PICK T \in F : \A Q \in F : Q \subseteq T => Q = T
  <2>1. F \subseteq SUBSET S
    OBVIOUS
  <2> HIDE DEF F
  <2>3. QED
    BY <1>1, <2>1, SmallestSubset
<1>3. PICK y \in T : ~ Takes(T, y)
  BY <1>2
<1>4. T \in SUBSET S
  BY <1>2
<1>5. ASSUME NEW Q \in SUBSET T, Q # T, NEW z \in Q
      PROVE  Takes(Q, z)
  BY <1>2, <1>4, <1>5
<1>6. \A Q \in SUBSET S : IsFiniteSet(Q) /\ SumOf(w, Q) \in Int
  BY FS_Subset, SumTyped
<1> DEFINE x == Pick(T)
           both == T \ {x, y}
<1>7. x \in T
  BY <1>3, Picked
<1>8. SumOf(w, T) = w[x] + SumOf(w, T \ {x})
  BY <1>3, <1>4, <1>6, SumUnfolds
<1>9. x # y
  BY <1>3, <1>8
<1> HIDE DEF x
<1>10. SumOf(w, T \ {x}) = w[y] + SumOf(w, both)
  <2>1. Takes(T \ {x}, y)
    BY <1>5, <1>7, <1>9
  <2>2. (T \ {x}) \ {y} = both
    OBVIOUS
  <2>3. QED
    BY <2>1, <2>2
<1>11. SumOf(w, T \ {y}) = w[x] + SumOf(w, both)
  <2>1. Takes(T \ {y}, x)
    BY <1>5, <1>7, <1>9
  <2>2. (T \ {y}) \ {x} = both
    OBVIOUS
  <2>3. QED
    BY <2>1, <2>2
<1>12. both \in SUBSET S
  BY <1>4
<1>13. w[x] \in Int /\ w[y] \in Int /\ SumOf(w, both) \in Int
  BY <1>4, <1>6, <1>7, <1>12
<1> HIDE DEF both
<1>14. QED
  BY <1>3, <1>8, <1>10, <1>11, <1>13

\* A term of a sum of naturals is at most the sum.
LEMMA TermWithinSum ==
  ASSUME NEW w, NEW S, IsFiniteSet(S), \A x \in S : w[x] \in Nat
  PROVE  \A y \in S : w[y] <= SumOf(w, S)
<1>1. SUFFICES ASSUME NEW y \in S PROVE w[y] <= SumOf(w, S)
  OBVIOUS
<1>2. IsFiniteSet(S \ {y})
  BY FS_RemoveElement
<1>3. SumOf(w, S \ {y}) \in Nat
  BY <1>2, SumOfNaturals
<1>4. SumOf(w, S) = w[y] + SumOf(w, S \ {y})
  BY SumTakesOut
<1>5. QED
  BY <1>3, <1>4

\* Changing one term changes the sum by as much.
LEMMA SumMovesWithTerm ==
  ASSUME NEW w, NEW v, NEW S, IsFiniteSet(S), NEW y \in S,
         \A x \in S : w[x] \in Int /\ v[x] \in Int,
         \A x \in S \ {y} : v[x] = w[x]
  PROVE  SumOf(v, S) - SumOf(w, S) = v[y] - w[y]
<1>1. IsFiniteSet(S \ {y})
  BY FS_RemoveElement
<1>2. SumOf(w, S \ {y}) = SumOf(v, S \ {y})
  BY <1>1, EqualSums
<1>3. SumOf(w, S \ {y}) \in Int
  BY <1>1, SumTyped
<1>4. /\ SumOf(w, S) = w[y] + SumOf(w, S \ {y})
      /\ SumOf(v, S) = v[y] + SumOf(v, S \ {y})
  BY SumTakesOut
<1>5. QED
  BY <1>2, <1>3, <1>4

-----------------------------------------------------------------------------
(* Accrual *)

\* An accrual adds what it minted to the supply and to the protocol's shares.
LEMMA AccrualShape ==
  /\ Accrual.total = total_shares_outstanding + Accrual.minted
  /\ Accrual.fee_shares = protocol_fee_shares + Accrual.minted
BY DEF Accrual

\* What the widths checked by an accrual say of the counters it leaves.
LEMMA AccrualWidths ==
  ASSUME CanAccrue(Accrual)
  PROVE  /\ Accrual.minted \in Nat
         /\ Accrual.total \in U64
         /\ Accrual.fee_shares \in U64
         /\ Accrual.remainder \in U128
BY BoundAssumption DEF CanAccrue, U64, U128

-----------------------------------------------------------------------------
(* Type correctness *)

\* The fields of the accounts that only ever hold counters and timestamps.
Counters == {last_settlement_nonce, composition_version,
             last_composition_nonce, last_reconstitution_at, final_nav_value,
             final_share_snapshot, final_shares_consumed, final_paid, unbilled}

\* Besides its type, a position with cost basis has a deposit timestamp that is
\* not in the future, and so has one with shares: what weighted_average_timestamp
\* and weighted_average_withdrawal_breakdown require.
PositionsDated ==
  \A u \in Users :
    LET p == positions[u]
    IN /\ p.weighted_deposit_timestamp <= now
       /\ p.shares_owned > 0 \/ p.cost_basis_value > 0
            => p.weighted_deposit_timestamp > 0

\* In TypeOK, last_management_fee_at is bounded by the clock.
LEMMA InitTyped == Init => TypeOK /\ PositionsDated
<1> SUFFICES ASSUME Init PROVE TypeOK /\ PositionsDated
  OBVIOUS
<1>1. NewPosition \in Position
  BY DEF NewPosition, Position
<1>2. positions \in [Users -> Position]
  BY <1>1 DEF Init
<1>3. PositionsDated
  BY DEF Init, PositionsDated, NewPosition
<1>4. /\ paused \in BOOLEAN
      /\ is_perpetual \in BOOLEAN
      /\ has_initialized_share_price \in BOOLEAN
      /\ status \in BasketStatus
      /\ receipts \subseteq SettlementReceipt
  BY DEF Init, BasketStatus
<1>5. /\ now \in 1 .. MaxTime
      /\ {total_shares_outstanding, protocol_fee_shares} \subseteq U64
      /\ last_management_fee_at \in 0 .. now
      /\ management_fee_accrual_remainder \in U128
      /\ Counters \subseteq Nat
  BY BoundAssumption DEF Init, U64, U128, Counters
<1>6. QED
  BY <1>2, <1>3, <1>4, <1>5 DEF TypeOK, Counters

\* Every accrual keeps the types of the fields it sets.
LEMMA TakeFeeTyped ==
  ASSUME TypeOK, TakeFee(Accrual)
  PROVE  /\ Accrual.total \in U64
         /\ Accrual.fee_shares \in U64
         /\ last_management_fee_at' = now
         /\ management_fee_accrual_remainder' \in U128
         /\ unbilled' \in Nat
BY AccrualWidths DEF TakeFee, TypeOK

\* A receipt that InitializeReceipt stores is well formed.
LEMMA ReceiptTyped ==
  ASSUME TypeOK, NEW b \in Batches, NEW u \in Users \cup {Treasury},
         NEW k \in Nat, NEW n \in Nat, InitializeReceipt(b, u, k, n)
  PROVE  /\ receipts' \subseteq SettlementReceipt
         /\ last_settlement_nonce' \in Nat
BY DEF InitializeReceipt, TypeOK, SettlementReceipt

LEMMA BurnTyped ==
  ASSUME TypeOK, NEW held \in U64, NEW shares \in Nat,
         BurnShares(held, shares)
  PROVE  /\ total_shares_outstanding' \in U64
         /\ status' \in BasketStatus
BY BoundAssumption DEF BurnShares, TypeOK, U64, BasketStatus

\* The cost basis removed with some of a position's shares is a natural number.
LEMMA CostBasisTyped ==
  ASSUME NEW basis \in Nat, NEW owned \in Nat, NEW shares \in 1 .. owned
  PROVE  cost_basis_for_shares(basis, shares, owned) \in Nat
<1>1. basis * shares \in Nat
  OBVIOUS
<1>2. basis * shares + owned - 1 \in Nat
  BY <1>1
<1>3. (basis * shares + owned - 1) \div owned \in Nat
  BY <1>2, FloorDivision
<1>4. QED
  BY <1>3 DEF cost_basis_for_shares

\* The value of a share count at the final NAV is a natural number and never
\* exceeds the exact quotient.
LEMMA ProRata ==
  ASSUME NEW v \in Nat, NEW s \in Nat, NEW t \in Nat \ {0}
  PROVE  /\ pro_rata_value(v, s, t) \in Nat
         /\ pro_rata_value(v, s, t) * t <= v * s
<1>1. v * s \in Nat
  OBVIOUS
<1>2. QED
  BY <1>1, FloorDivision DEF pro_rata_value

LEMMA FinalValueTyped ==
  ASSUME TypeOK, NEW shares \in Nat, NEW gross, NEW nav,
         FinalValue(shares, gross, nav)
  PROVE  {final_nav_value, final_share_snapshot, final_shares_consumed,
          final_paid}' \subseteq Nat
<1>1. final_nav_value \in Nat /\ final_share_snapshot \in Nat \ {0}
      /\ nav = final_nav_value
  BY DEF TypeOK, FinalValue
<1>2. gross \in Nat
  BY <1>1, ProRata DEF FinalValue
<1>3. QED
  BY <1>1, <1>2 DEF TypeOK, FinalValue

\* An action that moves neither the clock nor a position keeps them dated.
LEMMA DatedUnchanged ==
  ASSUME PositionsDated, UNCHANGED <<now, positions>>
  PROVE  PositionsDated'
BY DEF PositionsDated

\* Replacing one position by a dated one keeps all of them dated.
LEMMA DatedUpdate ==
  ASSUME TypeOK, PositionsDated, now' = now, NEW u \in Users,
         NEW p \in Position,
         positions' = [positions EXCEPT ![u] = p],
         p.weighted_deposit_timestamp <= now,
         p.shares_owned > 0 \/ p.cost_basis_value > 0
           => p.weighted_deposit_timestamp > 0
  PROVE  positions' \in [Users -> Position] /\ PositionsDated'
<1>1. positions' \in [Users -> Position]
  BY DEF TypeOK
<1>2. ASSUME NEW v \in Users PROVE positions'[v] = IF v = u THEN p ELSE positions[v]
  BY DEF TypeOK
<1>3. QED
  BY <1>1, <1>2 DEF PositionsDated

LEMMA TickTyped ==
  ASSUME TypeOK, PositionsDated, Tick PROVE TypeOK' /\ PositionsDated'
<1>1. /\ now' = now + 1 /\ now \in Nat /\ now' \in 1 .. MaxTime
      /\ positions' = positions
  BY BoundAssumption DEF Tick, TypeOK, settlementVars
<1>2. PositionsDated'
  BY <1>1 DEF PositionsDated, TypeOK, Position
<1>3. unbilled' \in Nat
  BY BoundAssumption DEF Tick, TypeOK, U64
<1>4. last_management_fee_at' \in 0 .. now'
  BY <1>1 DEF Tick, TypeOK, feeVars
<1>5. QED
  BY <1>1, <1>2, <1>3, <1>4
     DEF Tick, TypeOK, supplyVars, feeVars, compositionVars, finalVars,
         settlementVars

LEMMA PauseTyped ==
  ASSUME TypeOK, PositionsDated, NEW value \in BOOLEAN, set_paused(value)
  PROVE  TypeOK' /\ PositionsDated'
BY DatedUnchanged
   DEF set_paused, TypeOK, supplyVars, feeVars, compositionVars, finalVars,
       settlementVars

LEMMA AccrueTyped ==
  ASSUME TypeOK, PositionsDated, accrue_management_fee
  PROVE  TypeOK' /\ PositionsDated'
<1>1. TakeFee(Accrual)
  BY DEF accrue_management_fee
<1>2. QED
  BY <1>1, TakeFeeTyped, DatedUnchanged
     DEF accrue_management_fee, TypeOK, compositionVars, finalVars,
         settlementVars

\* What the four lifecycle handlers share.
LEMMA LifecycleTyped ==
  ASSUME TypeOK, PositionsDated, AccrueForLifecycle(Accrual)
  PROVE  /\ PositionsDated'
         /\ paused' \in BOOLEAN /\ is_perpetual' \in BOOLEAN
         /\ has_initialized_share_price' \in BOOLEAN
         /\ now' \in 1 .. MaxTime
         /\ {total_shares_outstanding, protocol_fee_shares}' \subseteq U64
         /\ last_management_fee_at' \in 0 .. now'
         /\ management_fee_accrual_remainder' \in U128
         /\ last_settlement_nonce' \in Nat /\ unbilled' \in Nat
         /\ positions' \in [Users -> Position]
         /\ receipts' \subseteq SettlementReceipt
         /\ now' = now /\ now \in Nat
<1>1. TakeFee(Accrual)
  BY DEF AccrueForLifecycle
<1>2. QED
  BY <1>1, TakeFeeTyped, DatedUnchanged, BoundAssumption
     DEF AccrueForLifecycle, TypeOK, settlementVars

LEMMA BeginReconstitutionTyped ==
  ASSUME TypeOK, PositionsDated, begin_reconstitution
  PROVE  TypeOK' /\ PositionsDated'
BY LifecycleTyped
   DEF begin_reconstitution, TypeOK, BasketStatus, compositionVars, finalVars

LEMMA CompleteReconstitutionTyped ==
  ASSUME TypeOK, PositionsDated, NEW k \in Nat,
         complete_reconstitution(k)
  PROVE  TypeOK' /\ PositionsDated'
BY LifecycleTyped, BoundAssumption
   DEF complete_reconstitution, TypeOK, BasketStatus, finalVars

LEMMA BeginResolutionTyped ==
  ASSUME TypeOK, PositionsDated, begin_resolution
  PROVE  TypeOK' /\ PositionsDated'
BY LifecycleTyped
   DEF begin_resolution, TypeOK, BasketStatus, compositionVars, finalVars

LEMMA FinalSettlementTyped ==
  ASSUME TypeOK, PositionsDated, NEW nav \in Nat,
         record_final_settlement(Accrual.total, nav)
  PROVE  TypeOK' /\ PositionsDated'
<1>1. AccrueForLifecycle(Accrual) /\ TakeFee(Accrual)
  BY DEF record_final_settlement, AccrueForLifecycle
<1>2. Accrual.total \in Nat /\ nav \in Nat
  BY <1>1, TakeFeeTyped, BoundAssumption, InputAssumption DEF U64
<1>3. QED
  BY <1>1, <1>2, LifecycleTyped
     DEF record_final_settlement, TypeOK, BasketStatus, compositionVars

LEMMA DepositTyped ==
  ASSUME TypeOK, PositionsDated, NEW u \in Users, NEW b \in Batches,
         NEW k \in Nat, NEW n \in Nat, NEW gross \in Nat, NEW net \in Nat,
         NEW nav, complete_deposit(u, b, k, n, gross, net, nav)
  PROVE  TypeOK' /\ PositionsDated'
<1> DEFINE p == positions[u]
           price == IF has_initialized_share_price
                    THEN share_price_from_nav(nav, Accrual.total)
                    ELSE SHARE_SCALE
           credited == shares_for_value(net, price)
           stamp == weighted_average_timestamp(p.cost_basis_value,
                                    p.weighted_deposit_timestamp, net)
           q == [shares_owned |-> p.shares_owned + credited,
                 cost_basis_value |-> p.cost_basis_value + net,
                 weighted_deposit_timestamp |-> stamp,
                 last_intent_nonce |-> k]
<1>1. /\ p \in Position /\ now \in Nat \ {0} /\ net \in Nat \ {0}
      /\ p.weighted_deposit_timestamp <= now
  BY BoundAssumption DEF TypeOK, PositionsDated, complete_deposit
<1>2. /\ credited \in Nat
      /\ p.cost_basis_value > 0 => p.weighted_deposit_timestamp \in 1 .. now
      /\ positions' = [positions EXCEPT ![u] = q]
      /\ TakeFee(Accrual) /\ InitializeReceipt(b, u, k, n)
      /\ total_shares_outstanding' = Accrual.total + credited
      /\ total_shares_outstanding' \in U64
      /\ protocol_fee_shares' = Accrual.fee_shares
  BY BoundAssumption DEF complete_deposit, U64
<1>3. stamp \in 1 .. now
  <2>1. CASE p.cost_basis_value = 0
    BY <1>1, <2>1 DEF weighted_average_timestamp
  <2>2. CASE p.cost_basis_value > 0
    <3>1. /\ p.weighted_deposit_timestamp \in Nat /\ p.cost_basis_value \in Nat \ {0}
          /\ p.weighted_deposit_timestamp \in 1 .. now
      BY <1>1, <1>2, <2>2 DEF Position
    <3> HIDE DEF p
    <3>2. LET average == (p.weighted_deposit_timestamp * p.cost_basis_value
                            + now * net) \div (p.cost_basis_value + net)
          IN /\ average \in Nat
             /\ p.weighted_deposit_timestamp <= average
             /\ average <= now
      BY <1>1, <3>1, WeightedAverage
    <3>3. stamp = (p.weighted_deposit_timestamp * p.cost_basis_value
                     + now * net) \div (p.cost_basis_value + net)
      BY <3>1 DEF weighted_average_timestamp
    <3>4. QED
      BY <1>1, <3>1, <3>2, <3>3
  <2>3. QED
    BY <1>1, <2>1, <2>2 DEF Position
<1> HIDE DEF stamp, credited
<1>4. /\ q \in Position
      /\ q.weighted_deposit_timestamp \in Nat
      /\ q.weighted_deposit_timestamp <= now
      /\ q.weighted_deposit_timestamp > 0
  BY <1>1, <1>2, <1>3 DEF Position
<1>5. now' = now /\ status' = status /\ paused' = paused
      /\ is_perpetual' = is_perpetual
      /\ has_initialized_share_price' = TRUE
      /\ UNCHANGED <<compositionVars, finalVars>>
  BY DEF complete_deposit
<1> HIDE DEF q
<1>6. positions' \in [Users -> Position] /\ PositionsDated'
  BY <1>1, <1>2, <1>4, <1>5, DatedUpdate
<1>7. QED
  BY <1>1, <1>2, <1>5, <1>6, TakeFeeTyped, ReceiptTyped
     DEF TypeOK, compositionVars, finalVars

\* What is common to the two ways of pricing a burn of shares.
LEMMA CurrentBurnTyped ==
  ASSUME TypeOK, TakeFee(Accrual), NEW shares \in Nat, NEW gross, NEW nav,
         BurnShares(Accrual.total, shares),
         CurrentValue(Accrual.total, shares, gross, nav)
  PROVE  /\ total_shares_outstanding' \in U64
         /\ status' \in BasketStatus
         /\ last_management_fee_at' = now
         /\ management_fee_accrual_remainder' \in U128
         /\ unbilled' \in Nat
         /\ {final_nav_value, final_share_snapshot, final_shares_consumed,
             final_paid}' \subseteq Nat
<1>1. Accrual.total \in U64
  BY TakeFeeTyped
<1>2. QED
  BY <1>1, TakeFeeTyped, BurnTyped DEF CurrentValue, finalVars, TypeOK

LEMMA FinalBurnTyped ==
  ASSUME TypeOK, NEW shares \in Nat, NEW gross, NEW nav,
         BurnShares(total_shares_outstanding, shares),
         FinalValue(shares, gross, nav), UNCHANGED <<feeVars, unbilled>>
  PROVE  /\ total_shares_outstanding' \in U64
         /\ status' \in BasketStatus
         /\ UNCHANGED <<last_management_fee_at,
                        management_fee_accrual_remainder, unbilled>>
         /\ {final_nav_value, final_share_snapshot, final_shares_consumed,
             final_paid}' \subseteq Nat
<1>1. total_shares_outstanding \in U64
  BY DEF TypeOK
<1>2. QED
  BY <1>1, BurnTyped, FinalValueTyped DEF feeVars

LEMMA WithdrawalTyped ==
  ASSUME TypeOK, PositionsDated, NEW u \in Users, NEW b \in Batches,
         NEW k \in Nat, NEW n \in Nat,
         NEW shares \in 1 .. positions[u].shares_owned, NEW gross, NEW nav,
         complete_withdrawal(u, b, k, n, shares, gross, nav)
  PROVE  TypeOK' /\ PositionsDated'
<1> DEFINE p == positions[u]
           basis == cost_basis_for_shares(p.cost_basis_value, shares,
                                          p.shares_owned)
           left == p.shares_owned - shares
           q == [shares_owned |-> left,
                 cost_basis_value |-> p.cost_basis_value - basis,
                 weighted_deposit_timestamp |-> RemainingTimestamp(p, left),
                 last_intent_nonce |-> k]
<1>1. p \in Position /\ now \in Nat /\ shares \in Nat /\ shares \in 1 .. p.shares_owned
  BY BoundAssumption DEF TypeOK, Position
<1>2. /\ p.weighted_deposit_timestamp \in 1 .. now
      /\ p.cost_basis_value >= basis
      /\ positions' = [positions EXCEPT ![u] = q]
      /\ InitializeReceipt(b, u, k, n)
      /\ UNCHANGED <<paused, now, is_perpetual, compositionVars,
                     has_initialized_share_price>>
  BY DEF complete_withdrawal
<1>3. /\ basis \in Nat
      /\ left \in Nat
      /\ left = 0 => basis = p.cost_basis_value
  <2>1. basis \in Nat
    BY <1>1, CostBasisTyped DEF Position
  <2>2. left = 0 => shares = p.shares_owned
    BY <1>1 DEF Position
  <2>3. QED
    BY <1>1, <2>1, <2>2 DEF Position, cost_basis_for_shares
<1>4. /\ q \in Position
      /\ q.weighted_deposit_timestamp <= now
      /\ q.shares_owned > 0 \/ q.cost_basis_value > 0
           => q.weighted_deposit_timestamp > 0
  <2> DEFINE stamp == RemainingTimestamp(p, left)
             kept == p.cost_basis_value - basis
  <2>1. stamp \in Nat /\ stamp <= now /\ (left > 0 => stamp > 0)
    BY <1>1, <1>2, <1>3 DEF RemainingTimestamp, Position
  <2>2. kept \in Nat /\ (left = 0 => kept = 0)
    <3> HIDE DEF basis, left
    <3>1. p.cost_basis_value \in Nat
      BY <1>1 DEF Position
    <3>2. QED
      BY <1>2, <1>3, <3>1
  <2> HIDE DEF stamp, kept, left
  <2>3. q = [shares_owned |-> left, cost_basis_value |-> kept,
             weighted_deposit_timestamp |-> stamp, last_intent_nonce |-> k]
    BY DEF stamp, kept, left
  <2> HIDE DEF q
  <2>4. QED
    BY <1>1, <1>3, <2>1, <2>2, <2>3 DEF Position
<1> HIDE DEF q
<1>5. positions' \in [Users -> Position] /\ PositionsDated'
  BY <1>1, <1>2, <1>4, DatedUpdate
<1>6. /\ receipts' \subseteq SettlementReceipt
      /\ last_settlement_nonce' \in Nat
  BY <1>2, ReceiptTyped
<1>7. /\ total_shares_outstanding' \in U64
      /\ protocol_fee_shares' \in U64
      /\ status' \in BasketStatus
      /\ last_management_fee_at' \in 0 .. now
      /\ management_fee_accrual_remainder' \in U128
      /\ unbilled' \in Nat
      /\ {final_nav_value, final_share_snapshot, final_shares_consumed,
          final_paid}' \subseteq Nat
  <2>1. CASE status = "Active"
    <3>1. /\ TakeFee(Accrual) /\ BurnShares(Accrual.total, shares)
          /\ CurrentValue(Accrual.total, shares, gross, nav)
          /\ protocol_fee_shares' = Accrual.fee_shares
      BY <2>1 DEF complete_withdrawal
    <3>2. QED
      BY <1>1, <3>1, CurrentBurnTyped, TakeFeeTyped
  <2>2. CASE status = "Redeemable"
    <3>1. /\ BurnShares(total_shares_outstanding, shares)
          /\ FinalValue(shares, gross, nav)
          /\ UNCHANGED <<protocol_fee_shares, feeVars, unbilled>>
      BY <2>2 DEF complete_withdrawal
    <3>2. QED
      BY <1>1, <3>1, FinalBurnTyped DEF TypeOK
  <2>3. QED
    BY <2>1, <2>2 DEF complete_withdrawal
<1>8. QED
  BY <1>2, <1>5, <1>6, <1>7 DEF TypeOK, compositionVars

LEMMA FeeWithdrawalTyped ==
  ASSUME TypeOK, PositionsDated, NEW b \in Batches, NEW n \in Nat,
         NEW shares \in Nat, NEW gross, NEW nav,
         complete_protocol_fee_withdrawal(b, n, shares, gross, nav)
  PROVE  TypeOK' /\ PositionsDated'
<1>1. /\ InitializeReceipt(b, Treasury, 0, n)
      /\ UNCHANGED <<paused, now, is_perpetual, compositionVars, positions,
                     has_initialized_share_price>>
  BY DEF complete_protocol_fee_withdrawal
<1>2. /\ receipts' \subseteq SettlementReceipt
      /\ last_settlement_nonce' \in Nat
  BY <1>1, ReceiptTyped
<1>3. /\ total_shares_outstanding' \in U64
      /\ protocol_fee_shares' \in U64
      /\ status' \in BasketStatus
      /\ last_management_fee_at' \in 0 .. now
      /\ management_fee_accrual_remainder' \in U128
      /\ unbilled' \in Nat
      /\ {final_nav_value, final_share_snapshot, final_shares_consumed,
          final_paid}' \subseteq Nat
  <2>1. CASE AccruingStatus
    <3>1. /\ TakeFee(Accrual) /\ BurnShares(Accrual.total, shares)
          /\ CurrentValue(Accrual.total, shares, gross, nav)
          /\ shares <= Accrual.fee_shares
          /\ protocol_fee_shares' = Accrual.fee_shares - shares
      BY <2>1 DEF complete_protocol_fee_withdrawal, AccruingStatus
    <3>2. Accrual.fee_shares - shares \in U64
      BY <3>1, TakeFeeTyped, BoundAssumption DEF U64
    <3>3. now \in Nat
      BY BoundAssumption DEF TypeOK
    <3>4. QED
      BY <3>1, <3>2, <3>3, CurrentBurnTyped, TakeFeeTyped
  <2>2. CASE status = "Redeemable"
    <3>1. /\ BurnShares(total_shares_outstanding, shares)
          /\ FinalValue(shares, gross, nav)
          /\ shares <= protocol_fee_shares
          /\ protocol_fee_shares' = protocol_fee_shares - shares
          /\ UNCHANGED <<feeVars, unbilled>>
      BY <2>2 DEF complete_protocol_fee_withdrawal, AccruingStatus
    <3>2. protocol_fee_shares - shares \in U64
      BY <3>1, BoundAssumption DEF U64, TypeOK
    <3>3. QED
      BY <3>1, <3>2, FinalBurnTyped DEF TypeOK
  <2>3. QED
    BY <2>1, <2>2 DEF complete_protocol_fee_withdrawal
<1>4. QED
  BY <1>1, <1>2, <1>3, DatedUnchanged DEF TypeOK, compositionVars

\* Every step of the registry keeps the accounts well typed and the positions
\* dated.
\* One instruction of the program or one step of its environment, with whatever
\* arguments: the bounds a model puts on nonces, amounts and values are gone.
\* N holds the NAVs that final settlements record.
Handler(N) ==
  \/ Tick
  \/ \E value \in BOOLEAN : set_paused(value)
  \/ accrue_management_fee
  \/ \E u \in Users, b \in Batches, k, n, gross, net, nav \in Nat :
       complete_deposit(u, b, k, n, gross, net, nav)
  \/ \E u \in Users, b \in Batches, k, n, shares, gross, nav \in Nat :
       complete_withdrawal(u, b, k, n, shares, gross, nav)
  \/ \E b \in Batches, n, shares, gross, nav \in Nat :
       complete_protocol_fee_withdrawal(b, n, shares, gross, nav)
  \/ begin_reconstitution
  \/ \E k \in Nat : complete_reconstitution(k)
  \/ begin_resolution
  \/ \E nav \in N : record_final_settlement(Accrual.total, nav)

LEMMA HandlerTyped ==
  ASSUME NEW N \in SUBSET Nat, TypeOK, PositionsDated, [Handler(N)]_vars
  PROVE  TypeOK' /\ PositionsDated'
<1>1. CASE Tick
  BY <1>1, TickTyped
<1>2. CASE \E value \in BOOLEAN : set_paused(value)
  BY <1>2, PauseTyped
<1>3. CASE accrue_management_fee
  BY <1>3, AccrueTyped
<1>4. ASSUME NEW u \in Users, NEW b \in Batches, NEW k \in Nat, NEW n \in Nat,
             NEW gross \in Nat, NEW net \in Nat, NEW nav \in Nat,
             complete_deposit(u, b, k, n, gross, net, nav)
      PROVE  TypeOK' /\ PositionsDated'
  BY <1>4, DepositTyped
<1>5. ASSUME NEW u \in Users, NEW b \in Batches, NEW k \in Nat, NEW n \in Nat,
             NEW shares \in Nat, NEW gross \in Nat, NEW nav \in Nat,
             complete_withdrawal(u, b, k, n, shares, gross, nav)
      PROVE  TypeOK' /\ PositionsDated'
  <2>1. shares \in 1 .. positions[u].shares_owned
    BY <1>5 DEF complete_withdrawal
  <2>2. QED
    BY <1>5, <2>1, WithdrawalTyped
<1>6. ASSUME NEW b \in Batches, NEW n \in Nat, NEW shares \in Nat,
             NEW gross \in Nat, NEW nav \in Nat,
             complete_protocol_fee_withdrawal(b, n, shares, gross, nav)
      PROVE  TypeOK' /\ PositionsDated'
  BY <1>6, FeeWithdrawalTyped
<1>7. CASE begin_reconstitution
  BY <1>7, BeginReconstitutionTyped
<1>8. CASE \E k \in Nat : complete_reconstitution(k)
  BY <1>8, CompleteReconstitutionTyped
<1>9. CASE begin_resolution
  BY <1>9, BeginResolutionTyped
<1>10. CASE \E nav \in N : record_final_settlement(Accrual.total, nav)
  BY <1>10, FinalSettlementTyped
<1>11. CASE UNCHANGED vars
  <2>1. UNCHANGED <<paused, now, status, is_perpetual, supplyVars, feeVars,
                    unbilled, compositionVars, finalVars, settlementVars>>
    BY <1>11 DEF vars
  <2>2. QED
    BY <2>1, DatedUnchanged
       DEF TypeOK, supplyVars, feeVars, compositionVars, finalVars,
           settlementVars
<1>12. QED
  BY <1>1, <1>2, <1>3, <1>4, <1>5, <1>6, <1>7, <1>8, <1>9, <1>10, <1>11 DEF Handler

-----------------------------------------------------------------------------
(* The final NAV covers the redemptions *)

\* The strengthening of the two final-settlement invariants.  Each redemption
\* is rounded down, so the payments never exceed the exact pro-rata value of the
\* shares consumed; written without division so that it is preserved step by step.
FinalFunds ==
  /\ final_shares_consumed <= final_share_snapshot
  /\ final_paid * final_share_snapshot
       <= final_nav_value * final_shares_consumed
  /\ final_share_snapshot = 0 => final_paid = 0
  /\ FinalSnapshotAccounted

\* One redemption keeps the payments within the value of the shares consumed.
LEMMA RedemptionCovered ==
  ASSUME NEW paid \in Nat, NEW snapshot \in Nat \ {0}, NEW nav \in Nat,
         NEW consumed \in Nat, NEW shares \in Nat,
         paid * snapshot <= nav * consumed
  PROVE  (paid + pro_rata_value(nav, shares, snapshot)) * snapshot
           <= nav * (consumed + shares)
<1> DEFINE gross == pro_rata_value(nav, shares, snapshot)
<1>1. gross \in Nat /\ gross * snapshot <= nav * shares
  BY ProRata
<1> HIDE DEF gross
<1>2. (paid + gross) * snapshot = paid * snapshot + gross * snapshot
  BY <1>1
<1>3. nav * (consumed + shares) = nav * consumed + nav * shares
  OBVIOUS
<1>4. /\ paid * snapshot \in Nat /\ gross * snapshot \in Nat
      /\ nav * consumed \in Nat /\ nav * shares \in Nat
  BY <1>1
<1>5. (paid + gross) * snapshot <= nav * (consumed + shares)
  BY <1>1, <1>2, <1>3, <1>4
<1>6. QED
  BY <1>5 DEF gross

\* A burn priced against the final NAV, by a user or by the protocol.
LEMMA FinalBurnCovered ==
  ASSUME TypeOK, FinalFunds, status = "Redeemable", NEW shares \in Nat,
         NEW gross, NEW nav, BurnShares(total_shares_outstanding, shares),
         FinalValue(shares, gross, nav)
  PROVE  FinalFunds'
<1>1. /\ final_paid \in Nat /\ final_share_snapshot \in Nat \ {0}
      /\ final_nav_value \in Nat /\ final_shares_consumed \in Nat
      /\ total_shares_outstanding \in Nat
      /\ nav = final_nav_value
      /\ final_shares_consumed + total_shares_outstanding = final_share_snapshot
  BY BoundAssumption
     DEF TypeOK, FinalValue, FinalFunds, FinalSnapshotAccounted, U64
<1>2. /\ final_paid' = final_paid
           + pro_rata_value(final_nav_value, shares, final_share_snapshot)
      /\ final_shares_consumed' = final_shares_consumed + shares
      /\ final_nav_value' = final_nav_value
      /\ final_share_snapshot' = final_share_snapshot
      /\ total_shares_outstanding' = total_shares_outstanding - shares
      /\ shares <= total_shares_outstanding
  BY <1>1 DEF FinalValue, BurnShares
<1>3. final_paid' * final_share_snapshot'
        <= final_nav_value' * final_shares_consumed'
  BY <1>1, <1>2, RedemptionCovered DEF FinalFunds
<1>4. /\ final_shares_consumed' <= final_share_snapshot'
      /\ FinalSnapshotAccounted'
  BY <1>1, <1>2 DEF FinalSnapshotAccounted
<1>5. final_share_snapshot' # 0
  BY <1>1, <1>2
<1>6. QED
  BY <1>3, <1>4, <1>5 DEF FinalFunds

\* Outside a redemption and the final settlement itself, the final fields do
\* not move and the basket does not become redeemable.
LEMMA FundsUntouched ==
  ASSUME FinalFunds, UNCHANGED finalVars, status' # "Redeemable"
  PROVE  FinalFunds'
BY DEF FinalFunds, FinalSnapshotAccounted, finalVars

LEMMA FundsUnmoved ==
  ASSUME FinalFunds, UNCHANGED <<finalVars, status, total_shares_outstanding>>
  PROVE  FinalFunds'
BY DEF FinalFunds, FinalSnapshotAccounted, finalVars

LEMMA SettlementFunds ==
  ASSUME TypeOK, FinalFunds, NEW nav \in Nat,
         record_final_settlement(Accrual.total, nav)
  PROVE  FinalFunds'
<1>1. TakeFee(Accrual)
  BY DEF record_final_settlement, AccrueForLifecycle
<1>2. Accrual.total \in Nat /\ nav \in Nat
  BY <1>1, TakeFeeTyped, BoundAssumption, InputAssumption DEF U64
<1>3. /\ final_share_snapshot' = Accrual.total
      /\ total_shares_outstanding' = Accrual.total
      /\ final_shares_consumed' = 0 /\ final_paid' = 0
      /\ final_nav_value' = nav
  BY DEF record_final_settlement, AccrueForLifecycle
<1>4. QED
  BY <1>2, <1>3 DEF FinalFunds, FinalSnapshotAccounted

LEMMA HandlerFunds ==
  ASSUME NEW N \in SUBSET Nat, TypeOK, FinalFunds, [Handler(N)]_vars
  PROVE  FinalFunds'
<1>1. CASE Tick \/ \E value \in BOOLEAN : set_paused(value)
  BY <1>1, FundsUnmoved DEF Tick, set_paused, supplyVars
<1>2. CASE accrue_management_fee
  BY <1>2, FundsUntouched DEF accrue_management_fee, AccruingStatus
<1>3. ASSUME NEW u \in Users, NEW b \in Batches, NEW k \in Nat, NEW n \in Nat,
             NEW gross \in Nat, NEW net \in Nat, NEW nav \in Nat,
             complete_deposit(u, b, k, n, gross, net, nav)
      PROVE  FinalFunds'
  BY <1>3, FundsUntouched DEF complete_deposit
<1>4. ASSUME NEW u \in Users, NEW b \in Batches, NEW k \in Nat, NEW n \in Nat,
             NEW shares \in Nat, NEW gross \in Nat, NEW nav \in Nat,
             complete_withdrawal(u, b, k, n, shares, gross, nav)
      PROVE  FinalFunds'
  <2>1. shares \in Nat
    BY DEF TypeOK, Position
  <2>2. CASE status = "Active"
    <3>1. UNCHANGED finalVars /\ status' \in {"Active", "Closed"}
      BY <1>4, <2>2 DEF complete_withdrawal, CurrentValue, BurnShares
    <3>2. QED
      BY <3>1, FundsUntouched
  <2>3. CASE status = "Redeemable"
    <3>1. /\ BurnShares(total_shares_outstanding, shares)
          /\ FinalValue(shares, gross, nav)
      BY <1>4, <2>3 DEF complete_withdrawal
    <3>2. QED
      BY <2>1, <2>3, <3>1, FinalBurnCovered
  <2>4. QED
    BY <1>4, <2>2, <2>3 DEF complete_withdrawal
<1>5. ASSUME NEW b \in Batches, NEW n \in Nat, NEW shares \in Nat,
             NEW gross \in Nat, NEW nav \in Nat,
             complete_protocol_fee_withdrawal(b, n, shares, gross, nav)
      PROVE  FinalFunds'
  <2>1. CASE AccruingStatus
    <3>1. UNCHANGED finalVars /\ status' # "Redeemable"
      BY <1>5, <2>1 DEF complete_protocol_fee_withdrawal, CurrentValue,
                        BurnShares, AccruingStatus
    <3>2. QED
      BY <3>1, FundsUntouched
  <2>2. CASE status = "Redeemable"
    <3>1. /\ BurnShares(total_shares_outstanding, shares)
          /\ FinalValue(shares, gross, nav)
      BY <1>5, <2>2 DEF complete_protocol_fee_withdrawal, AccruingStatus
    <3>2. QED
      BY <2>2, <3>1, FinalBurnCovered
  <2>3. QED
    BY <1>5, <2>1, <2>2 DEF complete_protocol_fee_withdrawal
<1>6. CASE begin_reconstitution \/ begin_resolution
  BY <1>6, FundsUntouched DEF begin_reconstitution, begin_resolution
<1>7. CASE \E k \in Nat : complete_reconstitution(k)
  BY <1>7, FundsUntouched DEF complete_reconstitution
<1>8. CASE \E nav \in N : record_final_settlement(Accrual.total, nav)
  BY <1>8, SettlementFunds
<1>9. CASE UNCHANGED vars
  BY <1>9, FundsUnmoved DEF vars, supplyVars
<1>10. QED
  BY <1>1, <1>2, <1>3, <1>4, <1>5, <1>6, <1>7, <1>8, <1>9 DEF Handler

\* What FinalFunds says of the payments.
LEMMA FundsBoundPayouts ==
  ASSUME TypeOK, FinalFunds
  PROVE  PayoutsWithinFinalNav
<1>1. /\ final_paid \in Nat /\ final_share_snapshot \in Nat
      /\ final_nav_value \in Nat /\ final_shares_consumed \in Nat
  BY DEF TypeOK
<1>2. CASE final_share_snapshot = 0
  BY <1>1, <1>2 DEF FinalFunds, PayoutsWithinFinalNav
<1>3. CASE final_share_snapshot > 0
  <2>1. final_nav_value * final_shares_consumed
          <= final_nav_value * final_share_snapshot
    <3>1. final_shares_consumed * final_nav_value
            <= final_share_snapshot * final_nav_value
      BY <1>1, ProductBounds DEF FinalFunds
    <3>2. QED
      BY <1>1, <3>1
  <2>2. final_paid * final_share_snapshot
          <= final_nav_value * final_share_snapshot
    <3>1. /\ final_paid * final_share_snapshot \in Nat
          /\ final_nav_value * final_shares_consumed \in Nat
          /\ final_nav_value * final_share_snapshot \in Nat
      BY <1>1
    <3>2. QED
      BY <2>1, <3>1 DEF FinalFunds
  <2>3. SUFFICES ASSUME final_nav_value + 1 <= final_paid PROVE FALSE
    BY <1>1 DEF PayoutsWithinFinalNav
  <2>4. (final_nav_value + 1) * final_share_snapshot
          <= final_paid * final_share_snapshot
    BY <1>1, <2>3, ProductBounds
  <2>5. (final_nav_value + 1) * final_share_snapshot
          = final_nav_value * final_share_snapshot + final_share_snapshot
    BY <1>1
  <2>6. final_nav_value * final_share_snapshot \in Nat
        /\ final_paid * final_share_snapshot \in Nat
    BY <1>1
  <2>7. QED
    BY <1>1, <1>3, <2>2, <2>4, <2>5, <2>6
<1>4. QED
  BY <1>1, <1>2, <1>3

-----------------------------------------------------------------------------
(* Each intent settles once, in order *)

\* Storing the receipt of the next intent of a user extends that user's run of
\* nonces by one and leaves the other users' receipts alone.
LEMMA ReceiptKeepsOrder ==
  ASSUME TypeOK, IntentsSettleOnceInOrder, NEW u \in Users, NEW b, NEW k, NEW n,
         InitializeReceipt(b, u, k, n),
         validate_position_and_nonce(positions[u], k),
         positions'[u].last_intent_nonce = k,
         \A v \in Users \ {u} : positions'[v] = positions[v]
  PROVE  IntentsSettleOnceInOrder'
<1> DEFINE r == [batch |-> b, user |-> u, intent_nonce |-> k,
                 settlement_nonce |-> n]
           own(v) == {s \in receipts : s.user = v}
<1>1. /\ receipts' = receipts \cup {r}
      /\ positions[u].last_intent_nonce \in Nat
      /\ k = positions[u].last_intent_nonce + 1
  BY DEF InitializeReceipt, validate_position_and_nonce, TypeOK, Position
<1>2. SUFFICES ASSUME NEW v \in Users
               PROVE  LET now_own == {s \in receipts' : s.user = v}
                      IN /\ {s.intent_nonce : s \in now_own}
                              = 1 .. positions'[v].last_intent_nonce
                         /\ \A s, t \in now_own :
                              s.intent_nonce = t.intent_nonce => s = t
  BY DEF IntentsSettleOnceInOrder
<1>3. /\ {s.intent_nonce : s \in own(v)} = 1 .. positions[v].last_intent_nonce
      /\ \A s, t \in own(v) : s.intent_nonce = t.intent_nonce => s = t
  BY DEF IntentsSettleOnceInOrder
<1>4. CASE v # u
  <2>1. {s \in receipts' : s.user = v} = own(v)
    BY <1>1, <1>4
  <2>2. positions'[v] = positions[v]
    BY <1>4
  <2>3. QED
    BY <1>3, <2>1, <2>2
<1>5. CASE v = u
  <2>1. {s \in receipts' : s.user = v} = own(u) \cup {r}
    BY <1>1, <1>5
  <2>2. \A s \in own(u) : s.intent_nonce \in 1 .. positions[u].last_intent_nonce
    BY <1>3, <1>5
  <2>3. {s.intent_nonce : s \in own(u) \cup {r}}
          = {s.intent_nonce : s \in own(u)} \cup {k}
    <3>1. r.intent_nonce = k
      OBVIOUS
    <3> HIDE DEF r, own
    <3>2. QED
      BY <3>1
  <2>4. 1 .. k = (1 .. positions[u].last_intent_nonce) \cup {k}
    BY <1>1
  <2>5. \A s, t \in own(u) \cup {r} : s.intent_nonce = t.intent_nonce => s = t
    <3>1. \A s \in own(u) : s.intent_nonce # k
      BY <1>1, <2>2
    <3>2. QED
      BY <1>3, <1>5, <3>1
  <2>6. QED
    BY <1>3, <1>5, <2>1, <2>3, <2>4, <2>5
<1>6. QED
  BY <1>4, <1>5

\* The receipt of a protocol fee withdrawal belongs to no user.
LEMMA TreasuryReceiptKeepsOrder ==
  ASSUME IntentsSettleOnceInOrder, NEW b, NEW n,
         InitializeReceipt(b, Treasury, 0, n), UNCHANGED positions
  PROVE  IntentsSettleOnceInOrder'
<1>1. \A u \in Users : {r \in receipts' : r.user = u} = {r \in receipts : r.user = u}
  BY InputAssumption DEF InitializeReceipt
<1>2. QED
  BY <1>1 DEF IntentsSettleOnceInOrder

LEMMA OrderUntouched ==
  ASSUME IntentsSettleOnceInOrder, UNCHANGED <<positions, receipts>>
  PROVE  IntentsSettleOnceInOrder'
BY DEF IntentsSettleOnceInOrder

LEMMA HandlerInOrder ==
  ASSUME NEW N \in SUBSET Nat, TypeOK, IntentsSettleOnceInOrder, [Handler(N)]_vars
  PROVE  IntentsSettleOnceInOrder'
<1>1. CASE Tick \/ \E value \in BOOLEAN : set_paused(value)
  BY <1>1, OrderUntouched DEF Tick, set_paused, settlementVars
<1>2. CASE accrue_management_fee
  BY <1>2, OrderUntouched DEF accrue_management_fee, settlementVars
<1>3. ASSUME NEW u \in Users, NEW b \in Batches, NEW k \in Nat, NEW n \in Nat,
             NEW gross \in Nat, NEW net \in Nat, NEW nav \in Nat,
             complete_deposit(u, b, k, n, gross, net, nav)
      PROVE  IntentsSettleOnceInOrder'
  <2>1. /\ InitializeReceipt(b, u, k, n)
        /\ validate_position_and_nonce(positions[u], k)
        /\ positions'[u].last_intent_nonce = k
        /\ \A v \in Users \ {u} : positions'[v] = positions[v]
    BY <1>3 DEF complete_deposit, TypeOK
  <2>2. QED
    BY <2>1, ReceiptKeepsOrder
<1>4. ASSUME NEW u \in Users, NEW b \in Batches, NEW k \in Nat, NEW n \in Nat,
             NEW shares \in Nat, NEW gross \in Nat, NEW nav \in Nat,
             complete_withdrawal(u, b, k, n, shares, gross, nav)
      PROVE  IntentsSettleOnceInOrder'
  <2>1. /\ InitializeReceipt(b, u, k, n)
        /\ validate_position_and_nonce(positions[u], k)
        /\ positions'[u].last_intent_nonce = k
        /\ \A v \in Users \ {u} : positions'[v] = positions[v]
    BY <1>4 DEF complete_withdrawal, TypeOK
  <2>2. QED
    BY <2>1, ReceiptKeepsOrder
<1>5. ASSUME NEW b \in Batches, NEW n \in Nat, NEW shares \in Nat,
             NEW gross \in Nat, NEW nav \in Nat,
             complete_protocol_fee_withdrawal(b, n, shares, gross, nav)
      PROVE  IntentsSettleOnceInOrder'
  BY <1>5, TreasuryReceiptKeepsOrder DEF complete_protocol_fee_withdrawal
<1>6. CASE begin_reconstitution \/ begin_resolution
  BY <1>6, OrderUntouched
     DEF begin_reconstitution, begin_resolution, AccrueForLifecycle,
         settlementVars
<1>7. CASE \E k \in Nat : complete_reconstitution(k)
  BY <1>7, OrderUntouched
     DEF complete_reconstitution, AccrueForLifecycle, settlementVars
<1>8. CASE \E nav \in N : record_final_settlement(Accrual.total, nav)
  BY <1>8, OrderUntouched
     DEF record_final_settlement, AccrueForLifecycle, settlementVars
<1>9. CASE UNCHANGED vars
  BY <1>9, OrderUntouched DEF vars, settlementVars
<1>10. QED
  BY <1>1, <1>2, <1>3, <1>4, <1>5, <1>6, <1>7, <1>8, <1>9 DEF Handler

-----------------------------------------------------------------------------
(* Every interval is billed at the supply held in it *)

\* FeeBilledAtHeldSupply with what makes an accrual bill at all: while shares are
\* outstanding the fee clock has been started.
FeeClock ==
  /\ FeeBilledAtHeldSupply
  /\ AccruingStatus /\ total_shares_outstanding > 0 => last_management_fee_at > 0

\* After an accrual nothing is unbilled, whatever the supply becomes.
LEMMA TakeFeeSettlesClock ==
  ASSUME TypeOK, FeeClock, AccruingStatus, TakeFee(Accrual), now' = now,
         total_shares_outstanding' \in U64, protocol_fee_shares' \in U64
  PROVE  FeeClock'
<1>1. /\ last_management_fee_at' = now /\ now \in Nat /\ now > 0
      /\ total_shares_outstanding \in Nat /\ protocol_fee_shares \in Nat
      /\ total_shares_outstanding' \in Nat
      /\ total_shares_outstanding >= protocol_fee_shares
      /\ last_management_fee_at \in Nat
  BY BoundAssumption DEF TakeFee, CanAccrue, TypeOK, U64
<1>2. unbilled' = 0
  <2>1. CASE NobodyToCharge
    <3>1. total_shares_outstanding > 0 => last_management_fee_at > 0
      BY DEF FeeClock
    <3>2. ~(UserShares > 0)
      BY <1>1, <2>1, <3>1 DEF NobodyToCharge, UserShares
    <3>3. unbilled = 0
      BY <3>2 DEF FeeClock, FeeBilledAtHeldSupply
    <3>4. QED
      BY <2>1, <3>3 DEF TakeFee
  <2>2. CASE ~NobodyToCharge
    BY <2>2 DEF TakeFee
  <2>3. QED
    BY <2>1, <2>2
<1>3. total_shares_outstanding' * (now' - last_management_fee_at') = 0
  <2>1. now' - last_management_fee_at' = 0
    BY <1>1
  <2>2. \A x \in Nat : x * 0 = 0
    OBVIOUS
  <2>3. QED
    BY <1>1, <2>1, <2>2
<1>4. FeeBilledAtHeldSupply'
  BY <1>2, <1>3 DEF FeeBilledAtHeldSupply
<1>5. QED
  BY <1>1, <1>4 DEF FeeClock

\* A basket that no longer accrues has no fee clock to keep.
LEMMA ClockStopped ==
  ASSUME ~AccruingStatus' PROVE FeeClock'
BY DEF FeeClock, FeeBilledAtHeldSupply

LEMMA TickBillsLater ==
  ASSUME TypeOK, FeeClock, Tick PROVE FeeClock'
<1>1. /\ now \in Nat /\ now' = now + 1 /\ last_management_fee_at \in 0 .. now
      /\ total_shares_outstanding \in Nat
      /\ UNCHANGED <<status, total_shares_outstanding, protocol_fee_shares,
                     last_management_fee_at>>
      /\ unbilled' = IF AccruingStatus /\ UserShares > 0
                     THEN unbilled + total_shares_outstanding ELSE unbilled
  BY BoundAssumption DEF Tick, TypeOK, supplyVars, feeVars, U64
<1>2. total_shares_outstanding * (now' - last_management_fee_at)
        = total_shares_outstanding * (now - last_management_fee_at)
          + total_shares_outstanding
  BY <1>1
<1>3. AccruingStatus' = AccruingStatus /\ UserShares' = UserShares
  BY <1>1 DEF AccruingStatus, UserShares
<1>4. FeeBilledAtHeldSupply'
  BY <1>1, <1>2, <1>3 DEF FeeClock, FeeBilledAtHeldSupply
<1>5. QED
  BY <1>1, <1>3, <1>4 DEF FeeClock

LEMMA ClockUntouched ==
  ASSUME FeeClock, UNCHANGED <<now, status, supplyVars, feeVars, unbilled>>
  PROVE  FeeClock'
BY DEF FeeClock, FeeBilledAtHeldSupply, AccruingStatus, UserShares, supplyVars,
       feeVars

LEMMA HandlerBilled ==
  ASSUME NEW N \in SUBSET Nat, TypeOK, PositionsDated, FeeClock, [Handler(N)]_vars
  PROVE  FeeClock'
<1>1. TypeOK'
  BY HandlerTyped
<1>2. total_shares_outstanding' \in U64 /\ protocol_fee_shares' \in U64
  BY <1>1 DEF TypeOK
<1>3. ASSUME AccruingStatus, TakeFee(Accrual), now' = now PROVE FeeClock'
  BY <1>2, <1>3, TakeFeeSettlesClock
<1>4. CASE Tick
  BY <1>4, TickBillsLater
<1>5. CASE \E value \in BOOLEAN : set_paused(value)
  BY <1>5, ClockUntouched DEF set_paused
<1>6. CASE accrue_management_fee
  BY <1>3, <1>6 DEF accrue_management_fee
<1>7. ASSUME NEW u \in Users, NEW b \in Batches, NEW k \in Nat, NEW n \in Nat,
             NEW gross \in Nat, NEW net \in Nat, NEW nav \in Nat,
             complete_deposit(u, b, k, n, gross, net, nav)
      PROVE  FeeClock'
  BY <1>3, <1>7 DEF complete_deposit, AccruingStatus
<1>8. ASSUME NEW u \in Users, NEW b \in Batches, NEW k \in Nat, NEW n \in Nat,
             NEW shares \in Nat, NEW gross \in Nat, NEW nav \in Nat,
             complete_withdrawal(u, b, k, n, shares, gross, nav)
      PROVE  FeeClock'
  <2>1. CASE status = "Active"
    BY <1>3, <1>8, <2>1 DEF complete_withdrawal, AccruingStatus
  <2>2. CASE status = "Redeemable"
    BY <1>8, <2>2, ClockStopped
       DEF complete_withdrawal, BurnShares, AccruingStatus
  <2>3. QED
    BY <1>8, <2>1, <2>2 DEF complete_withdrawal
<1>9. ASSUME NEW b \in Batches, NEW n \in Nat, NEW shares \in Nat,
             NEW gross \in Nat, NEW nav \in Nat,
             complete_protocol_fee_withdrawal(b, n, shares, gross, nav)
      PROVE  FeeClock'
  <2>1. CASE AccruingStatus
    BY <1>3, <1>9, <2>1 DEF complete_protocol_fee_withdrawal, AccruingStatus
  <2>2. CASE status = "Redeemable"
    BY <1>9, <2>2, ClockStopped
       DEF complete_protocol_fee_withdrawal, BurnShares, AccruingStatus
  <2>3. QED
    BY <1>9, <2>1, <2>2 DEF complete_protocol_fee_withdrawal
<1>10. CASE begin_reconstitution \/ begin_resolution
  BY <1>3, <1>10
     DEF begin_reconstitution, begin_resolution, AccrueForLifecycle,
         AccruingStatus
<1>11. CASE \E k \in Nat : complete_reconstitution(k)
  BY <1>3, <1>11
     DEF complete_reconstitution, AccrueForLifecycle, AccruingStatus
<1>12. CASE \E nav \in N : record_final_settlement(Accrual.total, nav)
  BY <1>12, ClockStopped DEF record_final_settlement, AccruingStatus
<1>13. CASE UNCHANGED vars
  BY <1>13, ClockUntouched DEF vars
<1>14. QED
  BY <1>4, <1>5, <1>6, <1>7, <1>8, <1>9, <1>10, <1>11, <1>12, <1>13 DEF Handler

-----------------------------------------------------------------------------
(* A basket is closed exactly when its last share is gone *)

\* Burning from a supply of an open basket closes it exactly at zero.
LEMMA BurnCloses ==
  ASSUME NEW held \in Nat, NEW shares \in Nat, BurnShares(held, shares),
         status # "Closed"
  PROVE  status' = "Closed" <=> total_shares_outstanding' = 0
BY DEF BurnShares

\* An accrual leaves an open, initialized basket with shares.
LEMMA AccrualKeepsSupply ==
  ASSUME TypeOK, ClosedExactlyWhenEmpty, TakeFee(Accrual),
         has_initialized_share_price, status # "Closed"
  PROVE  Accrual.total \in Nat /\ Accrual.total > 0
<1>1. total_shares_outstanding \in Nat /\ total_shares_outstanding # 0
  BY BoundAssumption DEF TypeOK, ClosedExactlyWhenEmpty, U64
<1>2. Accrual.minted \in Nat
  BY AccrualWidths DEF TakeFee
<1>3. QED
  BY <1>1, <1>2, AccrualShape

LEMMA HandlerCloses ==
  ASSUME NEW N \in SUBSET Nat, TypeOK, ClosedExactlyWhenEmpty, [Handler(N)]_vars
  PROVE  ClosedExactlyWhenEmpty'
<1>1. CASE Tick \/ \E value \in BOOLEAN : set_paused(value)
  BY <1>1 DEF Tick, set_paused, settlementVars, supplyVars, ClosedExactlyWhenEmpty
<1>2. CASE accrue_management_fee
  <2>1. /\ TakeFee(Accrual) /\ status # "Closed" /\ status' = status
        /\ has_initialized_share_price' = has_initialized_share_price
        /\ total_shares_outstanding' = Accrual.total
    BY <1>2 DEF accrue_management_fee, AccruingStatus, settlementVars
  <2>2. QED
    BY <2>1, AccrualKeepsSupply DEF ClosedExactlyWhenEmpty
<1>3. ASSUME NEW u \in Users, NEW b \in Batches, NEW k \in Nat, NEW n \in Nat,
             NEW gross \in Nat, NEW net \in Nat, NEW nav \in Nat,
             complete_deposit(u, b, k, n, gross, net, nav)
      PROVE  ClosedExactlyWhenEmpty'
  <2> DEFINE price == IF has_initialized_share_price
                      THEN share_price_from_nav(nav, Accrual.total)
                      ELSE SHARE_SCALE
             credited == shares_for_value(net, price)
  <2>1. /\ TakeFee(Accrual) /\ status' = "Active" /\ credited \in U64 \ {0}
        /\ total_shares_outstanding' = Accrual.total + credited
    BY <1>3 DEF complete_deposit
  <2> HIDE DEF credited
  <2>2. total_shares_outstanding' > 0
    BY <2>1, TakeFeeTyped, BoundAssumption DEF U64
  <2>3. QED
    BY <2>1, <2>2 DEF ClosedExactlyWhenEmpty
<1>4. ASSUME NEW u \in Users, NEW b \in Batches, NEW k \in Nat, NEW n \in Nat,
             NEW shares \in Nat, NEW gross \in Nat, NEW nav \in Nat,
             complete_withdrawal(u, b, k, n, shares, gross, nav)
      PROVE  ClosedExactlyWhenEmpty'
  <2>1. shares \in Nat
        /\ has_initialized_share_price' = has_initialized_share_price
    BY <1>4 DEF complete_withdrawal
  <2>2. CASE status = "Active"
    <3>1. TakeFee(Accrual) /\ BurnShares(Accrual.total, shares)
      BY <1>4, <2>2 DEF complete_withdrawal
    <3>2. Accrual.total \in Nat
      BY <3>1, TakeFeeTyped, BoundAssumption DEF U64
    <3>3. QED
      BY <2>1, <2>2, <3>1, <3>2, BurnCloses DEF ClosedExactlyWhenEmpty
  <2>3. CASE status = "Redeemable"
    <3>1. BurnShares(total_shares_outstanding, shares)
      BY <1>4, <2>3 DEF complete_withdrawal
    <3>2. total_shares_outstanding \in Nat
      BY BoundAssumption DEF TypeOK, U64
    <3>3. QED
      BY <2>1, <2>3, <3>1, <3>2, BurnCloses DEF ClosedExactlyWhenEmpty
  <2>4. QED
    BY <1>4, <2>2, <2>3 DEF complete_withdrawal
<1>5. ASSUME NEW b \in Batches, NEW n \in Nat, NEW shares \in Nat,
             NEW gross \in Nat, NEW nav \in Nat,
             complete_protocol_fee_withdrawal(b, n, shares, gross, nav)
      PROVE  ClosedExactlyWhenEmpty'
  <2>1. shares \in Nat
        /\ has_initialized_share_price' = has_initialized_share_price
    BY <1>5 DEF complete_protocol_fee_withdrawal
  <2>2. CASE AccruingStatus
    <3>1. /\ TakeFee(Accrual) /\ BurnShares(Accrual.total, shares)
          /\ status # "Closed"
      BY <1>5, <2>2 DEF complete_protocol_fee_withdrawal, AccruingStatus
    <3>2. Accrual.total \in Nat
      BY <3>1, TakeFeeTyped, BoundAssumption DEF U64
    <3>3. QED
      BY <2>1, <3>1, <3>2, BurnCloses DEF ClosedExactlyWhenEmpty
  <2>3. CASE status = "Redeemable"
    <3>1. BurnShares(total_shares_outstanding, shares)
      BY <1>5, <2>3 DEF complete_protocol_fee_withdrawal, AccruingStatus
    <3>2. total_shares_outstanding \in Nat
      BY BoundAssumption DEF TypeOK, U64
    <3>3. QED
      BY <2>1, <2>3, <3>1, <3>2, BurnCloses DEF ClosedExactlyWhenEmpty
  <2>4. QED
    BY <1>5, <2>2, <2>3 DEF complete_protocol_fee_withdrawal
<1>6. ASSUME AccrueForLifecycle(Accrual), status # "Closed",
             status' # "Closed"
      PROVE  ClosedExactlyWhenEmpty'
  BY <1>6, AccrualKeepsSupply
     DEF AccrueForLifecycle, settlementVars, ClosedExactlyWhenEmpty
<1>7. CASE begin_reconstitution \/ begin_resolution
  BY <1>6, <1>7 DEF begin_reconstitution, begin_resolution
<1>8. CASE \E k \in Nat : complete_reconstitution(k)
  BY <1>6, <1>8 DEF complete_reconstitution
<1>9. CASE \E nav \in N : record_final_settlement(Accrual.total, nav)
  BY <1>9, AccrualKeepsSupply
     DEF record_final_settlement, AccrueForLifecycle, settlementVars,
         ClosedExactlyWhenEmpty
<1>10. CASE UNCHANGED vars
  BY <1>10 DEF vars, settlementVars, supplyVars, ClosedExactlyWhenEmpty
<1>11. QED
  BY <1>1, <1>2, <1>3, <1>4, <1>5, <1>7, <1>8, <1>9, <1>10 DEF Handler

-----------------------------------------------------------------------------
(* A step moves the shares of one user at most *)

\* An accrual that leaves every position alone moves the supply with the
\* protocol's shares.
LEMMA AccrualMovesProtocolOnly ==
  ASSUME TypeOK, UNCHANGED positions,
         total_shares_outstanding' = Accrual.total,
         protocol_fee_shares' = Accrual.fee_shares, TakeFee(Accrual)
  PROVE  OneHolderMoves
<1>1. PICK u \in Users : TRUE
  BY InputAssumption
<1>2. /\ total_shares_outstanding \in Nat /\ protocol_fee_shares \in Nat
      /\ Accrual.minted \in Nat
      /\ Accrual.total = total_shares_outstanding + Accrual.minted
      /\ Accrual.fee_shares = protocol_fee_shares + Accrual.minted
  BY AccrualShape, AccrualWidths, BoundAssumption DEF TypeOK, U64, TakeFee
<1>3. positions[u].shares_owned \in Nat
  BY DEF TypeOK, Position
<1>4. QED
  BY <1>1, <1>2, <1>3 DEF OneHolderMoves

\* Burning shares of the protocol, after an accrual or not.
LEMMA ProtocolBurnMoves ==
  ASSUME TypeOK, UNCHANGED positions, NEW shares \in Nat,
         NEW minted \in Nat,
         total_shares_outstanding' = total_shares_outstanding + minted - shares,
         protocol_fee_shares' = protocol_fee_shares + minted - shares
  PROVE  OneHolderMoves
<1>1. PICK u \in Users : TRUE
  BY InputAssumption
<1>2. total_shares_outstanding \in Nat /\ protocol_fee_shares \in Nat
  BY BoundAssumption DEF TypeOK, U64
<1>3. positions[u].shares_owned \in Nat
  BY DEF TypeOK, Position
<1>4. QED
  BY <1>1, <1>2, <1>3 DEF OneHolderMoves

\* A settlement of one user moves the supply by what it moves in the user's
\* position, and what it accrues by what the protocol is credited.
LEMMA UserSettlementMoves ==
  ASSUME TypeOK, NEW u \in Users, NEW p, NEW minted \in Nat, NEW moved \in Int,
         positions' = [positions EXCEPT ![u] = p],
         p.shares_owned = positions[u].shares_owned + moved,
         total_shares_outstanding' = total_shares_outstanding + minted + moved,
         protocol_fee_shares' = protocol_fee_shares + minted
  PROVE  OneHolderMoves
<1>1. total_shares_outstanding \in Nat /\ protocol_fee_shares \in Nat
  BY BoundAssumption DEF TypeOK, U64
<1>2. /\ positions[u].shares_owned \in Nat
      /\ positions'[u].shares_owned = positions[u].shares_owned + moved
      /\ \A v \in Users \ {u} : positions'[v] = positions[v]
  BY DEF TypeOK, Position
<1>3. total_shares_outstanding' - total_shares_outstanding =
        (protocol_fee_shares' - protocol_fee_shares)
        + (positions'[u].shares_owned - positions[u].shares_owned)
  BY <1>1, <1>2
<1>4. QED
  BY <1>2, <1>3 DEF OneHolderMoves

LEMMA HandlerMovesOneHolder ==
  ASSUME NEW N \in SUBSET Nat, TypeOK, [Handler(N)]_vars
  PROVE  [OneHolderMoves]_vars
<1> USE BoundAssumption
<1>1. /\ total_shares_outstanding \in Nat /\ protocol_fee_shares \in Nat
      /\ \A u \in Users : positions[u].shares_owned \in Nat
  BY DEF TypeOK, U64, Position
<1>2. ASSUME UNCHANGED <<total_shares_outstanding, protocol_fee_shares, positions>>
      PROVE  OneHolderMoves
  BY <1>1, <1>2, ProtocolBurnMoves
<1>3. ASSUME UNCHANGED positions, TakeFee(Accrual),
             total_shares_outstanding' = Accrual.total,
             protocol_fee_shares' = Accrual.fee_shares
      PROVE  OneHolderMoves
  BY <1>3, AccrualMovesProtocolOnly
<1>4. CASE Tick \/ \E value \in BOOLEAN : set_paused(value)
  BY <1>2, <1>4 DEF Tick, set_paused, supplyVars, settlementVars
<1>5. CASE accrue_management_fee
  BY <1>3, <1>5 DEF accrue_management_fee, settlementVars
<1>6. ASSUME NEW u \in Users, NEW b \in Batches, NEW k \in Nat, NEW n \in Nat,
             NEW gross \in Nat, NEW net \in Nat, NEW nav \in Nat,
             complete_deposit(u, b, k, n, gross, net, nav)
      PROVE  OneHolderMoves
  <2> DEFINE price == IF has_initialized_share_price
                      THEN share_price_from_nav(nav, Accrual.total)
                      ELSE SHARE_SCALE
             credited == shares_for_value(net, price)
             p == [shares_owned |-> positions[u].shares_owned + credited,
                   cost_basis_value |-> positions[u].cost_basis_value + net,
                   weighted_deposit_timestamp |->
                     weighted_average_timestamp(positions[u].cost_basis_value,
                       positions[u].weighted_deposit_timestamp, net),
                   last_intent_nonce |-> k]
  <2>1. /\ TakeFee(Accrual) /\ credited \in U64 \ {0}
        /\ total_shares_outstanding' = Accrual.total + credited
        /\ protocol_fee_shares' = Accrual.fee_shares
        /\ positions' = [positions EXCEPT ![u] = p]
    BY <1>6 DEF complete_deposit
  <2>2. p.shares_owned = positions[u].shares_owned + credited
    OBVIOUS
  <2> HIDE DEF credited, p
  <2>3. credited \in Int /\ Accrual.minted \in Nat
    BY <2>1, AccrualWidths DEF TakeFee, U64
  <2>4. QED
    BY <2>1, <2>2, <2>3, AccrualShape, UserSettlementMoves
<1>7. ASSUME NEW u \in Users, NEW b \in Batches, NEW k \in Nat, NEW n \in Nat,
             NEW shares \in Nat, NEW gross \in Nat, NEW nav \in Nat,
             complete_withdrawal(u, b, k, n, shares, gross, nav)
      PROVE  OneHolderMoves
  <2> DEFINE left == positions[u].shares_owned - shares
             basis == cost_basis_for_shares(positions[u].cost_basis_value, shares,
                                            positions[u].shares_owned)
             p == [shares_owned |-> left,
                   cost_basis_value |-> positions[u].cost_basis_value - basis,
                   weighted_deposit_timestamp |->
                     RemainingTimestamp(positions[u], left),
                   last_intent_nonce |-> k]
  <2>1. /\ positions' = [positions EXCEPT ![u] = p]
        /\ p.shares_owned = positions[u].shares_owned - shares
    BY <1>7 DEF complete_withdrawal
  <2> HIDE DEF p
  <2>2. -shares \in Int /\ p.shares_owned = positions[u].shares_owned + (-shares)
    BY <1>1, <2>1
  <2>3. CASE status = "Active"
    <3>1. /\ TakeFee(Accrual)
          /\ protocol_fee_shares' = Accrual.fee_shares
          /\ total_shares_outstanding' = Accrual.total - shares
      BY <1>7, <2>3 DEF complete_withdrawal, BurnShares
    <3>2. Accrual.minted \in Nat
      BY <3>1, AccrualWidths DEF TakeFee
    <3>3. /\ protocol_fee_shares' = protocol_fee_shares + Accrual.minted
          /\ total_shares_outstanding' =
               total_shares_outstanding + Accrual.minted + (-shares)
      BY <1>1, <3>1, <3>2, AccrualShape
    <3>4. QED
      BY <2>1, <2>2, <3>2, <3>3, UserSettlementMoves
  <2>4. CASE status = "Redeemable"
    <3>1. /\ protocol_fee_shares' = protocol_fee_shares + 0
          /\ total_shares_outstanding' = total_shares_outstanding + 0 + (-shares)
      BY <1>1, <1>7, <2>4 DEF complete_withdrawal, BurnShares
    <3>2. QED
      BY <2>1, <2>2, <3>1, UserSettlementMoves
  <2>5. QED
    BY <1>7, <2>3, <2>4 DEF complete_withdrawal
<1>8. ASSUME NEW b \in Batches, NEW n \in Nat, NEW shares \in Nat,
             NEW gross \in Nat, NEW nav \in Nat,
             complete_protocol_fee_withdrawal(b, n, shares, gross, nav)
      PROVE  OneHolderMoves
  <2>1. UNCHANGED positions
    BY <1>8 DEF complete_protocol_fee_withdrawal
  <2>2. CASE AccruingStatus
    <3>1. /\ TakeFee(Accrual)
          /\ protocol_fee_shares' = Accrual.fee_shares - shares
          /\ total_shares_outstanding' = Accrual.total - shares
      BY <1>8, <2>2 DEF complete_protocol_fee_withdrawal, BurnShares,
                        AccruingStatus
    <3>2. Accrual.minted \in Nat
      BY <3>1, AccrualWidths DEF TakeFee
    <3>3. /\ protocol_fee_shares' = protocol_fee_shares + Accrual.minted - shares
          /\ total_shares_outstanding' =
               total_shares_outstanding + Accrual.minted - shares
      BY <1>1, <3>1, <3>2, AccrualShape
    <3>4. QED
      BY <2>1, <3>2, <3>3, ProtocolBurnMoves
  <2>3. CASE status = "Redeemable"
    <3>1. /\ protocol_fee_shares' = protocol_fee_shares + 0 - shares
          /\ total_shares_outstanding' = total_shares_outstanding + 0 - shares
      BY <1>1, <1>8, <2>3 DEF complete_protocol_fee_withdrawal, BurnShares,
                              AccruingStatus
    <3>2. QED
      BY <2>1, <3>1, ProtocolBurnMoves
  <2>4. QED
    BY <1>8, <2>2, <2>3 DEF complete_protocol_fee_withdrawal
<1>9. CASE begin_reconstitution \/ begin_resolution
  BY <1>3, <1>9
     DEF begin_reconstitution, begin_resolution, AccrueForLifecycle, settlementVars
<1>10. CASE \E k \in Nat : complete_reconstitution(k)
  BY <1>3, <1>10
     DEF complete_reconstitution, AccrueForLifecycle, settlementVars
<1>11. CASE \E nav \in N : record_final_settlement(Accrual.total, nav)
  BY <1>3, <1>11
     DEF record_final_settlement, AccrueForLifecycle, settlementVars
<1>12. CASE UNCHANGED vars
  BY <1>12
<1>13. QED
  BY <1>4, <1>5, <1>6, <1>7, <1>8, <1>9, <1>10, <1>11, <1>12 DEF Handler

-----------------------------------------------------------------------------
(* Who owns the supply, and what the final NAV owes *)

Held == [u \in Users |-> positions[u].shares_owned]

\* What accrue_management_fee_internal computes as the shares of the users, the
\* supply less the protocol's, is what the position accounts add up to.
SharesAreOwned == UserShares = SumOf(Held, Users)

LEMMA HeldTyped ==
  ASSUME TypeOK
  PROVE  /\ \A u \in Users : Held[u] = positions[u].shares_owned /\ Held[u] \in Nat
         /\ SumOf(Held, Users) \in Nat
<1>1. \A u \in Users : Held[u] = positions[u].shares_owned /\ Held[u] \in Nat
  BY DEF Held, TypeOK, Position
<1>2. QED
  BY <1>1, InputAssumption, SumOfNaturals

LEMMA InitOwned == Init => SharesAreOwned
<1>1. SUFFICES ASSUME Init PROVE SharesAreOwned
  OBVIOUS
<1>2. \A u \in Users : Held[u] = 0
  BY <1>1 DEF Init, NewPosition, Held
<1>3. SumOf(Held, Users) \in Nat
  BY <1>2, InputAssumption, SumOfNaturals
<1>4. SumOf(Held, Users) * 1 <= 0 * SumOf(Held, Users)
  BY <1>2, InputAssumption, ScaledSums
<1>5. QED
  BY <1>1, <1>3, <1>4 DEF Init, SharesAreOwned, UserShares

\* A step that moves the shares of one holder keeps every share owned.
LEMMA MovesKeepOwned ==
  ASSUME TypeOK, TypeOK', SharesAreOwned, OneHolderMoves
  PROVE  SharesAreOwned'
<1>1. PICK u \in Users :
        /\ \A v \in Users \ {u} :
             positions'[v].shares_owned = positions[v].shares_owned
        /\ total_shares_outstanding' - total_shares_outstanding =
             (protocol_fee_shares' - protocol_fee_shares)
             + (positions'[u].shares_owned - positions[u].shares_owned)
  BY DEF OneHolderMoves
<1> DEFINE held == Held
           next == [v \in Users |-> positions'[v].shares_owned]
<1>2. \A v \in Users : held[v] = positions[v].shares_owned /\ held[v] \in Nat
  BY HeldTyped
<1>3. \A v \in Users :
        next[v] = positions'[v].shares_owned /\ next[v] \in Nat
  BY DEF TypeOK, Position
<1>4. next = Held'
  BY DEF Held
<1> HIDE DEF held, next
<1>5. SumOf(next, Users) - SumOf(held, Users) = next[u] - held[u]
  BY <1>1, <1>2, <1>3, InputAssumption, SumMovesWithTerm
<1>6. SumOf(next, Users) \in Nat /\ SumOf(held, Users) \in Nat
  BY <1>2, <1>3, InputAssumption, SumOfNaturals
<1>7. /\ total_shares_outstanding \in Nat /\ protocol_fee_shares \in Nat
      /\ total_shares_outstanding' \in Nat /\ protocol_fee_shares' \in Nat
  BY BoundAssumption DEF TypeOK, U64
<1>8. total_shares_outstanding - protocol_fee_shares = SumOf(held, Users)
  BY DEF SharesAreOwned, UserShares, held
<1>9. total_shares_outstanding' - protocol_fee_shares' = SumOf(next, Users)
  BY <1>1, <1>2, <1>3, <1>5, <1>6, <1>7, <1>8
<1>10. QED
  BY <1>4, <1>9 DEF SharesAreOwned, UserShares

LEMMA SharesStayOwned ==
  ASSUME SharesAreOwned, UNCHANGED vars
  PROVE  SharesAreOwned'
BY DEF vars, supplyVars, settlementVars, SharesAreOwned, UserShares, Held

\* A redeemable basket has a snapshot to divide the recorded NAV by.
FinalPriceSet(N) ==
  status = "Redeemable" =>
    final_share_snapshot > 0 /\ final_nav_value \in N

LEMMA HandlerSetsPrice ==
  ASSUME NEW N \in SUBSET Nat, TypeOK, FinalPriceSet(N), [Handler(N)]_vars
  PROVE  FinalPriceSet(N)'
<1>1. ASSUME UNCHANGED <<status, finalVars>>
      PROVE  FinalPriceSet(N)'
  BY <1>1 DEF FinalPriceSet, finalVars
<1>2. ASSUME status' # "Redeemable"
      PROVE  FinalPriceSet(N)'
  BY <1>2 DEF FinalPriceSet
<1>3. ASSUME status' \in {status, "Closed"},
             UNCHANGED <<final_nav_value, final_share_snapshot>>
      PROVE  FinalPriceSet(N)'
  BY <1>3 DEF FinalPriceSet
<1>4. CASE Tick \/ \E value \in BOOLEAN : set_paused(value)
  BY <1>1, <1>4 DEF Tick, set_paused
<1>5. CASE accrue_management_fee
  BY <1>1, <1>5 DEF accrue_management_fee
<1>6. CASE \E u \in Users, b \in Batches, k, n, gross, net, nav \in Nat :
             complete_deposit(u, b, k, n, gross, net, nav)
  BY <1>1, <1>6 DEF complete_deposit
<1>7. ASSUME NEW u \in Users, NEW b \in Batches, NEW k \in Nat, NEW n \in Nat,
             NEW shares \in Nat, NEW gross \in Nat, NEW nav \in Nat,
             complete_withdrawal(u, b, k, n, shares, gross, nav)
      PROVE  FinalPriceSet(N)'
  BY <1>3, <1>7 DEF complete_withdrawal, BurnShares, CurrentValue, FinalValue,
                    finalVars
<1>8. ASSUME NEW b \in Batches, NEW n \in Nat, NEW shares \in Nat,
             NEW gross \in Nat, NEW nav \in Nat,
             complete_protocol_fee_withdrawal(b, n, shares, gross, nav)
      PROVE  FinalPriceSet(N)'
  BY <1>3, <1>8 DEF complete_protocol_fee_withdrawal, BurnShares, CurrentValue,
                    FinalValue, finalVars
<1>9. CASE begin_reconstitution \/ begin_resolution
  BY <1>2, <1>9 DEF begin_reconstitution, begin_resolution
<1>10. CASE \E k \in Nat : complete_reconstitution(k)
  BY <1>2, <1>10 DEF complete_reconstitution
<1>11. CASE \E nav \in N : record_final_settlement(Accrual.total, nav)
  <2>1. PICK nav \in N : record_final_settlement(Accrual.total, nav)
    BY <1>11
  <2>2. Accrual.total \in Nat
    BY <2>1, AccrualWidths, BoundAssumption
       DEF record_final_settlement, AccrueForLifecycle, TakeFee, U64
  <2>3. QED
    BY <2>1, <2>2 DEF record_final_settlement, FinalPriceSet
<1>12. CASE UNCHANGED vars
  BY <1>1, <1>12 DEF vars
<1>13. QED
  BY <1>4, <1>5, <1>6, <1>7, <1>8, <1>9, <1>10, <1>11, <1>12 DEF Handler

Claims == [u \in Users |-> pro_rata_value(final_nav_value,
                             positions[u].shares_owned, final_share_snapshot)]

LEMMA ClaimsAdded ==
  MapThenSumSet(LAMBDA u : pro_rata_value(final_nav_value,
                  positions[u].shares_owned, final_share_snapshot), Users)
    = SumOf(Claims, Users)
<1> DEFINE owed(u) == pro_rata_value(final_nav_value,
                        positions[u].shares_owned, final_share_snapshot)
           g == CHOOSE h : h = [T \in SUBSET Users |->
                    IF T = {} THEN 0
                    ELSE owed(CHOOSE x \in T : TRUE)
                           + h[T \ {CHOOSE x \in T : TRUE}]]
<1>1. \A h : Sums(Claims, h, Users) <=>
               h = [T \in SUBSET Users |->
                      IF T = {} THEN 0
                      ELSE owed(CHOOSE x \in T : TRUE)
                             + h[T \ {CHOOSE x \in T : TRUE}]]
  <2>1. TAKE h
  <2>2. \A T \in SUBSET Users :
          T # {} => Claims[Pick(T)] = owed(CHOOSE x \in T : TRUE)
    BY Picked DEF Claims, Pick
  <2> HIDE DEF owed
  <2>3. \A T \in SUBSET Users :
          Summand(Claims, h, T) =
            IF T = {} THEN 0 ELSE owed(CHOOSE x \in T : TRUE)
                                    + h[T \ {CHOOSE x \in T : TRUE}]
    BY <2>2 DEF Summand, Pick
  <2>4. QED
    BY <2>3 DEF Sums
<1>2. PICK h : Sums(Claims, h, Users) /\ SumOf(Claims, Users) = h[Users]
  BY InputAssumption, SumOfIsItsSums
<1>3. Sums(Claims, g, Users)
  <2> HIDE DEF owed
  <2>1. h = [T \in SUBSET Users |->
               IF T = {} THEN 0
               ELSE owed(CHOOSE x \in T : TRUE)
                      + h[T \ {CHOOSE x \in T : TRUE}]]
    BY <1>1, <1>2
  <2>2. g = [T \in SUBSET Users |->
               IF T = {} THEN 0
               ELSE owed(CHOOSE x \in T : TRUE)
                      + g[T \ {CHOOSE x \in T : TRUE}]]
    BY <2>1
  <2>3. QED
    BY <1>1, <2>2
<1>4. g[Users] = h[Users]
  BY <1>2, <1>3, InputAssumption, SumsAreUnique
<1>5. MapThenSumSet(LAMBDA u : pro_rata_value(final_nav_value,
                      positions[u].shares_owned, final_share_snapshot), Users)
        = g[Users]
  BY DEF MapThenSumSet, MapThenFoldSet
<1>6. QED
  BY <1>2, <1>4, <1>5

\* Payments, open claims of the users and the claim of the protocol, each rounded
\* down, stay within the NAV because the shares behind them add up to the snapshot.
LEMMA ClaimsCovered ==
  ASSUME NEW paid \in Nat, NEW owed \in Nat, NEW due \in Nat, NEW nav \in Nat,
         NEW consumed \in Nat, NEW held \in Nat, NEW fee \in Nat,
         NEW snapshot \in Nat \ {0}, consumed + held + fee = snapshot,
         paid * snapshot <= nav * consumed, owed * snapshot <= nav * held,
         due * snapshot <= nav * fee
  PROVE  paid + owed + due <= nav
<1>1. (paid + owed + due) * snapshot =
        paid * snapshot + owed * snapshot + due * snapshot
  OBVIOUS
<1>2. nav * snapshot = nav * consumed + nav * held + nav * fee
  OBVIOUS
<1>3. /\ paid * snapshot \in Nat /\ owed * snapshot \in Nat
      /\ due * snapshot \in Nat /\ nav * consumed \in Nat
      /\ nav * held \in Nat /\ nav * fee \in Nat
  OBVIOUS
<1>4. (paid + owed + due) * snapshot <= nav * snapshot
  BY <1>1, <1>2, <1>3
<1>5. SUFFICES ASSUME nav + 1 <= paid + owed + due PROVE FALSE
  OBVIOUS
<1>6. (nav + 1) * snapshot <= (paid + owed + due) * snapshot
  BY <1>5, ProductBounds
<1>7. (nav + 1) * snapshot = nav * snapshot + snapshot
  OBVIOUS
<1>8. nav * snapshot \in Nat /\ (paid + owed + due) * snapshot \in Nat
  OBVIOUS
<1>9. QED
  BY <1>4, <1>6, <1>7, <1>8

LEMMA NavCoversClaims ==
  ASSUME NEW N \in SUBSET Nat, TypeOK, FinalFunds, SharesAreOwned, FinalPriceSet(N)
  PROVE  RemainingNavCoversClaims
<1>1. SUFFICES ASSUME status = "Redeemable" PROVE RemainingNavCoversClaims
  BY DEF RemainingNavCoversClaims
<1> DEFINE nav == final_nav_value
           snapshot == final_share_snapshot
           held == Held
           claims == Claims
           due == pro_rata_value(nav, protocol_fee_shares, snapshot)
<1>2. /\ final_paid \in Nat /\ nav \in Nat /\ snapshot \in Nat \ {0}
      /\ final_shares_consumed \in Nat /\ protocol_fee_shares \in Nat
      /\ total_shares_outstanding \in Nat
  BY <1>1, BoundAssumption DEF TypeOK, U64, FinalPriceSet
<1>3. due \in Nat /\ due * snapshot <= nav * protocol_fee_shares
  BY <1>2, ProRata
<1>4. \A u \in Users : held[u] = positions[u].shares_owned /\ held[u] \in Nat
  BY HeldTyped
<1>5. \A u \in Users : claims[u] \in Nat /\ claims[u] * snapshot <= nav * held[u]
  <2>1. SUFFICES ASSUME NEW u \in Users
                 PROVE  /\ claims[u] \in Nat
                        /\ claims[u] * snapshot <= nav * held[u]
    OBVIOUS
  <2>2. claims[u] = pro_rata_value(nav, held[u], snapshot)
    BY <1>4 DEF Claims
  <2>3. QED
    BY <1>2, <1>4, <2>2, ProRata
<1>6. SumOf(held, Users) = total_shares_outstanding - protocol_fee_shares
  BY DEF SharesAreOwned, UserShares
<1>7. MapThenSumSet(LAMBDA u : pro_rata_value(final_nav_value,
                      positions[u].shares_owned, final_share_snapshot), Users)
        = SumOf(claims, Users)
  BY ClaimsAdded
<1>8. /\ final_paid * snapshot <= nav * final_shares_consumed
      /\ final_shares_consumed + total_shares_outstanding = snapshot
  BY <1>1 DEF FinalFunds, FinalSnapshotAccounted
<1> HIDE DEF held, claims, due, nav, snapshot
<1>9. SumOf(held, Users) \in Nat /\ SumOf(claims, Users) \in Nat
  BY <1>4, <1>5, InputAssumption, SumOfNaturals
<1>10. SumOf(claims, Users) * snapshot <= nav * SumOf(held, Users)
  BY <1>2, <1>4, <1>5, InputAssumption, ScaledSums
<1>11. final_shares_consumed + SumOf(held, Users) + protocol_fee_shares = snapshot
  BY <1>2, <1>6, <1>8
<1>12. final_paid + SumOf(claims, Users) + due <= nav
  BY <1>2, <1>3, <1>8, <1>9, <1>10, <1>11, ClaimsCovered
<1>13. nav - final_paid >= due + SumOf(claims, Users)
  BY <1>2, <1>3, <1>9, <1>12
<1>14. QED
  BY <1>7, <1>13 DEF RemainingNavCoversClaims, nav, snapshot, due

\* The performance fee, rounded down, and the exit fee, rounded up, fit into the
\* value they are taken from when their rates add up to at most all of it.
LEMMA FeesWithinGross ==
  ASSUME NEW profit \in Nat, NEW gross \in Nat, profit <= gross,
         NEW a \in Nat, NEW b \in Nat, a + b <= MAX_BPS
  PROVE  fee_floor(profit, a) + fee_ceil(gross, b) <= gross
<1> DEFINE f == fee_floor(profit, a)
           c == fee_ceil(gross, b)
           M == MAX_BPS
<1>1. M \in Nat \ {0}
  BY RateAssumption
<1>2. profit * a \in Nat /\ gross * b + M - 1 \in Nat
  BY <1>1
<1>3. f \in Nat /\ f * M <= profit * a
  BY <1>1, <1>2, FloorDivision DEF fee_floor
<1>4. c \in Nat /\ c * M <= gross * b + M - 1
  BY <1>1, <1>2, FloorDivision DEF fee_ceil
<1>5. a + b <= M
  OBVIOUS
<1> HIDE DEF f, c, M
<1>6. profit * a <= gross * a
  BY ProductBounds
<1>7. (a + b) * gross <= M * gross
  BY <1>1, <1>5, ProductBounds
<1>8. (a + b) * gross = gross * a + gross * b
  OBVIOUS
<1>9. /\ gross * a \in Nat /\ gross * b \in Nat /\ M * gross \in Nat
      /\ f * M \in Nat /\ c * M \in Nat /\ profit * a \in Nat
  BY <1>1, <1>3, <1>4
<1>10. f * M + c * M <= M * gross + M - 1
  BY <1>1, <1>3, <1>4, <1>6, <1>7, <1>8, <1>9
<1>11. SUFFICES ASSUME gross + 1 <= f + c PROVE FALSE
  BY <1>3, <1>4 DEF f, c
<1>12. (gross + 1) * M <= (f + c) * M
  BY <1>1, <1>3, <1>4, <1>11, ProductBounds
<1>13. (gross + 1) * M = M * gross + M /\ (f + c) * M = f * M + c * M
  BY <1>1, <1>3, <1>4
<1>14. QED
  BY <1>1, <1>9, <1>10, <1>12, <1>13

LEMMA RedemptionPossible ==
  ASSUME NEW N \in SUBSET Nat, \A nav \in N : nav * SHARE_SCALE \in U64,
         TypeOK, PositionsDated, SharesAreOwned, FinalPriceSet(N)
  PROVE  HolderCanRedeem
<1>1. SUFFICES ASSUME status = "Redeemable", NEW u \in Users,
                      positions[u].shares_owned > 0
               PROVE  LET p == positions[u]
                          gross == pro_rata_value(final_nav_value,
                                     p.shares_owned, final_share_snapshot)
                      IN /\ p.shares_owned <= total_shares_outstanding
                         /\ share_price_from_nav(final_nav_value,
                                                 final_share_snapshot) \in U64
                         /\ p.weighted_deposit_timestamp \in 1 .. now
                         /\ gross >= WithdrawalFees(p, p.shares_owned, gross)
  BY DEF HolderCanRedeem
<1> DEFINE p == positions[u]
           gross == pro_rata_value(final_nav_value, p.shares_owned,
                                   final_share_snapshot)
<1>2. /\ p.shares_owned \in Nat /\ p.cost_basis_value \in Nat
      /\ p.weighted_deposit_timestamp \in Nat
      /\ final_nav_value \in Nat /\ final_share_snapshot \in Nat \ {0}
      /\ now \in Nat
      /\ total_shares_outstanding \in Nat /\ protocol_fee_shares \in Nat
  BY <1>1, BoundAssumption DEF TypeOK, Position, U64, FinalPriceSet
<1>3. p.shares_owned <= total_shares_outstanding
  <2> DEFINE held == Held
  <2>1. \A v \in Users : held[v] = positions[v].shares_owned /\ held[v] \in Nat
    BY HeldTyped
  <2>2. SumOf(held, Users) = total_shares_outstanding - protocol_fee_shares
    BY DEF SharesAreOwned, UserShares
  <2> HIDE DEF held
  <2>3. held[u] <= SumOf(held, Users)
    BY <2>1, InputAssumption, TermWithinSum
  <2>4. QED
    BY <1>2, <2>1, <2>2, <2>3
<1>4. share_price_from_nav(final_nav_value, final_share_snapshot) \in U64
  <2> DEFINE n == final_nav_value * SHARE_SCALE
             q == n \div final_share_snapshot
  <2>1. n \in Nat /\ n <= MaxU64
    <3>1. final_nav_value \in N
      BY <1>1 DEF FinalPriceSet
    <3>2. n \in 0 .. MaxU64
      BY <3>1 DEF U64
    <3>3. QED
      BY <3>2, BoundAssumption
  <2> HIDE DEF n
  <2>2. q \in Nat /\ q * final_share_snapshot <= n
    BY <1>2, <2>1, FloorDivision
  <2> HIDE DEF q
  <2>3. q <= q * final_share_snapshot
    <3>1. 1 * q <= final_share_snapshot * q
      BY <1>2, <2>2, ProductBounds
    <3>2. QED
      BY <1>2, <2>2, <3>1
  <2>4. q * final_share_snapshot \in Nat
    BY <1>2, <2>2
  <2>5. q \in U64
    BY <2>1, <2>2, <2>3, <2>4, BoundAssumption DEF U64
  <2>6. QED
    BY <2>5 DEF share_price_from_nav, n, q
<1>5. p.weighted_deposit_timestamp \in 1 .. now
  BY <1>1, <1>2 DEF PositionsDated
<1>6. gross >= WithdrawalFees(p, p.shares_owned, gross)
  <2>1. gross \in Nat
    BY <1>2, ProRata
  <2> DEFINE basis == cost_basis_for_shares(p.cost_basis_value, p.shares_owned,
                                            p.shares_owned)
             profit == IF gross > basis THEN gross - basis ELSE 0
             rate == IF now - p.weighted_deposit_timestamp
                          >= MATURE_HOLDING_PERIOD_SECS
                     THEN MATURE_WITHDRAWAL_FEE_BPS
                     ELSE EARLY_WITHDRAWAL_FEE_BPS
  <2>2. basis = p.cost_basis_value
    BY DEF cost_basis_for_shares
  <2> HIDE DEF basis, gross, p
  <2>3. profit \in Nat /\ profit <= gross
    BY <1>2, <2>1, <2>2
  <2>4. PerformanceFeeBps \in Nat /\ rate \in Nat
        /\ PerformanceFeeBps + rate <= MAX_BPS
    BY RateAssumption, FeeAssumption
  <2>5. WithdrawalFees(p, p.shares_owned, gross)
          = fee_floor(profit, PerformanceFeeBps) + fee_ceil(gross, rate)
    BY DEF WithdrawalFees, basis
  <2> HIDE DEF profit, rate
  <2>6. fee_floor(profit, PerformanceFeeBps) + fee_ceil(gross, rate) <= gross
    BY <2>1, <2>3, <2>4, FeesWithinGross
  <2>7. QED
    BY <2>1, <2>5, <2>6
<1>7. QED
  BY <1>3, <1>4, <1>5, <1>6

-----------------------------------------------------------------------------
(* The promises of the registry, for every system whose steps are its handlers *)

Registry(N) == Init /\ [][Handler(N)]_vars

\* The inductive invariant of the registry.
RegistryInv(N) ==
  /\ TypeOK /\ PositionsDated
  /\ FinalFunds
  /\ IntentsSettleOnceInOrder
  /\ FeeClock
  /\ ClosedExactlyWhenEmpty
  /\ SharesAreOwned
  /\ FinalPriceSet(N)

LEMMA RegistryInit ==
  ASSUME NEW N \in SUBSET Nat, Init
  PROVE  RegistryInv(N)
<1>1. TypeOK /\ PositionsDated
  BY InitTyped
<1>2. FinalFunds
  BY DEF Init, FinalFunds, FinalSnapshotAccounted
<1>3. IntentsSettleOnceInOrder
  BY DEF Init, IntentsSettleOnceInOrder, NewPosition
<1>4. FeeClock
  BY DEF Init, FeeClock, FeeBilledAtHeldSupply, AccruingStatus, UserShares
<1>5. ClosedExactlyWhenEmpty /\ FinalPriceSet(N)
  BY DEF Init, ClosedExactlyWhenEmpty, FinalPriceSet
<1>6. QED
  BY <1>1, <1>2, <1>3, <1>4, <1>5, InitOwned DEF RegistryInv

LEMMA RegistryStep ==
  ASSUME NEW N \in SUBSET Nat, RegistryInv(N), [Handler(N)]_vars
  PROVE  RegistryInv(N)' /\ [OneHolderMoves]_vars
<1>1. /\ TypeOK /\ PositionsDated /\ FinalFunds /\ IntentsSettleOnceInOrder
      /\ FeeClock /\ ClosedExactlyWhenEmpty /\ SharesAreOwned /\ FinalPriceSet(N)
  BY DEF RegistryInv
<1>2. TypeOK' /\ PositionsDated'
  BY <1>1, HandlerTyped
<1>3. FinalFunds' /\ IntentsSettleOnceInOrder' /\ FeeClock'
  BY <1>1, HandlerFunds, HandlerInOrder, HandlerBilled
<1>4. ClosedExactlyWhenEmpty' /\ FinalPriceSet(N)'
  BY <1>1, HandlerCloses, HandlerSetsPrice
<1>5. [OneHolderMoves]_vars
  BY <1>1, HandlerMovesOneHolder
<1>6. SharesAreOwned'
  BY <1>1, <1>2, <1>5, MovesKeepOwned, SharesStayOwned
<1>7. QED
  BY <1>2, <1>3, <1>4, <1>5, <1>6 DEF RegistryInv

LEMMA RegistryAlways ==
  ASSUME NEW N \in SUBSET Nat
  PROVE  Registry(N) => []RegistryInv(N) /\ SupplyMovesWithOneHolder
<1>1. Init => RegistryInv(N)
  BY RegistryInit
<1>2. RegistryInv(N) /\ [Handler(N)]_vars
        => RegistryInv(N)' /\ [OneHolderMoves]_vars
  BY RegistryStep
<1>3. QED
  BY <1>1, <1>2, PTL DEF Registry, SupplyMovesWithOneHolder

\* What the invariant says of each property.
LEMMA InvariantPromises ==
  ASSUME NEW N \in SUBSET Nat, RegistryInv(N)
  PROVE  /\ TypeOK /\ PositionsDated /\ SharesAreOwned
         /\ IntentsSettleOnceInOrder /\ FeeBilledAtHeldSupply
         /\ ClosedExactlyWhenEmpty /\ FinalSnapshotAccounted
         /\ PayoutsWithinFinalNav /\ RemainingNavCoversClaims
         /\ (\A nav \in N : nav * SHARE_SCALE \in U64) => HolderCanRedeem
<1>1. /\ TypeOK /\ PositionsDated /\ FinalFunds /\ IntentsSettleOnceInOrder
      /\ FeeClock /\ ClosedExactlyWhenEmpty /\ SharesAreOwned /\ FinalPriceSet(N)
  BY DEF RegistryInv
<1>2. FeeBilledAtHeldSupply /\ FinalSnapshotAccounted
  BY <1>1 DEF FeeClock, FinalFunds
<1>3. PayoutsWithinFinalNav /\ RemainingNavCoversClaims
  BY <1>1, FundsBoundPayouts, NavCoversClaims
<1>4. (\A nav \in N : nav * SHARE_SCALE \in U64) => HolderCanRedeem
  BY <1>1, RedemptionPossible
<1>5. QED
  BY <1>1, <1>2, <1>3, <1>4

\* The arguments Next enumerates are arguments.
LEMMA NextIsHandler ==
  ASSUME TypeOK, [Next]_vars
  PROVE  [Handler(NavValues)]_vars
<1> USE BoundAssumption, InputAssumption
<1>1. ASSUME NEW u \in Users, NEW b \in Batches, NEW k \in IntentNonces,
             NEW n \in SettlementNonces, NEW gross \in GrossAmounts,
             NEW nav \in NavValues, NEW net \in 1 .. gross,
             complete_deposit(u, b, k, n, gross, net, nav)
      PROVE  Handler(NavValues)
  <2>1. k \in Nat /\ n \in Nat /\ gross \in Nat /\ net \in Nat /\ nav \in Nat
    BY DEF IntentNonces, SettlementNonces
  <2>2. QED
    BY <1>1, <2>1 DEF Handler
<1>2. final_share_snapshot \in Nat /\ final_nav_value \in Nat
  BY DEF TypeOK
<1>3. ASSUME NEW nav \in NavValues, NEW shares \in Nat,
             NEW gross \in GrossValues(nav, shares),
             status # "Redeemable" \/ FinalValue(shares, gross, nav)
      PROVE  gross \in Nat
  <2>1. CASE status # "Redeemable"
    BY <2>1 DEF GrossValues
  <2>2. CASE status = "Redeemable"
    BY <1>2, <1>3, <2>2, ProRata DEF FinalValue
  <2>3. QED
    BY <2>1, <2>2
<1>4. ASSUME NEW u \in Users, NEW b \in Batches, NEW k \in IntentNonces,
             NEW n \in SettlementNonces, NEW nav \in NavValues,
             NEW shares \in 1 .. positions[u].shares_owned,
             NEW gross \in GrossValues(nav, shares),
             complete_withdrawal(u, b, k, n, shares, gross, nav)
      PROVE  Handler(NavValues)
  <2>1. k \in Nat /\ n \in Nat /\ nav \in Nat /\ shares \in Nat
    BY DEF IntentNonces, SettlementNonces, TypeOK, Position
  <2>2. status # "Redeemable" \/ FinalValue(shares, gross, nav)
    BY <1>4 DEF complete_withdrawal
  <2>3. gross \in Nat
    BY <1>3, <2>1, <2>2
  <2>4. QED
    BY <1>4, <2>1, <2>3 DEF Handler
<1>5. ASSUME NEW b \in Batches, NEW n \in SettlementNonces, NEW nav \in NavValues,
             NEW shares \in 1 .. Accrual.fee_shares,
             NEW gross \in GrossValues(nav, shares),
             complete_protocol_fee_withdrawal(b, n, shares, gross, nav)
      PROVE  Handler(NavValues)
  <2>1. n \in Nat /\ nav \in Nat /\ shares \in Nat
    BY DEF SettlementNonces
  <2>2. status # "Redeemable" \/ FinalValue(shares, gross, nav)
    BY <1>5 DEF complete_protocol_fee_withdrawal, AccruingStatus
  <2>3. gross \in Nat
    BY <1>3, <2>1, <2>2
  <2>4. QED
    BY <1>5, <2>1, <2>3 DEF Handler
<1>6. ASSUME NEW k \in 1 .. MaxCompositionNonce, complete_reconstitution(k)
      PROVE  Handler(NavValues)
  BY <1>6 DEF Handler
<1>7. CASE \/ Tick
           \/ \E value \in BOOLEAN : set_paused(value)
           \/ accrue_management_fee
           \/ begin_reconstitution
           \/ begin_resolution
           \/ \E nav \in NavValues : record_final_settlement(Accrual.total, nav)
  BY <1>7 DEF Handler
<1>8. CASE UNCHANGED vars
  BY <1>8
<1>9. QED
  BY <1>1, <1>4, <1>5, <1>6, <1>7, <1>8 DEF Next

LEMMA SpecAlways == Spec => []RegistryInv(NavValues) /\ SupplyMovesWithOneHolder
<1>1. Init => RegistryInv(NavValues)
  BY RegistryInit, InputAssumption
<1>2. RegistryInv(NavValues) /\ [Next]_vars
        => RegistryInv(NavValues)' /\ [OneHolderMoves]_vars
  BY RegistryStep, NextIsHandler, InvariantPromises, InputAssumption
<1>3. QED
  BY <1>1, <1>2, PTL DEF Spec, SupplyMovesWithOneHolder

\* The accounts of the registry are always well typed, whatever arguments the
\* backend sends: no handler stores a share count, remainder or status outside
\* its width.
THEOREM TypeCorrect == Spec => []TypeOK
<1>1. RegistryInv(NavValues) => TypeOK
  BY InvariantPromises, InputAssumption
<1>2. QED
  BY <1>1, SpecAlways, PTL

\* Every position with shares has a deposit timestamp that is neither zero nor
\* in the future, so the age check of a withdrawal never refuses a holder.
THEOREM HoldersStayDated == Spec => []PositionsDated
<1>1. RegistryInv(NavValues) => PositionsDated
  BY InvariantPromises, InputAssumption
<1>2. QED
  BY <1>1, SpecAlways, PTL

\* No share is without an owner and none is counted twice: for any number of
\* users, the supply is the protocol's shares plus the shares of the positions,
\* although the program never adds them up.
THEOREM SharesAlwaysOwned == Spec => []SharesAreOwned
<1>1. RegistryInv(NavValues) => SharesAreOwned
  BY InvariantPromises, InputAssumption
<1>2. QED
  BY <1>1, SpecAlways, PTL

\* A signed intent changes a position at most once, however often the backend
\* retries its settlement and under whatever batch hash: the nonces of a user's
\* receipts are 1, 2, ..., last_intent_nonce without repetition.
THEOREM IntentsSettleOnce == Spec => []IntentsSettleOnceInOrder
<1>1. RegistryInv(NavValues) => IntentsSettleOnceInOrder
  BY InvariantPromises, InputAssumption
<1>2. QED
  BY <1>1, SpecAlways, PTL

\* The management fee bills every second of every share exactly once, at the
\* supply outstanding in that second: no deposit, withdrawal or lifecycle change
\* alters the supply of an interval that has not been billed yet.
THEOREM FeeAlwaysBilledAtHeldSupply == Spec => []FeeBilledAtHeldSupply
<1>1. RegistryInv(NavValues) => FeeBilledAtHeldSupply
  BY InvariantPromises, InputAssumption
<1>2. QED
  BY <1>1, SpecAlways, PTL

\* Whatever the order of exits, accruals and lifecycle changes, a basket with a
\* share price is closed if and only if no share is left: shares are never
\* stranded in a closed basket, and an empty one never takes another deposit.
THEOREM ClosesExactlyWhenEmpty == Spec => []ClosedExactlyWhenEmpty
<1>1. RegistryInv(NavValues) => ClosedExactlyWhenEmpty
  BY InvariantPromises, InputAssumption
<1>2. QED
  BY <1>1, SpecAlways, PTL

\* While a basket is redeemable, consumed and outstanding shares add up to the
\* snapshot of the final settlement.
THEOREM FinalSnapshotExact == Spec => []FinalSnapshotAccounted
<1>1. RegistryInv(NavValues) => FinalSnapshotAccounted
  BY InvariantPromises, InputAssumption
<1>2. QED
  BY <1>1, SpecAlways, PTL

\* However many holders redeem, in whatever sizes and order, with the protocol's
\* fee shares among them, the registry never accounts more value out of a final
\* settlement than the NAV recorded for it.
THEOREM FinalNavCoversPayouts == Spec => []PayoutsWithinFinalNav
<1>1. RegistryInv(NavValues) => PayoutsWithinFinalNav
  BY InvariantPromises, InputAssumption
<1>2. QED
  BY <1>1, SpecAlways, PTL

\* For any number of holders, redeeming in any sizes and order: what is left of
\* the final NAV pays the claim of every holder and of the protocol.  Rounding
\* down each payment never eats into the claims of those who redeem later.
THEOREM NavAlwaysCoversClaims == Spec => []RemainingNavCoversClaims
<1>1. RegistryInv(NavValues) => RemainingNavCoversClaims
  BY InvariantPromises, InputAssumption
<1>2. QED
  BY <1>1, SpecAlways, PTL

\* In a redeemable basket no holder is ever refused: the shares are covered by
\* the supply, the position is dated and the fees fit into the claim.  The one
\* thing record_final_settlement does not check is that the final price fits in
\* a u64, so it is the hypothesis: every NAV times SHARE_SCALE does.
THEOREM HoldersCanAlwaysRedeem ==
  ASSUME \A nav \in NavValues : nav * SHARE_SCALE \in U64
  PROVE  Spec => []HolderCanRedeem
<1>1. RegistryInv(NavValues) => HolderCanRedeem
  BY InvariantPromises, InputAssumption
<1>2. QED
  BY <1>1, SpecAlways, PTL

\* No handler dilutes or burns a third party's share count: whatever a step
\* mints or burns goes to the protocol and to one user at most, for any number
\* of users and any rates.
THEOREM SupplyAlwaysMovesWithOneHolder == Spec => SupplyMovesWithOneHolder
<1>1. QED
  BY SpecAlways, PTL

-----------------------------------------------------------------------------
(* The registry under the lifecycle runs *)

\* The instructions the runs send and those of others keep the registry typed.
LEMMA InstructionHandles ==
  ASSUME NEW key \in Keys, NEW batch, Instruction(key, batch)
  PROVE  Handler({0, FinalNav})
<1>1. key.run.nonce \in Nat
  BY LifecycleAssumption DEF Keys
<1>2. ReportedNav \in {0, FinalNav}
  BY DEF ReportedNav
<1>3. ASSUME record_final_settlement(batch, ReportedNav)
      PROVE  Handler({0, FinalNav})
  <2>1. batch = Accrual.total
    BY <1>3 DEF record_final_settlement
  <2>2. QED
    BY <1>2, <1>3, <2>1 DEF Handler
<1>4. QED
  BY <1>1, <1>3 DEF Instruction, Handler

LEMMA ChainHandles ==
  ASSUME TypeOK, Chain
  PROVE  Handler({0, FinalNav})
<1>1. \A u \in Users : /\ positions[u].last_intent_nonce + 1 \in Nat
                       /\ positions[u].shares_owned \in Nat
  BY DEF TypeOK, Position
<1>2. last_settlement_nonce + 1 \in Nat
  BY DEF TypeOK
<1>3. ASSUME NEW u \in Users, NEW b \in Batches, NEW gross \in GrossAmounts,
             NEW nav \in NavValues,
             complete_deposit(u, b, positions[u].last_intent_nonce + 1,
                              last_settlement_nonce + 1, gross,
                              gross - fee_ceil(gross, DEPOSIT_FEE_BPS), nav)
      PROVE  Handler({0, FinalNav})
  <2> DEFINE net == gross - fee_ceil(gross, DEPOSIT_FEE_BPS)
  <2>1. gross \in Nat /\ nav \in Nat
    BY InputAssumption
  <2>2. fee_ceil(gross, DEPOSIT_FEE_BPS) \in Int
    BY <2>1, RateAssumption DEF fee_ceil
  <2>3. net > 0
    BY <1>3 DEF complete_deposit
  <2>4. net \in Nat
    BY <2>1, <2>2, <2>3
  <2>5. QED
    BY <1>1, <1>2, <1>3, <2>1, <2>4 DEF Handler
<1>4. ASSUME NEW u \in Users, NEW b \in Batches, status = "Redeemable",
             complete_withdrawal(u, b, positions[u].last_intent_nonce + 1,
                                 last_settlement_nonce + 1,
                                 positions[u].shares_owned,
                                 pro_rata_value(final_nav_value,
                                                positions[u].shares_owned,
                                                final_share_snapshot),
                                 final_nav_value)
      PROVE  Handler({0, FinalNav})
  <2> DEFINE gross == pro_rata_value(final_nav_value, positions[u].shares_owned,
                                     final_share_snapshot)
  <2>1. FinalValue(positions[u].shares_owned, gross, final_nav_value)
    BY <1>4 DEF complete_withdrawal
  <2>2. final_nav_value \in Nat /\ final_share_snapshot \in Nat \ {0}
    BY <2>1 DEF FinalValue, TypeOK
  <2>3. gross \in Nat
    BY <1>1, <2>2, ProRata
  <2> HIDE DEF gross
  <2>4. complete_withdrawal(u, b, positions[u].last_intent_nonce + 1,
                            last_settlement_nonce + 1,
                            positions[u].shares_owned, gross, final_nav_value)
    BY <1>4 DEF gross
  <2>5. QED
    BY <1>1, <1>2, <2>2, <2>3, <2>4 DEF Handler
<1>5. QED
  BY <1>3, <1>4 DEF Chain, Handler

\* Whatever a lifecycle run does, the registry sees one of its own handlers.
LEMMA LifecycleHandles ==
  ASSUME TypeOK, [LifecycleNext]_lifecycleVars
  PROVE  [Handler({0, FinalNav})]_vars
<1>1. ASSUME NEW w \in Callers, Step(w) \/ Crash(w)
      PROVE  UNCHANGED vars
  BY <1>1 DEF Step, Crash, execute, submit, observe, transition, return, check,
     supply, acquire, prepare, load, trade, redeem, relay, verify, commit
<1>2. ASSUME NEW k \in Keys, Land(k)
      PROVE  Handler({0, FinalNav}) \/ UNCHANGED vars
  BY <1>2, InstructionHandles DEF Land
<1>3. ASSUME NEW k \in Keys, Drop(k)
      PROVE  UNCHANGED vars
  BY <1>3 DEF Drop
<1>4. ASSUME NEW r \in Runs, Publish(r)
      PROVE  UNCHANGED vars
  BY <1>4 DEF Publish
<1>5. ASSUME NEW after, OtherOperation(after)
      PROVE  UNCHANGED vars
  BY <1>5 DEF OtherOperation
<1>6. CASE UNCHANGED lifecycleVars
  BY <1>6 DEF lifecycleVars
<1>7. QED
  BY <1>1, <1>2, <1>3, <1>4, <1>5, <1>6, ChainHandles DEF LifecycleNext

LEMMA LifecycleAlways ==
  LifecycleSpec => []RegistryInv({0, FinalNav}) /\ SupplyMovesWithOneHolder
<1>1. {0, FinalNav} \in SUBSET Nat
  BY LifecycleAssumption
<1>2. LifecycleInit => RegistryInv({0, FinalNav})
  BY <1>1, RegistryInit DEF LifecycleInit
<1>3. RegistryInv({0, FinalNav}) /\ [LifecycleNext]_lifecycleVars
        => RegistryInv({0, FinalNav})' /\ [OneHolderMoves]_vars
  BY <1>1, RegistryStep, LifecycleHandles, InvariantPromises
<1>4. QED
  BY <1>2, <1>3, PTL DEF LifecycleSpec, SupplyMovesWithOneHolder

\* The registry keeps its promises when its lifecycle instructions come from the
\* runs, at whatever moment a delayed or repeated transaction lands: every share
\* has an owner, intents settle once, each interval is billed at its supply, the
\* basket closes exactly when empty and the final NAV covers every claim.
THEOREM RegistryHoldsUnderRuns ==
  LifecycleSpec =>
    /\ [](/\ SharesAreOwned
          /\ IntentsSettleOnceInOrder
          /\ FeeBilledAtHeldSupply
          /\ ClosedExactlyWhenEmpty
          /\ FinalSnapshotAccounted
          /\ RemainingNavCoversClaims)
    /\ SupplyMovesWithOneHolder
<1>1. RegistryInv({0, FinalNav}) =>
        /\ SharesAreOwned
        /\ IntentsSettleOnceInOrder
        /\ FeeBilledAtHeldSupply
        /\ ClosedExactlyWhenEmpty
        /\ FinalSnapshotAccounted
        /\ RemainingNavCoversClaims
  BY InvariantPromises, LifecycleAssumption
<1>2. QED
  BY <1>1, LifecycleAlways, PTL

\* A basket that a resolution run has made redeemable refuses no holder, provided
\* the price of the NAV the run reported fits in a u64.
THEOREM HoldersCanRedeemAfterRuns ==
  ASSUME FinalNav * SHARE_SCALE \in U64
  PROVE  LifecycleSpec => []HolderCanRedeem
<1>1. RegistryInv({0, FinalNav}) => HolderCanRedeem
  <2>1. \A nav \in {0, FinalNav} : nav * SHARE_SCALE \in U64
    BY RateAssumption, BoundAssumption DEF U64
  <2>2. QED
    BY <2>1, InvariantPromises, LifecycleAssumption
<1>2. QED
  BY <1>1, LifecycleAlways, PTL

-----------------------------------------------------------------------------
(* The runs: types *)

RunStates == {"absent", "created", "onchain_started",
              "external_execution_completed", "onchain_completed"}

Portfolios == [ledger : Nat, composition : Nat, includes : SUBSET Effect]

\* The steps of a caller under the wallet's lease; those that follow the check
\* that the run is not executed yet; those that follow the read of the portfolio.
Executing == {"prepare", "load", "sell", "buy", "redeem", "relay", "verify",
              "commit"}

Trading == Executing \ {"prepare"}

Loaded == Trading \ {"load"}

\* The steps that follow the execution of the run.
Concluding == {"finish", "check", "complete", "complete_sent", "accrue",
               "accrue_sent", "supply", "submit", "submit_sent", "record"}

Steps == Executing \cup Concluding
           \cup {"idle", "begin", "begin_sent", "start", "acquire", "return"}

Locals == [run : Runs \cup {NoOne}, version : Nat, base : Portfolios \cup {NoOne},
           orders : SUBSET Effect, condition : Nat \ {0},
           attempt : 1 .. FinalSettlementAttempts, snapshot : Nat]

RunRows == [state : RunStates, version : Nat, snapshot : Nat]

Executions == [state : {"absent", "prepared", "completed"}, result : SUBSET Effect]

Submissions == [state : {"none", "signed", "sent", "finalized", "failed"}, batch : Nat]

Redemptions == [state : {"absent", "prepared", "completed"}, before : Nat]

StoresTyped ==
  /\ runs \in [Runs -> RunRows]
  /\ exec \in [Runs -> Executions]
  /\ submissions \in [Keys -> Submissions]
  /\ published \subseteq Runs
  /\ portfolio \in Portfolios
  /\ redemptions \in [Conditions -> Redemptions]
  /\ effects \subseteq Effect
  /\ pusd \in Nat /\ others \in Nat /\ faults \in Nat

\* A caller on its way has a run, the portfolio it read, the condition in hand.
CallerTyped(w) ==
  /\ at[w] # "idle" => my[w].run \in Runs
  /\ at[w] \in Loaded => my[w].base \in Portfolios
  /\ at[w] \in {"relay", "verify"} => my[w].condition \in Conditions

CallersTyped ==
  /\ holder \in Callers \cup {NoOne}
  /\ at \in [Callers -> Steps]
  /\ my \in [Callers -> Locals]
  /\ \A w \in Callers : CallerTyped(w)


\* A step of one caller leaves the others where they are.
LEMMA CallersMove ==
  ASSUME CallersTyped, NEW w \in Callers, NEW step \in Steps, NEW local \in Locals,
         at' = [at EXCEPT ![w] = step], my' = [my EXCEPT ![w] = local],
         holder' \in Callers \cup {NoOne},
         step # "idle" => local.run \in Runs,
         step \in Loaded => local.base \in Portfolios,
         step \in {"relay", "verify"} => local.condition \in Conditions
  PROVE  /\ CallersTyped'
         /\ at'[w] = step /\ my'[w] = local
         /\ \A v \in Callers \ {w} : at'[v] = at[v] /\ my'[v] = my[v]
<1>1. /\ at' \in [Callers -> Steps] /\ my' \in [Callers -> Locals]
      /\ at'[w] = step /\ my'[w] = local
      /\ \A v \in Callers \ {w} : at'[v] = at[v] /\ my'[v] = my[v]
  BY DEF CallersTyped
<1>2. \A v \in Callers : CallerTyped(v)'
  BY <1>1 DEF CallersTyped, CallerTyped
<1>. QED
  BY <1>1, <1>2 DEF CallersTyped

LEMMA FreshLocal == Fresh \in Locals
BY LifecycleAssumption DEF Fresh, Locals

LEMMA MyLocal ==
  ASSUME CallersTyped, NEW w \in Callers
  PROVE  my[w] \in Locals /\ at[w] \in Steps /\ CallerTyped(w)
BY DEF CallersTyped

LEMMA StopTyped ==
  ASSUME CallersTyped, NEW w \in Callers, Stop(w)
  PROVE  /\ CallersTyped'
         /\ at'[w] = "idle" /\ my'[w] = Fresh
         /\ \A v \in Callers \ {w} : at'[v] = at[v] /\ my'[v] = my[v]
<1>1. holder' \in Callers \cup {NoOne}
  BY DEF Stop, CallersTyped
<1>. QED
  BY <1>1, FreshLocal, CallersMove DEF Stop, Goto, Set, Steps, Loaded, Trading, Executing

\* A step that leaves the local variables alone.
LEMMA GotoTyped ==
  ASSUME CallersTyped, NEW w \in Callers, at[w] # "idle",
         NEW step \in Steps, Goto(w, step), UNCHANGED my,
         holder' \in Callers \cup {NoOne},
         step \in Loaded => my[w].base \in Portfolios,
         step \in {"relay", "verify"} => my[w].condition \in Conditions
  PROVE  /\ CallersTyped'
         /\ at'[w] = step /\ my'[w] = my[w]
         /\ \A v \in Callers \ {w} : at'[v] = at[v] /\ my'[v] = my[v]
<1>1. my' = [my EXCEPT ![w] = my[w]] /\ my[w] \in Locals /\ my[w].run \in Runs
  BY MyLocal DEF CallersTyped, CallerTyped
<1>. QED
  BY <1>1, CallersMove DEF Goto

\* A step with new local variables for the same run.
LEMMA SetTyped ==
  ASSUME CallersTyped, NEW w \in Callers, at[w] # "idle",
         NEW step \in Steps, NEW local \in Locals, Goto(w, step), Set(w, local),
         holder' \in Callers \cup {NoOne},
         local.run = my[w].run,
         step \in Loaded => local.base \in Portfolios,
         step \in {"relay", "verify"} => local.condition \in Conditions
  PROVE  /\ CallersTyped'
         /\ at'[w] = step /\ my'[w] = local
         /\ \A v \in Callers \ {w} : at'[v] = at[v] /\ my'[v] = my[v]
<1>1. my[w].run \in Runs
  BY MyLocal DEF CallerTyped
<1>. QED
  BY <1>1, CallersMove DEF Goto, Set

LEMMA KeyTyped ==
  ASSUME NEW r \in Runs, NEW step \in {"begin", "complete", "accrue", "submit"},
         NEW n \in 0 .. FinalSettlementAttempts
  PROVE  /\ Key(r, step, n) \in Keys
         /\ Key(r, step, n).run = r /\ Key(r, step, n).step = step
         /\ Key(r, step, n).attempt = n
BY DEF Key, Keys

LEMMA CallTyped ==
  ASSUME CallersTyped, NEW w \in Callers,
         at[w] \in {"begin", "complete", "accrue", "submit",
                    "begin_sent", "complete_sent", "accrue_sent", "submit_sent"}
  PROVE  /\ CallOf(w).key \in Keys /\ CallOf(w).batch \in Nat
         /\ CallOf(w).key.run = my[w].run
         /\ at[w] \in {"begin", "begin_sent"} =>
              CallOf(w) = [key |-> Key(my[w].run, "begin", 0), batch |-> 0]
         /\ at[w] \in {"complete", "complete_sent"} =>
              CallOf(w) = [key |-> Key(my[w].run, "complete", 0), batch |-> 0]
         /\ at[w] \in {"accrue", "accrue_sent"} =>
              CallOf(w) = [key |-> Key(my[w].run, "accrue", my[w].attempt), batch |-> 0]
         /\ at[w] \in {"submit", "submit_sent"} =>
              CallOf(w) = [key |-> Key(my[w].run, "submit", my[w].attempt),
                           batch |-> my[w].snapshot]
<1>1. /\ my[w].run \in Runs /\ my[w].snapshot \in Nat
      /\ my[w].attempt \in 0 .. FinalSettlementAttempts
      /\ 0 \in 0 .. FinalSettlementAttempts
  BY MyLocal, LifecycleAssumption DEF CallerTyped, Locals
<1>2. CASE at[w] \in {"begin", "begin_sent"}
  BY <1>1, <1>2, KeyTyped DEF CallOf
<1>3. CASE at[w] \in {"complete", "complete_sent"}
  BY <1>1, <1>3, KeyTyped DEF CallOf
<1>4. CASE at[w] \in {"accrue", "accrue_sent"}
  BY <1>1, <1>4, KeyTyped DEF CallOf
<1>5. CASE at[w] \in {"submit", "submit_sent"}
  BY <1>1, <1>5, KeyTyped DEF CallOf
<1>. QED
  BY <1>2, <1>3, <1>4, <1>5

LEMMA SubmissionTyped ==
  ASSUME StoresTyped, NEW key \in Keys, NEW batch \in Nat,
         NEW state \in {"none", "signed", "sent", "finalized", "failed"},
         Submission(key, state, batch)
  PROVE  /\ submissions' \in [Keys -> Submissions]
         /\ submissions'[key] = [state |-> state, batch |-> batch]
         /\ \A k \in Keys \ {key} : submissions'[k] = submissions[k]
<1>1. [state |-> state, batch |-> batch] \in Submissions
  BY DEF Submissions
<1>. QED
  BY <1>1 DEF Submission, StoresTyped

\* What a caller does keeps the stores and the callers typed, one call at a time.
LEMMA executeTyped ==
  ASSUME StoresTyped, CallersTyped, NEW w \in Callers, NEW r \in Runs, execute(w, r)
  PROVE  StoresTyped' /\ CallersTyped'
<1>. PICK row : row = IF runs[r].state = "absent"
                      THEN [state |-> "created", version |-> 0, snapshot |-> 0]
                      ELSE runs[r]
  OBVIOUS
<1>1. runs[r] \in RunRows /\ r.kind \in {"reconstitution", "resolution"}
  BY LifecycleAssumption DEF StoresTyped
<1>2. row \in RunRows
  BY <1>1 DEF RunRows, RunStates
<1>3. /\ at[w] = "idle" /\ runs[r].state # "onchain_completed"
      /\ runs' = [runs EXCEPT ![r] = row]
      /\ Set(w, [Fresh EXCEPT !.run = r, !.version = row.version])
      /\ Goto(w, Resume(r, row.state))
      /\ UNCHANGED <<vars, exec, submissions, portfolio, redemptions, world,
                     holder, others, faults>>
  BY DEF execute
<1>4. row.state \in {"created", "onchain_started", "external_execution_completed"}
  BY <1>1, <1>3 DEF RunRows, RunStates
<1>. DEFINE local == [Fresh EXCEPT !.run = r, !.version = row.version]
<1>5. local \in Locals /\ local.run = r
  <2>. DEFINE half == [Fresh EXCEPT !.run = r]
  <2>1. half \in Locals /\ half.run = r
    BY FreshLocal DEF Locals
  <2>2. local = [half EXCEPT !.version = row.version]
    BY FreshLocal DEF Locals
  <2>. HIDE DEF half, local
  <2>3. row.version \in Nat
    BY <1>2 DEF RunRows
  <2>. QED
    BY <2>1, <2>2, <2>3 DEF Locals
<1>6. Resume(r, row.state) \in {"begin", "acquire", "check", "accrue"}
  BY <1>1, <1>4 DEF Resume
<1>. HIDE DEF local
<1>7. CallersTyped'
  <2>1. my' = [my EXCEPT ![w] = local] /\ at' = [at EXCEPT ![w] = Resume(r, row.state)]
    BY <1>3 DEF Set, Goto, local
  <2>2. holder' \in Callers \cup {NoOne}
    BY <1>3 DEF CallersTyped
  <2>. QED
    BY <1>5, <1>6, <2>1, <2>2, CallersMove
       DEF Steps, Concluding, Loaded, Trading, Executing
<1>8. StoresTyped'
  BY <1>2, <1>3 DEF StoresTyped, world
<1>. QED
  BY <1>7, <1>8

LEMMA submitTyped ==
  ASSUME StoresTyped, CallersTyped, NEW w \in Callers, submit(w)
  PROVE  StoresTyped' /\ CallersTyped'
<1>. PICK key \in Keys, batch \in Nat : key = CallOf(w).key /\ batch = CallOf(w).batch
  BY CallTyped DEF submit
<1>1. at[w] \in {"begin", "complete", "accrue", "submit"} /\ my[w] \in Locals
  BY MyLocal DEF submit
<1>2. submissions' \in [Keys -> Submissions]
  <2>1. \/ UNCHANGED submissions
        \/ Submission(key, "sent", batch)
        \/ Submission(key, "signed", batch)
    BY DEF submit, Send, SendFails
  <2>. QED
    BY <2>1, SubmissionTyped DEF StoresTyped
<1>3. StoresTyped'
  BY <1>2 DEF submit, StoresTyped, world
<1>4. CASE Stop(w)
  BY <1>3, <1>4, StopTyped
<1>5. CASE Goto(w, Sent(at[w])) /\ UNCHANGED <<my, holder>>
  <2>1. Sent(at[w]) \in {"begin_sent", "complete_sent", "accrue_sent", "submit_sent"}
    BY <1>1 DEF Sent
  <2>. QED
    BY <1>1, <1>3, <1>5, <2>1, GotoTyped
       DEF CallersTyped, Steps, Concluding, Loaded, Trading, Executing
<1>6. CASE /\ my[w].attempt < FinalSettlementAttempts
           /\ Goto(w, "accrue")
           /\ Set(w, [my[w] EXCEPT !.attempt = my[w].attempt + 1])
           /\ UNCHANGED holder
  <2>. DEFINE local == [my[w] EXCEPT !.attempt = my[w].attempt + 1]
  <2>1. local \in Locals /\ local.run = my[w].run
    BY <1>1, <1>6, LifecycleAssumption DEF Locals
  <2>. HIDE DEF local
  <2>2. Set(w, local)
    BY <1>6 DEF local
  <2>. QED
    BY <1>1, <1>3, <1>6, <2>1, <2>2, SetTyped
       DEF CallersTyped, Steps, Concluding, Loaded, Trading, Executing
<1>. QED
  BY <1>4, <1>5, <1>6 DEF submit

LEMMA observeTyped ==
  ASSUME StoresTyped, CallersTyped, NEW w \in Callers, observe(w)
  PROVE  StoresTyped' /\ CallersTyped'
<1>1. at[w] \in {"begin_sent", "complete_sent", "accrue_sent", "submit_sent"}
  BY DEF observe
<1>2. StoresTyped'
  BY DEF observe, StoresTyped, stores, world
<1>3. CASE Stop(w)
  BY <1>2, <1>3, StopTyped
<1>4. ASSUME NEW step \in {"start", "supply", "record", "begin", "complete", "accrue",
                           "submit"},
             Goto(w, step), UNCHANGED <<my, holder>>
      PROVE  CallersTyped'
  BY <1>1, <1>4, GotoTyped
     DEF CallersTyped, Steps, Concluding, Loaded, Trading, Executing
<1>5. CallOf(w).key.step \in {"begin", "complete", "accrue", "submit"}
  BY <1>1, CallTyped DEF Keys
<1>. QED
  BY <1>1, <1>2, <1>3, <1>4, <1>5 DEF observe

LEMMA transitionTyped ==
  ASSUME StoresTyped, CallersTyped, NEW w \in Callers, transition(w)
  PROVE  StoresTyped' /\ CallersTyped'
<1>. PICK r : r = my[w].run
  OBVIOUS
<1>1. at[w] # "idle" /\ my[w] \in Locals /\ r \in Runs /\ runs[r] \in RunRows
      /\ r.kind \in {"reconstitution", "resolution"}
  BY MyLocal, LifecycleAssumption DEF transition, CallerTyped, StoresTyped
<1>2. ASSUME NEW state \in RunStates, NEW snapshot \in Nat,
             NEW next \in {"acquire", "check", "accrue", "return"},
             Transition(w, state, snapshot, next)
      PROVE  CallersTyped' /\ runs' \in [Runs -> RunRows]
  <2>1. CASE Stop(w) /\ UNCHANGED runs
    BY <2>1, StopTyped DEF StoresTyped
  <2>2. CASE /\ runs' = [runs EXCEPT ![r] = [state |-> state, version |-> @.version + 1,
                                             snapshot |-> snapshot]]
             /\ Set(w, [my[w] EXCEPT !.version = my[w].version + 1])
             /\ Goto(w, next)
             /\ UNCHANGED holder
    <3>. DEFINE local == [my[w] EXCEPT !.version = my[w].version + 1]
                row == [state |-> state, version |-> runs[r].version + 1,
                        snapshot |-> snapshot]
    <3>1. local \in Locals /\ local.run = my[w].run
      BY <1>1 DEF Locals
    <3>2. row \in RunRows
      BY <1>1 DEF RunRows
    <3>3. runs' = [runs EXCEPT ![r] = row] /\ Set(w, local)
      BY <2>2
    <3>. HIDE DEF local, row
    <3>. QED
      BY <1>1, <2>2, <3>1, <3>2, <3>3, SetTyped
         DEF StoresTyped, CallersTyped, Steps, Concluding, Loaded, Trading, Executing
  <2>. QED
    BY <1>2, <2>1, <2>2 DEF Transition
<1>3. Resume(r, "external_execution_completed") \in {"check", "accrue"}
  BY <1>1 DEF Resume
<1>4. my[w].snapshot \in Nat
  BY <1>1 DEF Locals
<1>5. CallersTyped' /\ runs' \in [Runs -> RunRows]
  BY <1>2, <1>3, <1>4 DEF transition, RunStates
<1>. QED
  BY <1>5 DEF transition, StoresTyped, world

LEMMA waysTyped ==
  ASSUME StoresTyped, CallersTyped, NEW w \in Callers,
         return(w) \/ check(w) \/ acquire(w)
  PROVE  StoresTyped' /\ CallersTyped'
<1>1. StoresTyped'
  BY DEF return, check, acquire, StoresTyped, stores, world
<1>2. CASE Stop(w)
  BY <1>1, <1>2, StopTyped
<1>3. ASSUME NEW step \in {"complete", "prepare"}, at[w] # "idle", Goto(w, step),
             UNCHANGED my, holder' \in Callers \cup {NoOne}
      PROVE  CallersTyped'
  BY <1>3, GotoTyped DEF Steps, Concluding, Loaded, Trading, Executing
<1>. QED
  BY <1>1, <1>2, <1>3 DEF return, check, acquire, CallersTyped

LEMMA supplyTyped ==
  ASSUME TypeOK, StoresTyped, CallersTyped, NEW w \in Callers, supply(w)
  PROVE  StoresTyped' /\ CallersTyped'
<1>. DEFINE local == [my[w] EXCEPT !.snapshot = total_shares_outstanding]
<1>1. my[w] \in Locals /\ total_shares_outstanding \in Nat
  BY MyLocal, BoundAssumption DEF TypeOK, U64
<1>2. local \in Locals /\ local.run = my[w].run
  BY <1>1 DEF Locals
<1>3. at[w] = "supply" /\ Set(w, local) /\ Goto(w, "submit") /\ UNCHANGED holder
  BY DEF supply
<1>. HIDE DEF local
<1>4. StoresTyped'
  BY DEF supply, StoresTyped, stores, world
<1>. QED
  BY <1>2, <1>3, <1>4, SetTyped
     DEF CallersTyped, Steps, Concluding, Loaded, Trading, Executing

LEMMA prepareTyped ==
  ASSUME StoresTyped, CallersTyped, NEW w \in Callers, prepare(w)
  PROVE  StoresTyped' /\ CallersTyped'
<1>. PICK r : r = my[w].run
  OBVIOUS
<1>1. at[w] = "prepare" /\ r \in Runs /\ exec[r] \in Executions
  BY MyLocal DEF prepare, CallerTyped, StoresTyped
<1>2. [exec[r] EXCEPT !.state = "prepared"] \in Executions
  BY <1>1 DEF Executions
<1>3. exec' \in [Runs -> Executions]
  BY <1>1, <1>2 DEF prepare, StoresTyped
<1>4. StoresTyped'
  BY <1>3 DEF prepare, StoresTyped, world
<1>5. ASSUME NEW step \in {"finish", "load"}, Goto(w, step), UNCHANGED my,
             holder' \in Callers \cup {NoOne}
      PROVE  CallersTyped'
  BY <1>1, <1>5, GotoTyped DEF Steps, Concluding, Loaded, Trading, Executing
<1>. QED
  BY <1>4, <1>5 DEF prepare, CallersTyped

LEMMA loadTyped ==
  ASSUME StoresTyped, CallersTyped, NEW w \in Callers, load(w)
  PROVE  StoresTyped' /\ CallersTyped'
<1>1. at[w] = "load" /\ my[w] \in Locals /\ portfolio \in Portfolios
  BY MyLocal DEF load, StoresTyped
<1>2. StoresTyped'
  BY DEF load, StoresTyped, stores, world
<1>3. CASE Stop(w)
  BY <1>2, <1>3, StopTyped
<1>4. CASE /\ Set(w, [my[w] EXCEPT !.base = portfolio])
           /\ Goto(w, IF my[w].run.kind = "reconstitution" THEN "sell" ELSE "redeem")
           /\ UNCHANGED holder
  <2>. DEFINE local == [my[w] EXCEPT !.base = portfolio]
  <2>1. local \in Locals /\ local.run = my[w].run /\ local.base = portfolio
    BY <1>1 DEF Locals
  <2>2. Set(w, local)
    BY <1>4
  <2>. HIDE DEF local
  <2>3. ASSUME NEW step \in {"sell", "redeem"}, Goto(w, step)
        PROVE  CallersTyped'
    BY <1>1, <1>4, <2>1, <2>2, <2>3, SetTyped
       DEF CallersTyped, Steps, Executing
  <2>. QED
    BY <1>2, <1>4, <2>3
<1>. QED
  BY <1>3, <1>4 DEF load

LEMMA tradeTyped ==
  ASSUME StoresTyped, CallersTyped, NEW w \in Callers, trade(w)
  PROVE  StoresTyped' /\ CallersTyped'
<1>. PICK order : order = Order(my[w].run, at[w], my[w].base.ledger)
  OBVIOUS
<1>1. /\ at[w] \in {"sell", "buy"} /\ my[w] \in Locals
      /\ my[w].run \in Runs /\ my[w].base \in Portfolios
      /\ After(at[w]) \in {"buy", "commit"}
  BY MyLocal DEF trade, CallerTyped, Loaded, Trading, Executing, After
<1>2. order \in Effect
  <2>1. my[w].run.key \in Nat /\ my[w].base.ledger \in Nat
    BY <1>1, LifecycleAssumption DEF Portfolios
  <2>. QED
    BY <1>1, <2>1 DEF Order, Effect
<1>3. /\ effects' \subseteq effects \cup {order}
      /\ UNCHANGED <<vars, stores, published, pusd, others, faults>>
  BY DEF trade
<1>4. StoresTyped'
  BY <1>2, <1>3 DEF StoresTyped, stores
<1>5. CASE Stop(w)
  BY <1>4, <1>5, StopTyped
<1>6. CASE Goto(w, After(at[w])) /\ UNCHANGED <<my, holder>>
  BY <1>1, <1>4, <1>6, GotoTyped DEF CallersTyped, Steps, Executing
<1>7. CASE /\ Set(w, [my[w] EXCEPT !.orders = my[w].orders \cup {order}])
           /\ Goto(w, After(at[w]))
           /\ UNCHANGED holder
  <2>. DEFINE local == [my[w] EXCEPT !.orders = my[w].orders \cup {order}]
  <2>1. local \in Locals /\ local.run = my[w].run /\ local.base = my[w].base
    BY <1>1, <1>2 DEF Locals
  <2>2. Set(w, local)
    BY <1>7
  <2>. HIDE DEF local
  <2>. QED
    BY <1>1, <1>4, <1>7, <2>1, <2>2, SetTyped DEF CallersTyped, Steps, Executing
<1>. QED
  BY <1>5, <1>6, <1>7 DEF trade

\* The next condition in hand.
LEMMA NextCondition ==
  ASSUME CallersTyped, NEW w \in Callers,
         NEW c, c = my[w].condition
  PROVE  /\ [my[w] EXCEPT !.condition = c + 1] \in Locals
         /\ [my[w] EXCEPT !.condition = c + 1].run = my[w].run
         /\ [my[w] EXCEPT !.condition = c + 1].base = my[w].base
         /\ [my[w] EXCEPT !.condition = c + 1].orders = my[w].orders
         /\ [my[w] EXCEPT !.condition = c + 1].condition = c + 1
<1>1. my[w] \in Locals /\ c + 1 \in Nat \ {0}
  BY MyLocal DEF Locals
<1>. QED
  BY <1>1 DEF Locals

LEMMA redeemTyped ==
  ASSUME StoresTyped, CallersTyped, NEW w \in Callers, redeem(w)
  PROVE  StoresTyped' /\ CallersTyped'
<1>. PICK c : c = my[w].condition
  OBVIOUS
<1>1. at[w] = "redeem" /\ my[w].base \in Portfolios
  BY MyLocal DEF redeem, CallerTyped, Loaded, Trading, Executing
<1>2. redemptions' \in [Conditions -> Redemptions]
  <2>1. [state |-> "prepared", before |-> pusd] \in Redemptions
    BY DEF StoresTyped, Redemptions
  <2>. QED
    BY <2>1 DEF redeem, StoresTyped
<1>3. StoresTyped'
  BY <1>2 DEF redeem, StoresTyped, world
<1>4. CASE Stop(w)
  BY <1>3, <1>4, StopTyped
<1>5. CASE Goto(w, "commit") /\ UNCHANGED <<my, holder>>
  BY <1>1, <1>3, <1>5, GotoTyped DEF CallersTyped, Steps, Executing
<1>6. CASE c \in Conditions /\ Goto(w, "relay") /\ UNCHANGED <<my, holder>>
  BY <1>1, <1>3, <1>6, GotoTyped DEF CallersTyped, Steps, Executing
<1>7. CASE Set(w, [my[w] EXCEPT !.condition = c + 1]) /\ UNCHANGED <<at, holder>>
  <2>. DEFINE local == [my[w] EXCEPT !.condition = c + 1]
  <2>1. local \in Locals /\ local.run = my[w].run /\ local.base = my[w].base
    BY NextCondition
  <2>2. Set(w, local) /\ Goto(w, "redeem")
    BY <1>1, <1>7 DEF Goto, CallersTyped
  <2>. HIDE DEF local
  <2>. QED
    BY <1>1, <1>3, <1>7, <2>1, <2>2, SetTyped DEF CallersTyped, Steps, Executing
<1>. QED
  BY <1>4, <1>5, <1>6, <1>7 DEF redeem

LEMMA relayTyped ==
  ASSUME StoresTyped, CallersTyped, NEW w \in Callers, relay(w)
  PROVE  StoresTyped' /\ CallersTyped'
<1>. PICK paid : paid = Redemption(my[w].condition)
  OBVIOUS
<1>1. /\ at[w] = "relay" /\ my[w].base \in Portfolios
      /\ my[w].condition \in Conditions /\ my[w].condition \in Nat
  BY MyLocal, LifecycleAssumption
     DEF relay, CallerTyped, Loaded, Trading, Executing, Conditions
<1>2. paid \in Effect
  BY <1>1 DEF Redemption, Effect
<1>3. effects' = effects \cup {paid} /\ pusd' \in Nat
  BY LifecycleAssumption DEF relay, StoresTyped
<1>4. StoresTyped'
  BY <1>2, <1>3 DEF relay, StoresTyped, stores
<1>. QED
  BY <1>1, <1>4, GotoTyped DEF relay, CallersTyped, Steps, Executing

LEMMA verifyTyped ==
  ASSUME StoresTyped, CallersTyped, NEW w \in Callers, verify(w)
  PROVE  StoresTyped' /\ CallersTyped'
<1>. PICK c : c = my[w].condition
  OBVIOUS
<1>1. /\ at[w] = "verify" /\ my[w].base \in Portfolios
      /\ c \in Conditions /\ redemptions[c] \in Redemptions
  BY MyLocal DEF verify, CallerTyped, Loaded, Trading, Executing, StoresTyped
<1>2. [redemptions[c] EXCEPT !.state = "completed"] \in Redemptions
  BY <1>1 DEF Redemptions
<1>3. redemptions' \in [Conditions -> Redemptions]
  BY <1>1, <1>2 DEF verify, StoresTyped
<1>4. StoresTyped'
  BY <1>3 DEF verify, StoresTyped, world
<1>5. CASE Stop(w)
  BY <1>4, <1>5, StopTyped
<1>6. CASE /\ Set(w, [my[w] EXCEPT !.condition = c + 1])
           /\ Goto(w, "redeem") /\ UNCHANGED holder
  <2>. DEFINE local == [my[w] EXCEPT !.condition = c + 1]
  <2>1. local \in Locals /\ local.run = my[w].run /\ local.base = my[w].base
    BY NextCondition
  <2>2. Set(w, local)
    BY <1>6
  <2>. HIDE DEF local
  <2>. QED
    BY <1>1, <1>4, <1>6, <2>1, <2>2, SetTyped DEF CallersTyped, Steps, Executing
<1>. QED
  BY <1>5, <1>6 DEF verify

LEMMA ResultTyped ==
  ASSUME CallersTyped, NEW w \in Callers
  PROVE  Result(w) \subseteq Effect
<1>1. my[w].orders \subseteq Effect
  BY MyLocal DEF Locals
<1>2. \A c \in Conditions : Redemption(c) \in Effect
  BY LifecycleAssumption DEF Redemption, Effect, Conditions
<1>. QED
  BY <1>1, <1>2 DEF Result

LEMMA commitTyped ==
  ASSUME StoresTyped, CallersTyped, NEW w \in Callers, commit(w)
  PROVE  StoresTyped' /\ CallersTyped'
<1>. PICK r : r = my[w].run
  OBVIOUS
<1>1. /\ at[w] = "commit" /\ my[w] \in Locals /\ r \in Runs
      /\ my[w].base \in Portfolios /\ Result(w) \subseteq Effect
      /\ r.version \in Nat
  BY MyLocal, ResultTyped, LifecycleAssumption
     DEF commit, CallerTyped, Loaded, Trading, Executing
<1>2. CASE Stop(w) /\ UNCHANGED <<exec, portfolio>>
  <2>1. StoresTyped'
    BY <1>2 DEF commit, StoresTyped, world
  <2>. QED
    BY <1>2, <2>1, StopTyped
<1>3. CASE Commit(w)
  <2>. DEFINE done == [state |-> "completed", result |-> Result(w)]
              composition == IF r.kind = "reconstitution" THEN r.version
                                                          ELSE my[w].base.composition
              next == [ledger |-> portfolio.ledger + 1,
                       composition |-> composition,
                       includes |-> my[w].base.includes \cup Result(w)]
              half == [Fresh EXCEPT !.run = r]
              local == [Fresh EXCEPT !.run = r, !.version = my[w].version]
  <2>1. done \in Executions
    BY <1>1 DEF Executions
  <2>2. composition \in Nat
    BY <1>1 DEF Portfolios
  <2>3. next \in Portfolios
    BY <1>1, <2>2 DEF Portfolios, StoresTyped
  <2>4. local \in Locals /\ local.run = my[w].run
    <3>1. half \in Locals /\ half.run = r
      BY <1>1, FreshLocal DEF Locals
    <3>2. local = [half EXCEPT !.version = my[w].version] /\ my[w].version \in Nat
      BY <1>1, FreshLocal DEF Locals
    <3>. HIDE DEF half, local
    <3>. QED
      BY <3>1, <3>2 DEF Locals
  <2>5. /\ exec' = [exec EXCEPT ![r] = done] /\ portfolio' = next
        /\ holder' = NoOne /\ Goto(w, "finish") /\ Set(w, local)
    BY <1>3 DEF Commit
  <2>. HIDE DEF done, next, local, composition
  <2>6. StoresTyped'
    BY <1>1, <2>1, <2>3, <2>5 DEF commit, StoresTyped, world
  <2>7. CallersTyped'
    BY <1>1, <2>4, <2>5, SetTyped DEF Steps, Concluding, Loaded, Trading, Executing
  <2>. QED
    BY <2>6, <2>7
<1>. QED
  BY <1>2, <1>3 DEF commit

LEMMA StepTyped ==
  ASSUME TypeOK, StoresTyped, CallersTyped, NEW w \in Callers, Step(w)
  PROVE  StoresTyped' /\ CallersTyped'
BY executeTyped, submitTyped, observeTyped, transitionTyped, waysTyped, supplyTyped,
   prepareTyped, loadTyped, tradeTyped, redeemTyped, relayTyped, verifyTyped,
   commitTyped DEF Step

\* The steps of the network, the chain and the other operations.
SystemStep ==
  \/ \E k \in Keys : Land(k) \/ Drop(k)
  \/ \E r \in Runs : Publish(r)
  \/ \E after \in {pusd - 1, pusd + Payout} \cap Nat : OtherOperation(after)
  \/ Chain
  \/ UNCHANGED lifecycleVars

LEMMA CallersStand ==
  ASSUME SystemStep
  PROVE  UNCHANGED <<holder, at, my>>
BY DEF SystemStep, Land, Drop, Publish, OtherOperation, Chain, lifecycleVars

LEMMA SomebodySteps ==
  ASSUME [LifecycleNext]_lifecycleVars
  PROVE  SystemStep \/ \E w \in Callers : Step(w) \/ Crash(w)
BY DEF LifecycleNext, SystemStep

LEMMA SystemTyped ==
  ASSUME StoresTyped, CallersTyped, SystemStep
  PROVE  StoresTyped' /\ CallersTyped'
<1>1. CallersTyped'
  BY CallersStand DEF CallersTyped, CallerTyped
<1>2. ASSUME NEW k \in Keys, Land(k) \/ Drop(k)
      PROVE  StoresTyped'
  <2>1. submissions[k].batch \in Nat
    BY DEF StoresTyped, Submissions
  <2>2. submissions' \in [Keys -> Submissions]
    BY <1>2, <2>1, SubmissionTyped DEF Land, Drop
  <2>3. faults' \in Nat
    BY <1>2 DEF Land, Drop, Fault, StoresTyped
  <2>. QED
    BY <1>2, <2>2, <2>3 DEF Land, Drop, StoresTyped, world
<1>3. ASSUME NEW r \in Runs, Publish(r)
      PROVE  StoresTyped'
  BY <1>3 DEF Publish, StoresTyped, stores
<1>4. ASSUME NEW after \in Nat, OtherOperation(after)
      PROVE  StoresTyped'
  <2>. DEFINE effect == [what |-> "other", by |-> others + 1, from |-> 0]
              half == [portfolio EXCEPT !.ledger = portfolio.ledger + 1]
  <2>1. effect \in Effect
    BY DEF Effect, StoresTyped
  <2>. HIDE DEF effect
  <2>2. half \in Portfolios /\ half.includes = portfolio.includes
        /\ half.includes \subseteq Effect
    BY DEF Portfolios, StoresTyped
  <2>3. portfolio' = [half EXCEPT !.includes = portfolio.includes \cup {effect}]
    BY <1>4 DEF OtherOperation, effect, StoresTyped, Portfolios
  <2>. HIDE DEF half
  <2>4. portfolio' \in Portfolios
    BY <2>1, <2>2, <2>3 DEF Portfolios
  <2>5. effects' \subseteq Effect /\ pusd' \in Nat /\ others' \in Nat
    BY <1>4, <2>1 DEF OtherOperation, StoresTyped, effect
  <2>. QED
    BY <1>4, <2>4, <2>5 DEF OtherOperation, StoresTyped
<1>5. CASE Chain
  BY <1>1, <1>5 DEF Chain, StoresTyped, stores, world
<1>6. CASE UNCHANGED lifecycleVars
  BY <1>1, <1>6 DEF lifecycleVars, StoresTyped, stores, world
<1>. QED
  BY <1>1, <1>2, <1>3, <1>4, <1>5, <1>6 DEF SystemStep

LEMMA CrashTyped ==
  ASSUME StoresTyped, CallersTyped, NEW w \in Callers, Crash(w)
  PROVE  StoresTyped' /\ CallersTyped'
<1>1. CallersTyped'
  BY StopTyped DEF Crash
<1>2. StoresTyped'
  BY DEF Crash, Fault, StoresTyped, stores, world
<1>. QED
  BY <1>1, <1>2

LEMMA LifecycleInitTyped ==
  ASSUME LifecycleInit
  PROVE  TypeOK /\ PositionsDated /\ StoresTyped /\ CallersTyped
<1>1. TypeOK /\ PositionsDated /\ composition_version = 1
  BY InitTyped DEF LifecycleInit, Init
<1>2. portfolio \in Portfolios
  BY <1>1 DEF LifecycleInit, Portfolios
<1>3. StoresTyped
  BY <1>2, LifecycleAssumption
     DEF LifecycleInit, StoresTyped, RunRows, RunStates, Executions, Submissions,
         Redemptions
<1>4. CallersTyped
  BY FreshLocal DEF LifecycleInit, CallersTyped, CallerTyped, Steps, Loaded,
     Trading, Executing
<1>. QED
  BY <1>1, <1>3, <1>4

\* The runs, their keys and their callers stay typed, over a typed registry.
LifecycleTypes == TypeOK /\ PositionsDated /\ StoresTyped /\ CallersTyped

LEMMA LifecycleNextTyped ==
  ASSUME LifecycleTypes, [LifecycleNext]_lifecycleVars
  PROVE  LifecycleTypes'
<1>1. TypeOK' /\ PositionsDated'
  <2>1. [Handler({0, FinalNav})]_vars
    BY LifecycleHandles DEF LifecycleTypes
  <2>2. QED
    BY <2>1, HandlerTyped, LifecycleAssumption DEF LifecycleTypes
<1>2. StoresTyped' /\ CallersTyped'
  BY StepTyped, CrashTyped, SystemTyped, SomebodySteps DEF LifecycleTypes
<1>. QED
  BY <1>1, <1>2 DEF LifecycleTypes

LEMMA LifecycleTypesInvariant == LifecycleSpec => []LifecycleTypes
<1>1. LifecycleInit => LifecycleTypes
  BY LifecycleInitTyped DEF LifecycleTypes
<1>2. LifecycleTypes /\ [LifecycleNext]_lifecycleVars => LifecycleTypes'
  BY LifecycleNextTyped
<1>. QED
  BY <1>1, <1>2, PTL DEF LifecycleSpec

LEMMA TypesAreTypes ==
  ASSUME LifecycleTypes
  PROVE  LifecycleTypeOK
<1>1. ASSUME NEW r \in Runs
      PROVE  /\ runs[r].state \in RunStates
             /\ {runs[r].version, runs[r].snapshot} \subseteq Nat
             /\ exec[r].state \in {"absent", "prepared", "completed"}
             /\ exec[r].result \subseteq Effect
  BY DEF LifecycleTypes, StoresTyped, RunRows, Executions
<1>2. ASSUME NEW k \in Keys
      PROVE  /\ submissions[k].state \in {"none", "signed", "sent", "finalized", "failed"}
             /\ submissions[k].batch \in Nat
  BY DEF LifecycleTypes, StoresTyped, Submissions
<1>3. ASSUME NEW c \in Conditions
      PROVE  /\ redemptions[c].state \in {"absent", "prepared", "completed"}
             /\ redemptions[c].before \in Nat
  BY DEF LifecycleTypes, StoresTyped, Redemptions
<1>4. /\ published \subseteq Runs
      /\ {portfolio.ledger, portfolio.composition, pusd, others, faults} \subseteq Nat
      /\ portfolio.includes \cup effects \subseteq Effect
      /\ holder \in Callers \cup {NoOne}
  BY DEF LifecycleTypes, StoresTyped, CallersTyped, Portfolios
<1>. QED
  BY <1>1, <1>2, <1>3, <1>4 DEF LifecycleTypeOK, RunStates

\* Rows, keys, records and local variables keep their shape under all the calls,
\* landings, crashes and other operations, for any number of callers and runs.
THEOREM LifecycleTypeCorrect == LifecycleSpec => []LifecycleTypeOK
<1>1. LifecycleTypes => LifecycleTypeOK
  BY TypesAreTypes
<1>. QED
  BY <1>1, LifecycleTypesInvariant, PTL

-----------------------------------------------------------------------------
(* The runs: who may do what *)

Begun(r) == submissions[Key(r, "begin", 0)].state = "finalized"

Executed(r) == exec[r].state = "completed"

Attempts == 1 .. FinalSettlementAttempts

Completed(r) ==
  \/ submissions[Key(r, "complete", 0)].state = "finalized"
  \/ \E n \in Attempts : submissions[Key(r, "submit", n)].state = "finalized"

-----------------------------------------------------------------------------
(* The runs: where each call leads *)

\* A step of w leaves the other callers where they are.
OthersStay(w) == \A v \in Callers \ {w} : at'[v] = at[v] /\ my'[v] = my[v]

LEMMA Assigned ==
  ASSUME CallersTyped, NEW w \in Callers
  PROVE  /\ \A step : Goto(w, step) =>
              at'[w] = step /\ \A v \in Callers \ {w} : at'[v] = at[v]
         /\ \A local : Set(w, local) =>
              my'[w] = local /\ \A v \in Callers \ {w} : my'[v] = my[v]
         /\ Stop(w) => at'[w] = "idle" /\ my'[w] = Fresh /\ OthersStay(w)
BY DEF CallersTyped, Goto, Set, Stop, OthersStay

LEMMA executeMoves ==
  ASSUME StoresTyped, CallersTyped, NEW w \in Callers, NEW r \in Runs, execute(w, r)
  PROVE  /\ OthersStay(w) /\ at[w] = "idle"
         /\ my'[w].run = r /\ my'[w].orders = {} /\ my'[w].condition = 1
         /\ \/ at'[w] = "begin"
            \/ at'[w] = "acquire" /\ runs[r].state = "onchain_started"
            \/ /\ at'[w] = "check" /\ r.kind = "reconstitution"
               /\ runs[r].state = "external_execution_completed"
            \/ /\ at'[w] = "accrue" /\ r.kind = "resolution"
               /\ runs[r].state = "external_execution_completed"
         /\ \A s \in Runs : \/ runs'[s] = runs[s]
                            \/ /\ runs[s].state = "absent"
                               /\ runs'[s].state = "created"
<1>. PICK row : row = IF runs[r].state = "absent"
                      THEN [state |-> "created", version |-> 0, snapshot |-> 0]
                      ELSE runs[r]
  OBVIOUS
<1>1. runs[r] \in RunRows /\ r.kind \in {"reconstitution", "resolution"}
  BY LifecycleAssumption DEF StoresTyped
<1>2. /\ at[w] = "idle" /\ runs[r].state # "onchain_completed"
      /\ runs' = [runs EXCEPT ![r] = row]
      /\ Set(w, [Fresh EXCEPT !.run = r, !.version = row.version])
      /\ Goto(w, Resume(r, row.state))
  BY DEF execute
<1>3. \/ row.state = "created"
      \/ row = runs[r] /\ row.state = "onchain_started"
      \/ row = runs[r] /\ row.state = "external_execution_completed"
  BY <1>1, <1>2 DEF RunRows, RunStates
<1>. DEFINE half == [Fresh EXCEPT !.run = r]
            local == [Fresh EXCEPT !.run = r, !.version = row.version]
<1>4. local.run = r /\ local.orders = {} /\ local.condition = 1
  <2>1. half \in Locals /\ half.run = r /\ half.orders = {} /\ half.condition = 1
    BY FreshLocal DEF Locals, Fresh
  <2>2. local = [half EXCEPT !.version = row.version]
    BY FreshLocal DEF Locals
  <2>. HIDE DEF half, local
  <2>. QED
    BY <2>1, <2>2 DEF Locals
<1>5. Set(w, local)
  BY <1>2
<1>. HIDE DEF local, half
<1>6. OthersStay(w) /\ my'[w] = local /\ at'[w] = Resume(r, row.state)
  BY <1>2, <1>5, Assigned DEF OthersStay
<1>7. \A s \in Runs : \/ runs'[s] = runs[s]
                      \/ runs[s].state = "absent" /\ runs'[s].state = "created"
  BY <1>2 DEF StoresTyped
<1>8. \/ Resume(r, row.state) = "begin"
      \/ Resume(r, row.state) = "acquire" /\ runs[r].state = "onchain_started"
      \/ /\ Resume(r, row.state) = "check" /\ r.kind = "reconstitution"
         /\ runs[r].state = "external_execution_completed"
      \/ /\ Resume(r, row.state) = "accrue" /\ r.kind = "resolution"
         /\ runs[r].state = "external_execution_completed"
  BY <1>1, <1>3 DEF Resume
<1>. QED
  BY <1>2, <1>4, <1>6, <1>7, <1>8

\* A batch stays with its key, and a finalized key stays finalized.
KeysKept ==
  \A k \in Keys : submissions[k].state # "none" =>
    /\ submissions'[k].state # "none"
    /\ submissions'[k].batch = submissions[k].batch
    /\ submissions[k].state = "finalized" => submissions'[k].state = "finalized"

\* Nothing but a landing finalizes a key.
NothingLands ==
  \A k \in Keys : submissions'[k].state = "finalized" => submissions[k].state = "finalized"

LEMMA submitMoves ==
  ASSUME StoresTyped, CallersTyped, NEW w \in Callers, submit(w)
  PROVE  /\ OthersStay(w) /\ KeysKept /\ NothingLands
         /\ at[w] \in {"begin", "complete", "accrue", "submit"}
         /\ \A k \in Keys : submissions'[k].state # "none" =>
              submissions[k].state # "none" \/ k = CallOf(w).key
         /\ \/ at'[w] = "idle" /\ my'[w] = Fresh
            \/ /\ at'[w] = Sent(at[w]) /\ my'[w] = my[w]
               /\ submissions'[CallOf(w).key].state # "none"
               /\ submissions'[CallOf(w).key].batch = CallOf(w).batch
            \/ /\ at[w] = "submit" /\ at'[w] = "accrue"
               /\ my'[w].run = my[w].run /\ my'[w].orders = my[w].orders
               /\ my'[w].condition = my[w].condition
<1>. PICK key \in Keys, batch \in Nat : key = CallOf(w).key /\ batch = CallOf(w).batch
  BY CallTyped DEF submit
<1>1. at[w] \in {"begin", "complete", "accrue", "submit"} /\ my[w] \in Locals
  BY MyLocal DEF submit
<1>2. \/ UNCHANGED submissions
      \/ /\ Usable(key, batch) /\ Unsent(key)
         /\ Submission(key, "sent", batch) \/ Submission(key, "signed", batch)
  BY DEF submit, Send, SendFails
<1>3. ASSUME NEW state \in {"sent", "signed"}, Usable(key, batch), Unsent(key),
             Submission(key, state, batch)
      PROVE  /\ KeysKept /\ NothingLands
             /\ submissions'[key].state = state
             /\ \A k \in Keys \ {key} : submissions'[k] = submissions[k]
  <2>1. submissions'[key] = [state |-> state, batch |-> batch]
        /\ \A k \in Keys \ {key} : submissions'[k] = submissions[k]
    BY <1>3 DEF Submission, StoresTyped
  <2>. QED
    BY <1>3, <2>1 DEF Usable, Unsent, KeysKept, NothingLands
<1>4. KeysKept /\ NothingLands
      /\ \A k \in Keys : submissions'[k].state # "none" =>
           submissions[k].state # "none" \/ k = key
  BY <1>2, <1>3 DEF KeysKept, NothingLands
<1>5. CASE Stop(w)
  BY <1>1, <1>4, <1>5, Assigned
<1>6. CASE Send(key, batch) /\ Goto(w, Sent(at[w])) /\ UNCHANGED <<my, holder>>
  <2>1. submissions'[key].state # "none" /\ submissions'[key].batch = batch
    <3>1. CASE Unsent(key)
      <4>1. Submission(key, "sent", batch)
        BY <1>6, <3>1 DEF Send
      <4>. QED
        BY <4>1 DEF Submission, StoresTyped
    <3>2. CASE ~Unsent(key)
      BY <1>6, <3>2 DEF Send, Usable, Unsent
    <3>. QED
      BY <3>1, <3>2
  <2>2. at'[w] = Sent(at[w]) /\ my'[w] = my[w] /\ OthersStay(w)
    BY <1>6, Assigned DEF OthersStay
  <2>. QED
    BY <1>1, <1>4, <2>1, <2>2
<1>7. CASE /\ FinalSnapshotRace(key, batch)
           /\ Goto(w, "accrue")
           /\ Set(w, [my[w] EXCEPT !.attempt = my[w].attempt + 1])
  <2>1. my'[w] = [my[w] EXCEPT !.attempt = my[w].attempt + 1]
        /\ at'[w] = "accrue" /\ OthersStay(w)
    BY <1>7, Assigned DEF OthersStay
  <2>2. /\ my'[w].run = my[w].run /\ my'[w].orders = my[w].orders
        /\ my'[w].condition = my[w].condition
    BY <1>1, <2>1 DEF Locals
  <2>3. at[w] = "submit"
    <3>1. key.step = "submit"
      BY <1>7 DEF FinalSnapshotRace
    <3>. QED
      BY <1>1, <3>1, CallTyped DEF Key
  <2>. QED
    BY <1>1, <1>4, <2>1, <2>2, <2>3
<1>. QED
  BY <1>5, <1>6, <1>7 DEF submit

LEMMA observeMoves ==
  ASSUME StoresTyped, CallersTyped, NEW w \in Callers, observe(w)
  PROVE  /\ OthersStay(w)
         /\ at[w] \in {"begin_sent", "complete_sent", "accrue_sent", "submit_sent"}
         /\ \/ at'[w] = "idle" /\ my'[w] = Fresh
            \/ /\ my'[w] = my[w]
               /\ submissions[CallOf(w).key].state = "finalized"
               /\ \/ at[w] = "begin_sent" /\ at'[w] = "start"
                  \/ at[w] = "accrue_sent" /\ at'[w] = "supply"
                  \/ at[w] \in {"complete_sent", "submit_sent"} /\ at'[w] = "record"
            \/ /\ my'[w] = my[w]
               /\ \/ at[w] = "begin_sent" /\ at'[w] = "begin"
                  \/ at[w] = "complete_sent" /\ at'[w] = "complete"
                  \/ at[w] = "accrue_sent" /\ at'[w] = "accrue"
                  \/ at[w] = "submit_sent" /\ at'[w] = "submit"
<1>1. at[w] \in {"begin_sent", "complete_sent", "accrue_sent", "submit_sent"}
  BY DEF observe
<1>2. CASE Stop(w)
  BY <1>1, <1>2, Assigned
<1>3. ASSUME NEW step, Goto(w, step), UNCHANGED <<my, holder>>
      PROVE  at'[w] = step /\ my'[w] = my[w] /\ OthersStay(w)
  BY <1>3, Assigned DEF OthersStay
<1>4. CASE /\ submissions[CallOf(w).key].state = "finalized"
           /\ Goto(w, CASE at[w] = "begin_sent" -> "start"
                        [] at[w] = "accrue_sent" -> "supply"
                        [] OTHER -> "record")
           /\ UNCHANGED <<my, holder>>
  BY <1>1, <1>3, <1>4
<1>5. CASE Goto(w, CallOf(w).key.step) /\ UNCHANGED <<my, holder>>
  <2>1. \/ at[w] = "begin_sent" /\ CallOf(w).key.step = "begin"
        \/ at[w] = "complete_sent" /\ CallOf(w).key.step = "complete"
        \/ at[w] = "accrue_sent" /\ CallOf(w).key.step = "accrue"
        \/ at[w] = "submit_sent" /\ CallOf(w).key.step = "submit"
    BY <1>1, CallTyped DEF Key
  <2>. QED
    BY <1>1, <1>3, <1>5, <2>1
<1>. QED
  BY <1>2, <1>4, <1>5 DEF observe

LEMMA transitionMoves ==
  ASSUME StoresTyped, CallersTyped, NEW w \in Callers, transition(w)
  PROVE  /\ OthersStay(w) /\ at[w] \in {"start", "finish", "record"}
         /\ \/ /\ at'[w] = "idle" /\ my'[w] = Fresh /\ runs' = runs
            \/ /\ my'[w].run = my[w].run /\ my'[w].orders = my[w].orders
               /\ my'[w].condition = my[w].condition
               /\ runs[my[w].run].state # "onchain_completed"
               /\ \A s \in Runs \ {my[w].run} : runs'[s] = runs[s]
               /\ \/ /\ at[w] = "start" /\ at'[w] = "acquire"
                     /\ runs'[my[w].run].state = "onchain_started"
                  \/ /\ at[w] = "finish" /\ my[w].run.kind = "reconstitution"
                     /\ at'[w] = "check"
                     /\ runs'[my[w].run].state = "external_execution_completed"
                  \/ /\ at[w] = "finish" /\ my[w].run.kind = "resolution"
                     /\ at'[w] = "accrue"
                     /\ runs'[my[w].run].state = "external_execution_completed"
                  \/ /\ at[w] = "record" /\ at'[w] = "return"
                     /\ runs'[my[w].run].state = "onchain_completed"
                     /\ runs'[my[w].run].snapshot = my[w].snapshot
<1>. PICK r : r = my[w].run
  OBVIOUS
<1>1. /\ at[w] \in {"start", "finish", "record"}
      /\ my[w] \in Locals /\ r \in Runs /\ runs[r] \in RunRows
      /\ r.kind \in {"reconstitution", "resolution"}
  BY MyLocal, LifecycleAssumption DEF transition, CallerTyped, StoresTyped
<1>2. ASSUME NEW state, NEW snapshot, NEW next, Transition(w, state, snapshot, next)
      PROVE  /\ OthersStay(w)
             /\ \/ at'[w] = "idle" /\ my'[w] = Fresh /\ runs' = runs
                \/ /\ my'[w].run = r /\ my'[w].orders = my[w].orders
                   /\ my'[w].condition = my[w].condition
                   /\ runs[r].state # "onchain_completed"
                   /\ \A s \in Runs \ {r} : runs'[s] = runs[s]
                   /\ at'[w] = next
                   /\ runs'[r].state = state /\ runs'[r].snapshot = snapshot
  <2>1. CASE Stop(w) /\ UNCHANGED runs
    BY <2>1, Assigned
  <2>2. CASE /\ runs[r].state # "onchain_completed"
             /\ runs' = [runs EXCEPT ![r] = [state |-> state, version |-> @.version + 1,
                                             snapshot |-> snapshot]]
             /\ Set(w, [my[w] EXCEPT !.version = my[w].version + 1])
             /\ Goto(w, next)
    <3>. DEFINE local == [my[w] EXCEPT !.version = my[w].version + 1]
    <3>1. /\ local.run = r /\ local.orders = my[w].orders
          /\ local.condition = my[w].condition
      BY <1>1 DEF Locals
    <3>2. Set(w, local)
      BY <2>2
    <3>. HIDE DEF local
    <3>3. my'[w] = local /\ at'[w] = next /\ OthersStay(w)
      BY <2>2, <3>2, Assigned DEF OthersStay
    <3>4. /\ runs'[r].state = state /\ runs'[r].snapshot = snapshot
          /\ \A s \in Runs \ {r} : runs'[s] = runs[s]
      BY <1>1, <2>2 DEF StoresTyped
    <3>. QED
      BY <2>2, <3>1, <3>3, <3>4
  <2>. QED
    BY <1>2, <2>1, <2>2 DEF Transition
<1>3. CASE at[w] = "start"
  BY <1>2, <1>3 DEF transition
<1>4. CASE at[w] = "finish"
  <2>1. \/ r.kind = "reconstitution"
           /\ Resume(r, "external_execution_completed") = "check"
        \/ r.kind = "resolution"
           /\ Resume(r, "external_execution_completed") = "accrue"
    BY <1>1 DEF Resume
  <2>2. Transition(w, "external_execution_completed", 0,
                   Resume(r, "external_execution_completed"))
    BY <1>4 DEF transition
  <2>. QED
    BY <1>2, <1>4, <2>1, <2>2
<1>5. CASE at[w] = "record"
  <2>1. Transition(w, "onchain_completed", my[w].snapshot, "return")
    BY <1>5 DEF transition
  <2>. QED
    BY <1>2, <1>5, <2>1
<1>. QED
  BY <1>1, <1>3, <1>4, <1>5

LEMMA waysMoves ==
  ASSUME StoresTyped, CallersTyped, NEW w \in Callers,
         return(w) \/ check(w) \/ acquire(w) \/ supply(w)
  PROVE  /\ OthersStay(w)
         /\ \/ at[w] = "return" /\ at'[w] = "idle" /\ my'[w] = Fresh
            \/ at[w] = "check" /\ at'[w] = "idle" /\ my'[w] = Fresh
            \/ at[w] = "check" /\ at'[w] = "complete" /\ my'[w] = my[w]
            \/ /\ at[w] = "acquire" /\ at'[w] = "prepare" /\ my'[w] = my[w]
               /\ holder = NoOne /\ holder' = w
            \/ /\ at[w] = "supply" /\ at'[w] = "submit"
               /\ my'[w].run = my[w].run /\ my'[w].orders = my[w].orders
               /\ my'[w].condition = my[w].condition
<1>1. CASE return(w)
  BY <1>1, Assigned DEF return
<1>2. CASE check(w)
  BY <1>2, Assigned DEF check, OthersStay
<1>3. CASE acquire(w)
  BY <1>3, Assigned DEF acquire, OthersStay
<1>4. CASE supply(w)
  <2>. DEFINE local == [my[w] EXCEPT !.snapshot = total_shares_outstanding]
  <2>1. /\ local.run = my[w].run /\ local.orders = my[w].orders
        /\ local.condition = my[w].condition
    BY MyLocal DEF Locals
  <2>2. Set(w, local) /\ at[w] = "supply" /\ Goto(w, "submit")
    BY <1>4 DEF supply
  <2>. HIDE DEF local
  <2>. QED
    BY <2>1, <2>2, Assigned DEF OthersStay
<1>. QED
  BY <1>1, <1>2, <1>3, <1>4

LEMMA prepareMoves ==
  ASSUME StoresTyped, CallersTyped, NEW w \in Callers, prepare(w)
  PROVE  /\ OthersStay(w) /\ at[w] = "prepare" /\ my'[w] = my[w]
         /\ \A s \in Runs : exec'[s].result = exec[s].result
         /\ \A s \in Runs \ {my[w].run} : exec'[s] = exec[s]
         /\ \/ /\ at'[w] = "finish" /\ Executed(my[w].run)
               /\ holder' = NoOne /\ exec' = exec
            \/ /\ at'[w] = "load" /\ ~Executed(my[w].run)
               /\ holder' = holder /\ exec'[my[w].run].state = "prepared"
<1>1. my[w].run \in Runs /\ exec \in [Runs -> Executions] /\ at[w] = "prepare"
  BY MyLocal DEF prepare, CallerTyped, StoresTyped
<1>2. OthersStay(w) /\ my'[w] = my[w]
  BY Assigned DEF prepare, OthersStay
<1>3. CASE exec[my[w].run].state = "completed"
  BY <1>1, <1>2, <1>3, Assigned DEF prepare, Executed
<1>4. CASE exec[my[w].run].state # "completed"
  <2>1. exec' = [exec EXCEPT ![my[w].run].state = "prepared"]
        /\ at'[w] = "load" /\ holder' = holder
    BY <1>4, Assigned DEF prepare
  <2>2. /\ \A s \in Runs \ {my[w].run} : exec'[s] = exec[s]
        /\ exec'[my[w].run] = [exec[my[w].run] EXCEPT !.state = "prepared"]
    BY <1>1, <2>1
  <2>3. exec[my[w].run] \in Executions
    BY <1>1
  <2>4. exec'[my[w].run].state = "prepared"
        /\ exec'[my[w].run].result = exec[my[w].run].result
    BY <2>2, <2>3 DEF Executions
  <2>. QED
    BY <1>1, <1>2, <1>4, <2>1, <2>2, <2>4 DEF Executed
<1>. QED
  BY <1>3, <1>4

LEMMA loadMoves ==
  ASSUME StoresTyped, CallersTyped, NEW w \in Callers, load(w)
  PROVE  /\ OthersStay(w) /\ at[w] = "load"
         /\ \/ at'[w] = "idle" /\ my'[w] = Fresh
            \/ /\ my'[w].run = my[w].run /\ my'[w].orders = my[w].orders
               /\ my'[w].condition = my[w].condition
               /\ my'[w].base = portfolio /\ holder' = holder
               /\ \/ at'[w] = "sell" /\ my[w].run.kind = "reconstitution"
                  \/ at'[w] = "redeem" /\ my[w].run.kind = "resolution"
<1>1. my[w] \in Locals /\ at[w] = "load" /\ my[w].run.kind \in {"reconstitution", "resolution"}
  BY MyLocal, LifecycleAssumption DEF load, CallerTyped
<1>2. CASE Stop(w)
  BY <1>1, <1>2, Assigned
<1>3. CASE /\ Set(w, [my[w] EXCEPT !.base = portfolio])
           /\ Goto(w, IF my[w].run.kind = "reconstitution" THEN "sell" ELSE "redeem")
           /\ UNCHANGED holder
  <2>. DEFINE local == [my[w] EXCEPT !.base = portfolio]
  <2>1. /\ local.run = my[w].run /\ local.orders = my[w].orders
        /\ local.condition = my[w].condition /\ local.base = portfolio
    BY <1>1 DEF Locals
  <2>2. Set(w, local)
    BY <1>3
  <2>. HIDE DEF local
  <2>3. OthersStay(w) /\ my'[w] = local
        /\ at'[w] = IF my[w].run.kind = "reconstitution" THEN "sell" ELSE "redeem"
    BY <1>3, <2>2, Assigned DEF OthersStay
  <2>. QED
    BY <1>1, <1>3, <2>1, <2>3
<1>. QED
  BY <1>2, <1>3 DEF load

LEMMA tradeMoves ==
  ASSUME StoresTyped, CallersTyped, NEW w \in Callers, trade(w)
  PROVE  /\ OthersStay(w) /\ at[w] \in {"sell", "buy"}
         /\ effects \subseteq effects'
         /\ \A e \in effects' \ effects : e.what # "other"
         /\ \/ at'[w] = "idle" /\ my'[w] = Fresh
            \/ /\ my'[w].run = my[w].run /\ my'[w].base = my[w].base
               /\ my'[w].condition = my[w].condition /\ holder' = holder
               /\ my'[w].orders \subseteq my[w].orders \cup effects'
               /\ \/ at[w] = "sell" /\ at'[w] = "buy"
                  \/ at[w] = "buy" /\ at'[w] = "commit"
<1>. PICK order : order = Order(my[w].run, at[w], my[w].base.ledger)
  OBVIOUS
<1>1. my[w] \in Locals /\ at[w] \in {"sell", "buy"} /\ order.what = at[w]
      /\ \/ at[w] = "sell" /\ After(at[w]) = "buy"
         \/ at[w] = "buy" /\ After(at[w]) = "commit"
  BY MyLocal DEF trade, Order, After
<1>2. effects' = effects \/ effects' = effects \cup {order}
  BY DEF trade
<1>3. effects \subseteq effects' /\ \A e \in effects' \ effects : e.what # "other"
  BY <1>1, <1>2
<1>4. CASE Stop(w)
  BY <1>1, <1>3, <1>4, Assigned
<1>5. CASE Goto(w, After(at[w])) /\ UNCHANGED <<my, holder>>
  <2>1. OthersStay(w) /\ my'[w] = my[w] /\ at'[w] = After(at[w])
    BY <1>5, Assigned DEF OthersStay
  <2>. QED
    BY <1>1, <1>3, <1>5, <2>1
<1>6. CASE /\ effects' = effects \cup {order}
           /\ Set(w, [my[w] EXCEPT !.orders = my[w].orders \cup {order}])
           /\ Goto(w, After(at[w])) /\ UNCHANGED holder
  <2>. DEFINE local == [my[w] EXCEPT !.orders = my[w].orders \cup {order}]
  <2>1. /\ local.run = my[w].run /\ local.base = my[w].base
        /\ local.condition = my[w].condition
        /\ local.orders = my[w].orders \cup {order}
    BY <1>1 DEF Locals
  <2>2. Set(w, local)
    BY <1>6
  <2>. HIDE DEF local
  <2>3. OthersStay(w) /\ my'[w] = local /\ at'[w] = After(at[w])
    BY <1>6, <2>2, Assigned DEF OthersStay
  <2>. QED
    BY <1>1, <1>3, <1>6, <2>1, <2>3
<1>. QED
  BY <1>4, <1>5, <1>6 DEF trade

LEMMA redeemMoves ==
  ASSUME StoresTyped, CallersTyped, NEW w \in Callers, redeem(w)
  PROVE  /\ OthersStay(w) /\ at[w] = "redeem"
         /\ \A d \in Conditions : \/ redemptions'[d] = redemptions[d]
                                  \/ /\ redemptions[d].state = "absent"
                                     /\ redemptions'[d].state = "prepared"
         /\ \/ at'[w] = "idle" /\ my'[w] = Fresh
            \/ /\ my'[w].run = my[w].run /\ my'[w].base = my[w].base
               /\ my'[w].orders = my[w].orders /\ holder' = holder
               /\ \/ /\ at'[w] = "commit" /\ my'[w].condition = my[w].condition
                     /\ my[w].condition \notin Conditions
                  \/ /\ at'[w] = "relay" /\ my'[w].condition = my[w].condition
                     /\ my[w].condition \in Conditions
                  \/ /\ at'[w] = "redeem"
                     /\ my[w].condition \in Conditions
                     /\ redemptions[my[w].condition].state = "completed"
                     /\ my'[w].condition = my[w].condition + 1
<1>. PICK c : c = my[w].condition
  OBVIOUS
<1>1. my[w] \in Locals /\ at[w] = "redeem" /\ redemptions \in [Conditions -> Redemptions]
  BY MyLocal DEF redeem, StoresTyped
<1>2. \A d \in Conditions : \/ redemptions'[d] = redemptions[d]
                            \/ /\ redemptions[d].state = "absent"
                               /\ redemptions'[d].state = "prepared"
  BY <1>1 DEF redeem
<1>3. CASE Stop(w)
  BY <1>1, <1>2, <1>3, Assigned
<1>4. CASE c \notin Conditions /\ Goto(w, "commit") /\ UNCHANGED <<my, holder>>
  BY <1>1, <1>2, <1>4, Assigned DEF OthersStay
<1>5. CASE c \in Conditions /\ Goto(w, "relay") /\ UNCHANGED <<my, holder>>
  BY <1>1, <1>2, <1>5, Assigned DEF OthersStay
<1>6. CASE /\ c \in Conditions /\ redemptions[c].state = "completed"
           /\ Set(w, [my[w] EXCEPT !.condition = c + 1])
           /\ UNCHANGED <<at, holder>>
  <2>. DEFINE local == [my[w] EXCEPT !.condition = c + 1]
  <2>1. /\ local.run = my[w].run /\ local.base = my[w].base
        /\ local.orders = my[w].orders /\ local.condition = c + 1
    BY NextCondition
  <2>2. Set(w, local)
    BY <1>6
  <2>. HIDE DEF local
  <2>3. OthersStay(w) /\ my'[w] = local /\ at'[w] = at[w]
    BY <1>6, <2>2, Assigned DEF OthersStay
  <2>. QED
    BY <1>1, <1>2, <1>6, <2>1, <2>3
<1>. QED
  BY <1>3, <1>4, <1>5, <1>6 DEF redeem

LEMMA relayMoves ==
  ASSUME StoresTyped, CallersTyped, NEW w \in Callers, relay(w)
  PROVE  /\ OthersStay(w) /\ at[w] = "relay" /\ at'[w] = "verify" /\ my'[w] = my[w]
         /\ effects' = effects \cup {Redemption(my[w].condition)}
         /\ holder' = holder
BY Assigned DEF relay, OthersStay

LEMMA verifyMoves ==
  ASSUME StoresTyped, CallersTyped, NEW w \in Callers, verify(w)
  PROVE  /\ OthersStay(w) /\ at[w] = "verify" /\ my[w].condition \in Conditions
         /\ \A d \in Conditions \ {my[w].condition} : redemptions'[d] = redemptions[d]
         /\ \/ at'[w] = "idle" /\ my'[w] = Fresh /\ redemptions' = redemptions
            \/ /\ my'[w].run = my[w].run /\ my'[w].base = my[w].base
               /\ my'[w].orders = my[w].orders /\ holder' = holder
               /\ at'[w] = "redeem" /\ my'[w].condition = my[w].condition + 1
               /\ redemptions'[my[w].condition].state = "completed"
<1>. PICK c : c = my[w].condition
  OBVIOUS
<1>1. /\ my[w] \in Locals /\ at[w] = "verify" /\ c \in Conditions
      /\ redemptions \in [Conditions -> Redemptions]
  BY MyLocal DEF verify, CallerTyped, StoresTyped
<1>2. CASE Stop(w) /\ UNCHANGED redemptions
  BY <1>1, <1>2, Assigned
<1>3. CASE /\ redemptions' = [redemptions EXCEPT ![c].state = "completed"]
           /\ Set(w, [my[w] EXCEPT !.condition = c + 1])
           /\ Goto(w, "redeem") /\ UNCHANGED holder
  <2>. DEFINE local == [my[w] EXCEPT !.condition = c + 1]
  <2>1. /\ local.run = my[w].run /\ local.base = my[w].base
        /\ local.orders = my[w].orders /\ local.condition = c + 1
    BY NextCondition
  <2>2. Set(w, local)
    BY <1>3
  <2>. HIDE DEF local
  <2>3. OthersStay(w) /\ my'[w] = local /\ at'[w] = "redeem"
    BY <1>3, <2>2, Assigned DEF OthersStay
  <2>4. /\ \A d \in Conditions \ {c} : redemptions'[d] = redemptions[d]
        /\ redemptions'[c] = [redemptions[c] EXCEPT !.state = "completed"]
    BY <1>1, <1>3
  <2>5. redemptions'[c].state = "completed"
    BY <1>1, <2>4 DEF Redemptions
  <2>. QED
    BY <1>1, <1>3, <2>1, <2>3, <2>4, <2>5
<1>. QED
  BY <1>2, <1>3 DEF verify

LEMMA commitMoves ==
  ASSUME StoresTyped, CallersTyped, NEW w \in Callers, commit(w)
  PROVE  /\ OthersStay(w) /\ at[w] = "commit"
         /\ \/ /\ at'[w] = "idle" /\ my'[w] = Fresh
               /\ exec' = exec /\ portfolio' = portfolio
            \/ /\ at'[w] = "finish" /\ my'[w].run = my[w].run
               /\ my'[w].orders = {} /\ my'[w].condition = 1
               /\ holder' = NoOne /\ portfolio.ledger = my[w].base.ledger
               /\ portfolio'.ledger = portfolio.ledger + 1
               /\ portfolio'.includes = my[w].base.includes \cup Result(w)
               /\ exec'[my[w].run].state = "completed"
               /\ exec'[my[w].run].result = Result(w)
               /\ \A s \in Runs \ {my[w].run} : exec'[s] = exec[s]
<1>. PICK r : r = my[w].run
  OBVIOUS
<1>1. /\ my[w] \in Locals /\ at[w] = "commit" /\ r \in Runs
      /\ exec \in [Runs -> Executions]
  BY MyLocal DEF commit, CallerTyped, StoresTyped
<1>2. CASE Stop(w) /\ UNCHANGED <<exec, portfolio>>
  BY <1>1, <1>2, Assigned
<1>3. CASE portfolio.ledger = my[w].base.ledger /\ Commit(w)
  <2>. DEFINE half == [Fresh EXCEPT !.run = r]
              local == [Fresh EXCEPT !.run = r, !.version = my[w].version]
  <2>1. local.run = r /\ local.orders = {} /\ local.condition = 1
    <3>1. half \in Locals /\ half.run = r /\ half.orders = {} /\ half.condition = 1
      BY <1>1, FreshLocal DEF Locals, Fresh
    <3>2. local = [half EXCEPT !.version = my[w].version]
      BY <1>1, FreshLocal DEF Locals
    <3>. HIDE DEF half, local
    <3>. QED
      BY <3>1, <3>2 DEF Locals
  <2>2. Set(w, local) /\ Goto(w, "finish") /\ holder' = NoOne
    BY <1>3 DEF Commit
  <2>. HIDE DEF local, half
  <2>3. OthersStay(w) /\ my'[w] = local /\ at'[w] = "finish"
    BY <2>2, Assigned DEF OthersStay
  <2>4. /\ portfolio'.ledger = portfolio.ledger + 1
        /\ portfolio'.includes = my[w].base.includes \cup Result(w)
    BY <1>3 DEF Commit
  <2>5. /\ exec'[r] = [state |-> "completed", result |-> Result(w)]
        /\ \A s \in Runs \ {r} : exec'[s] = exec[s]
    BY <1>1, <1>3 DEF Commit
  <2>6. exec'[r].state = "completed" /\ exec'[r].result = Result(w)
    BY <2>5
  <2>. QED
    BY <1>1, <1>3, <2>1, <2>2, <2>3, <2>4, <2>5, <2>6
<1>. QED
  BY <1>2, <1>3 DEF commit

LEMMA CrashMoves ==
  ASSUME CallersTyped, NEW w \in Callers, Crash(w)
  PROVE  OthersStay(w) /\ at'[w] = "idle" /\ my'[w] = Fresh
BY Assigned DEF Crash

-----------------------------------------------------------------------------
(* The runs: what is done for which kind *)

Kinds(w) ==
  at[w] # "idle" =>
    /\ at[w] \in {"sell", "buy", "check", "complete", "complete_sent"} =>
         my[w].run.kind = "reconstitution"
    /\ at[w] \in {"redeem", "relay", "verify", "accrue", "accrue_sent", "supply",
                  "submit", "submit_sent"} =>
         my[w].run.kind = "resolution"

KindsInv == \A w \in Callers : Kinds(w)

LEMMA StepKinds ==
  ASSUME StoresTyped, CallersTyped, KindsInv, NEW w \in Callers,
         Step(w) \/ Crash(w)
  PROVE  KindsInv'
<1>1. OthersStay(w) /\ Kinds(w)'
  <2>1. Kinds(w)
    BY DEF KindsInv
  <2>2. ASSUME NEW r \in Runs, execute(w, r)
        PROVE  OthersStay(w) /\ Kinds(w)'
    BY <2>2, executeMoves DEF Kinds
  <2>3. CASE submit(w)
    BY <2>1, <2>3, submitMoves DEF Kinds, Sent
  <2>4. CASE observe(w)
    BY <2>1, <2>4, observeMoves DEF Kinds
  <2>5. CASE transition(w)
    BY <2>1, <2>5, transitionMoves DEF Kinds
  <2>6. CASE return(w) \/ check(w) \/ acquire(w) \/ supply(w)
    BY <2>1, <2>6, waysMoves DEF Kinds
  <2>7. CASE prepare(w)
    BY <2>1, <2>7, prepareMoves DEF Kinds
  <2>8. CASE load(w)
    BY <2>1, <2>8, loadMoves DEF Kinds
  <2>9. CASE trade(w)
    BY <2>1, <2>9, tradeMoves DEF Kinds
  <2>10. CASE redeem(w)
    BY <2>1, <2>10, redeemMoves DEF Kinds
  <2>11. CASE relay(w)
    BY <2>1, <2>11, relayMoves DEF Kinds
  <2>12. CASE verify(w)
    BY <2>1, <2>12, verifyMoves DEF Kinds
  <2>13. CASE commit(w)
    BY <2>1, <2>13, commitMoves DEF Kinds
  <2>14. CASE Crash(w)
    BY <2>14, CrashMoves DEF Kinds
  <2>. QED
    BY <2>2, <2>3, <2>4, <2>5, <2>6, <2>7, <2>8, <2>9, <2>10, <2>11, <2>12, <2>13,
       <2>14 DEF Step
<1>2. \A v \in Callers \ {w} : Kinds(v)'
  BY <1>1 DEF OthersStay, KindsInv, Kinds
<1>. QED
  BY <1>1, <1>2 DEF KindsInv

LEMMA KindsInvariant == LifecycleSpec => [](LifecycleTypes /\ KindsInv)
<1>1. LifecycleInit => KindsInv
  BY DEF LifecycleInit, KindsInv, Kinds
<1>2. LifecycleTypes /\ KindsInv /\ [LifecycleNext]_lifecycleVars => KindsInv'
  <2>. SUFFICES ASSUME LifecycleTypes, KindsInv, [LifecycleNext]_lifecycleVars
                PROVE  KindsInv'
    OBVIOUS
  <2>1. CASE SystemStep
    BY <2>1, CallersStand DEF KindsInv, Kinds
  <2>. QED
    BY <2>1, SomebodySteps, StepKinds DEF LifecycleTypes
<1>. QED
  BY <1>1, <1>2, LifecycleTypesInvariant, PTL DEF LifecycleSpec

-----------------------------------------------------------------------------
(* The runs: what the portfolio reflects *)

\* What a caller holds in its variables happened; the portfolio it has read is
\* the current one unless the ledger has moved on; it passes a condition only
\* when its redemption is complete.
Backed(w) ==
  /\ my[w].orders \subseteq effects
  /\ \A c \in Conditions :
       c < my[w].condition => redemptions[c].state = "completed"
  /\ at[w] \in Loaded =>
       /\ my[w].base.ledger <= portfolio.ledger
       /\ my[w].base.ledger = portfolio.ledger => my[w].base = portfolio
  /\ at[w] = "verify" => Redemption(my[w].condition) \in effects
  /\ at[w] = "commit" /\ my[w].run.kind = "resolution" =>
       my[w].condition \notin Conditions

RedemptionsPaid ==
  \A c \in Conditions :
    redemptions[c].state = "completed" => Redemption(c) \in effects

BackedInv == (\A w \in Callers : Backed(w)) /\ RedemptionsPaid /\ PortfolioIsBacked

\* Nothing that happened is undone, and a changed portfolio has a later ledger.
Grows ==
  /\ effects \subseteq effects'
  /\ portfolio' = portfolio \/ portfolio.ledger < portfolio'.ledger
  /\ \A c \in Conditions :
       redemptions[c].state = "completed" => redemptions'[c].state = "completed"

LEMMA StepGrows ==
  ASSUME StoresTyped, CallersTyped, NEW w \in Callers, Step(w) \/ Crash(w)
  PROVE  Grows
<1>1. CASE \/ \E r \in Runs : execute(w, r)
           \/ submit(w) \/ observe(w) \/ transition(w) \/ return(w) \/ check(w)
           \/ supply(w) \/ acquire(w) \/ prepare(w) \/ load(w) \/ Crash(w)
  <2>1. UNCHANGED <<effects, portfolio, redemptions>>
    BY <1>1 DEF execute, submit, observe, transition, return, check, supply, acquire,
       prepare, load, Crash, stores, world
  <2>. QED
    BY <2>1 DEF Grows
<1>2. CASE trade(w)
  BY <1>2, tradeMoves DEF trade, stores, Grows
<1>3. CASE redeem(w)
  <2>1. UNCHANGED <<effects, portfolio>>
    BY <1>3 DEF redeem, world
  <2>. QED
    BY <1>3, <2>1, redeemMoves DEF Grows
<1>4. CASE relay(w)
  BY <1>4, relayMoves DEF relay, stores, Grows
<1>5. CASE verify(w)
  <2>1. UNCHANGED <<effects, portfolio>>
    BY <1>5 DEF verify, world
  <2>. QED
    BY <1>5, <2>1, verifyMoves DEF Grows
<1>6. CASE commit(w)
  <2>1. UNCHANGED <<effects, redemptions>>
    BY <1>6 DEF commit, world
  <2>2. portfolio.ledger \in Nat
    BY DEF StoresTyped, Portfolios
  <2>3. portfolio' = portfolio \/ portfolio'.ledger = portfolio.ledger + 1
    BY <1>6, commitMoves
  <2>4. portfolio' = portfolio \/ portfolio.ledger < portfolio'.ledger
    BY <2>2, <2>3
  <2>. QED
    BY <2>1, <2>4 DEF Grows
<1>. QED
  BY <1>1, <1>2, <1>3, <1>4, <1>5, <1>6 DEF Step

LEMMA SystemGrows ==
  ASSUME StoresTyped, SystemStep
  PROVE  Grows
<1>1. ASSUME NEW after, OtherOperation(after)
      PROVE  Grows
  <2>. PICK effect : effect = [what |-> "other", by |-> others + 1, from |-> 0]
    OBVIOUS
  <2>1. portfolio.ledger \in Nat /\ portfolio \in Portfolios
    BY DEF StoresTyped, Portfolios
  <2>2. portfolio'.ledger = portfolio.ledger + 1
    <3>. DEFINE half == [portfolio EXCEPT !.ledger = portfolio.ledger + 1]
    <3>1. half \in Portfolios /\ half.ledger = portfolio.ledger + 1
          /\ half.includes = portfolio.includes
      BY <2>1 DEF Portfolios
    <3>2. portfolio' = [half EXCEPT !.includes = portfolio.includes \cup {effect}]
      BY <1>1, <2>1 DEF OtherOperation, Portfolios
    <3>. HIDE DEF half
    <3>. QED
      BY <3>1, <3>2 DEF Portfolios
  <2>. QED
    BY <1>1, <2>1, <2>2 DEF OtherOperation, Grows
<1>2. CASE SystemStep /\ ~\E after : OtherOperation(after)
  <2>1. UNCHANGED <<effects, portfolio, redemptions>>
    BY <1>2 DEF SystemStep, Land, Drop, Publish, Chain, lifecycleVars, stores, world
  <2>. QED
    BY <2>1 DEF Grows
<1>. QED
  BY <1>1, <1>2

\* A caller that does not move stays backed.
LEMMA BackedStays ==
  ASSUME StoresTyped, CallersTyped, StoresTyped', Grows, NEW w \in Callers, Backed(w),
         at'[w] = at[w], my'[w] = my[w]
  PROVE  Backed(w)'
<1>1. portfolio.ledger \in Nat /\ portfolio'.ledger \in Nat
  BY DEF StoresTyped, Portfolios
<1>2. at[w] \in Loaded => my[w].base.ledger \in Nat
  BY MyLocal DEF CallerTyped, Portfolios
<1>3. at[w] \in Loaded =>
        /\ my[w].base.ledger <= portfolio'.ledger
        /\ my[w].base.ledger = portfolio'.ledger => my[w].base = portfolio'
  <2>1. CASE portfolio' = portfolio
    BY <2>1 DEF Backed
  <2>2. CASE portfolio.ledger < portfolio'.ledger
    BY <1>1, <1>2, <2>2 DEF Backed
  <2>. QED
    BY <2>1, <2>2 DEF Grows
<1>. QED
  BY <1>3 DEF Backed, Grows

\* A caller that moves on is backed again.
LEMMA StepBacked ==
  ASSUME LifecycleTypes, LifecycleTypes', KindsInv, BackedInv, NEW w \in Callers,
         Step(w) \/ Crash(w)
  PROVE  Backed(w)' /\ OthersStay(w)
<1>1. /\ StoresTyped /\ CallersTyped /\ StoresTyped' /\ CallersTyped'
      /\ Backed(w) /\ Kinds(w) /\ Grows
  BY StepGrows DEF LifecycleTypes, KindsInv, BackedInv
<1>2. \A c \in Conditions : c \in Nat \ {0}
  BY LifecycleAssumption DEF Conditions
<1>3. my[w].condition \in Nat \ {0} /\ my'[w].condition \in Nat \ {0}
  BY <1>1, MyLocal DEF CallersTyped, Locals
<1>4. ASSUME my'[w].orders = {} \/ my'[w] = Fresh,
             my'[w].condition = 1 \/ my'[w] = Fresh,
             at'[w] \notin Loaded
      PROVE  Backed(w)'
  <2>1. my'[w].orders = {} /\ my'[w].condition = 1
    BY <1>4 DEF Fresh
  <2>2. at'[w] # "verify" /\ at'[w] # "commit"
    BY <1>4 DEF Loaded, Trading, Executing
  <2>. QED
    BY <1>2, <1>4, <2>1, <2>2 DEF Backed
<1>5. "idle" \notin Loaded /\ "finish" \notin Loaded
  BY DEF Loaded, Trading, Executing
<1>6. ASSUME at'[w] = "idle", my'[w] = Fresh
      PROVE  Backed(w)'
  BY <1>4, <1>5, <1>6
\* Steps outside the executors.
<1>7. ASSUME my'[w].orders = my[w].orders, my'[w].condition = my[w].condition,
             at'[w] \notin Loaded
      PROVE  Backed(w)'
  <2>1. at'[w] # "verify" /\ at'[w] # "commit"
    BY <1>7 DEF Loaded, Trading, Executing
  <2>. QED
    BY <1>1, <1>7, <2>1 DEF Backed, Grows
<1>8. ASSUME NEW r \in Runs, execute(w, r)
      PROVE  Backed(w)' /\ OthersStay(w)
  <2>1. at'[w] \notin Loaded
    BY <1>1, <1>8, executeMoves DEF Loaded, Trading, Executing
  <2>. QED
    BY <1>1, <1>4, <1>8, <2>1, executeMoves
<1>9. CASE submit(w)
  <2>1. at'[w] # "idle" => at'[w] \notin Loaded
    BY <1>1, <1>9, submitMoves DEF Loaded, Trading, Executing, Sent
  <2>. QED
    BY <1>1, <1>6, <1>7, <1>9, <2>1, <1>5, submitMoves
<1>10. CASE observe(w)
  <2>1. at'[w] # "idle" => at'[w] \notin Loaded
    BY <1>1, <1>10, observeMoves DEF Loaded, Trading, Executing
  <2>. QED
    BY <1>1, <1>5, <1>6, <1>7, <1>10, <2>1, observeMoves
<1>11. CASE transition(w)
  <2>1. at'[w] # "idle" => at'[w] \notin Loaded
    BY <1>1, <1>11, transitionMoves DEF Loaded, Trading, Executing
  <2>. QED
    BY <1>1, <1>5, <1>6, <1>7, <1>11, <2>1, transitionMoves
<1>12. CASE return(w) \/ check(w) \/ acquire(w) \/ supply(w)
  <2>1. at'[w] # "idle" => at'[w] \notin Loaded
    BY <1>1, <1>12, waysMoves DEF Loaded, Trading, Executing
  <2>. QED
    BY <1>1, <1>5, <1>6, <1>7, <1>12, <2>1, waysMoves
<1>13. CASE prepare(w)
  <2>1. at'[w] \notin Loaded
    BY <1>1, <1>13, prepareMoves DEF Loaded, Trading, Executing
  <2>. QED
    BY <1>1, <1>7, <1>13, <2>1, prepareMoves
<1>14. CASE load(w)
  <2>1. OthersStay(w)
    BY <1>1, <1>14, loadMoves
  <2>2. CASE at'[w] \in {"sell", "redeem"} /\ my'[w].base = portfolio
             /\ my'[w].orders = my[w].orders /\ my'[w].condition = my[w].condition
    <3>1. portfolio' = portfolio /\ portfolio.ledger \in Nat
      BY <1>1, <1>14 DEF load, stores, StoresTyped, Portfolios
    <3>2. portfolio.ledger <= portfolio.ledger
      BY <3>1
    <3>3. at'[w] # "verify" /\ at'[w] # "commit"
      BY <2>2
    <3>. QED
      BY <1>1, <2>1, <2>2, <3>1, <3>2, <3>3 DEF Backed, Grows
  <2>. QED
    BY <1>1, <1>6, <1>14, <2>1, <2>2, loadMoves
<1>15. CASE trade(w)
  <2>1. OthersStay(w) /\ portfolio' = portfolio /\ at[w] \in Loaded
    BY <1>1, <1>15, tradeMoves DEF trade, stores, Loaded, Trading, Executing
  <2>2. my[w].run.kind = "reconstitution"
    BY <1>1, <1>15, tradeMoves DEF Kinds
  <2>3. CASE /\ my'[w].run = my[w].run /\ my'[w].base = my[w].base
             /\ my'[w].condition = my[w].condition
             /\ my'[w].orders \subseteq my[w].orders \cup effects'
             /\ at'[w] \in {"buy", "commit"}
    <3>1. my'[w].orders \subseteq effects'
      BY <1>1, <2>3 DEF Backed, Grows
    <3>2. my'[w].run.kind # "resolution" /\ at'[w] # "verify"
      BY <2>2, <2>3
    <3>. QED
      BY <1>1, <2>1, <2>3, <3>1, <3>2 DEF Backed, Grows
  <2>. QED
    BY <1>1, <1>6, <1>15, <2>1, <2>3, tradeMoves
<1>16. CASE redeem(w)
  <2>1. OthersStay(w) /\ portfolio' = portfolio /\ at[w] \in Loaded
    BY <1>1, <1>16, redeemMoves DEF redeem, Loaded, Trading, Executing
  <2>2. CASE /\ my'[w].base = my[w].base /\ my'[w].orders = my[w].orders
             /\ \/ /\ at'[w] = "commit" /\ my'[w].condition = my[w].condition
                   /\ my[w].condition \notin Conditions
                \/ at'[w] = "relay" /\ my'[w].condition = my[w].condition
                \/ /\ at'[w] = "redeem"
                   /\ redemptions[my[w].condition].state = "completed"
                   /\ my'[w].condition = my[w].condition + 1
    <3>1. \A c \in Conditions :
            c < my'[w].condition => redemptions'[c].state = "completed"
      BY <1>1, <1>2, <1>3, <2>2 DEF Backed, Grows
    <3>2. at'[w] # "verify"
          /\ (at'[w] = "commit" => my'[w].condition \notin Conditions)
      BY <2>2
    <3>. QED
      BY <1>1, <2>1, <2>2, <3>1, <3>2 DEF Backed, Grows
  <2>. QED
    BY <1>1, <1>6, <1>16, <2>1, <2>2, redeemMoves
<1>17. CASE relay(w)
  <2>1. portfolio' = portfolio /\ at[w] \in Loaded
    BY <1>1, <1>17 DEF relay, stores, Loaded, Trading, Executing
  <2>. QED
    BY <1>1, <1>17, <2>1, relayMoves DEF Backed, Grows
<1>18. CASE verify(w)
  <2>1. OthersStay(w) /\ portfolio' = portfolio /\ at[w] \in Loaded
    BY <1>1, <1>18, verifyMoves DEF verify, Loaded, Trading, Executing
  <2>2. CASE /\ my'[w].base = my[w].base /\ my'[w].orders = my[w].orders
             /\ at'[w] = "redeem" /\ my'[w].condition = my[w].condition + 1
             /\ redemptions'[my[w].condition].state = "completed"
    <3>1. \A c \in Conditions :
            c < my'[w].condition => redemptions'[c].state = "completed"
      BY <1>1, <1>2, <1>3, <2>2 DEF Backed, Grows
    <3>. QED
      BY <1>1, <2>1, <2>2, <3>1 DEF Backed, Grows
  <2>. QED
    BY <1>1, <1>6, <1>18, <2>1, <2>2, verifyMoves
<1>19. CASE commit(w)
  BY <1>1, <1>4, <1>5, <1>6, <1>19, commitMoves
<1>20. CASE Crash(w)
  BY <1>1, <1>6, <1>20, CrashMoves
<1>. QED
  BY <1>8, <1>9, <1>10, <1>11, <1>12, <1>13, <1>14, <1>15, <1>16, <1>17, <1>18, <1>19,
     <1>20 DEF Step

\* The redemptions stay paid, and the portfolio stays backed.
LEMMA StepPaid ==
  ASSUME LifecycleTypes, KindsInv, BackedInv, NEW w \in Callers, Step(w) \/ Crash(w)
  PROVE  RedemptionsPaid'
<1>1. StoresTyped /\ CallersTyped /\ RedemptionsPaid /\ Backed(w) /\ Grows
  BY StepGrows DEF LifecycleTypes, BackedInv
<1>2. CASE verify(w)
  BY <1>1, <1>2, verifyMoves DEF Backed, Grows, RedemptionsPaid
<1>3. CASE redeem(w)
  BY <1>1, <1>3, redeemMoves DEF Grows, RedemptionsPaid
<1>4. CASE (Step(w) \/ Crash(w)) /\ ~verify(w) /\ ~redeem(w)
  <2>1. redemptions' = redemptions
    BY <1>4 DEF Step, Crash, execute, submit, observe, transition, return, check,
       supply, acquire, prepare, load, trade, relay, commit, stores
  <2>. QED
    BY <1>1, <2>1 DEF Grows, RedemptionsPaid
<1>. QED
  BY <1>2, <1>3, <1>4

\* What a commit adds to the portfolio has happened.
LEMMA ResultHappened ==
  ASSUME LifecycleTypes, KindsInv, BackedInv, NEW w \in Callers, at[w] = "commit"
  PROVE  Result(w) \subseteq effects
<1>1. /\ Backed(w) /\ RedemptionsPaid
      /\ my[w].condition \in Nat /\ my[w].run.kind \in {"reconstitution", "resolution"}
  BY MyLocal, LifecycleAssumption
     DEF LifecycleTypes, BackedInv, Locals, CallerTyped
<1>2. CASE my[w].run.kind = "reconstitution"
  BY <1>1, <1>2 DEF Result, Backed
<1>3. CASE my[w].run.kind = "resolution"
  <2>1. my[w].condition > NumConditions
    <3>1. my[w].condition \notin 1 .. NumConditions /\ my[w].condition # 0
      BY <1>1, <1>3, MyLocal DEF Backed, Conditions, LifecycleTypes, Locals
    <3>. QED
      BY <1>1, <3>1, LifecycleAssumption
  <2>2. \A c \in Conditions : c < my[w].condition
    BY <1>1, <2>1, LifecycleAssumption DEF Conditions
  <2>3. \A c \in Conditions : Redemption(c) \in effects
    BY <1>1, <2>2 DEF Backed, RedemptionsPaid
  <2>. QED
    BY <1>3, <2>3 DEF Result
<1>. QED
  BY <1>1, <1>2, <1>3

LEMMA StepBacks ==
  ASSUME LifecycleTypes, KindsInv, BackedInv, NEW w \in Callers, Step(w) \/ Crash(w)
  PROVE  PortfolioIsBacked'
<1>1. StoresTyped /\ CallersTyped /\ PortfolioIsBacked /\ Backed(w) /\ Grows
  BY StepGrows DEF LifecycleTypes, BackedInv
<1>2. CASE trade(w)
  <2>1. portfolio' = portfolio /\ exec' = exec
    BY <1>2 DEF trade, stores
  <2>. QED
    BY <1>1, <1>2, <2>1, tradeMoves DEF PortfolioIsBacked
<1>3. CASE relay(w)
  <2>1. portfolio' = portfolio /\ exec' = exec
    BY <1>3 DEF relay, stores
  <2>2. Redemption(my[w].condition).what # "other"
    BY DEF Redemption
  <2>. QED
    BY <1>1, <1>3, <2>1, <2>2, relayMoves DEF PortfolioIsBacked
<1>4. CASE prepare(w)
  <2>1. portfolio' = portfolio /\ effects' = effects
    BY <1>4 DEF prepare, world
  <2>. QED
    BY <1>1, <1>4, <2>1, prepareMoves DEF PortfolioIsBacked
<1>5. CASE commit(w)
  <2>1. effects' = effects
    BY <1>5 DEF commit, world
  <2>2. CASE exec' = exec /\ portfolio' = portfolio
    BY <1>1, <2>1, <2>2 DEF PortfolioIsBacked
  <2>3. CASE /\ portfolio.ledger = my[w].base.ledger
             /\ portfolio'.includes = my[w].base.includes \cup Result(w)
             /\ exec'[my[w].run].result = Result(w)
             /\ \A s \in Runs \ {my[w].run} : exec'[s] = exec[s]
    <3>1. at[w] = "commit" /\ my[w].base = portfolio
      BY <1>1, <1>5, <2>3 DEF commit, Backed, Loaded, Trading, Executing
    <3>2. Result(w) \subseteq effects
      BY <3>1, ResultHappened
    <3>3. portfolio'.includes = portfolio.includes \cup Result(w)
      BY <2>3, <3>1
    <3>. QED
      BY <1>1, <2>1, <2>3, <3>2, <3>3 DEF PortfolioIsBacked
  <2>. QED
    BY <1>1, <1>5, <2>2, <2>3, commitMoves
<1>6. CASE (Step(w) \/ Crash(w)) /\ ~trade(w) /\ ~relay(w) /\ ~prepare(w) /\ ~commit(w)
  <2>1. portfolio' = portfolio /\ effects' = effects /\ exec' = exec
    BY <1>6 DEF Step, Crash, execute, submit, observe, transition, return, check,
       supply, acquire, load, redeem, verify, stores, world
  <2>. QED
    BY <1>1, <2>1 DEF PortfolioIsBacked
<1>. QED
  BY <1>2, <1>3, <1>4, <1>5, <1>6

LEMMA SystemBacked ==
  ASSUME LifecycleTypes, BackedInv, LifecycleTypes', SystemStep
  PROVE  BackedInv'
<1>1. /\ StoresTyped /\ CallersTyped /\ StoresTyped' /\ Grows /\ UNCHANGED <<at, my>>
      /\ PortfolioIsBacked /\ RedemptionsPaid /\ \A w \in Callers : Backed(w)
  BY SystemGrows, CallersStand DEF LifecycleTypes, BackedInv
<1>2. \A w \in Callers : Backed(w)'
  BY <1>1, BackedStays
<1>3. redemptions' = redemptions /\ exec' = exec
  BY DEF SystemStep, Land, Drop, Publish, OtherOperation, Chain, lifecycleVars, stores
<1>4. RedemptionsPaid'
  BY <1>1, <1>3 DEF RedemptionsPaid, Grows
<1>5. ASSUME NEW after, OtherOperation(after)
      PROVE  PortfolioIsBacked'
  <2>. PICK effect : effect = [what |-> "other", by |-> others + 1, from |-> 0]
    OBVIOUS
  <2>. DEFINE half == [portfolio EXCEPT !.ledger = portfolio.ledger + 1]
  <2>1. half \in Portfolios /\ half.includes = portfolio.includes
    BY <1>1 DEF StoresTyped, Portfolios
  <2>2. portfolio' = [half EXCEPT !.includes = portfolio.includes \cup {effect}]
    BY <1>1, <1>5 DEF OtherOperation, StoresTyped, Portfolios
  <2>. HIDE DEF half
  <2>3. portfolio'.includes = portfolio.includes \cup {effect}
    BY <2>1, <2>2 DEF Portfolios
  <2>4. effects' = effects \cup {effect}
    BY <1>5 DEF OtherOperation
  <2>. QED
    BY <1>1, <1>3, <2>3, <2>4 DEF PortfolioIsBacked
<1>6. CASE SystemStep /\ ~\E after : OtherOperation(after)
  <2>1. UNCHANGED <<effects, portfolio>>
    BY <1>6 DEF SystemStep, Land, Drop, Publish, Chain, lifecycleVars, stores, world
  <2>. QED
    BY <1>1, <1>2, <1>3, <1>4, <2>1 DEF PortfolioIsBacked, BackedInv
<1>. QED
  BY <1>2, <1>4, <1>5, <1>6 DEF BackedInv

\* However callers, crashes and other operations interleave, the portfolio reflects
\* what happened, all of the others' commits, and all the finished executions: the
\* ledger that a commit compares is later after every change of the portfolio.
THEOREM PortfolioAlwaysBacked == LifecycleSpec => []PortfolioIsBacked
<1>1. LifecycleInit => BackedInv
  <2>. SUFFICES ASSUME LifecycleInit PROVE BackedInv
    OBVIOUS
  <2>1. \A w \in Callers : my[w] = Fresh /\ at[w] = "idle"
    BY DEF LifecycleInit
  <2>2. \A c \in Conditions : ~(c < 1) /\ redemptions[c].state = "absent"
    BY LifecycleAssumption DEF LifecycleInit, Conditions
  <2>3. \A w \in Callers : Backed(w)
    BY <2>1, <2>2 DEF Backed, Fresh, Loaded, Trading, Executing
  <2>4. PortfolioIsBacked
    BY DEF LifecycleInit, PortfolioIsBacked
  <2>. QED
    BY <2>2, <2>3, <2>4 DEF BackedInv, RedemptionsPaid
<1>2. LifecycleTypes /\ LifecycleTypes' /\ KindsInv /\ BackedInv
        /\ [LifecycleNext]_lifecycleVars => BackedInv'
  <2>. SUFFICES ASSUME LifecycleTypes, LifecycleTypes', KindsInv, BackedInv,
                       [LifecycleNext]_lifecycleVars
                PROVE  BackedInv'
    OBVIOUS
  <2>1. ASSUME NEW w \in Callers, Step(w) \/ Crash(w)
        PROVE  BackedInv'
    <3>1. StoresTyped /\ CallersTyped /\ StoresTyped' /\ Grows
          /\ \A v \in Callers : Backed(v)
      BY <2>1, StepGrows DEF LifecycleTypes, BackedInv
    <3>2. Backed(w)' /\ OthersStay(w)
      BY <2>1, StepBacked
    <3>3. \A v \in Callers : Backed(v)'
      BY <3>1, <3>2, BackedStays DEF OthersStay
    <3>. QED
      BY <2>1, <3>3, StepPaid, StepBacks DEF BackedInv
  <2>. QED
    BY <2>1, SomebodySteps, SystemBacked
<1>3. BackedInv => PortfolioIsBacked
  BY DEF BackedInv
<1>. QED
  BY <1>1, <1>2, <1>3, KindsInvariant, PTL DEF LifecycleSpec

-----------------------------------------------------------------------------
(* The runs: in which order their steps become possible *)

\* The executors run under the lease, between the begin and the completion of the
\* run; the completion is only asked for once the run is executed.
Ordered(w) ==
  /\ at[w] \in Executing => holder = w
  /\ at[w] \in {"start", "acquire"} \cup Executing => Begun(my[w].run)
  /\ at[w] \in Trading => exec[my[w].run].state = "prepared"
  /\ at[w] \in Concluding => Executed(my[w].run)

RowsInv ==
  \A r \in Runs :
    /\ runs[r].state = "onchain_started" => Begun(r)
    /\ runs[r].state = "external_execution_completed" => Executed(r)
    /\ Executed(r) => Begun(r)

KeyOrdered(k) ==
  submissions[k].state # "none" =>
    /\ k.step = "complete" => k.run.kind = "reconstitution"
    /\ k.step = "submit" => k.run.kind = "resolution"
    /\ k.step \in {"complete", "submit"} => Executed(k.run)
    /\ k.step \in {"begin", "complete"} => k.attempt = 0
    /\ k.step = "submit" => k.attempt \in Attempts

KeysInv == \A k \in Keys : KeyOrdered(k)

OrderInv == (\A w \in Callers : Ordered(w)) /\ RowsInv /\ KeysInv

\* What is finalized or executed stays so.
Progress ==
  /\ KeysKept
  /\ \A r \in Runs : Executed(r) => Executed(r)'

LEMMA KeyOf ==
  ASSUME NEW r \in Runs
  PROVE  /\ Key(r, "begin", 0) \in Keys /\ Key(r, "complete", 0) \in Keys
         /\ \A n \in Attempts : Key(r, "submit", n) \in Keys
BY LifecycleAssumption DEF Key, Keys, Attempts

LEMMA BegunStays ==
  ASSUME KeysKept, NEW r \in Runs, Begun(r)
  PROVE  Begun(r)'
BY KeyOf DEF KeysKept, Begun

LEMMA StepProgress ==
  ASSUME StoresTyped, CallersTyped, NEW w \in Callers, Step(w) \/ Crash(w)
  PROVE  Progress /\ NothingLands
<1>1. CASE submit(w)
  <2>1. exec' = exec
    BY <1>1 DEF submit
  <2>. QED
    BY <1>1, <2>1, submitMoves DEF Progress, Executed
<1>2. CASE prepare(w)
  <2>1. submissions' = submissions
    BY <1>2 DEF prepare
  <2>2. \A r \in Runs : Executed(r) => Executed(r)'
    BY <1>2, prepareMoves DEF Executed
  <2>. QED
    BY <2>1, <2>2 DEF Progress, KeysKept, NothingLands
<1>3. CASE commit(w)
  <2>1. submissions' = submissions
    BY <1>3 DEF commit
  <2>2. \/ exec' = exec
        \/ /\ exec'[my[w].run].state = "completed"
           /\ \A r \in Runs \ {my[w].run} : exec'[r] = exec[r]
    BY <1>3, commitMoves
  <2>3. \A r \in Runs : Executed(r) => Executed(r)'
    BY <2>2 DEF Executed
  <2>. QED
    BY <2>1, <2>3 DEF Progress, KeysKept, NothingLands
<1>4. CASE (Step(w) \/ Crash(w)) /\ ~submit(w) /\ ~prepare(w) /\ ~commit(w)
  <2>1. UNCHANGED <<submissions, exec>>
    BY <1>4 DEF Step, Crash, execute, observe, transition, return, check, supply,
       acquire, load, trade, redeem, relay, verify, stores
  <2>. QED
    BY <2>1 DEF Progress, KeysKept, NothingLands, Executed
<1>. QED
  BY <1>1, <1>2, <1>3, <1>4

LEMMA SystemProgress ==
  ASSUME StoresTyped, SystemStep
  PROVE  Progress
<1>1. exec' = exec
  BY DEF SystemStep, Land, Drop, Publish, OtherOperation, Chain, lifecycleVars, stores
<1>2. ASSUME NEW k \in Keys, Land(k) \/ Drop(k)
      PROVE  KeysKept
  <2>1. /\ submissions[k].state = "sent"
        /\ \/ Submission(k, "finalized", submissions[k].batch)
           \/ Submission(k, "failed", submissions[k].batch)
           \/ Submission(k, "signed", submissions[k].batch)
    BY <1>2 DEF Land, Drop
  <2>. QED
    BY <2>1 DEF KeysKept, Submission, StoresTyped
<1>3. CASE SystemStep /\ ~\E k \in Keys : Land(k) \/ Drop(k)
  <2>1. submissions' = submissions
    BY <1>3 DEF SystemStep, Publish, OtherOperation, Chain, lifecycleVars, stores
  <2>. QED
    BY <1>1, <2>1 DEF KeysKept, Progress, Executed
<1>. QED
  BY <1>1, <1>2, <1>3 DEF Progress, Executed

\* The holder of the lease loses it by its own steps only, and nobody else touches
\* the executions meanwhile.
LEMMA HolderStays ==
  ASSUME LifecycleTypes, OrderInv, NEW w \in Callers, Step(w) \/ Crash(w),
         NEW v \in Callers \ {w}, holder = v
  PROVE  holder' = v /\ exec' = exec
<1>1. StoresTyped /\ CallersTyped /\ Ordered(w) /\ v # NoOne /\ v # w
  BY LifecycleAssumption DEF LifecycleTypes, OrderInv
<1>2. ~acquire(w)
  BY <1>1 DEF acquire
<1>3. ~prepare(w) /\ ~commit(w)
  BY <1>1 DEF prepare, commit, Ordered, Executing
<1>4. exec' = exec
  BY <1>2, <1>3 DEF Step, Crash, execute, submit, observe, transition, return, check,
     supply, load, trade, redeem, relay, verify, stores
<1>5. Stop(w) => holder' = v
  BY <1>1 DEF Stop
<1>6. Stop(w) \/ holder' = holder
  BY <1>2, <1>3 DEF Step, Crash, execute, submit, observe, transition, Transition,
     return, check, supply, load, trade, redeem, relay, verify
<1>. QED
  BY <1>4, <1>5, <1>6

\* A caller that does not move keeps its place in the order.
LEMMA OrderedStays ==
  ASSUME StoresTyped, CallersTyped, NEW w \in Callers, Ordered(w), Progress,
         at'[w] = at[w], my'[w] = my[w],
         holder = w => holder' = w /\ exec' = exec
  PROVE  Ordered(w)'
<1>1. CASE at[w] = "idle"
  BY <1>1 DEF Ordered, Executing, Trading, Concluding
<1>2. CASE my[w].run \in Runs
  <2>1. Begun(my[w].run) => Begun(my[w].run)'
    BY <1>2, BegunStays DEF Progress
  <2>2. at[w] \in Trading => at[w] \in Executing
    BY DEF Trading
  <2>. QED
    BY <1>2, <2>1, <2>2 DEF Ordered, Progress
<1>. QED
  BY <1>1, <1>2, MyLocal DEF CallerTyped

LEMMA StepOrdered ==
  ASSUME LifecycleTypes, KindsInv, OrderInv, NEW w \in Callers, Step(w) \/ Crash(w)
  PROVE  Ordered(w)' /\ OthersStay(w)
<1>1. /\ StoresTyped /\ CallersTyped /\ Ordered(w) /\ Kinds(w) /\ Progress /\ RowsInv
  BY StepProgress DEF LifecycleTypes, KindsInv, OrderInv
<1>2. ASSUME at'[w] = "idle" \/ at'[w] = "begin" \/ at'[w] = "begin_sent"
               \/ at'[w] = "return"
      PROVE  Ordered(w)'
  BY <1>2 DEF Ordered, Executing, Trading, Concluding
\* From a step after the execution to another.
<1>3. ASSUME at[w] \in Concluding, at'[w] \in Concluding, my'[w].run = my[w].run
      PROVE  Ordered(w)'
  <2>1. at'[w] \notin Executing /\ at'[w] \notin Trading /\ at'[w] \notin {"start", "acquire"}
    BY <1>3 DEF Concluding, Executing, Trading
  <2>2. Executed(my[w].run) /\ my[w].run \in Runs
    BY <1>1, <1>3, MyLocal DEF Ordered, CallerTyped, Concluding
  <2>. QED
    BY <1>1, <1>3, <2>1, <2>2 DEF Ordered, Progress, Executed
\* From a step under the lease to another.
<1>4. ASSUME at[w] \in Trading, at'[w] \in Trading, my'[w].run = my[w].run,
             holder' = holder, exec' = exec
      PROVE  Ordered(w)'
  <2>1. /\ at'[w] \in Executing /\ at[w] \in Executing /\ at[w] # "idle"
        /\ at'[w] \notin Concluding
    BY <1>4 DEF Executing, Trading, Concluding
  <2>2. my[w].run \in Runs
    BY <1>1, <2>1, MyLocal DEF CallerTyped
  <2>3. Begun(my[w].run)'
    BY <1>1, <1>4, <2>1, <2>2, BegunStays DEF Ordered, Progress, Begun
  <2>4. holder = w /\ exec[my[w].run].state = "prepared"
    BY <1>1, <1>4, <2>1 DEF Ordered
  <2>. QED
    BY <1>4, <2>1, <2>3, <2>4 DEF Ordered, Begun
<1>5. ASSUME at'[w] \in {"start", "acquire"}, my'[w].run \in Runs, Begun(my'[w].run)
      PROVE  Ordered(w)'
  <2>1. at'[w] \notin Executing /\ at'[w] \notin Trading /\ at'[w] \notin Concluding
    BY <1>5 DEF Concluding, Executing, Trading
  <2>. QED
    BY <1>1, <1>5, <2>1, BegunStays DEF Ordered, Progress, Begun
<1>6. at[w] # "idle" => my[w].run \in Runs
  BY <1>1, MyLocal DEF CallerTyped
<1>7. ASSUME NEW r \in Runs, execute(w, r)
      PROVE  Ordered(w)' /\ OthersStay(w)
  <2>1. OthersStay(w) /\ my'[w].run = r
    BY <1>1, <1>7, executeMoves
  <2>2. CASE at'[w] = "acquire" /\ runs[r].state = "onchain_started"
    BY <1>1, <1>5, <2>1, <2>2 DEF RowsInv
  <2>3. CASE at'[w] \in {"check", "accrue"}
             /\ runs[r].state = "external_execution_completed"
    <3>1. Executed(r)'
      BY <1>1, <2>3 DEF RowsInv, Progress
    <3>2. at'[w] \notin Executing /\ at'[w] \notin Trading /\ at'[w] \notin {"start", "acquire"}
      BY <2>3 DEF Executing, Trading
    <3>. QED
      BY <2>1, <3>1, <3>2 DEF Ordered, Executed
  <2>. QED
    BY <1>1, <1>2, <1>7, <2>1, <2>2, <2>3, executeMoves
<1>8. CASE submit(w)
  <2>1. \/ at'[w] \in {"idle", "begin_sent"}
        \/ at[w] \in Concluding /\ at'[w] \in Concluding /\ my'[w].run = my[w].run
    BY <1>1, <1>8, submitMoves DEF Sent, Concluding
  <2>. QED
    BY <1>1, <1>2, <1>3, <1>8, <2>1, submitMoves
<1>9. CASE observe(w)
  <2>1. OthersStay(w)
    BY <1>1, <1>9, observeMoves
  <2>2. CASE at'[w] = "start" /\ at[w] = "begin_sent" /\ my'[w] = my[w]
             /\ submissions[CallOf(w).key].state = "finalized"
    <3>1. CallOf(w).key = Key(my[w].run, "begin", 0)
      BY <1>1, <2>2, CallTyped
    <3>. QED
      BY <1>5, <1>6, <2>1, <2>2, <3>1 DEF Begun
  <2>3. \/ at'[w] \in {"idle", "begin"}
        \/ at'[w] = "start" /\ at[w] = "begin_sent" /\ my'[w] = my[w]
             /\ submissions[CallOf(w).key].state = "finalized"
        \/ at[w] \in Concluding /\ at'[w] \in Concluding /\ my'[w].run = my[w].run
    BY <1>1, <1>9, observeMoves DEF Concluding
  <2>. QED
    BY <1>2, <1>3, <2>1, <2>2, <2>3
<1>10. CASE transition(w)
  <2>1. OthersStay(w)
    BY <1>1, <1>10, transitionMoves
  <2>2. \/ at'[w] \in {"idle", "return"}
        \/ at[w] = "start" /\ at'[w] = "acquire" /\ my'[w].run = my[w].run
        \/ at[w] \in Concluding /\ at'[w] \in Concluding /\ my'[w].run = my[w].run
    BY <1>1, <1>10, transitionMoves DEF Concluding
  <2>3. at[w] = "start" => Begun(my[w].run) /\ my[w].run \in Runs
    BY <1>1, <1>6 DEF Ordered
  <2>. QED
    BY <1>2, <1>3, <1>5, <2>1, <2>2, <2>3
<1>11. CASE return(w) \/ check(w) \/ acquire(w) \/ supply(w)
  <2>1. OthersStay(w)
    BY <1>1, <1>11, waysMoves
  <2>2. CASE at[w] = "acquire" /\ at'[w] = "prepare" /\ my'[w] = my[w] /\ holder' = w
    <3>1. Begun(my[w].run)' /\ my'[w].run = my[w].run
      BY <1>1, <1>6, <2>2, BegunStays DEF Ordered, Progress
    <3>2. at'[w] \notin Trading /\ at'[w] \notin Concluding
      BY <2>2 DEF Trading, Executing, Concluding
    <3>. QED
      BY <2>1, <2>2, <3>1, <3>2 DEF Ordered, Begun
  <2>3. \/ at'[w] = "idle"
        \/ at[w] = "acquire" /\ at'[w] = "prepare" /\ my'[w] = my[w] /\ holder' = w
        \/ at[w] \in Concluding /\ at'[w] \in Concluding /\ my'[w].run = my[w].run
    BY <1>1, <1>11, waysMoves DEF Concluding
  <2>. QED
    BY <1>2, <1>3, <2>1, <2>2, <2>3
<1>12. CASE prepare(w)
  <2>1. OthersStay(w) /\ at[w] = "prepare" /\ my'[w] = my[w] /\ my[w].run \in Runs
    BY <1>1, <1>6, <1>12, prepareMoves
  <2>2. CASE at'[w] = "finish" /\ Executed(my[w].run)
    <3>1. at'[w] \notin Trading /\ at'[w] \notin Executing
          /\ at'[w] \notin {"start", "acquire"}
      BY <2>2 DEF Trading, Executing
    <3>2. Executed(my[w].run)'
      BY <1>1, <2>1, <2>2 DEF Progress
    <3>. QED
      BY <2>1, <3>1, <3>2 DEF Ordered, Executed
  <2>3. CASE at'[w] = "load" /\ holder' = holder /\ exec'[my[w].run].state = "prepared"
    <3>1. at[w] \in Executing /\ at'[w] \notin Concluding
      BY <2>1, <2>3 DEF Executing, Concluding
    <3>2. Begun(my[w].run)' /\ holder = w
      BY <1>1, <2>1, <3>1, BegunStays DEF Ordered, Progress
    <3>. QED
      BY <2>1, <2>3, <3>1, <3>2 DEF Ordered, Begun
  <2>. QED
    BY <1>1, <1>12, <2>1, <2>2, <2>3, prepareMoves
<1>13. CASE load(w)
  <2>1. exec' = exec
    BY <1>13 DEF load, stores
  <2>2. \/ at'[w] = "idle"
        \/ /\ at[w] \in Trading /\ at'[w] \in Trading /\ my'[w].run = my[w].run
           /\ holder' = holder
    BY <1>1, <1>13, loadMoves DEF Trading, Executing
  <2>. QED
    BY <1>1, <1>2, <1>4, <1>13, <2>1, <2>2, loadMoves
<1>14. CASE trade(w)
  <2>1. exec' = exec
    BY <1>14 DEF trade, stores
  <2>2. \/ at'[w] = "idle"
        \/ /\ at[w] \in Trading /\ at'[w] \in Trading /\ my'[w].run = my[w].run
           /\ holder' = holder
    BY <1>1, <1>14, tradeMoves DEF Trading, Executing
  <2>. QED
    BY <1>1, <1>2, <1>4, <1>14, <2>1, <2>2, tradeMoves
<1>15. CASE redeem(w)
  <2>1. exec' = exec
    BY <1>15 DEF redeem
  <2>2. \/ at'[w] = "idle"
        \/ /\ at[w] \in Trading /\ at'[w] \in Trading /\ my'[w].run = my[w].run
           /\ holder' = holder
    BY <1>1, <1>15, redeemMoves DEF Trading, Executing
  <2>. QED
    BY <1>1, <1>2, <1>4, <1>15, <2>1, <2>2, redeemMoves
<1>16. CASE relay(w)
  <2>1. exec' = exec
    BY <1>16 DEF relay, stores
  <2>2. /\ at[w] \in Trading /\ at'[w] \in Trading /\ my'[w].run = my[w].run
        /\ holder' = holder
    BY <1>1, <1>16, relayMoves DEF Trading, Executing
  <2>. QED
    BY <1>1, <1>4, <1>16, <2>1, <2>2, relayMoves
<1>17. CASE verify(w)
  <2>1. exec' = exec
    BY <1>17 DEF verify
  <2>2. \/ at'[w] = "idle"
        \/ /\ at[w] \in Trading /\ at'[w] \in Trading /\ my'[w].run = my[w].run
           /\ holder' = holder
    BY <1>1, <1>17, verifyMoves DEF Trading, Executing
  <2>. QED
    BY <1>1, <1>2, <1>4, <1>17, <2>1, <2>2, verifyMoves
<1>18. CASE commit(w)
  <2>1. OthersStay(w)
    BY <1>1, <1>18, commitMoves
  <2>2. \/ at'[w] = "idle"
        \/ /\ at'[w] = "finish" /\ my'[w].run = my[w].run
           /\ exec'[my[w].run].state = "completed"
    BY <1>1, <1>18, commitMoves
  <2>3. CASE /\ at'[w] = "finish" /\ my'[w].run = my[w].run
             /\ exec'[my[w].run].state = "completed"
    <3>1. at'[w] \notin Trading /\ at'[w] \notin Executing
          /\ at'[w] \notin {"start", "acquire"}
      BY <2>3 DEF Trading, Executing
    <3>. QED
      BY <2>1, <2>3, <3>1 DEF Ordered, Executed
  <2>. QED
    BY <1>2, <2>1, <2>2, <2>3
<1>19. CASE Crash(w)
  BY <1>1, <1>2, <1>19, CrashMoves
<1>. QED
  BY <1>7, <1>8, <1>9, <1>10, <1>11, <1>12, <1>13, <1>14, <1>15, <1>16, <1>17, <1>18,
     <1>19 DEF Step

\* The rows of the runs say no more than what is finalized and executed.
LEMMA StepRows ==
  ASSUME LifecycleTypes, OrderInv, NEW w \in Callers, Step(w) \/ Crash(w)
  PROVE  RowsInv'
<1>1. /\ StoresTyped /\ CallersTyped /\ Ordered(w) /\ Progress /\ RowsInv
  BY StepProgress DEF LifecycleTypes, OrderInv
<1>2. \A r \in Runs : (Begun(r) => Begun(r)') /\ (Executed(r) => Executed(r)')
  BY <1>1, BegunStays DEF Progress
<1>3. \A r \in Runs : Executed(r)' => Begun(r)'
  <2>1. CASE prepare(w) \/ ~commit(w)
    <3>1. \A r \in Runs : Executed(r)' => Executed(r)
      <4>1. CASE prepare(w)
        <5>1. \A r \in Runs : exec'[r].state = "completed" => exec[r].state = "completed"
          BY <1>1, <4>1, prepareMoves
        <5>. QED
          BY <5>1 DEF Executed
      <4>2. CASE ~prepare(w) /\ ~commit(w)
        <5>1. exec' = exec
          BY <4>2 DEF Step, Crash, execute, submit, observe, transition, return,
             check, supply, acquire, load, trade, redeem, relay, verify, stores
        <5>. QED
          BY <5>1 DEF Executed
      <4>. QED
        BY <2>1, <4>1, <4>2
    <3>. QED
      BY <1>1, <1>2, <3>1 DEF RowsInv
  <2>2. CASE commit(w)
    <3>. PICK run : run = my[w].run
      OBVIOUS
    <3>1. Begun(run) /\ run \in Runs
      BY <1>1, <2>2, MyLocal DEF commit, Ordered, CallerTyped, Executing
    <3>2. \A r \in Runs : exec'[r].state = "completed" =>
            exec[r].state = "completed" \/ r = run
      BY <1>1, <2>2, commitMoves
    <3>3. \A r \in Runs : Executed(r)' => Executed(r) \/ r = run
      BY <3>2 DEF Executed
    <3>. QED
      BY <1>1, <1>2, <3>1, <3>3 DEF RowsInv
  <2>. QED
    BY <2>1, <2>2
<1>4. ASSUME NEW r \in Runs, execute(w, r)
      PROVE  RowsInv'
  <2>1. \A s \in Runs : \/ runs'[s] = runs[s]
                        \/ runs'[s].state = "created"
    BY <1>1, <1>4, executeMoves
  <2>. QED
    BY <1>1, <1>2, <1>3, <2>1 DEF RowsInv
<1>5. CASE transition(w)
  <2>. PICK run : run = my[w].run
    OBVIOUS
  <2>1. run \in Runs
    BY <1>1, <1>5, MyLocal DEF transition, CallerTyped
  <2>2. /\ at[w] = "start" => Begun(run)
        /\ at[w] = "finish" => Executed(run)
    BY <1>1 DEF Ordered, Concluding
  <2>3. \/ runs' = runs
        \/ /\ \A s \in Runs \ {run} : runs'[s] = runs[s]
           /\ \/ at[w] = "start" /\ runs'[run].state = "onchain_started"
              \/ at[w] = "finish" /\ runs'[run].state = "external_execution_completed"
              \/ runs'[run].state = "onchain_completed"
    BY <1>1, <1>5, transitionMoves
  <2>4. \A r \in Runs : runs'[r] = runs[r] \/ r = run
    BY <2>3
  <2>5. \/ runs'[run] = runs[run]
        \/ Begun(run) /\ runs'[run].state = "onchain_started"
        \/ Executed(run) /\ runs'[run].state = "external_execution_completed"
        \/ runs'[run].state = "onchain_completed"
    BY <2>2, <2>3
  <2>. QED
    BY <1>1, <1>2, <1>3, <2>1, <2>4, <2>5 DEF RowsInv
<1>6. CASE ~transition(w) /\ ~\E r \in Runs : execute(w, r)
  <2>1. runs' = runs
    BY <1>6 DEF Step, Crash, submit, observe, return, check, supply, acquire, prepare,
       load, trade, redeem, relay, verify, commit, stores
  <2>. QED
    BY <1>1, <1>2, <1>3, <2>1 DEF RowsInv
<1>. QED
  BY <1>4, <1>5, <1>6

LEMMA KeyOrderedStays ==
  ASSUME NEW k \in Keys, KeyOrdered(k), Progress,
         submissions'[k].state # "none" => submissions[k].state # "none"
  PROVE  KeyOrdered(k)'
<1>1. k.run \in Runs
  BY DEF Keys
<1>. QED
  BY <1>1 DEF KeyOrdered, Progress

LEMMA StepKeys ==
  ASSUME LifecycleTypes, KindsInv, OrderInv, NEW w \in Callers, Step(w) \/ Crash(w)
  PROVE  KeysInv'
<1>1. /\ StoresTyped /\ CallersTyped /\ Ordered(w) /\ Kinds(w) /\ Progress /\ KeysInv
  BY StepProgress DEF LifecycleTypes, OrderInv, KindsInv
<1>2. CASE submit(w)
  <2>. PICK key : key = CallOf(w).key
    OBVIOUS
  <2>. PICK local : local = my[w]
    OBVIOUS
  <2>1. /\ at[w] \in {"begin", "complete", "accrue", "submit"}
        /\ \A k \in Keys : submissions'[k].state # "none" =>
             submissions[k].state # "none" \/ k = key
    BY <1>1, <1>2, submitMoves
  <2>2. /\ key \in Keys /\ key.run = local.run /\ local.attempt \in Attempts
        /\ local.run \in Runs
        /\ \/ at[w] = "begin" /\ key.step = "begin" /\ key.attempt = 0
           \/ at[w] = "complete" /\ key.step = "complete" /\ key.attempt = 0
           \/ at[w] = "accrue" /\ key.step = "accrue"
           \/ at[w] = "submit" /\ key.step = "submit" /\ key.attempt = local.attempt
    BY <1>1, <2>1, CallTyped, MyLocal DEF Key, Locals, Attempts, CallerTyped
  <2>3. /\ at[w] \in {"complete", "submit"} => Executed(local.run)
        /\ at[w] = "complete" => local.run.kind = "reconstitution"
        /\ at[w] = "submit" => local.run.kind = "resolution"
    BY <1>1 DEF Ordered, Kinds, Concluding
  <2>4. Executed(local.run) => Executed(local.run)'
    BY <1>1, <2>2 DEF Progress
  <2>5. KeyOrdered(key)'
    BY <2>1, <2>2, <2>3, <2>4 DEF KeyOrdered
  <2>6. \A k \in Keys \ {key} : KeyOrdered(k)'
    BY <1>1, <2>1, KeyOrderedStays DEF KeysInv
  <2>. QED
    BY <2>5, <2>6 DEF KeysInv
<1>3. CASE ~submit(w)
  <2>1. submissions' = submissions
    BY <1>3 DEF Step, Crash, execute, observe, transition, return, check, supply,
       acquire, prepare, load, trade, redeem, relay, verify, commit, stores
  <2>. QED
    BY <1>1, <2>1, KeyOrderedStays DEF KeysInv
<1>. QED
  BY <1>2, <1>3

LEMMA SystemOrdered ==
  ASSUME LifecycleTypes, OrderInv, SystemStep
  PROVE  OrderInv'
<1>1. /\ StoresTyped /\ CallersTyped /\ Progress /\ RowsInv /\ KeysInv
      /\ UNCHANGED <<holder, at, my>> /\ \A w \in Callers : Ordered(w)
  BY SystemProgress, CallersStand DEF LifecycleTypes, OrderInv
<1>2. UNCHANGED <<runs, exec>>
  BY DEF SystemStep, Land, Drop, Publish, OtherOperation, Chain, lifecycleVars, stores
<1>3. \A w \in Callers : Ordered(w)'
  BY <1>1, <1>2, OrderedStays
<1>4. \A r \in Runs : Begun(r) => Begun(r)'
  BY <1>1, BegunStays DEF Progress
<1>5. RowsInv'
  BY <1>1, <1>2, <1>4 DEF RowsInv, Progress, Executed
<1>6. \A k \in Keys : submissions'[k].state # "none" => submissions[k].state # "none"
  <2>1. ASSUME NEW k \in Keys, Land(k) \/ Drop(k), NEW j \in Keys
        PROVE  submissions[j].state # "none" \/ submissions'[j] = submissions[j]
    BY <1>1, <2>1 DEF Land, Drop, Submission, StoresTyped
  <2>2. CASE ~\E k \in Keys : Land(k) \/ Drop(k)
    BY <2>2 DEF SystemStep, Publish, OtherOperation, Chain, lifecycleVars, stores
  <2>. QED
    BY <2>1, <2>2
<1>7. KeysInv'
  BY <1>1, <1>6, KeyOrderedStays DEF KeysInv
<1>. QED
  BY <1>3, <1>5, <1>7 DEF OrderInv

LEMMA OrderKept ==
  ASSUME LifecycleTypes, KindsInv, OrderInv, [LifecycleNext]_lifecycleVars
  PROVE  OrderInv'
<1>1. ASSUME NEW w \in Callers, Step(w) \/ Crash(w)
      PROVE  OrderInv'
  <2>1. StoresTyped /\ CallersTyped /\ Progress /\ \A v \in Callers : Ordered(v)
    BY <1>1, StepProgress DEF LifecycleTypes, OrderInv
  <2>2. Ordered(w)' /\ OthersStay(w)
    BY <1>1, StepOrdered
  <2>3. \A v \in Callers \ {w} : holder = v => holder' = v /\ exec' = exec
    BY <1>1, HolderStays
  <2>4. \A v \in Callers : Ordered(v)'
    BY <2>1, <2>2, <2>3, OrderedStays DEF OthersStay
  <2>. QED
    BY <1>1, <2>4, StepRows, StepKeys DEF OrderInv
<1>. QED
  BY <1>1, SomebodySteps, SystemOrdered

LEMMA OrderInvariant ==
  LifecycleSpec => [](LifecycleTypes /\ KindsInv /\ OrderInv)
<1>1. LifecycleInit => OrderInv
  <2>. SUFFICES ASSUME LifecycleInit PROVE OrderInv
    OBVIOUS
  <2>1. \A w \in Callers : Ordered(w)
    BY DEF LifecycleInit, Ordered, Executing, Trading, Concluding
  <2>2. RowsInv
    BY DEF LifecycleInit, RowsInv, Executed
  <2>3. KeysInv
    BY DEF LifecycleInit, KeysInv, KeyOrdered
  <2>. QED
    BY <2>1, <2>2, <2>3 DEF OrderInv
<1>2. LifecycleTypes /\ KindsInv /\ OrderInv /\ [LifecycleNext]_lifecycleVars => OrderInv'
  BY OrderKept
<1>. QED
  BY <1>1, <1>2, KindsInvariant, PTL DEF LifecycleSpec

-----------------------------------------------------------------------------
(* The runs: how they lock and release the basket *)

Open(r) == Begun(r) /\ ~Completed(r)

LockedStatus(r) ==
  IF r.kind = "reconstitution" THEN "Reconstituting" ELSE "Resolving"

\* One run at a time has the basket locked; a resolution ends it for good.
StatusInv ==
  /\ \A r \in Runs : Open(r) => status = LockedStatus(r)
  /\ \A r, s \in Runs : Open(r) /\ Open(s) => r = s
  /\ \A r \in Runs :
       r.kind = "resolution" /\ Completed(r) => status \in {"Redeemable", "Closed"}

\* What a step makes of the runs that have begun, are executed, are completed.
NoneBegins == \A s \in Runs : Begun(s)' <=> Begun(s)

NoneExecuted == \A s \in Runs : Executed(s)' <=> Executed(s)

NoneCompleted == \A s \in Runs : Completed(s)' <=> Completed(s)

Begins(r) == \A s \in Runs : Begun(s)' <=> Begun(s) \/ s = r

Executes(r) == \A s \in Runs : Executed(s)' <=> Executed(s) \/ s = r

Completes(r) == \A s \in Runs : Completed(s)' <=> Completed(s) \/ s = r

LEMMA CompletedIsExecuted ==
  ASSUME OrderInv, NEW r \in Runs, Completed(r)
  PROVE  Executed(r) /\ Begun(r)
<1>1. KeysInv /\ (Executed(r) => Begun(r))
  BY DEF OrderInv, RowsInv
<1>2. CASE submissions[Key(r, "complete", 0)].state = "finalized"
  BY <1>1, <1>2, KeyOf DEF KeysInv, KeyOrdered, Key
<1>3. ASSUME NEW n \in Attempts, submissions[Key(r, "submit", n)].state = "finalized"
      PROVE  Executed(r)
  BY <1>1, <1>3, KeyOf DEF KeysInv, KeyOrdered, Key
<1>. QED
  BY <1>1, <1>2, <1>3 DEF Completed

\* Nothing begins or completes while no key is finalized.
LEMMA NoneFinalized ==
  ASSUME \A k \in Keys :
           submissions'[k].state = "finalized" <=> submissions[k].state = "finalized"
  PROVE  NoneBegins /\ NoneCompleted
<1>1. ASSUME NEW r \in Runs
      PROVE  (Begun(r)' <=> Begun(r)) /\ (Completed(r)' <=> Completed(r))
  BY KeyOf DEF Begun, Completed
<1>. QED
  BY <1>1 DEF NoneBegins, NoneCompleted

\* Only a landing locks or releases the basket; others can at most close it.
LEMMA OthersOnlyClose ==
  ASSUME LifecycleTypes, [LifecycleNext]_lifecycleVars, ~\E k \in Keys : Land(k)
  PROVE  /\ NoneBegins /\ NoneCompleted
         /\ \/ status' = status
            \/ status = "Redeemable" /\ status' = "Closed"
<1>1. StoresTyped /\ CallersTyped
  BY DEF LifecycleTypes
<1>2. ASSUME NEW w \in Callers, Step(w) \/ Crash(w)
      PROVE  /\ NoneBegins /\ NoneCompleted /\ status' = status
  <2>1. status' = status
    BY <1>2 DEF Step, Crash, execute, submit, observe, transition, return, check,
       supply, acquire, prepare, load, trade, redeem, relay, verify, commit, vars
  <2>2. \A k \in Keys :
          submissions'[k].state = "finalized" <=> submissions[k].state = "finalized"
    BY <1>1, <1>2, StepProgress DEF Progress, KeysKept, NothingLands
  <2>. QED
    BY <2>1, <2>2, NoneFinalized
<1>3. ASSUME NEW k \in Keys, Drop(k)
      PROVE  /\ NoneBegins /\ NoneCompleted /\ status' = status
  <2>1. status' = status
    BY <1>3 DEF Drop, vars
  <2>2. \A j \in Keys :
          submissions'[j].state = "finalized" <=> submissions[j].state = "finalized"
    BY <1>1, <1>3 DEF Drop, Submission, StoresTyped
  <2>. QED
    BY <2>1, <2>2, NoneFinalized
<1>4. CASE Chain
  <2>1. submissions' = submissions
    BY <1>4 DEF Chain, stores
  <2>2. \/ status' = status
        \/ status = "Redeemable" /\ status' = "Closed"
    BY <1>4 DEF Chain, Tick, accrue_management_fee, complete_deposit,
       complete_withdrawal, BurnShares
  <2>. QED
    BY <2>1, <2>2, NoneFinalized
<1>5. CASE \/ \E r \in Runs : Publish(r)
           \/ \E after : OtherOperation(after)
           \/ UNCHANGED lifecycleVars
  <2>1. UNCHANGED <<submissions, status>>
    BY <1>5 DEF Publish, OtherOperation, lifecycleVars, vars, stores
  <2>. QED
    BY <2>1, NoneFinalized
<1>. QED
  BY <1>2, <1>3, <1>4, <1>5, SomebodySteps DEF SystemStep

\* What a landing does to its run and to the status of the basket.
LEMMA LandMoves ==
  ASSUME LifecycleTypes, OrderInv, NEW key \in Keys, Land(key)
  PROVE  \/ NoneBegins /\ NoneCompleted /\ status' = status
         \/ /\ Begins(key.run) /\ NoneCompleted /\ ~Begun(key.run)
            /\ status = "Active" /\ status' = LockedStatus(key.run)
         \/ /\ NoneBegins /\ Completes(key.run) /\ Executed(key.run)
            /\ ~(submissions[Key(key.run, "complete", 0)].state = "finalized")
            /\ key.run.kind = "reconstitution"
            /\ status = "Reconstituting" /\ status' = "Active"
         \/ /\ NoneBegins /\ Completes(key.run) /\ Executed(key.run)
            /\ key.run.kind = "resolution"
            /\ status = "Resolving" /\ status' \in {"Redeemable", "Closed"}
<1>. PICK r : r = key.run
  OBVIOUS
<1>. PICK batch : batch = submissions[key].batch
  OBVIOUS
<1>1. /\ submissions[key].state = "sent" /\ KeyOrdered(key)
      /\ r \in Runs /\ r.kind \in {"reconstitution", "resolution"}
      /\ key.step \in {"begin", "complete", "accrue", "submit"}
      /\ submissions \in [Keys -> Submissions]
  BY LifecycleAssumption DEF Land, LifecycleTypes, StoresTyped, OrderInv, KeysInv, Keys
<1>2. CASE Submission(key, "failed", batch) /\ UNCHANGED vars
  <2>1. \A k \in Keys :
          submissions'[k].state = "finalized" <=> submissions[k].state = "finalized"
    BY <1>1, <1>2 DEF Submission
  <2>. QED
    BY <1>2, <2>1, NoneFinalized DEF vars
<1>3. ASSUME Accepts(key, batch), Instruction(key, batch),
             Submission(key, "finalized", batch)
      PROVE  \/ NoneBegins /\ NoneCompleted /\ status' = status
             \/ /\ Begins(r) /\ NoneCompleted /\ ~Begun(r)
                /\ status = "Active" /\ status' = LockedStatus(r)
             \/ /\ NoneBegins /\ Completes(r) /\ Executed(r)
                /\ ~(submissions[Key(r, "complete", 0)].state = "finalized")
                /\ r.kind = "reconstitution"
                /\ status = "Reconstituting" /\ status' = "Active"
             \/ /\ NoneBegins /\ Completes(r) /\ Executed(r)
                /\ r.kind = "resolution"
                /\ status = "Resolving" /\ status' \in {"Redeemable", "Closed"}
  <2>1. \A k \in Keys :
          submissions'[k].state = "finalized" <=>
            submissions[k].state = "finalized" \/ k = key
    BY <1>1, <1>3 DEF Submission
  <2>2. \A s \in Runs : Begun(s)' <=> Begun(s) \/ Key(s, "begin", 0) = key
    BY <2>1, KeyOf DEF Begun
  <2>3. \A s \in Runs : Completed(s)' <=>
          \/ Completed(s)
          \/ Key(s, "complete", 0) = key
          \/ \E n \in Attempts : Key(s, "submit", n) = key
    BY <2>1, KeyOf DEF Completed
  <2>4. CASE key.step = "accrue"
    <3>1. \A s \in Runs : /\ Key(s, "begin", 0) # key /\ Key(s, "complete", 0) # key
                          /\ \A n \in Attempts : Key(s, "submit", n) # key
      BY <2>4 DEF Key
    <3>2. status' = status
      BY <1>3, <2>4 DEF Instruction, accrue_management_fee
    <3>. QED
      BY <2>2, <2>3, <3>1, <3>2 DEF NoneBegins, NoneCompleted
  <2>5. CASE key.step = "begin"
    <3>1. key = Key(r, "begin", 0)
      BY <1>1, <2>5 DEF KeyOrdered, Key, Keys
    <3>2. \A s \in Runs : /\ Key(s, "begin", 0) = key <=> s = r
                          /\ Key(s, "complete", 0) # key
                          /\ \A n \in Attempts : Key(s, "submit", n) # key
      BY <3>1 DEF Key
    <3>3. ~Begun(r)
      BY <1>1, <3>1 DEF Begun
    <3>4. status = "Active" /\ status' = LockedStatus(r)
      BY <1>1, <1>3, <2>5 DEF Instruction, begin_reconstitution, begin_resolution,
         LockedStatus
    <3>. QED
      BY <2>2, <2>3, <3>2, <3>3, <3>4 DEF Begins, NoneCompleted
  <2>6. CASE key.step = "complete"
    <3>1. key = Key(r, "complete", 0) /\ r.kind = "reconstitution" /\ Executed(r)
      BY <1>1, <2>6 DEF KeyOrdered, Key, Keys
    <3>2. \A s \in Runs : /\ Key(s, "complete", 0) = key <=> s = r
                          /\ Key(s, "begin", 0) # key
                          /\ \A n \in Attempts : Key(s, "submit", n) # key
      BY <3>1 DEF Key
    <3>3. status = "Reconstituting" /\ status' = "Active"
      BY <1>3, <2>6 DEF Instruction, complete_reconstitution
    <3>4. ~(submissions[Key(r, "complete", 0)].state = "finalized")
      BY <1>1, <3>1
    <3>. QED
      BY <2>2, <2>3, <3>1, <3>2, <3>3, <3>4 DEF NoneBegins, Completes
  <2>7. CASE key.step = "submit"
    <3>1. /\ key.attempt \in Attempts /\ key = Key(r, "submit", key.attempt)
          /\ r.kind = "resolution" /\ Executed(r)
      BY <1>1, <2>7 DEF KeyOrdered, Key, Keys
    <3>2. \A s \in Runs : /\ Key(s, "complete", 0) # key
                          /\ Key(s, "begin", 0) # key
                          /\ (\E n \in Attempts : Key(s, "submit", n) = key) <=> s = r
      BY <3>1 DEF Key
    <3>3. status = "Resolving" /\ status' \in {"Redeemable", "Closed"}
      BY <1>3, <2>7 DEF Instruction, record_final_settlement
    <3>. QED
      BY <2>2, <2>3, <3>1, <3>2, <3>3 DEF NoneBegins, Completes
  <2>. QED
    BY <1>1, <2>4, <2>5, <2>6, <2>7
<1>. QED
  BY <1>2, <1>3 DEF Land

\* A run that is being completed is the open one.
LEMMA CompletingIsOpen ==
  ASSUME OrderInv, StatusInv, NEW r \in Runs, Executed(r),
         \/ /\ r.kind = "reconstitution"
            /\ ~(submissions[Key(r, "complete", 0)].state = "finalized")
         \/ r.kind = "resolution" /\ status = "Resolving"
  PROVE  Open(r)
<1>1. Begun(r)
  BY DEF OrderInv, RowsInv
<1>2. CASE r.kind = "reconstitution"
  <2>1. \A n \in Attempts : submissions[Key(r, "submit", n)].state # "finalized"
    BY <1>2, KeyOf DEF OrderInv, KeysInv, KeyOrdered, Key
  <2>. QED
    BY <1>1, <1>2, <2>1 DEF Open, Completed
<1>3. CASE r.kind = "resolution" /\ status = "Resolving"
  BY <1>1, <1>3 DEF Open, StatusInv
<1>. QED
  BY <1>2, <1>3

\* Each step begins a run of a free basket, executes the open one, completes the
\* open one, or leaves all of them as they are.
TurnTaken ==
  \/ NoneBegins /\ NoneExecuted /\ NoneCompleted
  \/ \E r \in Runs : /\ Begins(r) /\ NoneExecuted /\ NoneCompleted
                     /\ ~Begun(r) /\ \A s \in Runs : ~Open(s)
  \/ \E r \in Runs : /\ NoneBegins /\ Executes(r) /\ NoneCompleted
                     /\ Open(r) /\ ~Executed(r)
  \/ \E r \in Runs : /\ NoneBegins /\ NoneExecuted /\ Completes(r)
                     /\ Open(r) /\ Executed(r)

\* Only the commit of the executor that holds the lease executes a run.
LEMMA StepExecutes ==
  ASSUME LifecycleTypes, OrderInv, NEW w \in Callers, Step(w) \/ Crash(w)
  PROVE  \/ NoneExecuted
         \/ \E r \in Runs : Executes(r) /\ Open(r) /\ ~Executed(r)
<1>1. StoresTyped /\ CallersTyped /\ Ordered(w)
  BY DEF LifecycleTypes, OrderInv
<1>2. CASE prepare(w)
  <2>1. \A r \in Runs : exec'[r].state = "completed" <=> exec[r].state = "completed"
    BY <1>1, <1>2, prepareMoves DEF Executed
  <2>. QED
    BY <2>1 DEF NoneExecuted, Executed
<1>3. CASE commit(w)
  <2>. PICK run : run = my[w].run
    OBVIOUS
  <2>1. run \in Runs /\ Begun(run) /\ ~Executed(run)
    BY <1>1, <1>3, MyLocal
       DEF commit, CallerTyped, Ordered, Trading, Executing, Executed
  <2>2. Open(run)
    BY <2>1, CompletedIsExecuted DEF Open
  <2>3. \/ exec' = exec
        \/ /\ exec'[run].state = "completed"
           /\ \A s \in Runs \ {run} : exec'[s] = exec[s]
    BY <1>1, <1>3, commitMoves
  <2>4. CASE exec' = exec
    BY <2>4 DEF NoneExecuted, Executed
  <2>5. CASE /\ exec'[run].state = "completed"
             /\ \A s \in Runs \ {run} : exec'[s] = exec[s]
    <3>1. \A s \in Runs : exec'[s].state = "completed" <=>
                            exec[s].state = "completed" \/ s = run
      BY <2>5
    <3>2. Executes(run)
      BY <3>1 DEF Executes, Executed
    <3>. QED
      BY <2>1, <2>2, <3>2
  <2>. QED
    BY <2>3, <2>4, <2>5
<1>4. CASE ~prepare(w) /\ ~commit(w)
  <2>1. exec' = exec
    BY <1>4 DEF Step, Crash, execute, submit, observe, transition, return, check, supply,
       acquire, load, trade, redeem, relay, verify, stores
  <2>. QED
    BY <2>1 DEF NoneExecuted, Executed
<1>. QED
  BY <1>2, <1>3, <1>4

LEMMA SystemExecutes ==
  ASSUME SystemStep
  PROVE  NoneExecuted
<1>1. exec' = exec
  BY DEF SystemStep, Land, Drop, Publish, OtherOperation, Chain, lifecycleVars, stores
<1>. QED
  BY <1>1 DEF NoneExecuted, Executed

\* The status follows the run that has the basket.
LEMMA TurnsAreTaken ==
  ASSUME LifecycleTypes, OrderInv, StatusInv, [LifecycleNext]_lifecycleVars
  PROVE  TurnTaken /\ StatusInv'
<1>1. ASSUME NEW key \in Keys, Land(key)
      PROVE  TurnTaken /\ StatusInv'
  <2>. PICK r \in Runs : r = key.run
    BY DEF Keys
  <2>1. NoneExecuted
    BY <1>1, SystemExecutes DEF SystemStep
  <2>2. r.kind \in {"reconstitution", "resolution"}
    BY LifecycleAssumption
  <2>3. CASE NoneBegins /\ NoneCompleted /\ status' = status
    BY <2>1, <2>3 DEF TurnTaken, StatusInv, Open, NoneBegins, NoneCompleted
  <2>4. CASE /\ Begins(r) /\ NoneCompleted /\ ~Begun(r)
             /\ status = "Active" /\ status' = LockedStatus(r)
    <3>1. \A s \in Runs : ~Open(s) /\ ~(s.kind = "resolution" /\ Completed(s))
      BY <2>4, LifecycleAssumption DEF StatusInv, LockedStatus
    <3>2. TurnTaken
      BY <2>1, <2>4, <3>1 DEF TurnTaken
    <3>3. \A s \in Runs : Open(s)' => s = r
      BY <2>4, <3>1 DEF Open, Begins, NoneCompleted
    <3>. QED
      BY <2>4, <3>1, <3>2, <3>3 DEF StatusInv, NoneCompleted
  <2>5. ASSUME NoneBegins, Completes(r), Executed(r), Open(r),
               \/ r.kind = "reconstitution" /\ status' = "Active"
                    /\ status = "Reconstituting"
               \/ r.kind = "resolution" /\ status' \in {"Redeemable", "Closed"}
                    /\ status = "Resolving"
        PROVE  TurnTaken /\ StatusInv'
    <3>1. TurnTaken
      BY <2>1, <2>5 DEF TurnTaken
    <3>2. \A s \in Runs : Open(s) => s = r
      BY <2>5 DEF StatusInv
    <3>3. \A s \in Runs : ~Open(s)'
      BY <2>5, <3>2 DEF Open, NoneBegins, Completes
    <3>4. \A s \in Runs : ~(s.kind = "resolution" /\ Completed(s))
      BY <2>5 DEF StatusInv
    <3>5. \A s \in Runs : s.kind = "resolution" /\ Completed(s)' => s = r
      BY <2>5, <3>4 DEF Completes
    <3>. QED
      BY <2>2, <2>5, <3>1, <3>3, <3>5 DEF StatusInv
  <2>6. CASE /\ NoneBegins /\ Completes(r) /\ Executed(r)
             /\ ~(submissions[Key(r, "complete", 0)].state = "finalized")
             /\ r.kind = "reconstitution"
             /\ status = "Reconstituting" /\ status' = "Active"
    BY <2>5, <2>6, CompletingIsOpen
  <2>7. CASE /\ NoneBegins /\ Completes(r) /\ Executed(r)
             /\ r.kind = "resolution"
             /\ status = "Resolving" /\ status' \in {"Redeemable", "Closed"}
    BY <2>5, <2>7, CompletingIsOpen
  <2>. QED
    BY <1>1, <2>3, <2>4, <2>6, <2>7, LandMoves
<1>2. CASE ~\E k \in Keys : Land(k)
  <2>1. /\ NoneBegins /\ NoneCompleted
        /\ \/ status' = status
           \/ status = "Redeemable" /\ status' = "Closed"
    BY <1>2, OthersOnlyClose
  <2>2. TurnTaken
    <3>1. \/ NoneExecuted
          \/ \E r \in Runs : Executes(r) /\ Open(r) /\ ~Executed(r)
      BY SomebodySteps, SystemExecutes, StepExecutes
    <3>. QED
      BY <2>1, <3>1 DEF TurnTaken
  <2>3. \A r \in Runs : LockedStatus(r) # "Redeemable"
    BY DEF LockedStatus
  <2>4. \A r \in Runs : (Open(r)' <=> Open(r)) /\ (Completed(r)' <=> Completed(r))
    BY <2>1 DEF Open, NoneBegins, NoneCompleted
  <2>5. StatusInv'
    BY <2>1, <2>3, <2>4 DEF StatusInv
  <2>. QED
    BY <2>2, <2>5
<1>. QED
  BY <1>1, <1>2

LEMMA StatusInvariant ==
  LifecycleSpec => [](LifecycleTypes /\ KindsInv /\ OrderInv /\ StatusInv)
<1>1. LifecycleInit => StatusInv
  <2>. SUFFICES ASSUME LifecycleInit PROVE StatusInv
    OBVIOUS
  <2>1. \A k \in Keys : submissions[k].state # "finalized"
    BY DEF LifecycleInit
  <2>2. \A r \in Runs : ~Begun(r) /\ ~Completed(r)
    BY <2>1, KeyOf DEF Begun, Completed
  <2>. QED
    BY <2>2 DEF StatusInv, Open
<1>2. LifecycleTypes /\ OrderInv /\ StatusInv /\ [LifecycleNext]_lifecycleVars => StatusInv'
  BY TurnsAreTaken
<1>. QED
  BY <1>1, <1>2, OrderInvariant, PTL DEF LifecycleSpec

\* Any number of callers, of rival runs and of retries: whoever places orders or
\* redemptions does so for a run that is not executed, hence not completed, hence
\* the one that keeps the basket locked.
THEOREM TradesOnlyWhileLocked == LifecycleSpec => []TradesWhileLocked
<1>1. LifecycleTypes /\ OrderInv /\ StatusInv => TradesWhileLocked
  <2>. SUFFICES ASSUME LifecycleTypes, OrderInv, StatusInv,
                       NEW w \in Callers,
                       at[w] \in {"load", "sell", "buy", "redeem", "relay", "verify",
                                  "commit"}
                PROVE  status = LockedStatus(my[w].run)
    BY DEF TradesWhileLocked, LockedStatus
  <2>1. at[w] \in Trading /\ at[w] \in Executing /\ at[w] # "idle"
    BY DEF Trading, Executing
  <2>2. my[w].run \in Runs /\ Begun(my[w].run) /\ ~Executed(my[w].run)
    BY <2>1, MyLocal DEF LifecycleTypes, CallerTyped, OrderInv, Ordered, Executed
  <2>. QED
    BY <2>2, CompletedIsExecuted DEF StatusInv, Open
<1>. QED
  BY <1>1, StatusInvariant, PTL

\* The runs implement the promise of LifecyclePromise, each step one of its steps
\* or none, for every number of callers, runs, attempts and faults.
THEOREM RunsAlwaysTakeTurns == LifecycleSpec => RunsTakeTurns
<1>1. LifecycleInit => Promise!Init
  <2>. SUFFICES ASSUME LifecycleInit PROVE Promise!Init
    OBVIOUS
  <2>1. \A k \in Keys : submissions[k].state # "finalized"
    BY DEF LifecycleInit
  <2>2. \A r \in Runs : ~Begun(r) /\ ~Completed(r)
    BY <2>1, KeyOf DEF Begun, Completed
  <2>3. \A r \in Runs : ~Executed(r)
    BY DEF LifecycleInit, Executed
  <2>. QED
    BY <2>2, <2>3 DEF Promise!Init, Begun, Completed, Executed, Attempts
<1>2. LifecycleTypes /\ OrderInv /\ StatusInv /\ [LifecycleNext]_lifecycleVars
        => [Promise!Next]_Promise!vars
  <2>. SUFFICES ASSUME LifecycleTypes, OrderInv, StatusInv, TurnTaken
                PROVE  [Promise!Next]_Promise!vars
    BY TurnsAreTaken
  <2>1. CASE NoneBegins /\ NoneExecuted /\ NoneCompleted
    BY <2>1 DEF Promise!vars, NoneBegins, NoneExecuted, NoneCompleted, Begun, Executed,
       Completed, Attempts
  <2>2. ASSUME NEW r \in Runs, Begins(r), NoneExecuted, NoneCompleted,
               ~Begun(r), \A s \in Runs : ~Open(s)
        PROVE  Promise!Begin(r)
    <3>1. \A s \in Runs : Begun(s) <=> Completed(s)
      BY <2>2, CompletedIsExecuted DEF Open
    <3>. QED
      BY <2>2, <3>1 DEF Promise!Begin, Begins, NoneExecuted, NoneCompleted, Begun,
         Executed, Completed, Attempts
  <2>3. ASSUME NEW r \in Runs, NoneBegins, Executes(r), NoneCompleted,
               Open(r), ~Executed(r)
        PROVE  Promise!Execute(r)
    BY <2>3 DEF Promise!Execute, NoneBegins, Executes, NoneCompleted, Open, Begun,
       Executed, Completed, Attempts
  <2>4. ASSUME NEW r \in Runs, NoneBegins, NoneExecuted, Completes(r),
               Open(r), Executed(r)
        PROVE  Promise!Complete(r)
    BY <2>4 DEF Promise!Complete, NoneBegins, NoneExecuted, Completes, Open, Begun,
       Executed, Completed, Attempts
  <2>. QED
    BY <2>1, <2>2, <2>3, <2>4 DEF TurnTaken, Promise!Next
<1>. QED
  BY <1>1, <1>2, StatusInvariant, PTL DEF LifecycleSpec, RunsTakeTurns, Promise!Spec

-----------------------------------------------------------------------------
(* The runs: what a completed run rests on *)

SubmitKey(w) == Key(my[w].run, "submit", my[w].attempt)

CompleteKey(r) == Key(r, "complete", 0)

\* A caller that is about to record the completion has seen it finalized, a
\* resolution with the very snapshot the caller holds.
Settling(w) ==
  /\ at[w] = "submit_sent" =>
       /\ submissions[SubmitKey(w)].state # "none"
       /\ submissions[SubmitKey(w)].batch = my[w].snapshot
  /\ at[w] = "record" /\ my[w].run.kind = "reconstitution" =>
       submissions[CompleteKey(my[w].run)].state = "finalized"
  /\ at[w] = "record" /\ my[w].run.kind = "resolution" =>
       /\ submissions[SubmitKey(w)].state = "finalized"
       /\ submissions[SubmitKey(w)].batch = my[w].snapshot

Recorded(r) ==
  runs[r].state = "onchain_completed" =>
    /\ r.kind = "reconstitution" => submissions[CompleteKey(r)].state = "finalized"
    /\ r.kind = "resolution" =>
         \E n \in Attempts :
           /\ submissions[Key(r, "submit", n)].state = "finalized"
           /\ submissions[Key(r, "submit", n)].batch = runs[r].snapshot

\* What a finalized completion has made of the basket is not undone.
OnChain(k) ==
  submissions[k].state = "finalized" =>
    /\ k.step = "complete" => /\ composition_version >= k.run.version
                              /\ last_composition_nonce >= k.run.nonce
    /\ k.step = "submit" => /\ status \in {"Redeemable", "Closed"}
                            /\ final_share_snapshot = submissions[k].batch

CompletionInv ==
  /\ \A w \in Callers : Settling(w)
  /\ \A r \in Runs : Recorded(r)
  /\ \A k \in Keys : OnChain(k)

LEMMA SubmitKeyTyped ==
  ASSUME CallersTyped, NEW w \in Callers, at[w] # "idle"
  PROVE  /\ SubmitKey(w) \in Keys /\ CompleteKey(my[w].run) \in Keys
         /\ my[w].run \in Runs /\ my[w].attempt \in Attempts
BY MyLocal, KeyOf DEF SubmitKey, CompleteKey, CallerTyped, Locals, Attempts

LEMMA SettlingStays ==
  ASSUME CallersTyped, NEW w \in Callers, Settling(w), KeysKept,
         at'[w] = at[w], my'[w] = my[w]
  PROVE  Settling(w)'
<1>1. CASE at[w] = "idle"
  BY <1>1 DEF Settling
<1>2. CASE at[w] # "idle"
  <2>. PICK key : key = SubmitKey(w)
    OBVIOUS
  <2>. PICK done : done = CompleteKey(my[w].run)
    OBVIOUS
  <2>1. key \in Keys /\ done \in Keys
    BY <1>2, SubmitKeyTyped
  <2>2. SubmitKey(w)' = key /\ CompleteKey(my[w].run)' = done
    BY DEF SubmitKey, CompleteKey, Key
  <2>3. /\ at[w] = "submit_sent" =>
             submissions[key].state # "none" /\ submissions[key].batch = my[w].snapshot
        /\ at[w] = "record" /\ my[w].run.kind = "reconstitution" =>
             submissions[done].state = "finalized"
        /\ at[w] = "record" /\ my[w].run.kind = "resolution" =>
             /\ submissions[key].state = "finalized"
             /\ submissions[key].batch = my[w].snapshot
    BY DEF Settling
  <2>. QED
    BY <2>1, <2>2, <2>3 DEF Settling, KeysKept
<1>. QED
  BY <1>1, <1>2

LEMMA StepSettling ==
  ASSUME LifecycleTypes, KindsInv, CompletionInv, NEW w \in Callers, Step(w) \/ Crash(w)
  PROVE  Settling(w)' /\ OthersStay(w)
<1>1. /\ StoresTyped /\ CallersTyped /\ Kinds(w) /\ Settling(w)
  BY DEF LifecycleTypes, KindsInv, CompletionInv
<1>2. ASSUME at'[w] # "submit_sent", at'[w] # "record"
      PROVE  Settling(w)'
  BY <1>2 DEF Settling
<1>3. CASE submit(w)
  <2>1. CASE /\ at'[w] = Sent(at[w]) /\ my'[w] = my[w]
             /\ submissions'[CallOf(w).key].state # "none"
             /\ submissions'[CallOf(w).key].batch = CallOf(w).batch
    <3>1. CASE at[w] = "submit"
      <4>. PICK key : key = SubmitKey(w)
        OBVIOUS
      <4>1. CallOf(w).key = key /\ CallOf(w).batch = my[w].snapshot
        BY <1>1, <3>1, CallTyped DEF SubmitKey
      <4>2. SubmitKey(w)' = key
        BY <2>1 DEF SubmitKey, Key
      <4>3. at'[w] # "record"
        BY <2>1, <3>1 DEF Sent
      <4>4. OthersStay(w)
        BY <1>1, <1>3, submitMoves
      <4>. QED
        BY <2>1, <4>1, <4>2, <4>3, <4>4 DEF Settling
    <3>2. CASE at[w] # "submit"
      BY <1>1, <1>2, <1>3, <2>1, <3>2, submitMoves DEF Sent
    <3>. QED
      BY <3>1, <3>2
  <2>. QED
    BY <1>1, <1>2, <1>3, <2>1, submitMoves
<1>4. CASE observe(w)
  <2>1. OthersStay(w)
    BY <1>1, <1>4, observeMoves
  <2>2. submissions' = submissions
    BY <1>4 DEF observe, stores
  <2>3. CASE /\ my'[w] = my[w] /\ submissions[CallOf(w).key].state = "finalized"
             /\ at[w] = "complete_sent" /\ at'[w] = "record"
    <3>1. CallOf(w).key = CompleteKey(my[w].run) /\ my[w].run.kind = "reconstitution"
      BY <1>1, <2>3, CallTyped DEF CompleteKey, Kinds
    <3>. QED
      BY <2>1, <2>2, <2>3, <3>1 DEF Settling, CompleteKey, Key
  <2>4. CASE /\ my'[w] = my[w] /\ submissions[CallOf(w).key].state = "finalized"
             /\ at[w] = "submit_sent" /\ at'[w] = "record"
    <3>1. CallOf(w).key = SubmitKey(w) /\ my[w].run.kind = "resolution"
      BY <1>1, <2>4, CallTyped DEF SubmitKey, Kinds
    <3>2. submissions[SubmitKey(w)].batch = my[w].snapshot
      BY <1>1, <2>4 DEF Settling
    <3>. QED
      BY <2>1, <2>2, <2>4, <3>1, <3>2 DEF Settling, SubmitKey, Key
  <2>5. \/ at'[w] # "submit_sent" /\ at'[w] # "record"
        \/ /\ my'[w] = my[w] /\ submissions[CallOf(w).key].state = "finalized"
           /\ at[w] \in {"complete_sent", "submit_sent"} /\ at'[w] = "record"
    BY <1>1, <1>4, observeMoves
  <2>. QED
    BY <1>2, <2>1, <2>3, <2>4, <2>5
<1>5. ASSUME NEW r \in Runs, execute(w, r)
      PROVE  Settling(w)' /\ OthersStay(w)
  BY <1>1, <1>2, <1>5, executeMoves
<1>6. CASE transition(w)
  BY <1>1, <1>2, <1>6, transitionMoves
<1>7. CASE return(w) \/ check(w) \/ acquire(w) \/ supply(w)
  BY <1>1, <1>2, <1>7, waysMoves
<1>8. CASE prepare(w) \/ load(w)
  BY <1>1, <1>2, <1>8, prepareMoves, loadMoves
<1>9. CASE trade(w) \/ redeem(w)
  BY <1>1, <1>2, <1>9, tradeMoves, redeemMoves
<1>10. CASE relay(w) \/ verify(w)
  BY <1>1, <1>2, <1>10, relayMoves, verifyMoves
<1>11. CASE commit(w) \/ Crash(w)
  BY <1>1, <1>2, <1>11, commitMoves, CrashMoves
<1>. QED
  BY <1>3, <1>4, <1>5, <1>6, <1>7, <1>8, <1>9, <1>10, <1>11 DEF Step

LEMMA RecordedStays ==
  ASSUME NEW r \in Runs, Recorded(r), KeysKept,
         \/ runs'[r] = runs[r]
         \/ runs'[r].state # "onchain_completed"
  PROVE  Recorded(r)'
<1>1. CompleteKey(r) \in Keys /\ \A n \in Attempts : Key(r, "submit", n) \in Keys
  BY KeyOf DEF CompleteKey
<1>2. CASE runs'[r] = runs[r] /\ runs[r].state = "onchain_completed"
  <2>1. r.kind = "reconstitution" => submissions'[CompleteKey(r)].state = "finalized"
    BY <1>1, <1>2 DEF Recorded, KeysKept
  <2>2. ASSUME r.kind = "resolution"
        PROVE  \E n \in Attempts :
                 /\ submissions'[Key(r, "submit", n)].state = "finalized"
                 /\ submissions'[Key(r, "submit", n)].batch = runs[r].snapshot
    BY <1>1, <1>2, <2>2 DEF Recorded, KeysKept
  <2>. QED
    BY <1>2, <2>1, <2>2 DEF Recorded
<1>. QED
  BY <1>2 DEF Recorded

LEMMA StepRecorded ==
  ASSUME LifecycleTypes, CompletionInv, NEW w \in Callers, Step(w) \/ Crash(w),
         NEW r \in Runs
  PROVE  Recorded(r)'
<1>1. /\ StoresTyped /\ CallersTyped /\ Settling(w) /\ Recorded(r) /\ KeysKept
  BY StepProgress DEF LifecycleTypes, CompletionInv, Progress
<1>2. ASSUME NEW s \in Runs, execute(w, s)
      PROVE  Recorded(r)'
  BY <1>1, <1>2, executeMoves, RecordedStays
<1>3. CASE transition(w)
  <2>. PICK local : local = my[w]
    OBVIOUS
  <2>1. at[w] # "idle" /\ local.run.kind \in {"reconstitution", "resolution"}
    BY <1>1, <1>3, SubmitKeyTyped, LifecycleAssumption DEF transition
  <2>2. CASE r = local.run /\ at[w] = "record" /\ runs'[r].snapshot = local.snapshot
    <3>1. submissions' = submissions
      BY <1>3 DEF transition
    <3>2. /\ local.run.kind = "reconstitution" =>
               submissions[CompleteKey(r)].state = "finalized"
          /\ local.run.kind = "resolution" =>
               /\ submissions[Key(r, "submit", local.attempt)].state = "finalized"
               /\ submissions[Key(r, "submit", local.attempt)].batch = local.snapshot
      BY <1>1, <2>2 DEF Settling, SubmitKey
    <3>3. local.attempt \in Attempts
      BY <1>1, <2>1, SubmitKeyTyped
    <3>. QED
      BY <2>2, <3>1, <3>2, <3>3 DEF Recorded, CompleteKey
  <2>3. \/ runs'[r] = runs[r]
        \/ runs'[r].state # "onchain_completed"
        \/ r = local.run /\ at[w] = "record" /\ runs'[r].snapshot = local.snapshot
    BY <1>1, <1>3, transitionMoves
  <2>. QED
    BY <1>1, <2>2, <2>3, RecordedStays
<1>4. CASE ~transition(w) /\ ~\E s \in Runs : execute(w, s)
  <2>1. runs' = runs
    BY <1>4 DEF Step, Crash, submit, observe, return, check, supply, acquire, prepare,
       load, trade, redeem, relay, verify, commit, stores
  <2>. QED
    BY <1>1, <2>1, RecordedStays
<1>. QED
  BY <1>2, <1>3, <1>4

\* A key that was finalized before stays backed by the chain when the basket's
\* composition only advances and a final settlement only ends.
LEMMA OnChainStays ==
  ASSUME NEW k \in Keys, OnChain(k), KeysKept,
         submissions'[k].state = "finalized" => submissions[k].state = "finalized",
         UNCHANGED <<composition_version, last_composition_nonce, final_share_snapshot>>,
         \/ status' = status
         \/ status = "Redeemable" /\ status' = "Closed"
  PROVE  OnChain(k)'
BY DEF OnChain, KeysKept

LEMMA LandOnChain ==
  ASSUME LifecycleTypes, CompletionInv, NEW key \in Keys, Land(key), NEW k \in Keys
  PROVE  OnChain(k)'
<1>. PICK batch : batch = submissions[key].batch
  OBVIOUS
<1>1. /\ submissions[key].state = "sent" /\ OnChain(k) /\ KeysKept
      /\ submissions \in [Keys -> Submissions]
      /\ composition_version \in Nat /\ last_composition_nonce \in Nat
      /\ k.run.version \in Nat /\ k.run.nonce \in Nat
      /\ k.step \in {"begin", "complete", "accrue", "submit"}
      /\ k.run.kind \in {"reconstitution", "resolution"}
  BY SystemProgress, LifecycleAssumption
     DEF Land, LifecycleTypes, CompletionInv, StoresTyped, TypeOK, Progress, SystemStep,
         Keys
<1>2. CASE Submission(key, "failed", batch) /\ UNCHANGED vars
  <2>1. submissions'[k].state = "finalized" => submissions[k].state = "finalized"
    BY <1>1, <1>2 DEF Submission
  <2>2. UNCHANGED <<composition_version, last_composition_nonce, final_share_snapshot,
                    status>>
    BY <1>2 DEF vars, compositionVars, finalVars
  <2>. QED
    BY <1>1, <2>1, <2>2, OnChainStays
<1>3. CASE /\ Accepts(key, batch) /\ Instruction(key, batch)
           /\ Submission(key, "finalized", batch)
  <2>1. /\ submissions'[key].state = "finalized" /\ submissions'[key].batch = batch
        /\ k # key => submissions'[k] = submissions[k]
    BY <1>1, <1>3 DEF Submission
  <2>2. \/ begin_reconstitution \/ begin_resolution \/ accrue_management_fee
        \/ complete_reconstitution(key.run.nonce)
        \/ record_final_settlement(batch, ReportedNav)
    BY <1>3 DEF Instruction
  \* The basket still takes instructions of the runs.
  <2>3. status \notin {"Redeemable", "Closed"}
    BY <2>2 DEF begin_reconstitution, begin_resolution, accrue_management_fee,
       complete_reconstitution, record_final_settlement, AccruingStatus
  <2>4. \/ UNCHANGED <<composition_version, last_composition_nonce>>
        \/ /\ complete_reconstitution(key.run.nonce)
           /\ composition_version' = composition_version + 1
           /\ last_composition_nonce' = key.run.nonce
           /\ key.run.nonce > last_composition_nonce
    BY <2>2 DEF begin_reconstitution, begin_resolution, accrue_management_fee,
       complete_reconstitution, record_final_settlement, compositionVars
  <2>5. ASSUME k # key
        PROVE  OnChain(k)'
    <3>1. submissions'[k] = submissions[k]
      BY <2>1, <2>5
    <3>2. submissions[k].state = "finalized" => k.step # "submit"
      BY <1>1, <2>3 DEF OnChain
    <3>3. key.run.nonce \in Nat
      BY LifecycleAssumption DEF Keys
    <3>4. composition_version' >= composition_version
          /\ last_composition_nonce' >= last_composition_nonce
          /\ composition_version' \in Nat /\ last_composition_nonce' \in Nat
      BY <1>1, <2>4, <3>3
    <3>5. submissions[k].state = "finalized" /\ k.step = "complete" =>
            /\ composition_version' >= k.run.version
            /\ last_composition_nonce' >= k.run.nonce
      BY <1>1, <3>4 DEF OnChain
    <3>. QED
      BY <3>1, <3>2, <3>5 DEF OnChain
  <2>6. ASSUME k = key, k.step = "complete"
        PROVE  OnChain(k)'
    <3>1. k.run.version = composition_version + 1
      BY <1>3, <2>6 DEF Accepts
    <3>2. complete_reconstitution(k.run.nonce)
      BY <1>3, <2>6 DEF Instruction
    <3>3. composition_version' = composition_version + 1
          /\ last_composition_nonce' = k.run.nonce
      BY <3>2 DEF complete_reconstitution
    <3>. QED
      BY <1>1, <2>6, <3>1, <3>3 DEF OnChain
  <2>7. ASSUME k = key, k.step = "submit"
        PROVE  OnChain(k)'
    <3>1. record_final_settlement(batch, ReportedNav)
      BY <1>3, <2>7 DEF Instruction
    <3>2. final_share_snapshot' = batch /\ status' \in {"Redeemable", "Closed"}
      BY <3>1 DEF record_final_settlement
    <3>. QED
      BY <2>1, <2>7, <3>2 DEF OnChain
  <2>8. ASSUME k = key, k.step \notin {"complete", "submit"}
        PROVE  OnChain(k)'
    BY <2>8 DEF OnChain
  <2>. QED
    BY <2>5, <2>6, <2>7, <2>8
<1>. QED
  BY <1>2, <1>3 DEF Land

LEMMA CompletionKept ==
  ASSUME LifecycleTypes, KindsInv, CompletionInv, [LifecycleNext]_lifecycleVars
  PROVE  CompletionInv'
<1>1. /\ StoresTyped /\ CallersTyped
      /\ \A v \in Callers : Settling(v)
      /\ \A r \in Runs : Recorded(r)
      /\ \A k \in Keys : OnChain(k)
  BY DEF LifecycleTypes, CompletionInv
<1>2. ASSUME NEW w \in Callers, Step(w) \/ Crash(w)
      PROVE  CompletionInv'
  <2>1. KeysKept /\ NothingLands
    BY <1>1, <1>2, StepProgress DEF Progress
  <2>2. Settling(w)' /\ OthersStay(w)
    BY <1>2, StepSettling
  <2>3. \A v \in Callers : Settling(v)'
    BY <1>1, <2>1, <2>2, SettlingStays DEF OthersStay
  <2>4. \A r \in Runs : Recorded(r)'
    BY <1>2, StepRecorded
  <2>5. UNCHANGED vars
    BY <1>2 DEF Step, Crash, execute, submit, observe, transition, return, check,
       supply, acquire, prepare, load, trade, redeem, relay, verify, commit
  <2>6. UNCHANGED <<composition_version, last_composition_nonce, final_share_snapshot,
                    status>>
    BY <2>5 DEF vars, compositionVars, finalVars
  <2>7. \A k \in Keys : OnChain(k)'
    BY <1>1, <2>1, <2>6, OnChainStays DEF NothingLands
  <2>. QED
    BY <2>3, <2>4, <2>7 DEF CompletionInv
<1>3. CASE SystemStep
  <2>1. KeysKept /\ UNCHANGED <<holder, at, my>>
    BY <1>1, <1>3, SystemProgress, CallersStand DEF Progress
  <2>2. runs' = runs
    BY <1>3 DEF SystemStep, Land, Drop, Publish, OtherOperation, Chain, lifecycleVars,
       stores
  <2>3. /\ \A v \in Callers : Settling(v)'
        /\ \A r \in Runs : Recorded(r)'
    BY <1>1, <2>1, <2>2, SettlingStays, RecordedStays
  <2>4. ASSUME NEW key \in Keys, Land(key)
        PROVE  \A k \in Keys : OnChain(k)'
    BY <2>4, LandOnChain
  <2>5. CASE ~\E key \in Keys : Land(key)
    <3>1. \A k \in Keys :
            submissions'[k].state = "finalized" => submissions[k].state = "finalized"
      <4>1. ASSUME NEW j \in Keys, Drop(j)
            PROVE  \A k \in Keys : submissions'[k].state = "finalized" =>
                                     submissions[k].state = "finalized"
        BY <1>1, <4>1 DEF Drop, Submission, StoresTyped
      <4>2. CASE ~\E j \in Keys : Drop(j)
        BY <1>3, <2>5, <4>2 DEF SystemStep, Publish, OtherOperation, Chain,
           lifecycleVars, stores
      <4>. QED
        BY <4>1, <4>2
    <3>2. UNCHANGED <<composition_version, last_composition_nonce, final_share_snapshot>>
      <4>1. CASE Chain
        BY <4>1 DEF Chain, Tick, accrue_management_fee, complete_deposit,
           complete_withdrawal, FinalValue, CurrentValue, compositionVars, finalVars
      <4>2. CASE ~Chain
        <5>1. UNCHANGED vars
          BY <1>3, <2>5, <4>2 DEF SystemStep, Drop, Publish, OtherOperation,
             lifecycleVars
        <5>. QED
          BY <5>1 DEF vars, compositionVars, finalVars
      <4>. QED
        BY <4>1, <4>2
    <3>3. \/ status' = status
          \/ status = "Redeemable" /\ status' = "Closed"
      BY <2>5, OthersOnlyClose
    <3>4. \A k \in Keys : OnChain(k)'
      BY <1>1, <2>1, <3>1, <3>2, <3>3, OnChainStays
    <3>. QED
      BY <2>3, <3>4 DEF CompletionInv
  <2>. QED
    BY <2>3, <2>4, <2>5 DEF CompletionInv
<1>. QED
  BY <1>2, <1>3, SomebodySteps

\* A run recorded as complete is complete on chain, with the snapshot the run has
\* recorded, over all retries, races, crashes and late landings.
THEOREM CompletedRunsAreOnChain == LifecycleSpec => []CompletedIsOnChain
<1>1. LifecycleInit => CompletionInv
  <2>. SUFFICES ASSUME LifecycleInit PROVE CompletionInv
    OBVIOUS
  <2>1. \A w \in Callers : Settling(w)
    BY DEF LifecycleInit, Settling
  <2>2. \A r \in Runs : Recorded(r)
    BY DEF LifecycleInit, Recorded
  <2>3. \A k \in Keys : OnChain(k)
    BY DEF LifecycleInit, OnChain
  <2>. QED
    BY <2>1, <2>2, <2>3 DEF CompletionInv
<1>2. LifecycleTypes /\ KindsInv /\ CompletionInv /\ [LifecycleNext]_lifecycleVars
        => CompletionInv'
  BY CompletionKept
<1>3. CompletionInv => CompletedIsOnChain
  <2>. SUFFICES ASSUME CompletionInv, NEW r \in Runs,
                       runs[r].state = "onchain_completed"
                PROVE  IF r.kind = "reconstitution"
                       THEN /\ composition_version >= r.version
                            /\ last_composition_nonce >= r.nonce
                       ELSE /\ status \in {"Redeemable", "Closed"}
                            /\ final_share_snapshot = runs[r].snapshot
    BY DEF CompletedIsOnChain
  <2>1. Recorded(r) /\ r.kind \in {"reconstitution", "resolution"}
    BY LifecycleAssumption DEF CompletionInv
  <2>2. CASE r.kind = "reconstitution"
    <3>. PICK key \in Keys : key = CompleteKey(r)
      BY KeyOf DEF CompleteKey
    <3>1. submissions[key].state = "finalized" /\ key.step = "complete" /\ key.run = r
      BY <2>1, <2>2 DEF Recorded, CompleteKey, Key
    <3>. QED
      BY <2>2, <3>1 DEF CompletionInv, OnChain
  <2>3. CASE r.kind = "resolution"
    <3>1. PICK n \in Attempts :
            /\ submissions[Key(r, "submit", n)].state = "finalized"
            /\ submissions[Key(r, "submit", n)].batch = runs[r].snapshot
      BY <2>1, <2>3 DEF Recorded
    <3>. PICK key \in Keys : key = Key(r, "submit", n)
      BY KeyOf
    <3>2. key.step = "submit"
      BY DEF Key
    <3>. QED
      BY <2>3, <3>1, <3>2 DEF CompletionInv, OnChain
  <2>. QED
    BY <2>1, <2>2, <2>3
<1>. QED
  BY <1>1, <1>2, <1>3, KindsInvariant, PTL DEF LifecycleSpec

=============================================================================
