-------------------------- MODULE LifecyclePromise --------------------------
(***************************************************************************)
(* What the lifecycle workflows promise about one basket: a run locks the  *)
(* basket, moves its assets and releases the basket again, each once and   *)
(* in this order, and two runs never have the basket locked together.      *)
(* A run may stop anywhere; how it is retried is not said here.            *)
(***************************************************************************)
EXTENDS FiniteSets

CONSTANT Runs

VARIABLES
  begun,     \* runs whose begin_* instruction has taken effect
  executed,  \* runs whose trades or redemptions are in the portfolio
  completed  \* runs whose completion the program has recorded

vars == <<begun, executed, completed>>

Init == begun = {} /\ executed = {} /\ completed = {}

\* The basket is free: whatever began has been completed.
Begin(r) ==
  /\ begun = completed
  /\ r \notin begun
  /\ begun' = begun \cup {r}
  /\ UNCHANGED <<executed, completed>>

Execute(r) ==
  /\ r \in begun \ completed
  /\ r \notin executed
  /\ executed' = executed \cup {r}
  /\ UNCHANGED <<begun, completed>>

Complete(r) ==
  /\ r \in executed
  /\ r \notin completed
  /\ completed' = completed \cup {r}
  /\ UNCHANGED <<begun, executed>>

Next == \E r \in Runs : Begin(r) \/ Execute(r) \/ Complete(r)

Spec == Init /\ [][Next]_vars

=============================================================================
