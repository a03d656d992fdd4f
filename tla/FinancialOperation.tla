------------------------- MODULE FinancialOperation -------------------------
(***************************************************************************)
(* What the backend promises of its financial operations, whatever crashes *)
(* and retries happen underneath: an operation settles at most once on     *)
(* chain, and is attributed to the basket's portfolio at most once, after  *)
(* its settlement and with the very batch that settled.  Which batch that  *)
(* is depends on prices and fills, so it is read off the next state.       *)
(***************************************************************************)

CONSTANTS
  Ops,       \* financial operations
  None       \* no batch yet

VARIABLES
  settlements,  \* the batches that settled on chain; b.op is b's operation
  attributed    \* for each operation, the batch in the portfolio ledger

vars == <<settlements, attributed>>

Init ==
  /\ settlements = {}
  /\ attributed = [op \in Ops |-> None]

Settle(op) ==
  /\ \A s \in settlements : s.op # op
  /\ \E b \in settlements' : b.op = op /\ settlements' = settlements \cup {b}
  /\ UNCHANGED attributed

Attribute(op) ==
  /\ attributed[op] = None
  /\ \E b \in settlements :
       b.op = op /\ attributed' = [attributed EXCEPT ![op] = b]
  /\ UNCHANGED settlements

Next == \E op \in Ops : Settle(op) \/ Attribute(op)

Spec == Init /\ [][Next]_vars

=============================================================================
