---------------------------- MODULE MCExecution ----------------------------
(* Operations of one basket on one wallet. *)
EXTENDS Execution, TLC

CONSTANTS d, x, alice, bob, w1, w2, w3

\* Each operation is the first that its user signed for the basket.
TwoUsers == (d :> alice) @@ (x :> bob)
FirstIntents == (d :> 1) @@ (x :> 1)

\* Two overlapping attempts of x, one of d.
Overlapping == (w1 :> d) @@ (w2 :> x) @@ (w3 :> x)

\* The two attempts of x are interchangeable.
Symmetry == Permutations({w2, w3})

\* One attempt at a time for each operation.
OneEach == (w1 :> d) @@ (w2 :> x)
=============================================================================
