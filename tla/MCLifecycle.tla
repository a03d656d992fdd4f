---------------------------- MODULE MCLifecycle ----------------------------
(* One basket for TLC, perpetual or not: a reconstitution, a rival request for *)
(* the same version, and a resolution.                                         *)
EXTENDS Lifecycle, TLC

First  == [key |-> 1, kind |-> "reconstitution", version |-> 2, nonce |-> 2]
Rival  == [key |-> 2, kind |-> "reconstitution", version |-> 2, nonce |-> 3]
Final  == [key |-> 3, kind |-> "resolution", version |-> 0, nonce |-> 0]

MCRuns == {First, Rival, Final}

OnlyFinal == {Final}

Symmetry == Permutations(Callers) \cup Permutations(Batches)
=============================================================================
