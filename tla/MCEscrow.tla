------------------------------ MODULE MCEscrow ------------------------------
(* A small basket for TLC: rates of a tenth instead of fractions of a percent *)
(* so that every rounding and every fee is visible at a supply of a few shares *)
EXTENDS Escrow, TLC

\* Users are interchangeable, and so are batch hashes.
Symmetry == Permutations(Users) \cup Permutations(Batches)
=============================================================================
