---------------------------- MODULE MCWorkQueue ----------------------------
(* A deposit and a withdrawal before two dispatchers. *)
EXTENDS WorkQueue

CONSTANTS d, x, p1, p2
=============================================================================
