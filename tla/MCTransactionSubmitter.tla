----------------------- MODULE MCTransactionSubmitter -----------------------
(* Two submitters of one operation. *)
EXTENDS TransactionSubmitter

CONSTANTS s1, s2
=============================================================================
