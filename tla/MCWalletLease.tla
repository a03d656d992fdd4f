--------------------------- MODULE MCWalletLease ---------------------------
(* Two workers before one wallet, in units of twelve seconds. *)
EXTENDS WalletLease

CONSTANTS w1, w2, t1, t2, t3
=============================================================================
