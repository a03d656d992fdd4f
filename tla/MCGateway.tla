------------------------------ MODULE MCGateway ------------------------------
(* Instances of Gateway for TLC. *)
EXTENDS Gateway, TLC

CONSTANTS order1, transfer1, swap1, swap2, split1, split2, receipt1, x, y, z, r1, r2

\* Two splits that name the transaction of one of two swaps, a transfer and one
\* FAK order.
MCKindOf ==
    (order1 :> "fak_order") @@ (transfer1 :> "pusd_transfer")
    @@ (swap1 :> "jupiter_swap") @@ (swap2 :> "jupiter_swap")
    @@ (split1 :> "solana_split") @@ (split2 :> "solana_split")

\* An order is retried with other content once.
MCContentsOf ==
    [k \in {order1, transfer1, swap1, swap2, split1, split2} |->
        CASE k = order1 -> {x, y} [] k = split2 -> {z} [] OTHER -> {x}]

MCSourcesOf == (x :> {<<swap1, 1>>, receipt1}) @@ (y :> {}) @@ (z :> {<<swap1, 1>>})

Symmetry == Permutations({r1, r2})
=============================================================================
