----------------------------- MODULE MCRegistry -----------------------------
(* One prediction market, one spot token and one perpetual market; baskets *)
(* of each, and two requests that create the same basket differently.      *)
EXTENDS Registry, TLC

FreshItem(kind, market) ==
  [kind |-> kind, market |-> market, terms |-> "long",
   subaccount |-> IF kind = "perp" THEN 1 ELSE 0,
   entry_mark_price |-> 0, margin_posted |-> 0]

CONSTANTS prediction, spot, perp

MCCompositions ==
  {{FreshItem("prediction", prediction)}, {FreshItem("spot", spot)}, {FreshItem("perp", perp)}}

MCMarketLists == {{}}
MCPerpMarketLists == {{perp}}

Request(items, markets, expiry) ==
  [basket |-> CHOOSE b \in Baskets : TRUE, items |-> items, markets |-> markets,
   list_nonce |-> 1, nonce |-> 1, is_perpetual |-> FALSE, expiry |-> expiry]

MCRequests == {Request({FreshItem("prediction", prediction)}, {prediction}, 1),
               Request({FreshItem("spot", spot)}, {}, 2)}

MCFills == {[market |-> perp, terms |-> "long", subaccount |-> 1, entry |-> p,
             margin |-> p + 1] : p \in 0 .. 1}

Symmetry == Permutations(Composers) \cup Permutations(Executions)
=============================================================================
