---------------------------- MODULE RegistryProofs ----------------------------
(***************************************************************************)
(* Theorems about the baskets of module Registry, for every set of items,  *)
(* lists, tokens, requests and Composer keys.                              *)
(*                                                                         *)
(* The argument: a basket takes up a composition only from a draft that is *)
(* validated at that moment (Authorised); a settlement changes one item    *)
(* and neither its terms nor the basket's version; and a basket moves      *)
(* forward only (Forward), so what a request knows of the basket it has    *)
(* created stays true until it opens the portfolio.                        *)
(***************************************************************************)
EXTENDS Registry, TLAPS

-----------------------------------------------------------------------------
(* The inductive invariant                                                 *)

\* An item of a perpetual market is alone in it, among its like.
PerpsApart(items) ==
  Has(items, "perp") =>
    \A i, j \in items : i.kind = "perp" /\ (i.market = j.market => i = j)

\* A composition that a basket may have, perpetual or not.
Sound(items, is_perpetual) ==
  /\ PerpsApart(items)
  /\ Has(items, "perp") => is_perpetual

BasketIsSound(b) ==
  LET basket == baskets[b]
  IN /\ basket.composition_hash = canonical_composition(basket.items)
     /\ Sound(basket.items, basket.is_perpetual)
     /\ Has(basket.items, "perp") => basket.status \in {"Active", "Reconstituting"}
     /\ basket.status = "absent" <=> basket.composition_version = 0
     /\ basket.status = "absent" => basket.last_settlement_nonce = 0

\* Receipts are of compositions and settlements that the basket has had.
ReceiptIsPast(r) ==
  LET basket == baskets[r.basket]
  IN /\ r.version \in 1 .. basket.composition_version
     /\ r.settlement_nonce <= basket.last_settlement_nonce

FillsOf(b, market) ==
  {r \in perp_receipts : /\ r.basket = b
                         /\ r.market = market
                         /\ r.version = baskets[b].composition_version}

Last(fills, r) ==
  r \in fills /\ \A q \in fills : q.settlement_nonce <= r.settlement_nonce

Priced(fills) == {r \in fills : r.entry > 0}

ItemIsSettled(b, i) ==
  LET fills == FillsOf(b, i.market)
  IN /\ \A r \in fills : Last(fills, r) => i.margin_posted = r.margin
     /\ \A r \in Priced(fills) : Last(Priced(fills), r) => i.entry_mark_price = r.entry

BasketsTyped == baskets \in [Baskets -> BasketType] /\ perp_receipts \subseteq ReceiptType

BasketsInv ==
  /\ BasketsTyped
  /\ \A b \in Baskets : BasketIsSound(b)
  /\ \A r \in perp_receipts : ReceiptIsPast(r)
  /\ \A b \in Baskets : \A i \in baskets[b].items : ItemIsSettled(b, i)

\* A request that is about to open the portfolio has created its basket.
ReadyToOpen(r) ==
  at[r] = "bootstrap" =>
    LET basket == baskets[r.basket]
    IN /\ basket.status # "absent"
       /\ basket.composition_version = 1 =>
            basket.composition_hash = canonical_composition(r.items)

ApiInv == PortfolioIsOfItsBasket /\ \A r \in Requests : ReadyToOpen(r)

\* The variables that BasketsInv leaves out.
RestTyped ==
  /\ {now, changes, faults} \subseteq Nat
  /\ config \in [composer_signer : Composers, paused : BOOLEAN]
  /\ tokens \subseteq Tokens
  /\ lists \cup perp_lists \subseteq ListType
  /\ \A d \in drafts : /\ d.items \in Compositions
                       /\ d.composition_hash = canonical_composition(d.items)
                       /\ d.composition_nonce \in Nat
                       /\ d.composer \in Composers
  /\ traders \subseteq Wallets
  /\ portfolios \in [Baskets -> {None} \cup SUBSET ItemTerms]
  /\ at \in [Requests -> {"idle", "list", "publish_list", "draft",
                          "publish_draft", "create", "bootstrap"}]

IInv == RestTyped /\ BasketsInv /\ ApiInv

-----------------------------------------------------------------------------
(* Compositions                                                            *)

LEMMA CompositionTypes ==
  ASSUME NEW items \in Compositions
  PROVE  items \subseteq Item /\ canonical_composition(items) \in SUBSET ItemTerms
<1>1. items \subseteq Item
  BY RegistryAssumption
<1>2. QED
  BY <1>1 DEF canonical_composition, Item, ItemTerms

\* What the property ActivatedWasEligible asks of a composition.
Eligible(items) ==
  \A i \in items :
    IF i.kind = "spot"
    THEN i.market \in tokens
    ELSE \E l \in IF i.kind = "perp" THEN perp_lists ELSE lists :
           i.market \in l.markets /\ l.expires_at > now

\* A draft that passes at the moment a basket takes it up is eligible then.
LEMMA AuthorisedIsEligible ==
  ASSUME NEW draft, NEW list \in lists, NEW is_perpetual,
         draft.items \in Compositions, Authorised(draft, list, is_perpetual)
  PROVE  /\ Eligible(draft.items)
         /\ Sound(draft.items, is_perpetual)
         /\ draft.composition_hash = canonical_composition(draft.items)
<1> DEFINE items == draft.items
<1>1. /\ Current(list)
      /\ validate_basket_items(items, list, is_perpetual)
      /\ draft.composition_hash = canonical_composition(items)
  BY DEF Authorised
<1>2. \A i \in items : i.kind \in Kinds
  BY CompositionTypes DEF Item
<1>3. ASSUME NEW i \in items
      PROVE  IF i.kind = "spot"
             THEN i.market \in tokens
             ELSE \E l \in IF i.kind = "perp" THEN perp_lists ELSE lists :
                    i.market \in l.markets /\ l.expires_at > now
  <2>1. CASE i.kind = "spot"
    BY <1>1, <2>1 DEF validate_basket_items
  <2>2. CASE i.kind = "prediction"
    BY <1>1, <2>2 DEF validate_basket_items, Current
  <2>3. CASE i.kind = "perp"
    <3>1. PICK l \in perp_lists : Current(l) /\ {j.market : j \in items} \subseteq l.markets
      BY <1>1, <2>3 DEF validate_basket_items, Has
    <3>2. QED
      BY <2>3, <3>1 DEF Current
  <2>4. QED
    BY <1>2, <2>1, <2>2, <2>3 DEF Kinds
<1>4. PerpsApart(items)
  <2> SUFFICES ASSUME Has(items, "perp"), NEW i \in items, NEW j \in items
               PROVE  i.kind = "perp" /\ (i.market = j.market => i = j)
    BY DEF PerpsApart
  <2>1. i.kind = "perp" /\ j.kind = "perp"
    BY <1>1, <1>2 DEF validate_basket_items, Has, Kinds
  <2>2. QED
    BY <1>1, <2>1 DEF validate_basket_items
<1>5. Has(items, "perp") => is_perpetual
  BY <1>1 DEF validate_basket_items
<1>6. QED
  BY <1>1, <1>3, <1>4, <1>5 DEF Eligible, Sound

-----------------------------------------------------------------------------
(* Steps of a basket                                                       *)

\* A basket moves forward only, and a version has one composition.
Forward ==
  \A b \in Baskets :
    /\ baskets[b].status # "absent" => baskets'[b].status # "absent"
    /\ baskets[b].composition_version <= baskets'[b].composition_version
    /\ baskets[b].composition_version = baskets'[b].composition_version =>
         baskets[b].composition_hash = baskets'[b].composition_hash

ActivatesEligible ==
  \A b \in Baskets :
    baskets'[b].composition_version # baskets[b].composition_version =>
      Eligible(baskets'[b].items)

LEMMA BasketsKept ==
  ASSUME BasketsInv, UNCHANGED <<baskets, perp_receipts>>
  PROVE  BasketsInv' /\ Forward /\ ActivatesEligible
<1>1. BasketsInv'
  BY DEF BasketsInv, BasketsTyped, BasketIsSound, ReceiptIsPast, ItemIsSettled, FillsOf,
         Last, Priced
<1>2. \A b \in Baskets : baskets[b].composition_version \in Nat
  BY DEF BasketsInv, BasketsTyped, BasketType
<1>3. QED
  BY <1>1, <1>2 DEF Forward, ActivatesEligible

\* A basket takes up a composition, as its next version.
LEMMA ActivationKeepsBaskets ==
  ASSUME BasketsInv, UNCHANGED perp_receipts,
         NEW b \in Baskets, NEW basket \in BasketType,
         basket.status = "Active",
         basket.composition_hash = canonical_composition(basket.items),
         basket.composition_version = baskets[b].composition_version + 1,
         basket.last_settlement_nonce = baskets[b].last_settlement_nonce,
         Sound(basket.items, basket.is_perpetual),
         Eligible(basket.items),
         baskets' = [baskets EXCEPT ![b] = basket]
  PROVE  BasketsInv' /\ Forward /\ ActivatesEligible
<1>1. /\ baskets'[b] = basket
      /\ \A c \in Baskets \ {b} : baskets'[c] = baskets[c]
      /\ baskets[b] \in BasketType
      /\ BasketsTyped'
  BY DEF BasketsInv, BasketsTyped
<1>2. baskets[b].composition_version \in Nat
  BY <1>1 DEF BasketType
<1>3. \A c \in Baskets : BasketIsSound(c)'
  BY <1>1, <1>2 DEF BasketsInv, BasketIsSound
<1>4. \A r \in perp_receipts : ReceiptIsPast(r)'
  BY <1>1, <1>2 DEF BasketsInv, BasketsTyped, ReceiptIsPast, ReceiptType
<1>5. \A c \in Baskets : \A i \in baskets'[c].items : ItemIsSettled(c, i)'
  <2>1. \A m : FillsOf(b, m)' = {}
    BY <1>1, <1>2 DEF BasketsInv, BasketsTyped, ReceiptIsPast, ReceiptType, FillsOf
  <2>2. \A c \in Baskets \ {b} : \A m : FillsOf(c, m)' = FillsOf(c, m)
    BY <1>1 DEF FillsOf
  <2>3. QED
    BY <1>1, <2>1, <2>2 DEF BasketsInv, ItemIsSettled, Last, Priced
<1>6. BasketsInv'
  BY <1>1, <1>3, <1>4, <1>5 DEF BasketsInv
<1>7. Forward
  BY <1>1, <1>2 DEF Forward, BasketsInv, BasketsTyped, BasketType
<1>8. QED
  BY <1>1, <1>6, <1>7 DEF ActivatesEligible

LEMMA CreateKeepsBaskets ==
  ASSUME IInv, UNCHANGED perp_receipts,
         NEW b \in Baskets, NEW d \in drafts, NEW l \in lists,
         NEW p \in BOOLEAN, NEW t, create_basket(b, d, l, p, t)
  PROVE  BasketsInv' /\ Forward /\ ActivatesEligible
<1>1. d.items \in Compositions /\ d.composition_nonce \in Nat
  BY DEF IInv, RestTyped
<1>2. /\ Eligible(d.items)
      /\ Sound(d.items, p)
      /\ d.composition_hash = canonical_composition(d.items)
  BY <1>1, AuthorisedIsEligible DEF create_basket
<1>3. /\ baskets[b].composition_version = 0
      /\ baskets[b].last_settlement_nonce = 0
  BY DEF IInv, BasketsInv, BasketIsSound, create_basket
<1> DEFINE basket ==
      [status |-> "Active", is_perpetual |-> p, items |-> d.items,
       composition_hash |-> d.composition_hash, composition_version |-> 1,
       last_composition_nonce |-> d.composition_nonce, last_settlement_nonce |-> 0]
<1>4. basket \in BasketType
  BY <1>1, <1>2, CompositionTypes DEF BasketType
<1>5. baskets' = [baskets EXCEPT ![b] = basket]
  BY DEF create_basket
<1>6. /\ basket.status = "Active"
      /\ basket.is_perpetual = p
      /\ basket.items = d.items
      /\ basket.composition_hash = d.composition_hash
      /\ basket.composition_version = baskets[b].composition_version + 1
      /\ basket.last_settlement_nonce = baskets[b].last_settlement_nonce
  BY <1>3
<1> HIDE DEF basket
<1>7. QED
  BY <1>2, <1>4, <1>5, <1>6, ActivationKeepsBaskets DEF IInv

LEMMA ReconstitutionKeepsBaskets ==
  ASSUME IInv, UNCHANGED perp_receipts,
         NEW b \in Baskets, NEW d \in drafts, NEW l \in lists,
         NEW t, complete_reconstitution(b, d, l, t)
  PROVE  BasketsInv' /\ Forward /\ ActivatesEligible
<1>1. d.items \in Compositions /\ d.composition_nonce \in Nat
  BY DEF IInv, RestTyped
<1>2. /\ Eligible(d.items)
      /\ Sound(d.items, baskets[b].is_perpetual)
      /\ d.composition_hash = canonical_composition(d.items)
  BY <1>1, AuthorisedIsEligible DEF complete_reconstitution
<1>3. baskets \in [Baskets -> BasketType]
  BY DEF IInv, BasketsInv, BasketsTyped
<1> DEFINE basket == baskets'[b]
<1>4. /\ baskets' = [baskets EXCEPT ![b] = basket]
      /\ basket.status = "Active"
      /\ basket.is_perpetual = baskets[b].is_perpetual
      /\ basket.items = d.items
      /\ basket.composition_hash = d.composition_hash
      /\ basket.composition_version = baskets[b].composition_version + 1
      /\ basket.last_composition_nonce = d.composition_nonce
      /\ basket.last_settlement_nonce = baskets[b].last_settlement_nonce
  BY <1>3 DEF complete_reconstitution, BasketType
<1>5. basket \in BasketType
  <2>1. d.items \in SUBSET Item /\ d.composition_hash \in SUBSET ItemTerms
    BY <1>1, <1>2, CompositionTypes
  <2>2. QED
    BY <1>1, <1>3, <2>1 DEF complete_reconstitution, BasketType
<1> HIDE DEF basket
<1>6. QED
  BY <1>2, <1>4, <1>5, ActivationKeepsBaskets DEF IInv

\* The status changes that keep the composition; none of them creates a basket,
\* and none but a reconstitution happens to a basket with a perpetual item.
LEMMA StatusKeepsBaskets ==
  ASSUME BasketsInv, UNCHANGED perp_receipts, NEW b \in Baskets,
         \/ begin_reconstitution(b)
         \/ begin_resolution(b)
         \/ record_final_settlement(b)
  PROVE  BasketsInv' /\ Forward /\ ActivatesEligible
<1>1. baskets \in [Baskets -> BasketType]
  BY DEF BasketsInv, BasketsTyped
<1>2. PICK status \in {"Reconstituting", "Resolving", "Redeemable"} :
        /\ baskets' = [baskets EXCEPT ![b].status = status]
        /\ status # "Reconstituting" => ~Has(baskets[b].items, "perp")
        /\ baskets[b].status # "absent"
  <2>1. CASE begin_reconstitution(b)
    BY <2>1 DEF begin_reconstitution, SetStatus
  <2>2. CASE begin_resolution(b)
    BY <2>2 DEF begin_resolution, SetStatus, BasketsInv, BasketIsSound, Sound
  <2>3. CASE record_final_settlement(b)
    BY <2>3 DEF record_final_settlement, SetStatus, BasketsInv, BasketIsSound
  <2>4. QED
    BY <2>1, <2>2, <2>3
<1>3. /\ baskets'[b].status = status
      /\ \A c \in Baskets \ {b} : baskets'[c] = baskets[c]
      /\ BasketsTyped'
  BY <1>1, <1>2 DEF BasketsInv, BasketsTyped, BasketType
<1>4. \A c \in Baskets :
        /\ baskets'[c].is_perpetual = baskets[c].is_perpetual
        /\ baskets'[c].items = baskets[c].items
        /\ baskets'[c].composition_hash = baskets[c].composition_hash
        /\ baskets'[c].composition_version = baskets[c].composition_version
        /\ baskets'[c].last_settlement_nonce = baskets[c].last_settlement_nonce
        /\ baskets[c].composition_version \in Nat
  BY <1>1, <1>2 DEF BasketType
<1>5. \A c \in Baskets : BasketIsSound(c)'
  BY <1>2, <1>3, <1>4 DEF BasketsInv, BasketIsSound
<1>6. \A r \in perp_receipts : ReceiptIsPast(r)'
  BY <1>4 DEF BasketsInv, BasketsTyped, ReceiptIsPast, ReceiptType
<1>7. \A c \in Baskets : \A i \in baskets'[c].items : ItemIsSettled(c, i)'
  <2>1. \A c \in Baskets : \A m : FillsOf(c, m)' = FillsOf(c, m)
    BY <1>4 DEF FillsOf
  <2>2. QED
    BY <1>4, <2>1 DEF BasketsInv, ItemIsSettled, Last, Priced
<1>8. BasketsInv'
  BY <1>3, <1>5, <1>6, <1>7 DEF BasketsInv
<1>9. QED
  BY <1>2, <1>3, <1>4, <1>8 DEF Forward, ActivatesEligible

LEMMA SettleKeepsBaskets ==
  ASSUME BasketsInv, NEW b \in Baskets, NEW n \in Nat, settle(b, n)
  PROVE  BasketsInv' /\ Forward /\ ActivatesEligible
<1>1. baskets \in [Baskets -> BasketType]
  BY DEF BasketsInv, BasketsTyped
<1>2. /\ baskets' = [baskets EXCEPT ![b].last_settlement_nonce = n]
      /\ n > baskets[b].last_settlement_nonce
      /\ baskets[b].status # "absent"
      /\ UNCHANGED perp_receipts
  BY DEF settle, SettlesInOrder
<1>3. /\ baskets'[b].last_settlement_nonce = n
      /\ \A c \in Baskets \ {b} : baskets'[c] = baskets[c]
      /\ BasketsTyped'
  BY <1>1, <1>2 DEF BasketsInv, BasketsTyped, BasketType
<1>4. \A c \in Baskets :
        /\ baskets'[c].status = baskets[c].status
        /\ baskets'[c].is_perpetual = baskets[c].is_perpetual
        /\ baskets'[c].items = baskets[c].items
        /\ baskets'[c].composition_hash = baskets[c].composition_hash
        /\ baskets'[c].composition_version = baskets[c].composition_version
        /\ baskets[c].composition_version \in Nat
        /\ baskets[c].last_settlement_nonce \in Nat
  BY <1>1, <1>2 DEF BasketType
<1>5. \A c \in Baskets : BasketIsSound(c)'
  BY <1>2, <1>3, <1>4 DEF BasketsInv, BasketIsSound
<1>6. \A r \in perp_receipts : ReceiptIsPast(r)'
  BY <1>2, <1>3, <1>4 DEF BasketsInv, BasketsTyped, ReceiptIsPast, ReceiptType
<1>7. \A c \in Baskets : \A i \in baskets'[c].items : ItemIsSettled(c, i)'
  <2>1. \A c \in Baskets : \A m : FillsOf(c, m)' = FillsOf(c, m)
    BY <1>2, <1>4 DEF FillsOf
  <2>2. QED
    BY <1>4, <2>1 DEF BasketsInv, ItemIsSettled, Last, Priced
<1>8. BasketsInv'
  BY <1>2, <1>3, <1>5, <1>6, <1>7 DEF BasketsInv
<1>9. QED
  BY <1>4, <1>8 DEF Forward, ActivatesEligible

\* A trade replaces the one item of its market by one of the same terms, and
\* takes the last place in the sequence of settlements.
LEMMA TradeKeepsBaskets ==
  ASSUME BasketsInv, NEW b \in Baskets, NEW e \in Executions, NEW w,
         NEW f \in Fills, NEW side, NEW v \in Nat, NEW n \in Nat,
         complete_phoenix_trade(b, e, w, f, side, v, n)
  PROVE  BasketsInv' /\ Forward /\ ActivatesEligible
<1> DEFINE items == baskets[b].items
<1>1. /\ baskets \in [Baskets -> BasketType]
      /\ perp_receipts \subseteq ReceiptType
      /\ f.entry \in Nat /\ f.margin \in Nat
  BY RegistryAssumption DEF BasketsInv, BasketsTyped
<1>2. /\ baskets[b].status = "Active"
      /\ baskets[b].composition_version = v
      /\ n > baskets[b].last_settlement_nonce
  BY DEF complete_phoenix_trade, BoundToComposition, SettlesInOrder
<1>3. PICK item \in items :
        /\ item.market = f.market /\ item.kind = "perp"
        /\ baskets' = [baskets EXCEPT
             ![b].items = (items \ {item}) \cup
                {[item EXCEPT !.margin_posted = f.margin,
                              !.entry_mark_price =
                                IF f.entry > 0 THEN f.entry ELSE item.entry_mark_price]},
             ![b].last_settlement_nonce = n]
  BY DEF complete_phoenix_trade, SettleFill
<1>4. PICK settled \in Item :
        /\ settled.kind = "perp" /\ settled.market = f.market
        /\ settled.terms = item.terms /\ settled.subaccount = item.subaccount
        /\ settled.margin_posted = f.margin
        /\ settled.entry_mark_price = IF f.entry > 0 THEN f.entry ELSE item.entry_mark_price
        /\ baskets' = [baskets EXCEPT ![b].items = (items \ {item}) \cup {settled},
                                      ![b].last_settlement_nonce = n]
  <2> DEFINE new == [item EXCEPT !.margin_posted = f.margin,
                                 !.entry_mark_price =
                                   IF f.entry > 0 THEN f.entry ELSE item.entry_mark_price]
  <2>1. item \in Item
    BY <1>1 DEF BasketType
  <2>2. /\ new \in Item
        /\ new.kind = "perp" /\ new.market = f.market
        /\ new.terms = item.terms /\ new.subaccount = item.subaccount
        /\ new.margin_posted = f.margin
        /\ new.entry_mark_price = IF f.entry > 0 THEN f.entry ELSE item.entry_mark_price
    BY <1>1, <1>3, <2>1 DEF Item
  <2>3. baskets' = [baskets EXCEPT ![b].items = (items \ {item}) \cup {new},
                                   ![b].last_settlement_nonce = n]
    BY <1>3
  <2> HIDE DEF new
  <2>4. QED
    BY <2>2, <2>3
<1>5. PICK receipt \in ReceiptType :
        /\ receipt.basket = b /\ receipt.version = v /\ receipt.market = f.market
        /\ receipt.entry = f.entry /\ receipt.margin = f.margin
        /\ receipt.settlement_nonce = n
        /\ perp_receipts' = perp_receipts \cup {receipt}
  <2> DEFINE new == [execution |-> e, basket |-> b, version |-> v,
                     market |-> f.market, entry |-> f.entry, margin |-> f.margin,
                     settlement_nonce |-> n]
  <2>1. /\ new \in ReceiptType
        /\ new.basket = b /\ new.version = v /\ new.market = f.market
        /\ new.entry = f.entry /\ new.margin = f.margin /\ new.settlement_nonce = n
    BY <1>1 DEF ReceiptType
  <2>2. perp_receipts' = perp_receipts \cup {new}
    BY DEF complete_phoenix_trade, SettleFill
  <2> HIDE DEF new
  <2>3. QED
    BY <2>1, <2>2
<1>6. /\ baskets'[b].items = (items \ {item}) \cup {settled}
      /\ baskets'[b].last_settlement_nonce = n
      /\ \A c \in Baskets \ {b} : baskets'[c] = baskets[c]
      /\ baskets' \in [Baskets -> BasketType]
  BY <1>1, <1>4 DEF BasketType
<1>7. \A c \in Baskets :
        /\ baskets'[c].status = baskets[c].status
        /\ baskets'[c].is_perpetual = baskets[c].is_perpetual
        /\ baskets'[c].composition_hash = baskets[c].composition_hash
        /\ baskets'[c].composition_version = baskets[c].composition_version
        /\ baskets[c].composition_version \in Nat
        /\ baskets[c].last_settlement_nonce \in Nat
  BY <1>1, <1>4 DEF BasketType
<1>8. Has(items, "perp") /\ PerpsApart(items)
  BY <1>3 DEF BasketsInv, BasketIsSound, Sound, Has
<1>9. BasketsTyped'
  BY <1>1, <1>5, <1>6 DEF BasketsTyped
<1>10. \A c \in Baskets : BasketIsSound(c)'
  <2>1. canonical_composition(baskets'[b].items) = canonical_composition(items)
    BY <1>3, <1>4, <1>6 DEF canonical_composition
  <2>2. PerpsApart(baskets'[b].items)
    BY <1>3, <1>4, <1>6, <1>8 DEF PerpsApart
  <2>3. BasketIsSound(b)'
    BY <1>2, <1>7, <1>8, <2>1, <2>2 DEF BasketsInv, BasketIsSound, Sound
  <2>4. QED
    BY <1>6, <2>3 DEF BasketsInv, BasketIsSound
<1>11. \A r \in perp_receipts' : ReceiptIsPast(r)'
  <2>1. /\ baskets[b].composition_version \in Nat \ {0}
        /\ baskets[b].last_settlement_nonce \in Nat
    BY <1>1, <1>2 DEF BasketsInv, BasketIsSound, BasketType
  <2>2. ReceiptIsPast(receipt)'
    BY <1>2, <1>5, <1>6, <1>7, <2>1 DEF ReceiptIsPast
  <2>3. ASSUME NEW r \in perp_receipts PROVE ReceiptIsPast(r)'
    <3>1. /\ r.basket \in Baskets /\ r.settlement_nonce \in Nat /\ ReceiptIsPast(r)
      BY <1>1 DEF BasketsInv, ReceiptType
    <3>2. QED
      BY <1>2, <1>6, <1>7, <2>1, <3>1 DEF ReceiptIsPast
  <2>4. QED
    BY <1>5, <2>2, <2>3
<1>12. \A c \in Baskets : \A i \in baskets'[c].items : ItemIsSettled(c, i)'
  <2>1. \A c \in Baskets : \A m :
          c # b \/ m # f.market => FillsOf(c, m)' = FillsOf(c, m)
    BY <1>5, <1>7 DEF FillsOf
  <2>2. ASSUME NEW c \in Baskets \ {b}, NEW i \in baskets'[c].items
        PROVE  ItemIsSettled(c, i)'
    BY <1>6, <2>1, <2>2 DEF BasketsInv, ItemIsSettled, Last, Priced
  <2>3. ASSUME NEW i \in items, i # item PROVE ItemIsSettled(b, i)'
    <3>1. i.market # f.market
      BY <1>3, <1>8, <2>3 DEF PerpsApart
    <3>2. QED
      BY <2>1, <3>1 DEF BasketsInv, ItemIsSettled, Last, Priced
  <2>4. ItemIsSettled(b, settled)'
    <3> DEFINE fills == FillsOf(b, f.market)
    <3>1. FillsOf(b, f.market)' = fills \cup {receipt}
      BY <1>2, <1>5, <1>7 DEF FillsOf
    <3> HIDE DEF fills
    <3>2. \A r \in fills : r.settlement_nonce \in Nat /\ r.settlement_nonce < n
      <4>1. \A r \in fills : r \in perp_receipts /\ r.basket = b
        BY DEF fills, FillsOf
      <4>2. \A r \in fills : /\ r.settlement_nonce \in Nat
                             /\ r.settlement_nonce <= baskets[b].last_settlement_nonce
        BY <1>1, <4>1 DEF BasketsInv, ReceiptIsPast, ReceiptType
      <4>3. baskets[b].last_settlement_nonce \in Nat
        BY <1>1 DEF BasketType
      <4>4. QED
        BY <1>2, <4>2, <4>3
    <3>3. ItemIsSettled(b, item) /\ item.market = f.market
      BY <1>3 DEF BasketsInv
    <3>4. \A r \in fills \cup {receipt} :
            Last(fills \cup {receipt}, r) => settled.margin_posted = r.margin
      BY <1>4, <1>5, <3>2 DEF Last
    <3>5. \A r \in Priced(fills \cup {receipt}) :
            Last(Priced(fills \cup {receipt}), r) => settled.entry_mark_price = r.entry
      <4>1. CASE f.entry > 0
        BY <1>4, <1>5, <3>2, <4>1 DEF Last, Priced
      <4>2. CASE ~(f.entry > 0)
        <5>1. Priced(fills \cup {receipt}) = Priced(fills)
          BY <1>5, <4>2 DEF Priced
        <5>2. QED
          BY <1>4, <3>3, <4>2, <5>1 DEF fills, ItemIsSettled
      <4>3. QED
        BY <4>1, <4>2
    <3>6. QED
      BY <1>4, <3>1, <3>4, <3>5 DEF ItemIsSettled, Last, Priced
  <2>5. QED
    BY <1>6, <2>2, <2>3, <2>4
<1>13. BasketsInv'
  BY <1>9, <1>10, <1>11, <1>12 DEF BasketsInv
<1>14. QED
  BY <1>7, <1>13 DEF Forward, ActivatesEligible

-----------------------------------------------------------------------------
(* What a request and a portfolio know of their basket stays true          *)

LEMMA PortfoliosKept ==
  ASSUME BasketsInv, PortfolioIsOfItsBasket, Forward, UNCHANGED portfolios
  PROVE  PortfolioIsOfItsBasket'
<1> SUFFICES ASSUME NEW b \in Baskets, portfolios[b] # None
             PROVE  /\ baskets'[b].status # "absent"
                    /\ baskets'[b].composition_version = 1 =>
                         portfolios[b] = baskets'[b].composition_hash
  BY DEF PortfolioIsOfItsBasket
<1>1. /\ baskets[b].status # "absent"
      /\ baskets[b].composition_version = 1 => portfolios[b] = baskets[b].composition_hash
  BY DEF PortfolioIsOfItsBasket
<1>2. baskets[b].composition_version \in Nat \ {0}
  BY <1>1 DEF BasketsInv, BasketsTyped, BasketType, BasketIsSound
<1>3. QED
  BY <1>1, <1>2 DEF Forward

LEMMA ReadinessKept ==
  ASSUME BasketsInv, Forward, NEW r \in Requests, ReadyToOpen(r),
         at'[r] = "bootstrap" => at[r] = "bootstrap"
  PROVE  ReadyToOpen(r)'
<1> SUFFICES ASSUME at[r] = "bootstrap", at'[r] = "bootstrap" PROVE ReadyToOpen(r)'
  BY DEF ReadyToOpen
<1>1. r.basket \in Baskets
  BY RegistryAssumption
<1>2. /\ baskets[r.basket].status # "absent"
      /\ baskets[r.basket].composition_version = 1 =>
           baskets[r.basket].composition_hash = canonical_composition(r.items)
  BY DEF ReadyToOpen
<1>3. baskets[r.basket].composition_version \in Nat \ {0}
  BY <1>1, <1>2 DEF BasketsInv, BasketsTyped, BasketType, BasketIsSound
<1>4. QED
  BY <1>1, <1>2, <1>3 DEF Forward, ReadyToOpen

\* Steps of the program and the Composer's tools leave the requests alone.
LEMMA ApiKept ==
  ASSUME IInv, Forward, UNCHANGED <<portfolios, at>>
  PROVE  ApiInv'
BY PortfoliosKept, ReadinessKept DEF IInv, ApiInv

-----------------------------------------------------------------------------
(* Steps of the program, whoever calls it                                  *)

LEMMA ListTyped ==
  ASSUME IInv, NEW markets, NEW nonce \in Nat, NEW expires \in Nat,
         markets \in MarketLists \cup PerpMarketLists \cup {r.markets : r \in Requests}
  PROVE  List(markets, nonce, expires) \in ListType
BY DEF IInv, RestTyped, List, ListType

LEMMA DraftTyped ==
  ASSUME IInv, NEW items \in Compositions, NEW l, NEW nonce \in Nat,
         publish_composition_draft(items, l, nonce)
  PROVE  \A d \in drafts' : /\ d.items \in Compositions
                            /\ d.composition_hash = canonical_composition(d.items)
                            /\ d.composition_nonce \in Nat
                            /\ d.composer \in Composers
BY DEF IInv, RestTyped, publish_composition_draft

LEMMA BoundsTyped ==
  /\ Times \subseteq Nat /\ Nonces \subseteq Nat /\ ListNonces \subseteq Nat
  /\ 1 .. MaxSettlementNonce \subseteq Nat
BY RegistryAssumption DEF Times, Nonces

\* Time, the configuration, the registries and the traders are not the basket's.
LEMMA ElsewhereKeeps ==
  ASSUME IInv, RestTyped', UNCHANGED <<baskets, perp_receipts, portfolios, at>>
  PROVE  IInv' /\ ActivatesEligible
<1>1. BasketsInv' /\ Forward /\ ActivatesEligible
  BY BasketsKept DEF IInv
<1>2. QED
  BY <1>1, ApiKept DEF IInv

LEMMA ConfigurationKeeps ==
  ASSUME IInv, Tick \/ Configuration \/ \E t \in Tokens, on \in BOOLEAN : register_token(t, on)
  PROVE  IInv' /\ ActivatesEligible
<1>1. CASE Tick
  <2>1. RestTyped'
    BY <1>1 DEF IInv, RestTyped, Tick, registryVars, apiVars
  <2>2. QED
    BY <1>1, <2>1, ElsewhereKeeps DEF Tick, apiVars
<1>2. CASE Configuration
  <2>1. RestTyped'
    <3>1. config' \in [composer_signer : Composers, paused : BOOLEAN]
      BY <1>2 DEF IInv, RestTyped, Configuration, set_authorities, set_paused, Reconfigure
    <3>2. QED
      BY <1>2, <3>1 DEF IInv, RestTyped, Configuration, set_authorities, set_paused,
                        Reconfigure, registryVars, apiVars
  <2>2. QED
    BY <1>2, <2>1, ElsewhereKeeps
    DEF Configuration, set_authorities, set_paused, Reconfigure, apiVars
<1>3. CASE \E t \in Tokens, on \in BOOLEAN : register_token(t, on)
  <2>1. RestTyped'
    BY <1>3 DEF IInv, RestTyped, register_token, apiVars
  <2>2. QED
    BY <1>3, <2>1, ElsewhereKeeps DEF register_token, apiVars
<1>4. QED
  BY <1>1, <1>2, <1>3

LEMMA PublicationKeeps ==
  ASSUME IInv, Publication
  PROVE  IInv' /\ ActivatesEligible
<1>1. CASE \E m \in MarketLists, n \in ListNonces, t \in Times :
             publish_eligibility_list(m, n, t)
  <2>1. lists' \subseteq ListType
    BY <1>1, ListTyped, BoundsTyped DEF publish_eligibility_list, IInv, RestTyped
  <2>2. UNCHANGED <<tokens, perp_lists, drafts>>
    BY <1>1 DEF publish_eligibility_list
  <2>3. RestTyped'
    BY <2>1, <2>2 DEF Publication, IInv, RestTyped, apiVars
  <2>4. QED
    BY <2>3, ElsewhereKeeps DEF Publication, apiVars
<1>2. CASE \E m \in PerpMarketLists, n \in ListNonces, t \in Times :
             publish_perp_eligibility_list(m, n, t)
  <2>1. perp_lists' \subseteq ListType
    BY <1>2, ListTyped, BoundsTyped DEF publish_perp_eligibility_list, IInv, RestTyped
  <2>2. UNCHANGED <<tokens, lists, drafts>>
    BY <1>2 DEF publish_perp_eligibility_list
  <2>3. RestTyped'
    BY <2>1, <2>2 DEF Publication, IInv, RestTyped, apiVars
  <2>4. QED
    BY <2>3, ElsewhereKeeps DEF Publication, apiVars
<1>3. CASE \E items \in Compositions, l \in lists, n \in Nonces :
             publish_composition_draft(items, l, n)
  <2>1. \A d \in drafts' : /\ d.items \in Compositions
                           /\ d.composition_hash = canonical_composition(d.items)
                           /\ d.composition_nonce \in Nat
                           /\ d.composer \in Composers
    BY <1>3, DraftTyped, BoundsTyped
  <2>2. UNCHANGED <<tokens, lists, perp_lists>>
    BY <1>3 DEF publish_composition_draft
  <2>3. RestTyped'
    BY <2>1, <2>2 DEF Publication, IInv, RestTyped, apiVars
  <2>4. QED
    BY <2>3, ElsewhereKeeps DEF Publication, apiVars
<1>4. QED
  BY <1>1, <1>2, <1>3 DEF Publication

LEMMA CompositionKeeps ==
  ASSUME IInv, Composition
  PROVE  IInv' /\ ActivatesEligible
<1>1. RestTyped'
  BY DEF IInv, RestTyped, Composition, registryVars, apiVars
<1>2. UNCHANGED <<perp_receipts, portfolios, at>>
  BY DEF Composition, apiVars
<1>3. BasketsInv' /\ Forward /\ ActivatesEligible
  <2>1. CASE \E b \in Baskets, d \in drafts, l \in lists, p \in BOOLEAN, t \in Times :
               create_basket(b, d, l, p, t)
    BY <1>2, <2>1, CreateKeepsBaskets
  <2>2. CASE \E b \in Baskets : \/ begin_reconstitution(b)
                                \/ begin_resolution(b)
                                \/ record_final_settlement(b)
    BY <1>2, <2>2, StatusKeepsBaskets DEF IInv
  <2>3. CASE \E b \in Baskets, d \in drafts, l \in lists, t \in Times :
               complete_reconstitution(b, d, l, t)
    BY <1>2, <2>3, ReconstitutionKeepsBaskets
  <2>4. QED
    BY <2>1, <2>2, <2>3 DEF Composition
<1>4. QED
  BY <1>1, <1>2, <1>3, ApiKept DEF IInv

LEMMA SettlementKeeps ==
  ASSUME IInv, Settlement
  PROVE  IInv' /\ ActivatesEligible
<1>1. CASE \E w \in Wallets : onboard_trader_account(w)
  BY <1>1, ElsewhereKeeps DEF onboard_trader_account, IInv, RestTyped, registryVars, apiVars
<1>2. CASE \E b \in Baskets, e \in Executions, w \in Wallets, f \in Fills,
              side \in {"Open", "Close"} :
             \E v \in 1 .. baskets[b].composition_version, n \in 1 .. MaxSettlementNonce :
               complete_phoenix_trade(b, e, w, f, side, v, n)
  <2>1. PICK b \in Baskets, e \in Executions, w \in Wallets, f \in Fills,
             side \in {"Open", "Close"} :
             \E v \in 1 .. baskets[b].composition_version, n \in 1 .. MaxSettlementNonce :
               complete_phoenix_trade(b, e, w, f, side, v, n)
    BY <1>2
  <2>2. PICK v \in 1 .. baskets[b].composition_version, n \in 1 .. MaxSettlementNonce :
               complete_phoenix_trade(b, e, w, f, side, v, n)
    BY <2>1
  <2>3. v \in Nat /\ n \in Nat
    BY BoundsTyped DEF IInv, BasketsInv, BasketsTyped, BasketType
  <2>4. BasketsInv' /\ Forward /\ ActivatesEligible
    BY <2>2, <2>3, TradeKeepsBaskets DEF IInv
  <2>5. RestTyped' /\ UNCHANGED <<portfolios, at>>
    BY <2>2 DEF complete_phoenix_trade, IInv, RestTyped, registryVars, apiVars
  <2>6. QED
    BY <2>4, <2>5, ApiKept DEF IInv
<1>3. CASE \E b \in Baskets, n \in 1 .. MaxSettlementNonce : settle(b, n)
  <2>1. PICK b \in Baskets, n \in 1 .. MaxSettlementNonce : settle(b, n)
    BY <1>3
  <2>2. BasketsInv' /\ Forward /\ ActivatesEligible
    BY <2>1, BoundsTyped, SettleKeepsBaskets DEF IInv
  <2>3. RestTyped' /\ UNCHANGED <<portfolios, at>>
    BY <2>1 DEF settle, IInv, RestTyped, registryVars, apiVars
  <2>4. QED
    BY <2>2, <2>3, ApiKept DEF IInv
<1>4. QED
  BY <1>1, <1>2, <1>3 DEF Settlement

-----------------------------------------------------------------------------
(* Steps of a request                                                      *)

\* A step that leaves the baskets and the portfolios alone, and makes no
\* request ready to open one.
LEMMA RequestKeeps ==
  ASSUME IInv, RestTyped', UNCHANGED <<baskets, perp_receipts, portfolios>>,
         \A r \in Requests : at'[r] = "bootstrap" => at[r] = "bootstrap"
  PROVE  IInv' /\ ActivatesEligible
<1>1. BasketsInv' /\ Forward /\ ActivatesEligible
  BY BasketsKept DEF IInv
<1>2. PortfolioIsOfItsBasket'
  BY <1>1, PortfoliosKept DEF IInv, ApiInv
<1>3. \A r \in Requests : ReadyToOpen(r)'
  BY <1>1, ReadinessKept DEF IInv, ApiInv
<1>4. QED
  BY <1>1, <1>2, <1>3 DEF IInv, ApiInv

LEMMA RequestMoves ==
  ASSUME IInv, NEW r \in Requests,
         NEW step \in {"idle", "list", "publish_list", "draft", "publish_draft", "create",
                       "bootstrap"},
         Goto(r, step)
  PROVE  /\ at' \in [Requests -> {"idle", "list", "publish_list", "draft",
                                  "publish_draft", "create", "bootstrap"}]
         /\ at'[r] = step
         /\ \A q \in Requests \ {r} : at'[q] = at[q]
BY DEF IInv, RestTyped, Goto

LEMMA PlainStepKeeps ==
  ASSUME IInv, NEW r \in Requests, request(r) \/ look_up(r) \/ Crash(r)
  PROVE  IInv' /\ ActivatesEligible
<1>1. PICK step \in {"idle", "list", "publish_list", "draft", "publish_draft", "create"} :
        Goto(r, step)
  BY DEF request, look_up, Crash
<1>2. /\ UNCHANGED <<now, config, changes, registryVars, baskets, traders, perp_receipts,
                     portfolios>>
      /\ faults' \in Nat
  BY DEF request, look_up, Crash, IInv, RestTyped
<1>3. RestTyped'
  BY <1>1, <1>2, RequestMoves DEF IInv, RestTyped, registryVars
<1>4. QED
  BY <1>1, <1>2, <1>3, RequestMoves, RequestKeeps

LEMMA PublishKeeps ==
  ASSUME IInv, NEW r \in Requests, publish(r)
  PROVE  IInv' /\ ActivatesEligible
<1>1. r.items \in Compositions /\ r.nonce \in Nat /\ r.list_nonce \in Nat /\ r.expiry \in Nat
  BY RegistryAssumption
<1>2. UNCHANGED <<now, config, changes, baskets, traders, perp_receipts, portfolios>>
  BY DEF publish
<1>3. PICK step \in {"idle", "draft", "create"} : Goto(r, step)
  BY DEF publish, SendAndConfirm
<1>4. faults' \in Nat
  BY DEF publish, SendAndConfirm, IInv, RestTyped
<1>5. \/ UNCHANGED registryVars
      \/ publish_eligibility_list(r.markets, r.list_nonce, r.expiry)
      \/ \E l \in ListOf(r) : publish_composition_draft(r.items, l, r.nonce)
  BY DEF publish, SendAndConfirm
<1>6. /\ tokens' \subseteq Tokens
      /\ lists' \cup perp_lists' \subseteq ListType
      /\ \A d \in drafts' : /\ d.items \in Compositions
                            /\ d.composition_hash = canonical_composition(d.items)
                            /\ d.composition_nonce \in Nat
                            /\ d.composer \in Composers
  <2>1. CASE UNCHANGED registryVars
    BY <2>1 DEF IInv, RestTyped, registryVars
  <2>2. CASE publish_eligibility_list(r.markets, r.list_nonce, r.expiry)
    <3>1. lists' = lists \cup {List(r.markets, r.list_nonce, r.expiry)}
          /\ UNCHANGED <<tokens, perp_lists, drafts>>
      BY <2>2 DEF publish_eligibility_list
    <3>2. r.markets \in {q.markets : q \in Requests}
      OBVIOUS
    <3>3. List(r.markets, r.list_nonce, r.expiry) \in ListType
      BY <1>1, <3>2, ListTyped
    <3>4. QED
      BY <3>1, <3>3 DEF IInv, RestTyped
  <2>3. CASE \E l \in ListOf(r) : publish_composition_draft(r.items, l, r.nonce)
    <3>1. UNCHANGED <<tokens, lists, perp_lists>>
      BY <2>3 DEF publish_composition_draft
    <3>2. QED
      BY <1>1, <2>3, <3>1, DraftTyped DEF IInv, RestTyped
  <2>4. QED
    BY <1>5, <2>1, <2>2, <2>3
<1>7. RestTyped'
  BY <1>2, <1>3, <1>4, <1>6, RequestMoves DEF IInv, RestTyped
<1>8. QED
  BY <1>2, <1>3, <1>7, RequestMoves, RequestKeeps

LEMMA CreateKeeps ==
  ASSUME IInv, NEW r \in Requests, create(r)
  PROVE  IInv' /\ ActivatesEligible
<1>1. UNCHANGED <<now, config, changes, registryVars, traders, perp_receipts, portfolios>>
  BY DEF create
<1>2. /\ faults' \in Nat
      /\ \E step \in {"idle", "bootstrap"} : Goto(r, step)
  BY DEF create, SendAndConfirm, IInv, RestTyped
<1>3. RestTyped'
  BY <1>1, <1>2, RequestMoves DEF IInv, RestTyped, registryVars
<1>4. CASE \E d \in DraftOf(r), l \in ListOf(r) :
             create_basket(r.basket, d, l, r.is_perpetual, r.expiry)
  <2>1. PICK d \in DraftOf(r), l \in ListOf(r) :
               create_basket(r.basket, d, l, r.is_perpetual, r.expiry)
    BY <1>4
  <2>2. /\ d \in drafts /\ l \in lists
        /\ r.basket \in Baskets /\ r.is_perpetual \in BOOLEAN
        /\ d.composition_hash = canonical_composition(r.items)
    BY RegistryAssumption DEF DraftOf, ListOf
  <2>3. BasketsInv' /\ Forward /\ ActivatesEligible
    BY <1>1, <2>1, <2>2, CreateKeepsBaskets
  <2>4. ReadyToOpen(r)'
    <3>1. /\ baskets'[r.basket].status = "Active"
          /\ baskets'[r.basket].composition_hash = canonical_composition(r.items)
      BY <2>1, <2>2 DEF create_basket, IInv, BasketsInv, BasketsTyped
    <3>2. QED
      BY <3>1 DEF ReadyToOpen
  <2>5. \A q \in Requests \ {r} : ReadyToOpen(q)'
    BY <1>2, <2>3, RequestMoves, ReadinessKept DEF IInv, ApiInv
  <2>6. PortfolioIsOfItsBasket'
    BY <1>1, <2>3, PortfoliosKept DEF IInv, ApiInv
  <2>7. QED
    BY <1>3, <2>3, <2>4, <2>5, <2>6 DEF IInv, ApiInv
<1>5. CASE Goto(r, "idle") /\ UNCHANGED baskets
  BY <1>1, <1>3, <1>5, RequestMoves, RequestKeeps
<1>6. QED
  BY <1>4, <1>5 DEF create, SendAndConfirm

\* The portfolio opens with the composition of a basket the request has created.
LEMMA InitializeKeeps ==
  ASSUME IInv, NEW r \in Requests, initializeBasketPortfolio(r)
  PROVE  IInv' /\ ActivatesEligible
<1> DEFINE hash == canonical_composition(r.items)
<1>1. r.basket \in Baskets /\ hash \in SUBSET ItemTerms
  BY RegistryAssumption, CompositionTypes
<1>2. /\ at[r] = "bootstrap"
      /\ portfolios' = [portfolios EXCEPT
                          ![r.basket] = IF portfolios[r.basket] = None
                                        THEN hash ELSE portfolios[r.basket]]
      /\ Goto(r, "idle")
      /\ UNCHANGED <<now, config, changes, registryVars, baskets, traders,
                     perp_receipts, faults>>
  BY DEF initializeBasketPortfolio
<1> HIDE DEF hash
<1>3. portfolios' \in [Baskets -> {None} \cup SUBSET ItemTerms]
  BY <1>1, <1>2 DEF IInv, RestTyped
<1>4. RestTyped'
  BY <1>2, <1>3, RequestMoves DEF IInv, RestTyped, registryVars
<1>5. BasketsInv' /\ Forward /\ ActivatesEligible
  BY <1>2, BasketsKept DEF IInv
<1>6. /\ baskets[r.basket].status # "absent"
      /\ baskets[r.basket].composition_version = 1 =>
           baskets[r.basket].composition_hash = hash
  BY <1>2 DEF IInv, ApiInv, ReadyToOpen, hash
<1>7. PortfolioIsOfItsBasket'
  <2>1. ASSUME NEW b \in Baskets, portfolios'[b] # None
        PROVE  /\ baskets[b].status # "absent"
               /\ baskets[b].composition_version = 1 =>
                    portfolios'[b] = baskets[b].composition_hash
    <3>1. CASE b = r.basket /\ portfolios[b] = None
      BY <1>1, <1>2, <1>6, <3>1 DEF IInv, RestTyped
    <3>2. CASE ~(b = r.basket /\ portfolios[b] = None)
      <4>1. portfolios'[b] = portfolios[b]
        BY <1>1, <1>2, <3>2 DEF IInv, RestTyped
      <4>2. QED
        BY <2>1, <4>1 DEF IInv, ApiInv, PortfolioIsOfItsBasket
    <3>3. QED
      BY <3>1, <3>2
  <2>2. QED
    BY <1>2, <2>1 DEF PortfolioIsOfItsBasket
<1>8. \A q \in Requests : ReadyToOpen(q)'
  BY <1>2, <1>5, RequestMoves, ReadinessKept DEF IInv, ApiInv
<1>9. QED
  BY <1>4, <1>5, <1>7, <1>8 DEF IInv, ApiInv

-----------------------------------------------------------------------------
(* Theorems                                                                *)

LEMMA InitIInv == Init => IInv
<1> SUFFICES ASSUME Init PROVE IInv
  OBVIOUS
<1>1. RestTyped
  BY DEF Init, RestTyped
<1>2. NoBasket \in BasketType
  BY DEF NoBasket, BasketType
<1>3. baskets \in [Baskets -> BasketType] /\ \A b \in Baskets : baskets[b] = NoBasket
  BY <1>2 DEF Init
<1>4. BasketsInv
  BY <1>3 DEF Init, NoBasket, BasketsInv, BasketsTyped, BasketIsSound, Sound, PerpsApart, Has,
              canonical_composition
<1>5. ApiInv
  BY DEF Init, ApiInv, PortfolioIsOfItsBasket, ReadyToOpen
<1>6. QED
  BY <1>1, <1>4, <1>5 DEF IInv

LEMMA NextKeeps ==
  ASSUME IInv, [Next]_vars
  PROVE  IInv' /\ ActivatesEligible
<1>1. CASE \/ Tick
           \/ Configuration
           \/ \E t \in Tokens, on \in BOOLEAN : register_token(t, on)
  BY <1>1, ConfigurationKeeps
<1>2. CASE Publication
  BY <1>2, PublicationKeeps
<1>3. CASE Composition
  BY <1>3, CompositionKeeps
<1>4. CASE Settlement
  BY <1>4, SettlementKeeps
<1>5. CASE \E r \in Requests : Api(r)
  <2>1. PICK r \in Requests : Api(r)
    BY <1>5
  <2>2. QED
    BY <2>1, PlainStepKeeps, PublishKeeps, CreateKeeps, InitializeKeeps DEF Api
<1>6. CASE UNCHANGED vars
  <2>1. RestTyped'
    BY <1>6 DEF IInv, RestTyped, vars, registryVars, apiVars
  <2>2. QED
    BY <1>6, <2>1, ElsewhereKeeps DEF vars, apiVars
<1>7. QED
  BY <1>1, <1>2, <1>3, <1>4, <1>5, <1>6 DEF Next

\* The inductive invariant holds throughout: the code keeps a basket's hash, its
\* items and its receipts together in every step.
THEOREM Invariance == Spec => []IInv
<1>1. IInv /\ [Next]_vars => IInv'
  BY NextKeeps
<1>2. QED
  BY <1>1, InitIInv, PTL DEF Spec

\* The accounts keep their types, and a basket's composition hash is at all
\* times that of its items: no settlement of a Phoenix trade breaks it.
THEOREM TypeCorrect == Spec => []TypeOK
<1>1. IInv => TypeOK
  BY DEF IInv, RestTyped, BasketsInv, BasketsTyped, BasketIsSound, TypeOK
<1>2. QED
  BY <1>1, Invariance, PTL

\* No basket with an end ever holds a perpetual position, whatever drafts are
\* published and in whatever order lists, tokens and keys change.
THEOREM PerpStaysOutOfResolution == Spec => []PerpNeverResolves
<1>1. IInv => PerpNeverResolves
  BY DEF IInv, BasketsInv, BasketIsSound, Sound, PerpNeverResolves
<1>2. QED
  BY <1>1, Invariance, PTL

\* The margin and the entry price of a perpetual item are those of the last
\* trade of the present composition, for every number of trades and nonces.
THEOREM MarginStaysLastFill == Spec => []MarginIsLastFill
<1>1. IInv => MarginIsLastFill
  BY DEF IInv, BasketsInv, ItemIsSettled, FillsOf, Last, Priced, MarginIsLastFill
<1>2. QED
  BY <1>1, Invariance, PTL

\* A portfolio is that of its basket's first composition, for every number of
\* requests, lost confirmations and crashes.
THEOREM PortfolioStaysOfItsBasket == Spec => []PortfolioIsOfItsBasket
<1>1. IInv => PortfolioIsOfItsBasket
  BY DEF IInv, ApiInv
<1>2. QED
  BY <1>1, Invariance, PTL

\* Whatever was disabled, replaced or expired since its draft was published, a
\* composition that takes effect is eligible at that moment.
THEOREM ActivationIsEligible == Spec => ActivatedWasEligible
<1>1. IInv /\ [Next]_vars =>
        [\A b \in Baskets :
           baskets'[b].composition_version # baskets[b].composition_version =>
             \A i \in baskets'[b].items :
               IF i.kind = "spot"
               THEN i.market \in tokens
               ELSE \E l \in IF i.kind = "perp" THEN perp_lists ELSE lists :
                      i.market \in l.markets /\ l.expires_at > now]_vars
  BY NextKeeps DEF ActivatesEligible, Eligible
<1>2. QED
  BY <1>1, Invariance, PTL DEF Spec, ActivatedWasEligible
=============================================================================
