------------------------------ MODULE Registry ------------------------------
(***************************************************************************)
(* What a basket is made of: the program's configuration, the registries   *)
(* its compositions are checked against, the creation of baskets, their    *)
(* recomposition and the settlement of Phoenix trades on their items; and  *)
(* the API request that creates a basket and then opens its portfolio.     *)
(*                                                                         *)
(* A hash is what it is a hash of: a composition hash is the set of terms  *)
(* canonical_composition_bytes covers, a list hash the set of markets.     *)
(* A direction and a leverage are one value of Terms; weights are left     *)
(* out, and so are outcomes and CTF ids, which a market stands for.        *)
(***************************************************************************)
EXTENDS Integers, FiniteSets

CONSTANTS
  Composers,       \* keys that are or may become the Composer's signer
  Baskets, Wallets, Executions,
  Tokens,          \* spot token mints
  Compositions,    \* item sets that a draft may stage
  MarketLists, PerpMarketLists,    \* market sets a list may be published with
  Requests,        \* createBasket requests of the API
  Fills,           \* [market, terms, subaccount, entry, margin] of trades
  None,
  MAX_ELIGIBILITY_VALIDITY_SECS,
  ListNonces, MaxTime, MaxNonce, MaxSettlementNonce,
  MaxPublications, \* bound on lists and drafts published
  MaxConfigChanges, MaxFaults      \* bounds

Kinds == {"prediction", "spot", "perp"}

\* What a composition hash covers of an item, and the item as it is stored.
ItemTerms == [kind : Kinds, market : {i.market : i \in UNION Compositions},
              terms : {i.terms : i \in UNION Compositions}, subaccount : Nat]

Item == [kind : Kinds, market : {i.market : i \in UNION Compositions},
         terms : {i.terms : i \in UNION Compositions}, subaccount : Nat,
         entry_mark_price : Nat, margin_posted : Nat]

ASSUME RegistryAssumption ==
  /\ None \notin Composers
  /\ UNION Compositions \subseteq Item
  /\ \A r \in Requests :
       /\ r.basket \in Baskets
       /\ r.items \in Compositions
       /\ r.is_perpetual \in BOOLEAN
       /\ {r.nonce, r.list_nonce, r.expiry} \subseteq Nat
  /\ \A f \in Fills : {f.entry, f.margin} \subseteq Nat
  /\ {MAX_ELIGIBILITY_VALIDITY_SECS, MaxTime, MaxNonce, MaxSettlementNonce,
      MaxPublications, MaxConfigChanges, MaxFaults} \cup ListNonces \subseteq Nat

VARIABLES
  now,
  config,        \* composer_signer, paused
  changes,       \* how often the configuration was changed
  tokens,        \* the token allowlist: tokens that are enabled, thus verified
  lists,         \* eligibility lists
  perp_lists,    \* Phoenix eligibility lists
  drafts,        \* composition drafts
  baskets,       \* basket accounts: status, composition, settlement nonce
  traders,       \* wallets with a trader account registry
  perp_receipts, \* receipts of settled Phoenix trades
  portfolios,    \* basket_portfolio_states: the composition hash of each row
  at,            \* the next step of each createBasket request
  faults

registryVars == <<tokens, lists, perp_lists, drafts>>
apiVars == <<portfolios, at, faults>>
vars == <<now, config, changes, registryVars, baskets, traders, perp_receipts,
          apiVars>>

NoBasket == [status |-> "absent", is_perpetual |-> FALSE, items |-> {},
             composition_hash |-> {}, composition_version |-> 0,
             last_composition_nonce |-> 0, last_settlement_nonce |-> 0]

Init ==
  /\ now = 0
  /\ \E c \in Composers : config = [composer_signer |-> c, paused |-> FALSE]
  /\ changes = 0
  /\ tokens = {}
  /\ lists = {}
  /\ perp_lists = {}
  /\ drafts = {}
  /\ baskets = [b \in Baskets |-> NoBasket]
  /\ traders = {}
  /\ perp_receipts = {}
  /\ portfolios = [b \in Baskets |-> None]
  /\ at = [r \in Requests |-> "idle"]
  /\ faults = 0

Tick ==
  /\ now < MaxTime
  /\ now' = now + 1
  /\ UNCHANGED <<config, changes, registryVars, baskets, traders, perp_receipts,
                 apiVars>>

-----------------------------------------------------------------------------
(* The configuration: admin.rs.  Every handler is called with the signer it *)
(* requires, so that of the keys only the one that is stored matters.       *)

Reconfigure(c) ==
  /\ changes < MaxConfigChanges
  /\ changes' = changes + 1
  /\ config' = c
  /\ UNCHANGED <<now, registryVars, baskets, traders, perp_receipts, apiVars>>

set_authorities(composer) ==
  Reconfigure([config EXCEPT !.composer_signer = composer])

set_paused(value) == Reconfigure([config EXCEPT !.paused = value])

\* Enabling a token takes its Jupiter verification, which later may be taken back.
register_token(t, enabled) ==
  /\ tokens' = IF enabled THEN tokens \cup {t} ELSE tokens \ {t}
  /\ UNCHANGED <<now, config, changes, lists, perp_lists, drafts, baskets, traders,
                 perp_receipts, apiVars>>

-----------------------------------------------------------------------------
(* Eligibility lists and composition drafts: registry.rs.  Their accounts are *)
(* created at the address of their hash and nonce, by the Composer's signer.  *)

List(markets, nonce, expires) ==
  [markets |-> markets, nonce |-> nonce, composer |-> config.composer_signer,
   published_at |-> now, expires_at |-> expires]

Publications == Cardinality(lists) + Cardinality(perp_lists) + Cardinality(drafts)

CanPublish(published, markets, nonce, expires) ==
  /\ ~config.paused
  /\ nonce > 0
  /\ expires > now
  /\ expires <= now + MAX_ELIGIBILITY_VALIDITY_SECS
  /\ \A l \in published : l.markets # markets \/ l.nonce # nonce
  /\ Publications < MaxPublications

publish_eligibility_list(markets, nonce, expires) ==
  /\ CanPublish(lists, markets, nonce, expires)
  /\ lists' = lists \cup {List(markets, nonce, expires)}
  /\ UNCHANGED <<tokens, perp_lists, drafts>>

publish_perp_eligibility_list(markets, nonce, expires) ==
  /\ markets # {}
  /\ CanPublish(perp_lists, markets, nonce, expires)
  /\ perp_lists' = perp_lists \cup {List(markets, nonce, expires)}
  /\ UNCHANGED <<tokens, lists, drafts>>

Current(list) == list.published_at <= now /\ list.expires_at > now

Has(items, kind) == \E i \in items : i.kind = kind

\* The perpetual list is any account of the program's that is current.
validate_basket_items(items, list, is_perpetual) ==
  /\ items # {}
  /\ Has(items, "perp") => ~Has(items, "prediction") /\ ~Has(items, "spot")
  /\ Has(items, "perp") => is_perpetual
  /\ ~Has(items, "prediction") => list.markets = {}
  /\ Has(items, "perp") =>
       \E l \in perp_lists : Current(l) /\ {i.market : i \in items} \subseteq l.markets
  /\ \A i \in items :
       CASE i.kind = "prediction" -> i.market \in list.markets
         [] i.kind = "spot" -> i.market \in tokens
         [] i.kind = "perp" -> i.subaccount # 0
  /\ \A i, j \in items :
       /\ i # j
       /\ i.kind = j.kind
       => /\ i.market # j.market
          /\ i.kind = "perp" => i.subaccount # j.subaccount

canonical_composition_WithMargin(items) == items

\* What the hash covers: an item's terms, not the prices and margins that
\* settlements write into it.
canonical_composition(items) ==
  {[kind |-> i.kind, market |-> i.market, terms |-> i.terms,
    subaccount |-> i.subaccount] : i \in items}

publish_composition_draft(items, list, nonce) ==
  LET hash == canonical_composition(items)
  IN /\ ~config.paused
     /\ nonce > 0
     /\ list.composer = config.composer_signer
     /\ Current(list)
     /\ validate_basket_items(items, list, TRUE)
     /\ \A d \in drafts : d.composition_hash # hash \/ d.composition_nonce # nonce
     /\ Publications < MaxPublications
     /\ drafts' = drafts \cup
          {[composition_hash |-> hash, composition_nonce |-> nonce,
            eligibility |-> <<list.markets, list.nonce>>,
            composer |-> config.composer_signer, items |-> items]}
     /\ UNCHANGED <<tokens, lists, perp_lists>>

-----------------------------------------------------------------------------
(* Compositions of baskets: create_basket.rs, and settlement.rs *)

Authorised_TrustsDraft(draft, list, is_perpetual) ==
  /\ {draft.composer, list.composer} = {config.composer_signer}
  /\ draft.eligibility = <<list.markets, list.nonce>>
  /\ Current(list)

Authorised_WaivesPerpetual(draft, list, is_perpetual) ==
  /\ {draft.composer, list.composer} = {config.composer_signer}
  /\ draft.eligibility = <<list.markets, list.nonce>>
  /\ Current(list)
  /\ validate_basket_items(draft.items, list, TRUE)
  /\ canonical_composition(draft.items) = draft.composition_hash

\* What a draft must pass when a basket takes it up, whenever it was published.
Authorised(draft, list, is_perpetual) ==
  /\ {draft.composer, list.composer} = {config.composer_signer}
  /\ draft.eligibility = <<list.markets, list.nonce>>
  /\ Current(list)
  /\ validate_basket_items(draft.items, list, is_perpetual)
  /\ canonical_composition(draft.items) = draft.composition_hash

create_basket(b, draft, list, is_perpetual, expiry) ==
  /\ ~config.paused
  /\ baskets[b].status = "absent"
  /\ expiry > now
  /\ Authorised(draft, list, is_perpetual)
  /\ baskets' = [baskets EXCEPT ![b] =
       [status |-> "Active", is_perpetual |-> is_perpetual, items |-> draft.items,
        composition_hash |-> draft.composition_hash, composition_version |-> 1,
        last_composition_nonce |-> draft.composition_nonce,
        last_settlement_nonce |-> 0]]

SetStatus(b, status) == baskets' = [baskets EXCEPT ![b].status = status]

\* Cadence, fees and the final NAV are those of Escrow.
begin_reconstitution(b) ==
  /\ baskets[b].is_perpetual
  /\ baskets[b].status = "Active"
  /\ SetStatus(b, "Reconstituting")

complete_reconstitution(b, draft, list, expiry) ==
  /\ baskets[b].status = "Reconstituting"
  /\ expiry > now
  /\ draft.composition_nonce > baskets[b].last_composition_nonce
  /\ Authorised(draft, list, baskets[b].is_perpetual)
  /\ baskets' = [baskets EXCEPT
       ![b].status = "Active",
       ![b].items = draft.items,
       ![b].composition_hash = draft.composition_hash,
       ![b].composition_version = @ + 1,
       ![b].last_composition_nonce = draft.composition_nonce]

begin_resolution(b) ==
  /\ ~baskets[b].is_perpetual
  /\ baskets[b].status = "Active"
  /\ SetStatus(b, "Resolving")

record_final_settlement(b) ==
  /\ baskets[b].status = "Resolving"
  /\ SetStatus(b, "Redeemable")

-----------------------------------------------------------------------------
(* Phoenix trades: phoenix.rs *)

onboard_trader_account(wallet) ==
  /\ ~config.paused
  /\ wallet \notin traders
  /\ traders' = traders \cup {wallet}
  /\ UNCHANGED <<now, config, changes, registryVars, baskets, perp_receipts, apiVars>>

SettleFill(b, execution, fill, version, nonce) ==
  LET item == CHOOSE i \in baskets[b].items : i.market = fill.market
      settled == [item EXCEPT !.margin_posted = fill.margin,
                              !.entry_mark_price =
                                IF fill.entry > 0 THEN fill.entry ELSE @]
  IN /\ \E i \in baskets[b].items : i.market = fill.market
     /\ item.kind = "perp"
     /\ item.subaccount = fill.subaccount
     /\ item.terms = fill.terms
     /\ baskets' = [baskets EXCEPT ![b].items = (@ \ {item}) \cup {settled},
                                   ![b].last_settlement_nonce = nonce]
     /\ perp_receipts' = perp_receipts \cup
          {[execution |-> execution, basket |-> b, version |-> version,
            market |-> fill.market, entry |-> fill.entry, margin |-> fill.margin,
            settlement_nonce |-> nonce]}

SettlesInOrder_AnyNonce(b, nonce) == TRUE

\* Settlements of a basket, of whatever kind, carry increasing nonces.
SettlesInOrder(b, nonce) == nonce > baskets[b].last_settlement_nonce

BoundToComposition(b, version) == baskets[b].composition_version = version

\* A trade that was executed against one version of the composition.  The time
\* since then is left out.
complete_phoenix_trade(b, execution, wallet, fill, side, version, nonce) ==
  /\ ~config.paused
  /\ fill.subaccount # 0
  /\ side = "Open" => fill.entry > 0 /\ fill.margin > 0
  /\ baskets[b].status = "Active"
  /\ BoundToComposition(b, version)
  /\ SettlesInOrder(b, nonce)
  /\ \E l \in perp_lists : /\ l.composer = config.composer_signer
                           /\ l.expires_at > now
                           /\ fill.market \in l.markets
  /\ wallet \in traders
  /\ \A r \in perp_receipts : r.execution # execution
  /\ SettleFill(b, execution, fill, version, nonce)
  /\ UNCHANGED <<now, config, changes, registryVars, traders, apiVars>>

\* A deposit or withdrawal (see Escrow) takes a nonce of the same sequence.
settle(b, nonce) ==
  /\ baskets[b].status \in {"Active", "Redeemable"}
  /\ SettlesInOrder(b, nonce)
  /\ baskets' = [baskets EXCEPT ![b].last_settlement_nonce = nonce]
  /\ UNCHANGED <<now, config, changes, registryVars, traders, perp_receipts, apiVars>>

-----------------------------------------------------------------------------
(* The API: AlphaBasketApiService.createBasket, whose gateway publishes what  *)
(* it does not find, creates the basket, and whose store opens the portfolio. *)

Goto(r, step) == at' = [at EXCEPT ![r] = step]

\* The list or draft of a request, if its account exists.
ListOf(r) == {l \in lists : l.markets = r.markets /\ l.nonce = r.list_nonce}

DraftOf(r) ==
  {d \in drafts : d.composition_hash = canonical_composition(r.items)
                  /\ d.composition_nonce = r.nonce}

request(r) ==
  /\ at[r] = "idle"
  /\ Goto(r, "list")
  /\ UNCHANGED <<now, config, changes, registryVars, baskets, traders,
                 perp_receipts, portfolios, faults>>

\* sendAndConfirm: the transaction lands, though its confirmation may be lost; or
\* it is refused, or never sent.
SendAndConfirm(r, Instruction, next) ==
  \/ /\ Instruction
     /\ \/ Goto(r, next) /\ UNCHANGED faults
        \/ faults < MaxFaults /\ faults' = faults + 1 /\ Goto(r, "idle")
  \/ Goto(r, "idle") /\ UNCHANGED <<registryVars, baskets, faults>>

\* getAccountInfo; an existing account is taken as it is.
look_up(r) ==
  /\ \/ at[r] = "list" /\ Goto(r, IF ListOf(r) = {} THEN "publish_list" ELSE "draft")
     \/ at[r] = "draft" /\ Goto(r, IF DraftOf(r) = {} THEN "publish_draft" ELSE "create")
  /\ UNCHANGED <<now, config, changes, registryVars, baskets, traders,
                 perp_receipts, portfolios, faults>>

publish(r) ==
  /\ \/ /\ at[r] = "publish_list"
        /\ SendAndConfirm(r, publish_eligibility_list(r.markets, r.list_nonce, r.expiry),
                          "draft")
     \/ /\ at[r] = "publish_draft"
        /\ SendAndConfirm(r, \E l \in ListOf(r) :
                               publish_composition_draft(r.items, l, r.nonce),
                          "create")
  /\ UNCHANGED <<now, config, changes, baskets, traders, perp_receipts, portfolios>>

\* A basket that exists already makes the transaction fail, and the request too.
create_AcceptsExisting(r) ==
  /\ at[r] = "create"
  /\ SendAndConfirm(r, \/ \E d \in DraftOf(r), l \in ListOf(r) :
                            create_basket(r.basket, d, l, r.is_perpetual, r.expiry)
                       \/ baskets[r.basket].status # "absent" /\ UNCHANGED baskets,
                    "bootstrap")
  /\ UNCHANGED <<now, config, changes, registryVars, traders, perp_receipts, portfolios>>

create(r) ==
  /\ at[r] = "create"
  /\ SendAndConfirm(r, \E d \in DraftOf(r), l \in ListOf(r) :
                         create_basket(r.basket, d, l, r.is_perpetual, r.expiry),
                    "bootstrap")
  /\ UNCHANGED <<now, config, changes, registryVars, traders, perp_receipts, portfolios>>

\* A row that is there must be of the same composition.
initializeBasketPortfolio(r) ==
  LET hash == canonical_composition(r.items)
  IN /\ at[r] = "bootstrap"
     /\ portfolios' = [portfolios EXCEPT ![r.basket] = IF @ = None THEN hash ELSE @]
     /\ Goto(r, "idle")
     /\ UNCHANGED <<now, config, changes, registryVars, baskets, traders,
                    perp_receipts, faults>>

\* The process dies, or the database refuses.
Crash(r) ==
  /\ at[r] # "idle"
  /\ faults < MaxFaults
  /\ faults' = faults + 1
  /\ Goto(r, "idle")
  /\ UNCHANGED <<now, config, changes, registryVars, baskets, traders,
                 perp_receipts, portfolios>>

-----------------------------------------------------------------------------
Nonces == 1 .. MaxNonce
Times  == 0 .. MaxTime + MAX_ELIGIBILITY_VALIDITY_SECS

Configuration ==
  \/ \E c \in Composers \ {config.composer_signer} : set_authorities(c)
  \/ \E value \in BOOLEAN \ {config.paused} : set_paused(value)

\* What the Composer's other tools publish.
Publication ==
  /\ \/ \E m \in MarketLists, n \in ListNonces, t \in Times : publish_eligibility_list(m, n, t)
     \/ \E m \in PerpMarketLists, n \in ListNonces, t \in Times :
          publish_perp_eligibility_list(m, n, t)
     \/ \E items \in Compositions, l \in lists, n \in Nonces :
          publish_composition_draft(items, l, n)
  /\ UNCHANGED <<now, config, changes, baskets, traders, perp_receipts, apiVars>>

Composition ==
  /\ \/ \E b \in Baskets, d \in drafts, l \in lists, perpetual \in BOOLEAN, t \in Times :
          create_basket(b, d, l, perpetual, t)
     \/ \E b \in Baskets : \/ begin_reconstitution(b)
                           \/ begin_resolution(b)
                           \/ record_final_settlement(b)
     \/ \E b \in Baskets, d \in drafts, l \in lists, t \in Times :
          complete_reconstitution(b, d, l, t)
  /\ UNCHANGED <<now, config, changes, registryVars, traders, perp_receipts, apiVars>>

Settlement ==
  \/ \E w \in Wallets : onboard_trader_account(w)
  \/ \E b \in Baskets :
       \E e \in Executions, w \in Wallets, f \in Fills, side \in {"Open", "Close"},
          v \in 1 .. baskets[b].composition_version, n \in 1 .. MaxSettlementNonce :
         complete_phoenix_trade(b, e, w, f, side, v, n)
  \/ \E b \in Baskets, n \in 1 .. MaxSettlementNonce : settle(b, n)

Api(r) ==
  \/ request(r) \/ look_up(r) \/ publish(r) \/ create(r)
  \/ initializeBasketPortfolio(r) \/ Crash(r)

Next ==
  \/ Tick
  \/ Configuration
  \/ \E t \in Tokens, enabled \in BOOLEAN : register_token(t, enabled)
  \/ Publication
  \/ Composition
  \/ Settlement
  \/ \E r \in Requests : Api(r)

Spec == Init /\ [][Next]_vars

-----------------------------------------------------------------------------
(* Properties *)

ListType ==
  [markets : SUBSET UNION (MarketLists \cup PerpMarketLists \cup {r.markets : r \in Requests}),
   nonce : Nat, composer : Composers, published_at : Nat, expires_at : Nat]

BasketType ==
  [status : {"absent", "Active", "Reconstituting", "Resolving", "Redeemable"},
   is_perpetual : BOOLEAN, items : SUBSET Item, composition_hash : SUBSET ItemTerms,
   composition_version : Nat, last_composition_nonce : Nat,
   last_settlement_nonce : Nat]

ReceiptType ==
  [execution : Executions, basket : Baskets, version : Nat,
   market : {f.market : f \in Fills}, entry : Nat, margin : Nat,
   settlement_nonce : Nat]

\* A basket's hash is at all times the hash of its items, whatever settlements
\* write into them.
TypeOK ==
  /\ {now, changes, faults} \subseteq Nat
  /\ config \in [composer_signer : Composers, paused : BOOLEAN]
  /\ tokens \subseteq Tokens
  /\ lists \cup perp_lists \subseteq ListType
  /\ \A d \in drafts : /\ d.items \in Compositions
                       /\ d.composition_hash = canonical_composition(d.items)
                       /\ d.composition_nonce \in Nat
                       /\ d.composer \in Composers
  /\ baskets \in [Baskets -> BasketType]
  /\ \A b \in Baskets :
       baskets[b].composition_hash = canonical_composition(baskets[b].items)
  /\ traders \subseteq Wallets
  /\ perp_receipts \subseteq ReceiptType
  /\ portfolios \in [Baskets -> {None} \cup SUBSET ItemTerms]
  /\ at \in [Requests -> {"idle", "list", "publish_list", "draft",
                          "publish_draft", "create", "bootstrap"}]

\* A composition takes effect only if, at that moment, every token of it is
\* allowlisted and every market on a list that is not expired, however long ago
\* its draft was checked and whatever was disabled or replaced since.
ActivatedWasEligible ==
  [][\A b \in Baskets :
       baskets'[b].composition_version # baskets[b].composition_version =>
         \A i \in baskets'[b].items :
           IF i.kind = "spot"
           THEN i.market \in tokens
           ELSE \E l \in IF i.kind = "perp" THEN perp_lists ELSE lists :
                  i.market \in l.markets /\ l.expires_at > now]_vars

\* A basket that holds a perpetual position never resolves: no draft, which may
\* hold one whatever basket takes it up, brings it into a basket with an end.
PerpNeverResolves ==
  \A b \in Baskets :
    Has(baskets[b].items, "perp") =>
      baskets[b].is_perpetual /\ baskets[b].status \in {"Active", "Reconstituting"}

\* The margin of a perpetual position is that of the last trade settled against
\* the present composition, in the order of the settlement nonces, and its entry
\* price that of the last one that had one; a trade of an earlier composition
\* does not move them.
MarginIsLastFill ==
  \A b \in Baskets : \A i \in baskets[b].items :
    LET fills == {r \in perp_receipts :
                    /\ r.basket = b
                    /\ r.market = i.market
                    /\ r.version = baskets[b].composition_version}
        last(of, r) == r \in of /\ \A q \in of :
                                     q.settlement_nonce <= r.settlement_nonce
    IN /\ \A r \in fills : last(fills, r) => i.margin_posted = r.margin
       /\ LET priced == {r \in fills : r.entry > 0}
          IN \A r \in priced : last(priced, r) => i.entry_mark_price = r.entry

\* A portfolio is opened only for a basket that exists, with the composition the
\* basket was created with, even if two requests create the same basket with
\* different compositions, or one is retried after its basket was created.
PortfolioIsOfItsBasket ==
  \A b \in Baskets :
    portfolios[b] # None =>
      /\ baskets[b].status # "absent"
      /\ baskets[b].composition_version = 1 =>
           portfolios[b] = baskets[b].composition_hash

=============================================================================
