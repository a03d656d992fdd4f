SPECIFICATION Spec
CONSTANTS
  Composers = {c1, c2}
  Baskets = {b1}
  Wallets = {w1}
  Executions = {e1, e2}
  prediction = prediction
  spot = spot
  perp = perp
  Tokens = {spot}
  Compositions <- MCCompositions
  MarketLists <- MCMarketLists
  PerpMarketLists <- MCPerpMarketLists
  Requests <- MCRequests
  Fills <- MCFills
  None = None
  MAX_ELIGIBILITY_VALIDITY_SECS = 1
  ListNonces = {1}
  MaxTime = 1
  MaxNonce = 2
  MaxSettlementNonce = 2
  MaxPublications = 4
  MaxConfigChanges = 1
  MaxFaults = 1
SYMMETRY Symmetry
INVARIANTS
  TypeOK
  PerpNeverResolves
  MarginIsLastFill
  PortfolioIsOfItsBasket
PROPERTIES
  ActivatedWasEligible
CHECK_DEADLOCK FALSE
