SPECIFICATION FairSpec
CONSTANTS
  d = d
  x = x
  alice = alice
  bob = bob
  w1 = w1
  w2 = w2
  w3 = w3
  None = None
  Quoted = Quoted
  Ops = {d, x}
  Deposits = {d, x}
  Owner <- TwoUsers
  Nonce <- FirstIntents
  Workers = {w1, w2}
  Serves <- OneEach
  MaxNav = 1
  MaxBook = 1
  MaxAccruals = 1
  MaxRefusals = 1
  Lapsing = {x}
  MaxVersion = 3
  MaxFaults = 0
PROPERTIES
  EveryOperationReturns
