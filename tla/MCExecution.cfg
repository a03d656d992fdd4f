SPECIFICATION Spec
SYMMETRY Symmetry
CONSTANTS
  d = d
  x = x
  alice = alice
  bob = bob
  w1 = w1
  w2 = w2
  w3 = w3
  None = None
  Quoted = Quoted
  Ops = {d, x}
  Deposits = {d}
  Owner <- TwoUsers
  Nonce <- FirstIntents
  Workers = {w1, w2, w3}
  Serves <- Overlapping
  MaxNav = 1
  MaxBook = 2
  MaxAccruals = 0
  MaxRefusals = 0
  Lapsing = {}
  MaxVersion = 2
  MaxFaults = 1
INVARIANTS
  TypeOK
  EffectsAreUnique
  SettlementMatchesEffects
PROPERTIES
  ExactlyOnce
