SPECIFICATION Spec
CONSTANTS
  g = g
  a1 = a1
  a2 = a2
  a3 = a3
  b2 = b2
  x3 = x3
  cb1 = cb1
  t = t
  u = u
  v = v
  z = z
  Block = {g, a1, a2, a3, b2, x3}
  Genesis = g
  NoBlock = NoBlock
  Parent <- MCParent
  Outpoint = {cb1, t, u, v, z}
  Value <- MCValue
  Txs <- MCTxs
  MaxCrashes = 2
INVARIANTS
  TipCoinsExact
  DiskRecoverable
  SupplyExact
  DisconnectClean
  OnlyInvalidFails
PROPERTIES
  Recovers
