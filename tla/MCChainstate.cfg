SPECIFICATION Spec
CHECK_DEADLOCK FALSE
CONSTANTS
  g = g
  c = c
  a1 = a1
  a2 = a2
  a3 = a3
  b1 = b1
  Block = {g, c, a1, a2, a3, b1}
  Genesis = g
  NoBlock = NoBlock
  Parent <- MCParent
  ChainTrust <- MCTrust
  Address <- MCAddress
  BadContext = {a3}
  BadConnect = {a2}
  MaxCalls = 2
INVARIANTS
  ChainNotFailed
  CandidatesExact
  CanGoBack
  FailureHasCause
  OnlyGuiltyFail
  BestChainWhenQuiet
  FailedBlocksMarked
PROPERTIES
  NeverWorse
  Settles
