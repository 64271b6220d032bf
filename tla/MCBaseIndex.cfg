CONSTANTS
  g = g a1 = a1 b1 = b1 b2 = b2
  Block = {g, a1, b1, b2}
  Genesis = g
  NoBlock = NoBlock
  Parent <- MCParent
  MaxMoves = 3
  MaxCrashes = 1
  MaxFailures = 1
  LocatorLeads = FALSE
SPECIFICATION Spec
INVARIANTS NothingSkipped ReadersSeeTip
PROPERTY CatchesUp
CHECK_DEADLOCK FALSE
