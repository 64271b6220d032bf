CONSTANTS
    a = a
    b = b
    t1 = t1
    t2 = t2
    t3 = t3
    Base = Base
    Peer = {a, b}
    Tx = {t1, t2, t3}
    Inputs <- MCInputs
    Rank <- MCRank
    Bad = {}
    Preferred = {a}
    WtxidRelay = {b}
    MaxAnnouncements = 2
    MaxInFlight = 1
    Interval = 1
    MaxOrphans = 2
    MaxBlockTxs = 2
    MaxInputs = 4
SPECIFICATION Spec
INVARIANTS SanityCheck OrphansExact
PROPERTIES NoneStranded NoneSuperfluous AllResolved
CHECK_DEADLOCK FALSE
