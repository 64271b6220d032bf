SPECIFICATION Spec
CONSTANTS
    c1 = c1
    c2 = c2
    Outpoint = {o1, o2}
    Coin = {c1, c2}
    NoCoin = NoCoin
    NoEntry = NoEntry
    Hash = {b1, b2}
    NullHash = NullHash
    Usage <- MCUsage
SYMMETRY Symmetry
INVARIANTS FlagsInvariant NoLogicError UsageExact
PROPERTY Transparent
