SPECIFICATION Spec
CONSTANTS
    Key = {k1}
    Thread = {t1, t2}
    Capacity = 1
    TicksPerToken = 2
    IdleTTL = 1
    MaxKeys = 0
    MaxClock = 5
    MaxStall = 2
    MaxInserted = 1
SYMMETRY Symmetry
INVARIANTS
    TypeOK
    LedgerBound
PROPERTIES
    RewindBounded
