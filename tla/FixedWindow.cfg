SPECIFICATION Spec
CONSTANTS
    Key = {k1}
    Thread = {t1, t2}
    MaxRequests = 2
    Window = 3
    IdleTTL = 3
    MaxKeys = 0
    MaxClock = 7
    MaxStall = 1
    MaxInserted = 0
    WallOffset = 0
INVARIANTS
    TypeOK
    AtMostDoubled
PROPERTIES
    DenialJustified
SYMMETRY Symmetry
