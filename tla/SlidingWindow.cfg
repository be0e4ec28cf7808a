SPECIFICATION Spec
CONSTANTS
    Key = {k1}
    Thread = {t1, t2}
    MaxRequests = 2
    Window = 2
    IdleTTL = 3
    MaxKeys = 0
    MaxClock = 6
    MaxStall = 1
    MaxInserted = 2
INVARIANTS
    TypeOK
    WindowBound
    RemainingShows
PROPERTIES
    DenialJustified
SYMMETRY Symmetry
