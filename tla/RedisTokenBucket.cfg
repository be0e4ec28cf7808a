SPECIFICATION Spec
CONSTANTS
    Key = {k1}
    Caller = {c1, c2}
    Capacity = 3
    TicksPerToken = 2
    Slack = 3
    MaxSkew = 1
    MaxDelay = 1
    MaxClock = 14
SYMMETRY Symmetry
INVARIANTS
    TypeOK
    LedgerBound
PROPERTIES
    DenialJustified
