SPECIFICATION PruneSpec
CONSTANTS
    Key = {k1, k2}
    IdleTTL = 3
    Interval = 3
    MaxDelay = 2
INVARIANTS
    PruneTypeOK
    RetentionBounded
    AtMostOneLate
PROPERTIES
    StopsAfterDrop
CHECK_DEADLOCK FALSE
