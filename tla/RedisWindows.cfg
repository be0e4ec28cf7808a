SPECIFICATION Spec
CONSTANTS
    Caller = {c1, c2}
    Limit = 2
    Window = 4
    Slack = 2
    MaxSkew = 1
    MaxDelay = 0
    MaxClock = 11
SYMMETRY Symmetry
INVARIANTS
    TypeOK
    SlidingBound
    FixedBound
    RemainingShows
    ResetForgives
PROPERTIES
    DenialJustified
