SPECIFICATION Spec
CONSTANTS
    Key = {1, 2}
    Thread = {t1, t2}
    MaxKeys = 1
    BatchDivisor = 64
    MaxOvertaken = 1
    Limit = 1
    TicksPerToken = 2
    Window = 2
    MaxClock = 3
    MaxStall = 1
SYMMETRY Symmetry
INVARIANTS
    TypeOK
    CallsMakeRoom
    LimitKept
    AnswersHold
PROPERTIES
    ActiveSpared
