SPECIFICATION Spec
CHECK_DEADLOCK FALSE
CONSTANTS
    on = on
    level = level
    a = a
    b = b
    Callers <- MCCallers
    Blocks = {m1}
    QueueSize = 1
    Half = 2
    Params <- MCParams
    Values <- MCValues
    ClientMax <- MCClientMax
    ServerMax <- MCServerMax
INVARIANTS
    RequestsOwned
    UrlIsOwn
PROPERTIES
    SetIsApplied
    GetIsFresh
    EveryCallReturns
