SPECIFICATION Spec
CHECK_DEADLOCK FALSE
SYMMETRY MCSymmetry
CONSTANTS
    p1 = p1
    off = off
    on = on
    max = max
    Callers = {a, b}
    Blocks = {m1, m2}
    QueueSize = 1
    MaxCalls = 2
    Params <- MCParams
    Values <- MCValues
    ClientAccepts <- MCClient
    ServerAccepts <- MCServer
    InitTable <- MCTable
INVARIANTS
    NoDanglingMessage
PROPERTIES
    GetIsFresh
    SetIsApplied
