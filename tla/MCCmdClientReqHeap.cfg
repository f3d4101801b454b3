SPECIFICATION Spec
CHECK_DEADLOCK FALSE
CONSTANTS
    p1 = p1
    off = off
    on = on
    max = max
    Callers = {a}
    Blocks = {m1, m2}
    QueueSize = 1
    MaxCalls = 3
    Params <- MCParams
    Values <- MCValues
    ClientAccepts <- MCClient
    ServerAccepts <- MCServer
    InitTable <- MCTable
INVARIANTS
    AssertMsg
