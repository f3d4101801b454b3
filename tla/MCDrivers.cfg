SPECIFICATION DrvSpec
CHECK_DEADLOCK FALSE
CONSTANTS
    Data = {d1, d2}
    None = None
    Wrap = 8
    Sizes = {0, 1, 2, 3, 4}
    QueueLength = 3
    up = up
    high = high
    NULL = NULL
    Keys <- MCKeys
    Starters = {but}
    Stoppers = {but, menu}
    Size = 2
    Slow = 1
    Ten = 2
    Word = 8
    MinOf <- MCMin
    MaxOf <- MCMax
    SignsOf <- MCSigns
INVARIANTS
    NoNullEntry
    ListedOnce
    WithinLimits
PROPERTIES
    OnlyListedMove
    QueueSpec
    SavedInTheEnd
    IdleSwitchesOff
    NoWaterReported
