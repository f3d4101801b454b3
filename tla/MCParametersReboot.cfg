SPECIFICATION Spec
CONSTANTS
    flag = flag
    minutes = minutes
    NoBlob = NoBlob
    Params <- MCParams
    U32 <- MCU32
    MinValue <- MCMin
    MaxValue <- MCMax
    DefaultValue <- MCDefault
PROPERTIES
    SavedSurvivesBoot
