SPECIFICATION Spec
CONSTANTS
    TimeOut = 3
    CheckAt = 5
    WrapAt = 7
    IntMax = 8
    LedMax = 4
    Glow = 2
PROPERTIES
    SleepOnlyAfterTimeOut
