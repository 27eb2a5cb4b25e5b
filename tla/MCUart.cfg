SPECIFICATION RxSpec
CONSTANTS
    None = None
    MaxCalls = 3
    MaxBytes = 2
    MaxTime = 1
    Letters = {"H", "N"}
    MaxReceived = 4
INVARIANTS
    TypeOK
    CommandsContiguous
    HeardUnlessCrowded
PROPERTIES
    ImplementsLine
    AllServed
CHECK_DEADLOCK FALSE
