SPECIFICATION Spec
CONSTANTS
    Packet = 2
    Timeout = 2
    Losses = 1
    Requests <- All
INVARIANTS
    TypeOK
    ReadyForSetup
    HandlerReadsItsReport
    DoneOnBothSides
    OnlyUnknownStalled
PROPERTIES
    DataInOrder
