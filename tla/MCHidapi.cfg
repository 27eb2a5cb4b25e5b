SPECIFICATION Spec
CONSTANTS
    Limit = 1
    Reports = 4
    Pending = 1
INVARIANTS
    TypeOK
    FailsOnlyForCause
    CloseSafe
PROPERTIES
    ImplementsQueue
    CallsReturn
