SPECIFICATION Spec
CONSTANTS
    KeepsCount = TRUE
    Slow = 1
    Medium = 2
    Hold = 3
    Window = 7
    Debounce = 1
    RepeatBound = 5
INVARIANTS
    FirstStepIsByOne
