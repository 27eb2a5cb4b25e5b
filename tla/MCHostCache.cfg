SPECIFICATION ProgramSpec
CONSTANTS
    None = None
    d1 = d1
    d2 = d2
    Devices = {d1, d2}
    Serial <- SerialNumbers
    Paths = {p1, p2}
    Handles = {h1, h2}
    cache_max = 2
    FullWidth = 70000
    LongMax = 150000
    IdLists <- Lists
INVARIANTS
    ProgramTypeOK
    NoDanglingHandle
    SerialForDevRight
    SetsTheNamed
    UsesLiveHandle
PROPERTIES
    OpensTheOneAskedFor
SYMMETRY Symmetry
