SPECIFICATION Spec
CONSTANTS
    Nobody = Nobody
    Processes = {p1, p2}
    Bytes = {0, 255}
    Ports = {0, 24}
    Times <- FewTimes
    Failures = 2
INVARIANTS
    TypeOK
    AnswerInTime
SYMMETRY Symmetry
