\* A crash of the process alone: an acknowledged write is skipped by recovery.
SPECIFICATION Spec
CONSTANTS
    o1 = o1
    o2 = o2
    w1 = w1
    w2 = w2
    w3 = w3
    a = a
    b = b
    Op = {o1, o2}
    Write = {w1, w2, w3}
    Loc = {a, b}
    op <- MCOp
    place <- MCPlace
    Keep = 1
    FileLimit = 2
    MaxTime = 3
    MaxCrashes = 1
    PowerLoss = FALSE
CHECK_DEADLOCK FALSE
INVARIANTS
    AckedSurvive
