\* Three processes, two config servers, three lock IDs, or two and an error.
SPECIFICATION Spec
CONSTANTS
    Proc = {p1, p2, p3}
    NoProc = NoProc
    NumServers = 2
    Skewed = FALSE
    MaxTs = 3
    MaxErrors = 1
    MaxCrashes = 1
CONSTRAINTS
    NotOpened
    ErrorOrThirdID
SYMMETRY Symmetry
CHECK_DEADLOCK FALSE
INVARIANTS
    TypeOK
    ExclusiveUnlessOpened
