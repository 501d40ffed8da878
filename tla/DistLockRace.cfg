\* Two processes, no faults.
SPECIFICATION Spec
CONSTANTS
    Proc = {p1, p2}
    NoProc = NoProc
    NumServers = 2
    Skewed = FALSE
    MaxTs = 3
    MaxErrors = 0
    MaxCrashes = 0
SYMMETRY Symmetry
CHECK_DEADLOCK FALSE
INVARIANTS
    MutualExclusion
