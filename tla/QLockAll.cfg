\* Every entry point, four threads, every order of seven calls.
SPECIFICATION Spec
CONSTANTS
    Thread = {t1, t2, t3, t4}
    Ops <- AllOps
    MaxCalls = 7
SYMMETRY Symmetry
CHECK_DEADLOCK FALSE
INVARIANTS
    TypeOK
    MutualExclusion
    NeverAborts
    CountersAgree
PROPERTIES
    ImplementsTable
