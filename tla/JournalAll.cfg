\* Two operations that share a place, crashes at every point.
SPECIFICATION FairSpec
CONSTANTS
    o1 = o1
    o2 = o2
    w1 = w1
    w2 = w2
    w3 = w3
    a = a
    b = b
    Op = {o1, o2}
    Write = {w1, w2, w3}
    Loc = {a, b}
    op <- MCOp
    place <- MCPlace
    Keep = 0
    FileLimit = 1
    MaxTime = 1
    MaxCrashes = 2
    PowerLoss = TRUE
CHECK_DEADLOCK FALSE
INVARIANTS
    TypeOK
    WriteAhead
    AckedIsJournaled
    OnlySkippedAreLost
    AllOrNothing
    NothingStaleInJournal
PROPERTIES
    WaitersReturn
