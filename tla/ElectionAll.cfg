\* Three members, two leases, one restart.
SPECIFICATION Spec
CONSTANTS
    Member = {m1, m2, m3}
    Electable = {m1, m2}
    None = None
    LeaseTime = 1
    MaxTime = 3
    MaxRestarts = 1
SYMMETRY Symmetry
CHECK_DEADLOCK FALSE
INVARIANTS
    TypeOK
    DistinctElectionTimes
    BoxAligned
PROPERTIES
    YieldsToNewer
CONSTRAINT LeasesKept
