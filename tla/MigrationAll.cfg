\* Two moves between two shards, with two writes and one failure.
CONSTANTS
    Shard = {s1, s2}
    NoShard = NoShard
    Home = s1
    NumDocs = 2
    XferLimit = 1
    MaxWrites = 2
    MaxMoves = 2
    MaxFaults = 1
SPECIFICATION FairSpec
INVARIANTS TypeOK OwnerHasData AcceptedByOwnerOnly ChunkIsServable
PROPERTIES ChunkIsServed MoveReturns RecvThreadEnds
CHECK_DEADLOCK FALSE
