SPECIFICATION FairSpec
CONSTANTS
  c1 = c1
  c2 = c2
  c3 = c3
  k1 = k1
  Caller <- Callers
  KeyRange <- Ranges
  Cursor <- Cursors
INVARIANTS TypeOK DeleteSetIsExact BlackListDisjoint CursorsAreSpared StatsAgree
PROPERTIES StopReturns DeletesComplete
CHECK_DEADLOCK FALSE
