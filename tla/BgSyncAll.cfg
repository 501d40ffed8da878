\* A source with four operations, two broken cursors and two elections.
SPECIFICATION FairSpec
CONSTANTS
  MaxOp = 4
  BufferSize = 2
  BatchLimit = 1
  MaxElections = 2
  MaxBreaks = 2
INVARIANTS TypeOK HolesAreDropped SleepersAreWoken
PROPERTIES CatchesUp BecomesPrimary
