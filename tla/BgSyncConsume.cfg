SPECIFICATION Spec
CONSTANTS
  MaxOp = 3
  BufferSize = 2
  BatchLimit = 1
  MaxElections = 1
  MaxBreaks = 0
INVARIANT NoOpSkipped
