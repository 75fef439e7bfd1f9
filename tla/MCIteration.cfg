CONSTANTS
  Steps = 8
  Starts <- MCStarts
  Sets = {2}
  Fixed <- MCFixed
  Values = {1, 2}
  Positions <- MCPositions
  MaxLen = 3
  MaxIters = 2
SPECIFICATION CasesSpec
INVARIANTS
  PipelinesAsPython
  LiveAsPython
  BulkAsPython
CHECK_DEADLOCK FALSE
