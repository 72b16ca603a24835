SPECIFICATION Spec
CONSTANTS
  Ids <- MCIds
  Writers = {w1}
  MaxTs = 2
  MaxOps = 3
INVARIANTS RowsExact IndexExact HintComplete
PROPERTY ImplementsLeaders
CHECK_DEADLOCK FALSE
