CONSTANTS
  Threads <- MCThreads
  MaxId = 4
  InitLen = 2
  MaxOps = 2
  Calls <- MCCalls
SPECIFICATION MCSpec
CHECK_DEADLOCK FALSE
INVARIANT TypeOK
INVARIANT ForestRepresents
INVARIANT ReadsLinearize
INVARIANT MergesUnite
INVARIANT ChildrenReportedOnce
INVARIANT CopySound
PROPERTY OperationsReturn
