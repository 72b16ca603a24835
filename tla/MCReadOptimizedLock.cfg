CONSTANTS
  Threads <- MCThreads
  MaxOps <- MCMaxOps
  None = None
SPECIFICATION FairSpec
CHECK_DEADLOCK FALSE
INVARIANT TypeOK
INVARIANT NoLostWakeup
INVARIANT EveryWaitHasANotifier
PROPERTY ImplementsRwLock
PROPERTY OperationsReturn
