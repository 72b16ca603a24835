SPECIFICATION Spec
CONSTANTS
  MaxId = 5
  Leaves = {1, 2}
  Ctors <- MCCtors
  Arity <- MCArity
  MaxCommands = 3
  MaxActions = 3
  MaxRounds = 28
INVARIANT RebuiltExact
INVARIANT DroppedBranchEmpty
PROPERTY ImplementsCongruentTerms
PROPERTY RebuildTerminates
CHECK_DEADLOCK FALSE
