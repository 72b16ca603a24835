SPECIFICATION Spec
CONSTANTS
  Tasks = {0, 1, 2, 3}
  None = None
  ReadDeps <- MCReadDeps
  WriteDeps <- MCWriteDeps
  RuleTasks = {0, 1}
  Few = 4
  MaxWrites = 6
INVARIANT NoWriteForgotten
INVARIANT MergeFindsItsTables
