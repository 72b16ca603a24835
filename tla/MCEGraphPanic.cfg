CONSTANTS
  Fns <- MCFns
  Arity <- MCArity
  MaxId = 4
  MaxCmds = 5
  Vars <- MCVars
  Rules <- MCRules
  Rulesets <- MCRulesets
  BulkRows <- MCBulk
SPECIFICATION Spec
CHECK_DEADLOCK FALSE
PROPERTY SkippedRebuildUnneeded
