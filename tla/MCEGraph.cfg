CONSTANTS
  Fns <- MCFns
  Arity <- MCArity
  MaxId = 4
  MaxCmds = 5
  Vars <- MCVars
  Rules <- MCRules
  Rulesets <- MCRulesets
  BulkRows <- MCBulk
SPECIFICATION FairSpec
CHECK_DEADLOCK FALSE
INVARIANT TypeOK
INVARIANT FunctionalDependency
INVARIANT SeminaiveComplete
INVARIANT StaleIdsTracked
INVARIANT CanonicalWhenIdle
INVARIANT CongruenceSound
INVARIANT CongruenceComplete
INVARIANT EffectsVisible
PROPERTY EqualitiesPersist
PROPERTY CommandsReturn
