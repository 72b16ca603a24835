SPECIFICATION Spec
CONSTANTS
  Facts = {"a", "b", "c", "d"}
  Match <- MCMatch
  Effect <- MCEffect
  Rulesets <- MCRulesets
  Configs <- MCDoubling
  Width = 3
INVARIANT StopMeansSaturated
CHECK_DEADLOCK FALSE
