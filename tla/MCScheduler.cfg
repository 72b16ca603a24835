SPECIFICATION Spec
CONSTANTS
  Facts = {"a", "b", "c", "d"}
  Match <- MCMatch
  Effect <- MCEffect
  Rulesets <- MCRulesets
  Configs <- MCConfigs
  Width = 3
INVARIANTS MatchesAccounted StopReportExact
PROPERTY LoopTerminates
CHECK_DEADLOCK FALSE
