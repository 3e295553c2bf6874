SPECIFICATION Spec
CONSTANTS
  MaxEvents = 3
  Versions <- MCVersions
  RuleCount <- MCRuleCount
INVARIANTS
  DeadlineReachesRule
