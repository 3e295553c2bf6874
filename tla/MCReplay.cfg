SPECIFICATION Spec
CONSTANTS
  RuleSets <- MCRuleSets
  Traces <- MCTraces
  Values <- MCValues
  w1 = w1 w2 = w2
  Teams <- MCTeams
  Faults <- MCFaults
  Bucket = 2
  MaxNow = 2
  NoEvent = NoEvent
INVARIANTS
  VerdictIsRight
  PrefilterLikeBody
  AcceptedIsLive
  SelfIsUnchanged
