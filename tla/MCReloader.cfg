SPECIFICATION FairSpec
CONSTANTS
  c1 = c1 c2 = c2 c3 = c3 cBad = cBad
  Files = {1, 2}
  Contents = {c1, c2, c3, cBad}
  Bad = {cBad}
  RuleId <- MCRuleId
  Absent = Absent
  None = None
  MaxEdits = 2
  MayRevert = FALSE
INVARIANTS
  SkipIsSafe
  AllOrNothing
PROPERTIES
  StatsSurvive
  Converges
  WatchConverges
