SPECIFICATION Spec
CONSTANTS
  r1 = r1 r2 = r2 r3 = r3 w1 = w1 w2 = w2
  Requests <- MCRequests3
  Ids <- MCIds
  IdOf <- MCIdOf
  Workers = {w1, w2}
  EventCap = 1
  ResultCap = 1
  BatchSize = 2
  MaxWebhooks = 1
  EmitInteresting = TRUE
  Outcomes <- MCMixed
  DbMayFail = TRUE
  NoJob = NoJob
SYMMETRY MCSymmetry
INVARIANTS
  Accounted
  ResultsClosedLast
  DrainedIsSettled
  CleanInBudget
  OneRowPerId
  Tallies
PROPERTIES
  Delivers
