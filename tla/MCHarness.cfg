SPECIFICATION Spec
CONSTANTS
  Stream <- MCStream
  Requests <- MCRequests
  IdOf <- MCIdOf
  VerdictOf <- MCVerdictOf
  MaxWebhooks = 1
  MaySkip = FALSE
  DbMayFail = TRUE
  PostAttempts = 2
  HookAttempts = 2
  Concurrency = 1
  MaxEvents = 2
  NoMessage = NoMessage
INVARIANTS
  ShimAccounts
  AcceptedOnce
  HookOnceUnlessUnsure
  ReportIsRight
PROPERTIES
  ShimEnds
  SlotsReturn
