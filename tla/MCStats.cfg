CONSTANTS
  r1 = r1 r2 = r2 r3 = r3
  k1 = k1 k2 = k2
  Rules <- MCRules
  Workers <- MCWorkers
  Samples <- MCSamples
  AlphaInv = 2
  MinEvals = 1
  SlowFactor = 2
  WarnInterval = 1
  EventBudget = 5
  MaxObserves = 4
  MaxNow = 2
SPECIFICATION Spec
INVARIANTS NoSampleLost WarnsApart SlowIsMinority
CHECK_DEADLOCK FALSE
