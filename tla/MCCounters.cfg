SPECIFICATION Spec
CONSTANTS
  w1 = w1 w2 = w2
  Workers = {w1, w2}
  Keys = {"k"}
  Bucket = 2
  Slots = 2
  Windows <- MCWindows
  Start = 7
  MaxNow = 11
  MaxCalls = 3
  MaxLag = 1
SYMMETRY MCSymmetry
INVARIANTS
  CountIsAccurate
  LostOnlyByEviction
  EvictsOnlyIdle
CHECK_DEADLOCK FALSE
