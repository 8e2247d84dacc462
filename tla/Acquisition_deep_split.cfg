CONSTANTS
  Worker = {w1, w2}
  HistoryStart = 0
  FirstDay = 3
  MaxDay = 4
  BackfillDays = 2
  MaxLag = 1
  NoDay = NoDay
  NoBar = NoBar
  MaxActions = 1
  MaxFaults = 0
  MaxCrashes = 0
  Straddle = {}
  ProbeMayFail = FALSE
  DeepActions = TRUE
  CleanOverlaps = FALSE
SPECIFICATION Spec
CHECK_DEADLOCK FALSE
INVARIANTS OneAdjustment
