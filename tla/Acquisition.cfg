CONSTANTS
  Worker = {w1, w2}
  HistoryStart = 0
  FirstDay = 5
  MaxDay = 8
  BackfillDays = 4
  MaxLag = 2
  NoDay = NoDay
  NoBar = NoBar
  MaxActions = 2
  MaxFaults = 1
  MaxCrashes = 1
  Straddle = {"acquire"}
  ProbeMayFail = FALSE
  DeepActions = FALSE
  CleanOverlaps = FALSE
SPECIFICATION Spec
CHECK_DEADLOCK FALSE
INVARIANTS TypeOK CoverageIsReal OneAdjustment 
PROPERTIES CoverageGrows
