SPECIFICATION CaSpec
CONSTANTS
  CaTicker = {t1, t2}
  CaFigure = {f0, f1}
  CaDefault = f0
  NoCa = none
  CaMaxEdits = 2
  CaMaxPicks = 2
  CaMaxVisits = 2
  CaMaxFaults = 1
INVARIANT MetricsAreKept
CHECK_DEADLOCK FALSE
