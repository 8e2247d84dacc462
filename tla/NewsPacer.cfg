CONSTANTS
  Thread = {r1, r2, r3}
  BulkGap = {2, 3}
  InteractiveGap = {1, 2}
  DayLength = 5
  DailyCap = 2
  Never = Never
  MaxArrivals = 4
  MaxStops = 1
  Killable = FALSE
SPECIFICATION FairSpec
INVARIANT TypeOK
PROPERTIES IsTurnstile Spaced BlockStopsAll BulkYields EveryWaitEnds
