CONSTANTS
  Ticker = {T1}
  NoRow = NoRow
  NoTomb = NoTomb
  NoFile = NoFile
  Unreadable = Unreadable
  MaxStamp = 4
  MaxAuthor = 2
  MaxMeta = 0
  MaxTheme = 1
  NumPC = 2
  Thread = {k1}
  SeedTicker = {T1}
  LegacyMeta = {0}
  MaxEdits = 1
  MaxFaults = 0
  MaxRestarts = 1
  Switchable = TRUE
  Overlap = TRUE
SPECIFICATION FairSpec
CHECK_DEADLOCK FALSE
PROPERTIES Convergence
