CONSTANTS
  Ticker = {T1, T2}
  NoRow = NoRow
  NoTomb = NoTomb
  NoFile = NoFile
  Unreadable = Unreadable
  MaxStamp = 3
  MaxAuthor = 2
  MaxMeta = 0
  MaxTheme = 0
  NumPC = 2
  Thread = {k1}
  SeedTicker = {T1}
  LegacyMeta = {}
  MaxEdits = 1
  MaxFaults = 1
  MaxRestarts = 1
  Switchable = FALSE
  Overlap = FALSE
SPECIFICATION Spec
CHECK_DEADLOCK FALSE
PROPERTIES NeverReseeds
