CONSTANTS
  Ticker = {T1}
  NoRow = NoRow
  NoTomb = NoTomb
  NoFile = NoFile
  Unreadable = Unreadable
  MaxStamp = 4
  MaxAuthor = 2
  MaxMeta = 1
  MaxTheme = 0
  NumPC = 2
  Thread = {k1}
  SeedTicker = {T1}
  LegacyMeta = {}
  MaxEdits = 2
  MaxFaults = 0
  MaxRestarts = 1
  Switchable = FALSE
  Overlap = FALSE
SPECIFICATION Spec
CHECK_DEADLOCK FALSE
INVARIANTS TypeOK KeyDeterminesContent
PROPERTIES LocalChangeOutranks NeverForgets
