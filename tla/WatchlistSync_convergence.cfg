CONSTANTS
  Ticker = {T1}
  NoRow = NoRow
  NoTomb = NoTomb
  NoFile = NoFile
  Unreadable = Unreadable
  MaxStamp = 4
  MaxAuthor = 2
  MaxMeta = 0
  MaxTheme = 0
  NumPC = 2
  Thread = {k1}
  SeedTicker = {T1}
  LegacyMeta = {}
  MaxEdits = 2
  MaxFaults = 0
  MaxRestarts = 0
  Switchable = FALSE
  Overlap = TRUE
SPECIFICATION FairSpec
CHECK_DEADLOCK FALSE
INVARIANTS FilesSettled
PROPERTIES Convergence SyncKeepsNewest PendingFollowsWatchlist
