CONSTANTS
  Ticker = {T1}
  NoRow = NoRow
  NoTomb = NoTomb
  MaxStamp = 3
  MaxAuthor = 1
  MaxMeta = 1
  MaxTheme = 1
  MaxInputs = 3
SPECIFICATION LoopSpec
INVARIANTS OrderIndependent RepublishStable StagedMergeAgrees
