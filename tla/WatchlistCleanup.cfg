CONSTANTS
  Ticker = {T1, T2}
  Table = {stocks, risk_state}
  Candidate = {stocks}
  Marker = risk_state
  Grace = 2
  NoRecord = NoRecord
  BadRecord = BadRecord
  MaxEdits = 4
  MaxFaults = 1
SPECIFICATION FairSpec
INVARIANTS TypeOK MarkerHasBars
PROPERTIES GraceKept NeverDeletesReferenced EventuallyClean
