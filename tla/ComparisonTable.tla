--------------------------- MODULE ComparisonTable ---------------------------
(***************************************************************************)
(* What the corporate page makes of the rows of a comparison               *)
(* (app/corporate/corporateDerivedViews.ts, TargetStockComparisonSection,  *)
(* CorporateComparisonTable): the sorted table, the peers of the selected  *)
(* stock in two charts, and the reports of all stocks that stand under     *)
(* them.  A DCF value is a value per share only where the bridge from      *)
(* enterprise value to equity resolved; what cannot be ranked has no place *)
(* in a ranking.  Values are small integers.                               *)
(***************************************************************************)
EXTENDS Integers, Sequences, FiniteSets, SequencesExt

CONSTANTS
  CtTables,     \* the tables that may arrive: sequences of rows
  CtOthers,     \* tickers that are in none of them
  NoCt,         \* no figure, no batch
  CtPeers,      \* stocks in the charts at most (6)
  CtMaxActs,    \* bound: acts of the user
  CtMaxTables,  \* bound: tables that arrive
  CtMaxFaults   \* bound: batches that fail

CtTickers == {r.ticker : r \in UNION {ToSet(table) : table \in CtTables}}

ASSUME CtAssumption ==
  /\ CtTables # {} /\ NoCt \notin CtTickers /\ CtOthers # {}
  /\ \A table \in CtTables : \A i, j \in DOMAIN table : table[i].ticker = table[j].ticker => i = j
  /\ CtPeers \in Nat \ {0} /\ CtMaxActs \in Nat /\ CtMaxTables \in Nat /\ CtMaxFaults \in Nat

VARIABLES
  ctRows,      \* comparisonDisplayData.rows
  ctSort,      \* storedSortKey and comparisonSortDirection, kept by the browser tab
  ctTicker,    \* assumptions.ticker
  ctBatch,     \* the stocks whose reports are being calculated
  ctReports,   \* bulkDcfReports
  ctSkipped,   \* bulkDcfSkipped
  ctLoose,     \* history: the rows changed under a batch, a later batch failed
  ctUsed       \* bounds

ctVars == <<ctRows, ctSort, ctTicker, ctBatch, ctReports, ctSkipped, ctLoose, ctUsed>>

-----------------------------------------------------------------------------
(* The table.                                                              *)

\* bridgedDcfValue: an enterprise value is not a smaller value per share.
BridgedValue(row) == IF row.bridge = "missing" THEN NoCt ELSE row.dcf

SortKey == {"implied_return_spread", "roic_minus_wacc", "dcf_value"}
\* A key an older version stored falls back to the first.
CurrentKey == IF ctSort.key \in SortKey THEN ctSort.key ELSE "implied_return_spread"

FigureOf(row, key) ==
  CASE key = "dcf_value" -> BridgedValue(row)
    [] key = "implied_return_spread" -> row.spread
    [] OTHER -> row.roic

\* sortComparisonRows, its comparison: what has no figure goes last in both directions.
GoesBefore(left, right, key, direction) ==
  LET l == FigureOf(left, key)
      r == FigureOf(right, key)
  IN IF NoCt \in {l, r} THEN l # NoCt /\ r = NoCt
     ELSE IF direction = "asc" THEN l < r ELSE r < l

SortRows(rows, key, direction) ==
  LET before(i, j) == \/ GoesBefore(rows[i], rows[j], key, direction)
                      \/ i < j /\ ~ GoesBefore(rows[j], rows[i], key, direction)
      order == SortSeq([i \in DOMAIN rows |-> i], before)
  IN [i \in DOMAIN rows |-> rows[order[i]]]

SortedRows == SortRows(ctRows, CurrentKey, ctSort.direction)

\* The cells of a row that depend on more than one of its figures.
CellsOf(row) ==
  [link |-> row.group # "benchmark",
   value |-> BridgedValue(row),
   reason |-> IF row.refused THEN "refusal" ELSE IF BridgedValue(row) = NoCt THEN "bridge" ELSE NoCt]

-----------------------------------------------------------------------------
(* The charts.                                                             *)

StocksOf(rows) == SelectSeq(rows, LAMBDA r : r.group # "benchmark")
TickersOf(rows) == [i \in DOMAIN rows |-> rows[i].ticker]

\* selectedComparisonRow, as a sequence: the current stock, or the first of the table.
SelectedOf(stocks) ==
  LET own == SelectSeq(stocks, LAMBDA r : r.ticker = ctTicker)
  IN IF own # <<>> THEN own ELSE SubSeq(stocks, 1, 1)

\* buildSimilarComparisonRows: of the sector, unless it has too few names.
SimilarRows ==
  LET stocks == StocksOf(SortedRows)
      chosen == SelectedOf(stocks)
      sector == SelectSeq(stocks, LAMBDA r : r.sector # "" /\ r.sector = chosen[1].sector)
      base == IF Len(sector) >= 2 THEN sector ELSE stocks
      all == chosen \o SelectSeq(base, LAMBDA r : r.ticker # chosen[1].ticker)
  IN SubSeq(all, 1, IF Len(all) < CtPeers THEN Len(all) ELSE CtPeers)

\* buildSimilarComparisonBarData, and the note of the stocks without a bar.
SpreadBars ==
  [i \in DOMAIN SimilarRows |->
     [ticker |-> SimilarRows[i].ticker, bar |-> SimilarRows[i].spread,
      selected |-> SimilarRows[i].ticker = SelectedOf(StocksOf(SortedRows))[1].ticker]]
RefusedNote == {bar.ticker : bar \in {b \in ToSet(SpreadBars) : b.bar = NoCt}}

\* buildSimilarComparisonScatterPeers, buildSimilarComparisonScatterSelected
MapPoints(rows) ==
  [i \in DOMAIN rows |-> [ticker |-> rows[i].ticker, value |-> BridgedValue(rows[i]),
                          size |-> IF rows[i].spread = NoCt THEN 0 ELSE rows[i].spread]]
ScatterPeers ==
  MapPoints(SelectSeq(SimilarRows, LAMBDA r : /\ r.ticker # SelectedOf(StocksOf(SortedRows))[1].ticker
                                           /\ BridgedValue(r) # NoCt))
ScatterSelected ==
  MapPoints(SelectSeq(SelectedOf(StocksOf(SortedRows)), LAMBDA r : BridgedValue(r) # NoCt))

-----------------------------------------------------------------------------
(* The user, the rows and the reports.                                     *)

CtUse(what) == ctUsed' = [ctUsed EXCEPT ![what] = @ + 1]

\* bulkDcfReportUniverseKey: the stocks in the order of the table.
UniverseKey == TickersOf(StocksOf(SortedRows))

\* The effect on that key drops the reports, but not the note of those skipped.
ReportsDropped ==
  ctReports' = IF UniverseKey' = UniverseKey THEN ctReports ELSE {}

CtInit ==
  /\ ctRows = <<>> /\ ctTicker = CHOOSE ticker \in CtOthers : TRUE
  /\ ctSort \in [key : {"implied_return_spread", "expected_return_spread"}, direction : {"desc"}]
  /\ ctBatch = NoCt /\ ctReports = {} /\ ctSkipped = {} /\ ctLoose = FALSE
  /\ ctUsed = [acts |-> 0, tables |-> 0, faults |-> 0]

\* A comparison is answered: of today or of another universe.
RowsArrive(rows) ==
  /\ ctUsed.tables < CtMaxTables /\ rows # ctRows
  /\ ctRows' = rows
  /\ ctLoose' = (ctLoose \/ ctBatch # NoCt)
  /\ CtUse("tables")
  /\ UNCHANGED <<ctSort, ctTicker, ctBatch, ctSkipped>>
  /\ ReportsDropped

SortTable(sort) ==
  /\ ctUsed.acts < CtMaxActs /\ sort # ctSort
  /\ ctSort' = sort
  /\ CtUse("acts")
  /\ UNCHANGED <<ctRows, ctTicker, ctBatch, ctSkipped, ctLoose>>
  /\ ReportsDropped

\* From the table or the reports, where there is a link, or from the header.
SelectStock(ticker) ==
  /\ ctUsed.acts < CtMaxActs /\ ticker # ctTicker
  /\ ticker \in CtOthers \/ \E row \in ToSet(ctRows) : row.ticker = ticker /\ CellsOf(row).link
  /\ ctTicker' = ticker
  /\ CtUse("acts")
  /\ UNCHANGED <<ctRows, ctSort, ctBatch, ctReports, ctSkipped, ctLoose>>

\* handleCalculateAllDcfReports; the button is enabled while there are stocks.
CalculateReports ==
  /\ ctUsed.acts < CtMaxActs /\ ctBatch = NoCt /\ StocksOf(SortedRows) # <<>>
  /\ ctBatch' = ToSet(TickersOf(StocksOf(ctRows))) /\ ctSkipped' = {}
  /\ CtUse("acts")
  /\ UNCHANGED <<ctRows, ctSort, ctTicker, ctReports, ctLoose>>

ReportsArrive(skipped) ==
  /\ ctBatch # NoCt /\ skipped \subseteq ctBatch
  /\ ctReports' = ctBatch \ skipped /\ ctSkipped' = skipped /\ ctBatch' = NoCt
  /\ UNCHANGED <<ctRows, ctSort, ctTicker, ctLoose, ctUsed>>

\* The reports of before stay.
ReportsFail ==
  /\ ctBatch # NoCt /\ ctUsed.faults < CtMaxFaults
  /\ ctBatch' = NoCt /\ ctLoose' = TRUE
  /\ CtUse("faults")
  /\ UNCHANGED <<ctRows, ctSort, ctTicker, ctReports, ctSkipped>>

CtNext ==
  \/ \E rows \in CtTables : RowsArrive(rows)
  \/ \E sort \in [key : SortKey, direction : {"asc", "desc"}] :
       (sort.key = CurrentKey \/ sort.direction = ctSort.direction) /\ SortTable(sort)
  \/ \E ticker \in CtTickers \cup CtOthers : SelectStock(ticker)
  \/ CalculateReports
  \/ ctBatch # NoCt /\ \E skipped \in SUBSET ctBatch : ReportsArrive(skipped)
  \/ ReportsFail

CtSpec == CtInit /\ [][CtNext]_ctVars

-----------------------------------------------------------------------------
CtTypeOK ==
  /\ ctRows \in CtTables \cup {<<>>} /\ ctTicker \in CtTickers \cup CtOthers
  /\ ctSort.key \in SortKey \cup {"expected_return_spread"} /\ ctSort.direction \in {"asc", "desc"}
  /\ ctBatch = NoCt \/ ctBatch \subseteq CtTickers
  /\ ctReports \subseteq CtTickers /\ ctSkipped \subseteq CtTickers /\ ctLoose \in BOOLEAN

\* Whatever the key and the direction, no row is lost, the rows without a figure
\* come last in their order, turning the direction turns the others round, and a
\* value shown as a dash is never ranked above one shown.
TableRanks ==
  LET turned == SortRows(ctRows, CurrentKey, IF ctSort.direction = "asc" THEN "desc" ELSE "asc")
      ranked(rows) == SelectSeq(rows, LAMBDA r : FigureOf(r, CurrentKey) # NoCt)
      figures(rows) == [i \in DOMAIN ranked(rows) |-> FigureOf(ranked(rows)[i], CurrentKey)]
  IN /\ ToSet(SortedRows) = ToSet(ctRows)
     /\ figures(turned) = Reverse(figures(SortedRows))
     /\ SubSeq(SortedRows, Len(ranked(ctRows)) + 1, Len(ctRows))
          = SelectSeq(ctRows, LAMBDA r : FigureOf(r, CurrentKey) = NoCt)
     /\ CurrentKey = "dcf_value" => \A i, j \in DOMAIN SortedRows :
          i < j /\ CellsOf(SortedRows[i]).value = NoCt => CellsOf(SortedRows[j]).value = NoCt

\* The two charts speak of the same stocks: the selected one first, nobody twice,
\* never the benchmark, and only its own sector where that has a second name; one
\* bar is marked, and every stock is a point of the map exactly when it has a value
\* per share.
PeersAgree ==
  StocksOf(ctRows) # <<>> =>
    LET chosen == SelectedOf(StocksOf(SortedRows))[1]
        peers == ToSet(SimilarRows)
        second == \E r \in ToSet(StocksOf(ctRows)) : r # chosen /\ r.sector = chosen.sector
    IN /\ SimilarRows[1] = chosen /\ Cardinality(peers) = Len(SimilarRows)
       /\ \A r \in peers : r.group # "benchmark"
       /\ ctTicker \in ToSet(UniverseKey) => chosen.ticker = ctTicker
       /\ chosen.sector # "" /\ second => \A r \in peers : r.sector = chosen.sector
       /\ Cardinality({i \in DOMAIN SpreadBars : SpreadBars[i].selected}) = 1
       /\ {p.ticker : p \in ToSet(ScatterPeers \o ScatterSelected)}
            = {r.ticker : r \in {s \in peers : CellsOf(s).value # NoCt}}
       /\ Len(ScatterPeers) + Len(ScatterSelected)
            = Cardinality({p.ticker : p \in ToSet(ScatterPeers \o ScatterSelected)})
       /\ RefusedNote = {r.ticker : r \in {s \in peers : s.spread = NoCt}}

\* The reports and the stocks said to be skipped are together the stocks of the
\* table they stand under, unless the rows changed under a batch or a batch failed.
ReportsCoverTable ==
  ctReports # {} /\ ctBatch = NoCt /\ ~ ctLoose =>
    ctReports \cup ctSkipped = ToSet(UniverseKey) /\ ctReports \cap ctSkipped = {}

ComparisonHolds == TableRanks /\ PeersAgree /\ ReportsCoverTable
=============================================================================
