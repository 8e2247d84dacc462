---------------------------- MODULE StockFigures ----------------------------
(***************************************************************************)
(* The figures of the portfolio page (app/portfolio/page.tsx and           *)
(* portfolioMetrics.ts): which comparison they are taken from - the latest *)
(* answer, a saved snapshot under review, the copy of an earlier visit -   *)
(* what is said of that source, what a figure outside the sanity range may *)
(* count for, and the money the allocation panel derives from them.        *)
(* The attribution panel is beside it: its messages, its date filters and  *)
(* its dialog.  One of the two panels is open in a behaviour: their states *)
(* do not meet.  Which inputs a result answers is PortfolioAnalysis.       *)
(*                                                                         *)
(* The watchlist is never empty.  Percentages are integers.                *)
(***************************************************************************)
EXTENDS Integers, FiniteSets

CONSTANTS
  SfTicker, SfVersion,
  SfRows,         \* the rows a comparison can have: ticker -> [roic, dcf, implied]
  SfSaved,        \* the rows of a saved snapshot
  SfVolatility,   \* what the sparkline of a stock gives
  SfWeight,       \* the weight of a stock, in percent
  SfFee,          \* transaction_fee_rate, in percent
  SfDay,          \* days of the date filters
  NoSf,           \* no value, no result, nothing selected, no day
  SfMaxChanges,   \* bound: mode, selection, watchlist, dates
  SfMaxRefreshes, \* bound: "Refresh Analysis"
  SfMaxFaults     \* bound: requests that fail, after their retries

ASSUME SfAssumption ==
  /\ SfSaved \in [SfVersion -> SfRows] /\ DOMAIN SfWeight = SfTicker
  /\ SfFee \in 0..100 /\ SfDay \subseteq Nat /\ SfTicker # {}
  /\ SfMaxChanges \in Nat /\ SfMaxRefreshes \in Nat /\ SfMaxFaults \in Nat

VARIABLES
  sfPanel,     \* the panel that is open; "none" when it was closed
  sfWatch,     \* watchlist
  sfMode,      \* portfolioComparisonMode
  sfAsked,     \* portfolioComparisonRequestedSnapshot: its mode
  sfQuery,     \* the comparison queries: [data, status]
  sfCopy,      \* cachedPortfolioComparisonCalculation: [watch, result]
  sfSelected,  \* selectedHistoryPoint
  sfReview,    \* the queries of the saved snapshots: their status
  sfAttr,      \* attributionQuery: its status
  sfAttrCopy,  \* there is a copy of an attribution for these inputs
  sfDates,     \* holdingStartDate, attributionAsOfDate
  sfStored,    \* the date filters in localStorage; NoSf before the first effect
  sfDialog,    \* AttributionWaterfall: isDetailOpen
  sfUsed       \* bounds

sfFigures == <<sfWatch, sfMode, sfAsked, sfQuery, sfCopy, sfSelected, sfReview>>
sfAttribution == <<sfPanel, sfAttr, sfAttrCopy, sfDates, sfStored, sfDialog>>
sfVars == <<sfFigures, sfAttribution, sfUsed>>

SfValue == -1000..1000
SfResult == [mode : {"snapshot", "live"}, version : SfVersion \cup {NoSf}, stale : BOOLEAN, rows : SfRows]
SfKey == {"auto", "snapshot", "live"}
ASSUME SfNothing == NoSf \notin SfResult \cup SfVersion \cup SfKey

Unread == [data |-> NoSf, status |-> "idle"]
NoDates == [start |-> NoSf, end |-> NoSf]

SfTypeOK ==
  /\ sfPanel \in {"snapshot", "attribution", "none"}
  /\ sfWatch \in (SUBSET SfTicker) \ {{}} /\ sfMode \in {"snapshot", "live"}
  /\ sfAsked \in {NoSf, "snapshot", "live"}
  /\ \A k \in SfKey : /\ sfQuery[k].data \in SfResult \cup {NoSf}
                      /\ sfQuery[k].status \in {"idle", "asked", "done", "failed"}
  /\ sfCopy = NoSf \/ (sfCopy.watch \subseteq SfTicker /\ sfCopy.result \in SfResult)
  /\ sfSelected \in SfVersion \cup {NoSf}
  /\ sfReview \in [SfVersion -> {"idle", "asked", "done", "failed"}]
  /\ sfAttr \in {"idle", "asked", "done", "failed"} /\ sfAttrCopy \in BOOLEAN /\ sfDialog \in BOOLEAN
  /\ sfDates \in [start : SfDay \cup {NoSf}, end : SfDay \cup {NoSf}]
  /\ sfUsed \in [changes : 0..SfMaxChanges, refreshes : 0..SfMaxRefreshes, faults : 0..SfMaxFaults]

\* The latest snapshot is asked for when the page opens, unless the comparison of an earlier
\* visit was asked for explicitly, which is then asked for again.
SfInit ==
  /\ sfPanel \in {"snapshot", "attribution"}
  /\ sfWatch = SfTicker /\ sfMode = "snapshot"
  /\ sfAsked \in {NoSf, "snapshot"}
  /\ sfQuery = [k \in SfKey |-> IF k = (IF sfAsked = NoSf THEN "auto" ELSE sfAsked)
                                THEN [Unread EXCEPT !.status = "asked"] ELSE Unread]
  /\ \E copied \in BOOLEAN :
       sfCopy = IF copied
                THEN [watch |-> SfTicker, result |-> [mode |-> "snapshot", version |-> NoSf, stale |-> FALSE,
                                                      rows |-> CHOOSE r \in SfRows : DOMAIN r # {}]]
                ELSE NoSf
  /\ sfSelected = NoSf /\ sfReview = [v \in SfVersion |-> "idle"]
  /\ sfAttr = "idle" /\ sfAttrCopy \in BOOLEAN
  /\ sfDates = NoDates /\ sfStored = NoDates /\ sfDialog = FALSE
  /\ sfUsed = [changes |-> 0, refreshes |-> 0, faults |-> 0]
  /\ sfPanel = "attribution" => sfAsked = NoSf /\ sfCopy = NoSf
  /\ sfPanel = "snapshot" => ~ sfAttrCopy

-----------------------------------------------------------------------------
(* Where the figures come from.                                            *)

\* The observed query; none in live mode before a refresh.
ObservedKey(asked, mode) == IF asked # NoSf THEN asked ELSE IF mode = "snapshot" THEN "auto" ELSE NoSf
LatestQuery == IF ObservedKey(sfAsked, sfMode) = NoSf THEN Unread ELSE sfQuery[ObservedKey(sfAsked, sfMode)]

\* cachedPortfolioComparison: the copy, while it answers what the controls say.
Copy == IF sfCopy # NoSf /\ sfCopy.watch = sfWatch /\ sfCopy.result.mode = sfMode
        THEN sfCopy.result ELSE NoSf

ComparisonData == IF LatestQuery.data # NoSf THEN LatestQuery.data ELSE Copy

SnapshotOf(v) == [mode |-> "snapshot", version |-> v, stale |-> FALSE, rows |-> SfSaved[v]]
ReviewData == IF sfSelected # NoSf /\ sfReview[sfSelected] = "done" THEN SnapshotOf(sfSelected) ELSE NoSf

\* activeComparisonData: the snapshot under review, or else the latest comparison.
ActiveData == IF sfMode = "snapshot" /\ ReviewData # NoSf THEN ReviewData ELSE ComparisonData

\* comparisonSourceMode
SourceMode ==
  IF sfSelected # NoSf /\ ReviewData # NoSf THEN "selected_snapshot"
  ELSE IF LatestQuery.data # NoSf THEN ComparisonData.mode
  ELSE IF ComparisonData # NoSf THEN "cached" ELSE "unavailable"

\* portfolioComparisonViewState
ComparisonView ==
  {m \in {"review loading", "review error", "loading", "error", "empty", "summary"} :
    CASE m = "review loading" -> sfSelected # NoSf /\ sfReview[sfSelected] = "asked"
      [] m = "review error" -> sfSelected # NoSf /\ sfReview[sfSelected] = "failed"
      [] m = "loading" -> LatestQuery.status = "asked" /\ ComparisonData = NoSf
      [] m = "error" -> LatestQuery.status = "failed" /\ ComparisonData = NoSf
      [] m = "empty" -> /\ ActiveData = NoSf /\ LatestQuery.status \notin {"asked", "failed"}
                        /\ ~ (sfSelected # NoSf /\ sfReview[sfSelected] = "asked")
      [] m = "summary" -> ActiveData # NoSf}

-----------------------------------------------------------------------------
(* The figures of a stock: buildPortfolioTickerMetrics.                    *)

SfOutlier(value) == value # NoSf /\ (value > 500 \/ value < -500)

\* buildNumericMetric, buildUnavailableMetric
Metric(value, stale, estimated) ==
  [value |-> value,
   quality |-> IF value = NoSf THEN "missing" ELSE IF SfOutlier(value) THEN "suspicious"
               ELSE IF stale THEN "stale" ELSE IF estimated THEN "estimated" ELSE "ok"]

\* metricNumericValue: what a figure counts for.
NumericValue(metric) == IF metric.quality \in {"missing", "suspicious"} THEN NoSf ELSE metric.value

\* metricToneClass
MetricTone(metric) ==
  IF metric.quality \in {"missing", "suspicious"} THEN "warning"
  ELSE IF metric.value = 0 THEN "muted" ELSE IF metric.value > 0 THEN "up" ELSE "down"

\* volatilityToneClass
VolatilityTone(metric) ==
  IF metric.quality \in {"missing", "suspicious"} THEN "warning"
  ELSE IF metric.value >= 35 THEN "down" ELSE IF metric.value >= 20 THEN "warning" ELSE "success"

TickerMetrics(t) ==
  LET rows == IF ActiveData = NoSf THEN [x \in {} |-> {}] ELSE ActiveData.rows
      stale == (ActiveData # NoSf /\ ActiveData.stale) \/ SourceMode = "cached"
      of(f) == IF t \in DOMAIN rows THEN rows[t][f] ELSE NoSf
  IN  [roic |-> Metric(of("roic"), stale, FALSE), dcf |-> Metric(of("dcf"), stale, FALSE),
       implied |-> Metric(of("implied"), stale, FALSE),
       volatility |-> Metric(SfVolatility[t], FALSE, SfVolatility[t] # NoSf),
       excluded |-> \E f \in {"roic", "dcf", "implied"} : SfOutlier(of(f))]

\* HoldingsTable: how the figures of a row are coloured.
HoldingsRow(t) ==
  LET m == TickerMetrics(t)
  IN  [roic |-> MetricTone(m.roic), dcf |-> MetricTone(m.dcf), implied |-> MetricTone(m.implied),
       volatility |-> VolatilityTone(m.volatility)]

\* The counts of portfolioSnapshotSummary.
Counting(f, Test(_)) == Cardinality({t \in sfWatch : LET v == NumericValue(TickerMetrics(t)[f]) IN v # NoSf /\ Test(v)})
AnyValue(v) == TRUE
PositiveValue(v) == v > 0
ImpliedSpreadCount == Counting("implied", AnyValue)
PositiveSpreadCount == Counting("implied", PositiveValue)
PositiveEconomicSpreadCount == Counting("roic", PositiveValue)
FlaggedCount == Cardinality({k \in sfWatch \X {"roic", "dcf", "implied"} :
                               TickerMetrics(k[1])[k[2]].quality = "suspicious"})

\* highestSpreadRow; with equal spreads any of them, as the order of the list decides.
Ranked == {t \in sfWatch : ~ TickerMetrics(t).excluded /\ NumericValue(TickerMetrics(t).implied) # NoSf}
TopTickers == {t \in Ranked : \A u \in Ranked : TickerMetrics(u).implied.value <= TickerMetrics(t).implied.value}

\* PortfolioSnapshotSummary: the snapshot it says is reviewed, and what it tells of the
\* comparison shown.
SnapshotSummary ==
  [reviewing |-> sfSelected, version |-> ActiveData.version, mode |-> ActiveData.mode,
   beats |-> <<PositiveSpreadCount, ImpliedSpreadCount>>, positive |-> PositiveEconomicSpreadCount,
   top |-> TopTickers, flagged |-> FlaggedCount]

\* allocationRows: of 10000 invested, what a stock is worth at the DCF value after the fee.
Allocated(t) == 100 * SfWeight[t]
Projected(t) ==
  LET up == NumericValue(TickerMetrics(t).dcf)
  IN  IF up = NoSf THEN Allocated(t)
      ELSE (((Allocated(t) * (100 + up)) \div 100) * (100 - SfFee)) \div 100
FinalProfit(t) == Projected(t) - Allocated(t)

-----------------------------------------------------------------------------
(* The snapshot panel.                                                     *)

SfChange == sfUsed.changes < SfMaxChanges /\ sfUsed' = [sfUsed EXCEPT !.changes = @ + 1]
SfFault == sfUsed.faults < SfMaxFaults /\ sfUsed' = [sfUsed EXCEPT !.faults = @ + 1]

\* Under another key a query is asked for unless it has data.
Observing(query, asked, mode) ==
  LET k == ObservedKey(asked, mode)
  IN  IF k # NoSf /\ query[k].data = NoSf THEN [query EXCEPT ![k].status = "asked"] ELSE query

ComparisonAnswered ==
  /\ sfPanel = "snapshot" /\ LatestQuery.status = "asked"
  /\ \E rows \in SfRows, stale \in BOOLEAN :
       LET mode == IF sfAsked = "live" THEN "live" ELSE "snapshot" IN
       /\ mode = "live" => ~ stale
       /\ sfQuery' = [sfQuery EXCEPT ![ObservedKey(sfAsked, sfMode)] =
                        [data |-> [mode |-> mode, version |-> NoSf, stale |-> stale, rows |-> rows],
                         status |-> "done"]]
  /\ UNCHANGED <<sfWatch, sfMode, sfAsked, sfCopy, sfSelected, sfReview, sfAttribution, sfUsed>>

ComparisonFailed ==
  /\ sfPanel = "snapshot" /\ LatestQuery.status = "asked"
  /\ sfQuery' = [sfQuery EXCEPT ![ObservedKey(sfAsked, sfMode)].status = "failed"]
  /\ SfFault
  /\ UNCHANGED <<sfWatch, sfMode, sfAsked, sfCopy, sfSelected, sfReview, sfAttribution>>

\* "Source": live mode clears the selection.
SetMode(mode) ==
  /\ sfPanel = "snapshot" /\ mode # sfMode
  /\ sfMode' = mode
  /\ sfSelected' = IF mode = "live" THEN NoSf ELSE sfSelected
  /\ sfQuery' = Observing(sfQuery, sfAsked, mode)
  /\ SfChange
  /\ UNCHANGED <<sfWatch, sfAsked, sfCopy, sfReview, sfAttribution>>

\* handleRefreshPortfolioAnalysis: a new token makes a new key.
RefreshFigures ==
  /\ sfPanel = "snapshot" /\ sfUsed.refreshes < SfMaxRefreshes
  /\ sfAsked' = sfMode /\ sfSelected' = NoSf
  /\ sfQuery' = [sfQuery EXCEPT ![sfMode] = [data |-> NoSf, status |-> "asked"]]
  /\ sfUsed' = [sfUsed EXCEPT !.refreshes = @ + 1]
  /\ UNCHANGED <<sfWatch, sfMode, sfCopy, sfReview, sfAttribution>>

\* A saved snapshot is chosen in the list or in the history.
ReviewSnapshot(v) ==
  /\ sfPanel = "snapshot" /\ v # sfSelected
  /\ sfSelected' = v /\ sfMode' = "snapshot"
  /\ sfReview' = [sfReview EXCEPT ![v] = IF @ = "done" THEN @ ELSE "asked"]
  /\ sfQuery' = Observing(sfQuery, sfAsked, "snapshot")
  /\ SfChange
  /\ UNCHANGED <<sfWatch, sfAsked, sfCopy, sfAttribution>>

ClearSelection ==
  /\ sfPanel = "snapshot" /\ sfSelected # NoSf
  /\ sfSelected' = NoSf
  /\ UNCHANGED <<sfWatch, sfMode, sfAsked, sfQuery, sfCopy, sfReview, sfAttribution, sfUsed>>

\* The request of a snapshot no longer under review is aborted.
ReviewAnswered(v) ==
  /\ sfReview[v] = "asked"
  /\ sfReview' = [sfReview EXCEPT ![v] = IF v = sfSelected THEN "done" ELSE "idle"]
  /\ UNCHANGED <<sfWatch, sfMode, sfAsked, sfQuery, sfCopy, sfSelected, sfAttribution, sfUsed>>

ReviewFailed(v) ==
  /\ sfReview[v] = "asked" /\ v = sfSelected
  /\ sfReview' = [sfReview EXCEPT ![v] = "failed"]
  /\ SfFault
  /\ UNCHANGED <<sfWatch, sfMode, sfAsked, sfQuery, sfCopy, sfSelected, sfAttribution>>

\* A stock is added or removed: the latest snapshot is asked for with the new holdings, one
\* that was asked for explicitly stays.
WatchChanges(t) ==
  /\ sfPanel = "snapshot"
  /\ sfWatch' = IF t \in sfWatch THEN sfWatch \ {t} ELSE sfWatch \cup {t}
  /\ sfWatch' # {}
  /\ sfQuery' = Observing([sfQuery EXCEPT !["auto"] = Unread], sfAsked, sfMode)
  /\ SfChange
  /\ UNCHANGED <<sfMode, sfAsked, sfCopy, sfSelected, sfReview, sfAttribution>>

-----------------------------------------------------------------------------
(* The attribution panel.                                                  *)

\* A date is picked.  The pickers offer no start after the end, but a typed one is taken.
PickDate(field, day) ==
  /\ sfPanel = "attribution" /\ day # sfDates[field]
  /\ sfDates' = [sfDates EXCEPT ![field] = day]
  /\ sfStored' = sfDates'
  /\ SfChange
  /\ UNCHANGED <<sfFigures, sfPanel, sfAttr, sfAttrCopy, sfDialog>>

\* readStoredPortfolioDateFilters
ReadBack(stored) ==
  IF stored.start # NoSf /\ stored.end # NoSf /\ stored.start > stored.end
  THEN [stored EXCEPT !.end = NoSf] ELSE stored

\* The page is loaded again: the copy of an attribution is found when the dates are the same.
SfReload ==
  /\ sfPanel \in {"attribution", "none"} /\ sfUsed.refreshes < SfMaxRefreshes
  /\ sfPanel' = "attribution" /\ sfDialog' = FALSE
  /\ sfDates' = ReadBack(sfStored) /\ sfStored' = ReadBack(sfStored)
  /\ sfAttrCopy' = (sfAttr = "done" /\ ReadBack(sfStored) = sfStored)
  /\ sfAttr' = "idle"
  /\ sfUsed' = [sfUsed EXCEPT !.refreshes = @ + 1]
  /\ UNCHANGED sfFigures

RefreshAttribution ==
  /\ sfPanel = "attribution" /\ sfUsed.refreshes < SfMaxRefreshes
  /\ sfAttr' = "asked"
  /\ sfUsed' = [sfUsed EXCEPT !.refreshes = @ + 1]
  /\ UNCHANGED <<sfFigures, sfPanel, sfAttrCopy, sfDates, sfStored, sfDialog>>

AttributionAnswered(how) ==
  /\ sfAttr = "asked"
  /\ sfAttr' = how
  /\ IF how = "failed" THEN SfFault ELSE UNCHANGED sfUsed
  /\ sfDialog' = (sfDialog /\ how = "done")
  /\ UNCHANGED <<sfFigures, sfPanel, sfAttrCopy, sfDates, sfStored>>

\* portfolioAttributionViewState; weights that exceed the whole are PortfolioAnalysis's.
AttributionView ==
  {m \in {"loading", "results", "idle", "error"} :
    CASE m = "loading" -> sfAttr = "asked" /\ ~ sfAttrCopy
      [] m = "results" -> sfAttr # "failed" /\ (sfAttr = "done" \/ sfAttrCopy)
      [] m = "idle" -> sfAttr = "idle" /\ ~ sfAttrCopy
      [] m = "error" -> sfAttr = "failed" /\ ~ sfAttrCopy}

OpenDetails ==
  /\ sfPanel = "attribution" /\ "results" \in AttributionView /\ ~ sfDialog
  /\ sfDialog' = TRUE
  /\ UNCHANGED <<sfFigures, sfPanel, sfAttr, sfAttrCopy, sfDates, sfStored, sfUsed>>

\* Its button and its scrim close the dialog alone; Escape is heard by the panel as well.
CloseDetails(escape) ==
  /\ sfDialog /\ sfDialog' = FALSE
  /\ sfPanel' = IF escape THEN "none" ELSE sfPanel
  /\ UNCHANGED <<sfFigures, sfAttr, sfAttrCopy, sfDates, sfStored, sfUsed>>

SfNext ==
  \/ ComparisonAnswered \/ ComparisonFailed \/ RefreshFigures \/ ClearSelection
  \/ \E mode \in {"snapshot", "live"} : SetMode(mode)
  \/ \E v \in SfVersion : ReviewSnapshot(v) \/ ReviewAnswered(v) \/ ReviewFailed(v)
  \/ \E t \in SfTicker : WatchChanges(t)
  \/ \E field \in {"start", "end"}, day \in SfDay \cup {NoSf} : PickDate(field, day)
  \/ SfReload \/ RefreshAttribution \/ OpenDetails
  \/ \E how \in {"done", "failed"} : AttributionAnswered(how)
  \/ \E escape \in BOOLEAN : CloseDetails(escape)

SfSpec == SfInit /\ [][SfNext]_sfVars

-----------------------------------------------------------------------------
\* What is said of the source of the figures is where they come from, and the page that says
\* "table values now follow that selected snapshot" shows it, is loading it or says it cannot.
SourceIsTold ==
  /\ SourceMode = "selected_snapshot" => ActiveData = SnapshotOf(sfSelected)
  /\ SourceMode \in {"live", "snapshot"} => ActiveData = LatestQuery.data /\ ActiveData.mode = SourceMode
  /\ SourceMode = "cached" => ActiveData = Copy /\ \A t \in sfWatch : TickerMetrics(t).dcf.quality # "ok"
  /\ SourceMode = "unavailable" <=> ActiveData = NoSf
  /\ sfSelected # NoSf =>
       /\ sfMode = "snapshot"
       /\ ("summary" \in ComparisonView /\ SnapshotSummary.version = sfSelected) \/ {"review loading", "review error"} \cap ComparisonView # {}

\* The panel always says something: the summary alone stands beside another message, and only
\* while a snapshot is under review.
PanelSpeaks ==
  /\ ComparisonView # {}
  /\ Cardinality(ComparisonView) > 1 => sfSelected # NoSf
  /\ "empty" \in ComparisonView => "summary" \notin ComparisonView
  /\ "results" \notin AttributionView /\ AttributionView = {} => sfAttr = "failed" /\ sfAttrCopy

\* A figure outside the sanity range counts nowhere: not among the positive ones, not in the
\* ranking, not in the money; and every figure is counted once.
OutliersCountNowhere ==
  /\ \A t \in TopTickers : \A f \in {"roic", "dcf", "implied"} : TickerMetrics(t)[f].quality # "suspicious"
  /\ \A t \in sfWatch : FinalProfit(t) # 0 => TickerMetrics(t).dcf.quality \in {"ok", "stale"}
  /\ \A t \in sfWatch, f \in {"roic", "dcf", "implied", "volatility"} :
       HoldingsRow(t)[f] \in {"up", "down", "success"} => NumericValue(TickerMetrics(t)[f]) # NoSf
  /\ "summary" \in ComparisonView /\ SnapshotSummary.flagged = 0 /\ SnapshotSummary.beats[1] > 0 => SnapshotSummary.top # {}
  /\ FlaggedCount + Counting("roic", AnyValue) + Counting("dcf", AnyValue) + ImpliedSpreadCount
       + Cardinality({k \in sfWatch \X {"roic", "dcf", "implied"} : TickerMetrics(k[1])[k[2]].quality = "missing"})
       = 3 * Cardinality(sfWatch)

\* The portfolio page says of its figures where they come from and what became of them.
FiguresHold == SourceIsTold /\ PanelSpeaks
=============================================================================
