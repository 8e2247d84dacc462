----------------------------- MODULE StockCard -----------------------------
(***************************************************************************)
(* The card of a stock on the portfolio page (StockDetailModal.tsx): its   *)
(* three reads - the bars, the audit of the company's figures, the saved   *)
(* comparisons the stock is in - each shown, replaced or hidden as it is   *)
(* answered, read again and fails; the daily and the monthly chart made of *)
(* the same bars; and the comparison under review, which may change while  *)
(* the card is open.  What is edited in the card is StockEditor, its news  *)
(* NewsList, what the comparison figures are StockFigures.                 *)
(*                                                                         *)
(* Every bar has its figures.  A moving average is given by its sum.       *)
(***************************************************************************)
EXTENDS Integers, FiniteSets, Sequences
LOCAL INSTANCE FiniteSetsExt
LOCAL INSTANCE SequencesExt

CONSTANTS
  ScVersion,     \* saved comparisons, the newer the greater
  ScDay,         \* the day each was saved
  ScImplied,     \* the implied spread each recorded for this stock; NoSc for none
  ScBars,        \* what the service may answer: sequences of bars, oldest first
  ScWindow,      \* MOVING_AVERAGE_WINDOWS
  ScQuality,     \* what an audit may say of ROIC - WACC
  ScLastClose,   \* last_close of the watchlist row
  ScLive,        \* a comparison that is no snapshot
  NoSc,          \* no value, nothing loaded
  ScMaxActs,     \* bound: openings, changes of the review, snapshots saved and deleted
  ScMaxRereads,  \* bound: reads of what has been read
  ScMaxFaults    \* bound: requests that fail, after their retries

ASSUME ScAssumption ==
  /\ ScVersion \subseteq Nat /\ DOMAIN ScImplied = ScVersion /\ DOMAIN ScDay = ScVersion
  /\ ScWindow \subseteq Nat \ {0}
  /\ ScMaxActs \in Nat /\ ScMaxRereads \in Nat /\ ScMaxFaults \in Nat
  /\ \A bars \in ScBars : \A i, j \in DOMAIN bars :
       i < j => \/ bars[i].month < bars[j].month
                \/ bars[i].month = bars[j].month /\ bars[i].day < bars[j].day

VARIABLES
  scOpen,      \* the card is open
  scTracked,   \* isInWatchlist
  scMonthly,   \* timeframe = "monthly"
  scReview,    \* activeSnapshotMeta: a version, ScLive, or NoSc
  scSaved,     \* the versions the service has
  scDetail,    \* detailQuery: [data, asked, failed]
  scAudit,     \* metricAuditQuery
  scHistory,   \* stockSnapshotHistoryQuery, by the version in its key
  scGone,      \* the keys whose points were read before a snapshot was deleted
  scUsed       \* bounds

scVars == <<scOpen, scTracked, scMonthly, scReview, scSaved, scDetail, scAudit, scHistory, scGone, scUsed>>

ScKey == ScVersion \cup {NoSc}
HistoryKey(review) == IF review \in ScVersion THEN review ELSE NoSc
ScUnread == [data |-> NoSc, asked |-> FALSE, failed |-> FALSE]
ScRead(data) == {[data |-> d, asked |-> a, failed |-> f] : d \in data \cup {NoSc}, a, f \in BOOLEAN}

\* load_corporate_comparison_stock_history: the last comparison of each day, newest first.
LastOfDay(saved) == {v \in saved : \A w \in saved : ScDay[w] = ScDay[v] => w <= v}
Points(saved) == SetToSortSeq(LastOfDay(saved), LAMBDA v, w : v > w)

ScTypeOK ==
  /\ scOpen \in BOOLEAN /\ scTracked \in BOOLEAN /\ scMonthly \in BOOLEAN
  /\ scReview \in ScVersion \cup {ScLive, NoSc} /\ scSaved \subseteq ScVersion
  /\ scDetail \in ScRead(ScBars) /\ scAudit \in ScRead(ScQuality)
  /\ scHistory \in [ScKey -> ScRead({Points(s) : s \in SUBSET ScVersion})]
  /\ scGone \subseteq ScKey
  /\ scUsed \in [acts : 0..ScMaxActs, rereads : 0..ScMaxRereads, faults : 0..ScMaxFaults]

ScInit ==
  /\ scOpen = FALSE /\ scTracked = TRUE /\ scMonthly = FALSE
  /\ scReview = NoSc /\ scSaved = ScVersion \ {CHOOSE v \in ScVersion : \A w \in ScVersion : w <= v}
  /\ scDetail = ScUnread /\ scAudit = ScUnread /\ scHistory = [k \in ScKey |-> ScUnread]
  /\ scGone = {}
  /\ scUsed = [acts |-> 0, rereads |-> 0, faults |-> 0]

-----------------------------------------------------------------------------
(* The chart.                                                              *)

Bars == IF scDetail.data = NoSc THEN <<>> ELSE scDetail.data
SumOver(f, S) == FoldSet(LAMBDA i, sum : f[i] + sum, 0, S)

\* aggregateMonthlyBars: a month opens with its first bar and closes with its last.
MonthlyBars(bars) ==
  LET months == SetToSortSeq({bars[i].month : i \in DOMAIN bars}, <)
      of(m) == {i \in DOMAIN bars : bars[i].month = m}
      month(m) == [month |-> m, day |-> bars[Min(of(m))].day, open |-> bars[Min(of(m))].open,
                   high |-> Max({bars[i].high : i \in of(m)}), low |-> Min({bars[i].low : i \in of(m)}),
                   close |-> bars[Max(of(m))].close,
                   volume |-> SumOver([i \in DOMAIN bars |-> bars[i].volume], of(m))]
  IN  [n \in DOMAIN months |-> month(months[n])]

Candles == IF scMonthly THEN MonthlyBars(Bars) ELSE Bars

\* buildMovingAverageSeries: nothing before the window is full.
MovingAverage(bars, window) ==
  [i \in window..Len(bars) |-> SumOver([j \in DOMAIN bars |-> bars[j].close], (i + 1 - window)..i)]

\* currentPrice, previousPrice: of the days, whatever the chart shows.
CurrentPrice == IF Bars # <<>> THEN Last(Bars).close ELSE ScLastClose
PreviousPrice == IF Len(Bars) > 1 THEN Bars[Len(Bars) - 1].close ELSE CurrentPrice

-----------------------------------------------------------------------------
(* What the parts of the card show.                                        *)

Waiting(read) == read.asked /\ read.data = NoSc
History == scHistory[HistoryKey(scReview)]
HistoryPoints == IF History.data = NoSc THEN <<>> ELSE History.data

ChartPart ==
  {m \in {"loading", "error", "empty", "chart"} :
    CASE m = "loading" -> Waiting(scDetail)
      [] m = "error" -> scDetail.failed
      [] m = "empty" -> ~ scDetail.failed /\ ~ Waiting(scDetail) /\ Candles = <<>>
      [] m = "chart" -> Candles # <<>>}

\* The figures, the audit and the history are there only beside a chart.
LowerHalf == ~ scDetail.failed /\ ~ Waiting(scDetail) /\ Candles # <<>>

AuditPart == IF Waiting(scAudit) THEN "loading" ELSE IF scAudit.failed THEN "error"
             ELSE IF scAudit.data = NoSc THEN "none" ELSE "audit"

HistoryPart == IF Waiting(History) THEN "loading" ELSE IF History.failed THEN "error"
               ELSE IF HistoryPoints = <<>> THEN "none" ELSE "timeline"

\* The ROIC - WACC card: its number is the audit's once there is one, its colour the
\* comparison's.  A stock that is not tracked has no figure in any comparison.
RoicNumber == IF scAudit.data # NoSc THEN <<"audit", scAudit.data>>
              ELSE IF scTracked THEN <<"comparison", scReview>> ELSE <<"comparison", NoSc>>
RoicColour == IF scTracked THEN scReview ELSE NoSc

\* snapshotContextLabel
ContextLabel == IF scReview \in ScVersion THEN scReview ELSE ScLive

\* The points that recorded an implied spread, and the trend between the ends of them.
RecordedPoints == SelectSeq(HistoryPoints, LAMBDA v : ScImplied[v] # NoSc)
TrendDelta == IF Len(RecordedPoints) >= 2
              THEN ScImplied[Head(RecordedPoints)] - ScImplied[Last(RecordedPoints)] ELSE NoSc

\* The points of the timeline; the one under review is marked.
ActivePoints == {i \in DOMAIN HistoryPoints : HistoryPoints[i] = scReview}

-----------------------------------------------------------------------------
ScAct == scUsed.acts < ScMaxActs /\ scUsed' = [scUsed EXCEPT !.acts = @ + 1]
ScFault == scUsed.faults < ScMaxFaults /\ scUsed' = [scUsed EXCEPT !.faults = @ + 1]
ScReread == scUsed.rereads < ScMaxRereads /\ scUsed' = [scUsed EXCEPT !.rereads = @ + 1]

\* A card that mounts, or takes another key, asks for what it has not read.
ScAsk(read) == IF read.data = NoSc THEN [read EXCEPT !.asked = TRUE, !.failed = FALSE] ELSE read
ScAnswer(read, data) == [data |-> data, asked |-> FALSE, failed |-> FALSE]
ScFail(read) == [read EXCEPT !.asked = FALSE, !.failed = TRUE]
ScAbort(read) == [read EXCEPT !.asked = FALSE]

ScOpenCard ==
  /\ ~ scOpen /\ scOpen' = TRUE
  /\ scDetail' = ScAsk(scDetail) /\ scAudit' = ScAsk(scAudit)
  /\ scHistory' = [scHistory EXCEPT ![HistoryKey(scReview)] = ScAsk(@)]
  /\ ScAct
  /\ UNCHANGED <<scTracked, scMonthly, scReview, scSaved, scGone>>

\* The read of the bars goes on, the others are aborted.
ScClose(remove) ==
  /\ scOpen /\ scOpen' = FALSE /\ scMonthly' = FALSE
  /\ remove => scTracked
  /\ scTracked' = (scTracked /\ ~ remove)
  /\ scAudit' = ScAbort(scAudit) /\ scHistory' = [k \in ScKey |-> ScAbort(scHistory[k])]
  /\ UNCHANGED <<scReview, scSaved, scDetail, scGone, scUsed>>

ToggleTimeframe ==
  /\ scOpen /\ "loading" \notin ChartPart /\ scMonthly' = ~ scMonthly
  /\ UNCHANGED <<scOpen, scTracked, scReview, scSaved, scDetail, scAudit, scHistory, scGone, scUsed>>

BarsAnswered(bars) ==
  /\ scDetail.asked /\ scDetail' = ScAnswer(scDetail, bars)
  /\ UNCHANGED <<scOpen, scTracked, scMonthly, scReview, scSaved, scAudit, scHistory, scGone, scUsed>>

AuditAnswered(quality) ==
  /\ scAudit.asked /\ scAudit' = ScAnswer(scAudit, quality)
  /\ UNCHANGED <<scOpen, scTracked, scMonthly, scReview, scSaved, scDetail, scHistory, scGone, scUsed>>

HistoryAnswered(k) ==
  /\ scHistory[k].asked
  /\ scHistory' = [scHistory EXCEPT ![k] = ScAnswer(@, Points(scSaved))]
  /\ scGone' = scGone \ {k}
  /\ UNCHANGED <<scOpen, scTracked, scMonthly, scReview, scSaved, scDetail, scAudit, scUsed>>

ReadFails(which) ==
  /\ ScFault
  /\ which = "detail" => scDetail.asked
  /\ which = "audit" => scAudit.asked
  /\ which = "history" => History.asked
  /\ scDetail' = IF which = "detail" THEN ScFail(scDetail) ELSE scDetail
  /\ scAudit' = IF which = "audit" THEN ScFail(scAudit) ELSE scAudit
  /\ scHistory' = IF which = "history"
                  THEN [scHistory EXCEPT ![HistoryKey(scReview)] = ScFail(@)] ELSE scHistory
  /\ UNCHANGED <<scOpen, scTracked, scMonthly, scReview, scSaved, scGone>>

\* What has been read is old, and the window gets the focus again: it is shown meanwhile.
ReadAgain(which) ==
  /\ scOpen /\ ScReread
  /\ LET again(read) == [read EXCEPT !.asked = TRUE, !.failed = @ /\ read.data # NoSc]
     IN  /\ scDetail' = IF which = "detail" THEN again(scDetail) ELSE scDetail
         /\ scAudit' = IF which = "audit" THEN again(scAudit) ELSE scAudit
         /\ scHistory' = IF which = "history"
                         THEN [scHistory EXCEPT ![HistoryKey(scReview)] = again(@)] ELSE scHistory
  /\ UNCHANGED <<scOpen, scTracked, scMonthly, scReview, scSaved, scGone>>

\* Another comparison is shown on the page: the one asked for when the page opened is
\* answered, under the open card too, or one is chosen when the card is closed.
ReviewChanges(review) ==
  /\ review # scReview /\ review \in scSaved \cup {ScLive}
  /\ scOpen => scReview = NoSc
  /\ scReview' = review
  /\ scHistory' = IF scOpen
                  THEN [k \in ScKey |-> IF k = HistoryKey(review) THEN ScAsk(scHistory[k])
                                        ELSE ScAbort(scHistory[k])]
                  ELSE scHistory
  /\ ScAct
  /\ UNCHANGED <<scOpen, scTracked, scMonthly, scSaved, scDetail, scAudit, scGone>>

NewSnapshot(v) ==
  /\ ~ scOpen /\ \A w \in scSaved : w < v
  /\ scSaved' = scSaved \cup {v}
  /\ ScAct
  /\ UNCHANGED <<scOpen, scTracked, scMonthly, scReview, scDetail, scAudit, scHistory, scGone>>

\* The page reads its own list again; the histories of stocks it has read stay.
SnapshotDeleted(v) ==
  /\ ~ scOpen /\ v \in scSaved
  /\ scSaved' = scSaved \ {v}
  /\ scReview' = IF scReview = v THEN NoSc ELSE scReview
  /\ scGone' = scGone \cup {k \in ScKey : scHistory[k].data # NoSc}
  /\ ScAct
  /\ UNCHANGED <<scOpen, scTracked, scMonthly, scDetail, scAudit, scHistory>>

ScNext ==
  \/ ScOpenCard \/ ToggleTimeframe
  \/ \E remove \in BOOLEAN : ScClose(remove)
  \/ \E bars \in ScBars : BarsAnswered(bars)
  \/ \E quality \in ScQuality : AuditAnswered(quality)
  \/ \E k \in ScKey : HistoryAnswered(k)
  \/ \E which \in {"detail", "audit", "history"} : ReadFails(which) \/ ReadAgain(which)
  \/ \E review \in ScVersion \cup {ScLive} : ReviewChanges(review)
  \/ \E v \in ScVersion : NewSnapshot(v) \/ SnapshotDeleted(v)

ScSpec == ScInit /\ [][ScNext]_scVars

-----------------------------------------------------------------------------
\* The two charts are of the same days: the last candle closes at the price in the header, no
\* volume is lost, the extremes are the same, and an average is drawn where the window is full.
ChartsAgree ==
  "chart" \in ChartPart =>
    LET volume(bars) == SumOver([i \in DOMAIN bars |-> bars[i].volume], DOMAIN bars)
    IN  /\ Last(Candles).close = CurrentPrice /\ Candles[1].open = Bars[1].open
        /\ volume(Candles) = volume(Bars)
        /\ Max({Candles[i].high : i \in DOMAIN Candles}) = Max({Bars[i].high : i \in DOMAIN Bars})
        /\ \A i \in 1..(Len(Candles) - 1) : Candles[i].month <= Candles[i + 1].month
        /\ \A w \in ScWindow : (DOMAIN MovingAverage(Candles, w) # {}) <=> Len(Candles) >= w

\* The trend is between two recorded points, the newest and the oldest shown; the point marked
\* is the comparison under review, unless a later one of its day hides it; and a point is one the service has, or was read before a
\* snapshot was deleted.
TimelineIsTrue ==
  /\ TrendDelta # NoSc =>
       LET recorded == {i \in DOMAIN HistoryPoints : ScImplied[HistoryPoints[i]] # NoSc}
       IN  \E i, j \in recorded :
             /\ HistoryPoints[i] > HistoryPoints[j] /\ recorded \subseteq i..j
             /\ TrendDelta = ScImplied[HistoryPoints[i]] - ScImplied[HistoryPoints[j]]
  /\ Cardinality(ActivePoints) <= 1
  /\ \A i \in DOMAIN HistoryPoints :
       HistoryPoints[i] \in scSaved \/ HistoryKey(scReview) \in scGone
  /\ HistoryPart = "timeline" /\ scReview \in LastOfDay(scSaved) => ActivePoints # {}

\* While the card is open its parts speak: no part is empty because nothing was asked for it, and
\* the figures never stand beside an error of the bars.
CardSpeaks ==
  scOpen => /\ ChartPart # {}
            /\ LowerHalf => "error" \notin ChartPart /\ AuditPart # "none"
            /\ ~ History.asked /\ ~ History.failed => History.data # NoSc
            /\ RoicNumber[1] = "comparison" => RoicNumber[2] = RoicColour

\* The card of a stock holds together.
CardHolds == ChartsAgree /\ TimelineIsTrue /\ CardSpeaks
=============================================================================
