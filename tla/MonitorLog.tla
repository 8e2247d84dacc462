----------------------------- MODULE MonitorLog -----------------------------
(***************************************************************************)
(* The screens, filters, cards and panels of the developer monitor page    *)
(* (app/dev/monitor/page.tsx).  The stream that fills the list of events   *)
(* is the module PerformanceStream; here an event arrives, and Clear hides *)
(* what came before.                                                       *)
(*                                                                         *)
(* An event is a record of a small set of kinds.  A text filter matches a  *)
(* part of a ticker; the filters of route and operation are like it.       *)
(* Durations are whole milliseconds, NoDuration for an event without one.  Once  *)
(* the server has given a summary, its figures replace the page's own;     *)
(* reading it, like reading the slow list, is one step: the time between   *)
(* question and answer changes nothing the page shows.                     *)
(***************************************************************************)
EXTENDS Integers, Sequences
LOCAL INSTANCE SequencesExt

CONSTANTS
  MlKinds,      \* the kinds of events: [scope, status, level, ticker, ms, metric]
  MlMaxEvents,  \* bound: events that arrive
  MlRows,       \* rows of a latency panel (8)
  MlWarnings,   \* rows of the data quality panel (10)
  MlMaxClicks   \* bound: filters, pause, clear, refresh

NoDuration == -1
ASSUME MlAssumption ==
  /\ MlMaxEvents \in Nat /\ MlRows \in Nat \ {0} /\ MlWarnings \in Nat \ {0}
  /\ MlMaxClicks \in Nat
  /\ \A k \in MlKinds : k.ms \in Nat \cup {NoDuration}

VARIABLES
  mlLog,      \* the events the page has received, oldest first
  mlCleared,  \* how many of them a clear hides
  mlFilter,   \* scopeFilter, slowOnly, errorOnly and the text typed
  mlDeferred, \* useDeferredValue of the text
  mlPaused,   \* isPaused
  mlRecent,   \* recentQuery
  mlSlow,     \* slowQuery.data: how much of the log the server had seen
  mlClicks    \* bound

mlVars == <<mlLog, mlCleared, mlFilter, mlDeferred, mlPaused, mlRecent, mlSlow,
            mlClicks>>

Scopes == {k.scope : k \in MlKinds}
Texts == {"", "AAPL"}
Filter == [scope : Scopes \cup {"all"}, slow : BOOLEAN, error : BOOLEAN, text : Texts]
NeverRead == -1

MlTypeOK ==
  /\ mlLog \in Seq(MlKinds) /\ Len(mlLog) <= MlMaxEvents
  /\ mlCleared \in 0..Len(mlLog)
  /\ mlFilter \in Filter /\ mlDeferred \in Texts
  /\ mlPaused \in BOOLEAN
  /\ mlRecent \in [data : BOOLEAN, asked : BOOLEAN, error : {"none", "missing", "other"}]
  /\ mlSlow \in {NeverRead} \cup 0..MlMaxEvents
  /\ mlClicks \in 0..MlMaxClicks

MlInit ==
  /\ mlLog = <<>> /\ mlCleared = 0
  /\ mlFilter = [scope |-> "all", slow |-> FALSE, error |-> FALSE, text |-> ""]
  /\ mlDeferred = "" /\ mlPaused = FALSE
  /\ mlRecent = [data |-> FALSE, asked |-> TRUE, error |-> "none"]
  /\ mlSlow = NeverRead /\ mlClicks = 0

-----------------------------------------------------------------------------
(* What the page makes of the events.                                      *)

\* streamedEvents
Streamed == SubSeq(mlLog, mlCleared + 1, Len(mlLog))

IsError(k) == k.level = "error" \/ k.status = "error"

\* The conditions both lists of events share; `text` is the deferred one.
Passes(k, f, text) ==
  /\ f.scope \in {"all", k.scope}
  /\ f.error => IsError(k)
  /\ text \in {"", k.ticker}

\* visibleEvents
Visible(f, text) ==
  SelectSeq(Streamed, LAMBDA k : Passes(k, f, text) /\ (f.slow => k.status = "slow"))
MlShown == Visible(mlFilter, mlDeferred)

\* The live log, newest first.
LogRows == Reverse(MlShown)

\* The newest n events of a list, newest first.
NewestFirst(events, n) == Reverse(SubSeq(events, Len(events) - n + 1, Len(events)))
LastOf(events, n) == NewestFirst(events, IF Len(events) < n THEN Len(events) ELSE n)

\* durationEvents
Timed == SelectSeq(MlShown, LAMBDA k : k.ms # NoDuration /\ k.status # "start")

\* recentLatencyEvents, fetchLatencyEvents
LatencyRows == LastOf(Timed, MlRows)
FetchRows ==
  LastOf(SelectSeq(Timed, LAMBDA k : k.ticker # "" /\ k.scope \in {"external", "cache"}), MlRows)

\* recentLatencyMax, fetchLatencyMax: at least 1
Ceiling(rows) == Max({1} \cup {rows[i].ms : i \in DOMAIN rows})

\* durationBarWidth: percent, rounded, at least 8
BarWidth(ms, ceiling) == Max({8, (200 * ms + ceiling) \div (2 * ceiling)})

\* metricPanelGroups: the newest timed event and the warnings of a metric
RelatedTo(metric, events) == SelectSeq(events, LAMBDA k : k.metric = metric)
Warnings == SelectSeq(MlShown, LAMBDA k : k.scope = "data_quality")
MetricPanel(metric) ==
  LET related == RelatedTo(metric, Timed) IN
  [latest |-> IF related = <<>> THEN {} ELSE {Last(related)},
   warnings |-> RelatedTo(metric, Warnings)]

\* dataQualityWarnings
WarningRows == LastOf(Warnings, MlWarnings)

\* visibleSlowEvents: the server's list under the same filters, all of it slow.
SlowRows ==
  SelectSeq(SubSeq(mlLog, 1, mlSlow),
            LAMBDA k : k.status = "slow" /\ Passes(k, mlFilter, mlDeferred))

\* statusBadgeVariant
Badge(k) ==
  CASE IsError(k) -> "error"
    [] ~ IsError(k) /\ k.status \in {"slow", "warning"} -> "stale"
    [] ~ IsError(k) /\ k.status = "start" -> "loading"
    [] ~ IsError(k) /\ k.status \in {"cache_hit", "success"} -> "live"
    [] OTHER -> "idle"

\* buildSummaryFallback, where the server has not given a summary yet.  The
\* 95th percentile is the nearest rank.
CountOf(P(_)) == Len(SelectSeq(Streamed, P))
FallbackSummary ==
  LET calls == SelectSeq(Streamed, LAMBDA k : k.scope = "api" /\ k.ms # NoDuration)
      sorted == SortSeq([i \in DOMAIN calls |-> calls[i].ms], LAMBDA a, b : a < b)
      n == Len(sorted)
  IN  [p95 |-> IF n = 0 THEN 0 ELSE sorted[(95 * n + 99) \div 100],
       average |-> IF n = 0 THEN 0 ELSE FoldSeq(+, 0, sorted) \div n,
       slow |-> CountOf(LAMBDA k : k.status = "slow"),
       errors |-> CountOf(IsError),
       hits |-> CountOf(LAMBDA k : k.scope = "cache" /\ k.status = "cache_hit"),
       lookups |-> CountOf(LAMBDA k : k.scope = "cache" /\ k.status \in {"cache_hit", "cache_miss"})]

\* availableScopes, and what the select displays for a scope it does not offer.
ScopesOffered == {"all"} \cup {Streamed[i].scope : i \in DOMAIN Streamed}
SelectShown == IF mlFilter.scope \in ScopesOffered THEN mlFilter.scope ELSE "all"

\* monitorUnavailable, and which of its screens the page is on.
Unavailable == mlRecent.error = "missing"
MlScreen ==
  CASE mlRecent.asked /\ ~ mlRecent.data -> "loading"
    [] Unavailable -> "unavailable"
    [] mlRecent.error = "other" -> "error"
    [] OTHER -> "live"

-----------------------------------------------------------------------------
(* The queries.                                                            *)

\* recentQuery.refetch: without data its error is forgotten.
RecentAsked ==
  mlRecent' = [mlRecent EXCEPT !.asked = TRUE, !.error = IF mlRecent.data THEN @ ELSE "none"]

\* A failed read keeps the data.
RecentRead(outcome) ==
  /\ mlRecent.asked
  /\ mlRecent' = [asked |-> FALSE, error |-> outcome, data |-> mlRecent.data \/ outcome = "none"]
  /\ UNCHANGED <<mlLog, mlCleared, mlFilter, mlDeferred, mlPaused, mlSlow, mlClicks>>

\* slowQuery: polled unless paused or the monitor is off, and read on a refresh.
SlowRead ==
  /\ ~ Unavailable /\ (~ mlPaused \/ mlRecent.asked)
  /\ mlSlow' = Len(mlLog)
  /\ UNCHANGED <<mlLog, mlCleared, mlFilter, mlDeferred, mlPaused, mlRecent, mlClicks>>

\* The stream delivers an event.
MlArrives(k) ==
  /\ Len(mlLog) < MlMaxEvents /\ ~ mlPaused /\ ~ Unavailable
  /\ mlLog' = Append(mlLog, k)
  /\ UNCHANGED <<mlCleared, mlFilter, mlDeferred, mlPaused, mlRecent, mlSlow,
                 mlClicks>>

-----------------------------------------------------------------------------
(* The user.                                                               *)

MlClick(screen) == MlScreen = screen /\ mlClicks < MlMaxClicks /\ mlClicks' = mlClicks + 1

\* A filter is set; a scope is one of those on offer.
SetFilter(f) ==
  /\ MlClick("live")
  /\ f.scope = mlFilter.scope \/ f.scope \in ScopesOffered
  /\ \E field \in {"scope", "slow", "error", "text"} :
       f # mlFilter /\ f = [mlFilter EXCEPT ![field] = f[field]]
  /\ mlFilter' = f
  /\ UNCHANGED <<mlLog, mlCleared, mlDeferred, mlPaused, mlRecent, mlSlow>>

\* The render with the new text follows when nothing more urgent is to do.
DeferredRender ==
  /\ mlDeferred # mlFilter.text
  /\ mlDeferred' = mlFilter.text
  /\ UNCHANGED <<mlLog, mlCleared, mlFilter, mlPaused, mlRecent, mlSlow, mlClicks>>

MlTogglePause ==
  /\ MlClick("live")
  /\ mlPaused' = ~ mlPaused
  /\ UNCHANGED <<mlLog, mlCleared, mlFilter, mlDeferred, mlRecent, mlSlow>>

\* Clear hides the events; the filter and the server's slow list stay.
MlClear ==
  /\ MlClick("live")
  /\ mlCleared' = Len(mlLog)
  /\ UNCHANGED <<mlLog, mlFilter, mlDeferred, mlPaused, mlRecent, mlSlow>>

\* The refresh button, also while paused.
MlRefresh ==
  /\ MlClick("live")
  /\ RecentAsked
  /\ UNCHANGED <<mlLog, mlCleared, mlFilter, mlDeferred, mlPaused, mlSlow>>

\* The error screen's button.
MlRetry ==
  /\ MlClick("error")
  /\ RecentAsked
  /\ UNCHANGED <<mlLog, mlCleared, mlFilter, mlDeferred, mlPaused, mlSlow>>

MlNext ==
  \/ \E outcome \in {"none", "missing", "other"} : RecentRead(outcome)
  \/ SlowRead
  \/ \E k \in MlKinds : MlArrives(k)
  \/ \E f \in Filter : SetFilter(f)
  \/ DeferredRender \/ MlTogglePause \/ MlClear \/ MlRefresh \/ MlRetry

MlSpec == MlInit /\ [][MlNext]_mlVars

-----------------------------------------------------------------------------
\* A log that has rows is filtered by the scope its select displays.  (An empty one
\* need not be: a clear takes the scope from the select and leaves it in the filter.)
SelectTellsFilter == LogRows # <<>> => SelectShown = mlFilter.scope

\* The cards and the filters count alike: as many errors and slow operations as the
\* log would have rows under "errors only" and "slow only".
CountsAgree ==
  LET all == [scope |-> "all", slow |-> FALSE, error |-> FALSE, text |-> ""] IN
  /\ FallbackSummary.errors = Len(Visible([all EXCEPT !.error = TRUE], ""))
  /\ FallbackSummary.slow = Len(Visible([all EXCEPT !.slow = TRUE], ""))

\* A panel shows nothing the log hides, and the longest of its bars fills it: no bar
\* is longer, none is too short to see.
PanelsFit ==
  \A rows \in {LatencyRows, FetchRows} :
    /\ ToSet(rows) \subseteq ToSet(LogRows)
    /\ \A i \in DOMAIN rows :
         /\ BarWidth(rows[i].ms, Ceiling(rows)) \in 8..100
         /\ rows[i].ms = Ceiling(rows) => BarWidth(rows[i].ms, Ceiling(rows)) = 100

\* The monitor's cards, filters and panels tell of the same events.
LogAgrees == SelectTellsFilter /\ CountsAgree /\ PanelsFit
=============================================================================
