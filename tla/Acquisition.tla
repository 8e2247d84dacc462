---------------------------- MODULE Acquisition ----------------------------
(***************************************************************************)
(* Daily bars of one ticker: acquire (acquisition/runner.py) plans a fetch *)
(* from the recorded coverage, saves the bars and records the new          *)
(* coverage, each in a transaction of its own; ensure_deep_history         *)
(* (risk/sweep.py) fetches what lies before; the watchlist cleanup deletes *)
(* bars, coverage and marker together.  Any number of threads do this at   *)
(* once: the thread a watchlist add starts, the risk sweep, a comparison.  *)
(*                                                                         *)
(* Days are naturals and every day trades.  The provider's prices are      *)
(* adjusted: a split or dividend of day a rewrites every earlier bar, so a *)
(* bar is stored with the set of actions its price accounts for.  The      *)
(* provider may lag behind, refuse, or report the current day at a price   *)
(* that is not the close.                                                  *)
(***************************************************************************)
EXTENDS Integers, FiniteSetsExt

CONSTANTS Worker,          \* threads that acquire
          HistoryStart,    \* rules.history_start
          FirstDay,        \* the day the model begins
          MaxDay,          \* bound on time
          BackfillDays,    \* BACKFILL_YEARS
          MaxLag,          \* by how many days the provider may be behind
          NoDay, NoBar,    \* a NULL date; a day without a stored bar
          MaxActions,      \* bound on splits and dividends
          MaxFaults,       \* bound on provider errors
          MaxCrashes,      \* bound on process deaths
          DeepActions,     \* may a stock whose deep history is asked for split?
          Straddle,        \* which jobs may last over midnight, for such a stock
          ProbeMayFail,    \* may latest_action_date raise?
          CleanOverlaps    \* may the cleanup run during an acquisition?

ASSUME CalendarAssumption ==
  /\ HistoryStart \in Nat /\ BackfillDays \in Nat /\ MaxLag \in Nat
  /\ FirstDay \in Nat /\ MaxDay \in Nat /\ FirstDay <= MaxDay
  /\ HistoryStart <= FirstDay - BackfillDays
  /\ NoDay \notin Int
  /\ MaxActions \in Nat /\ MaxFaults \in Nat /\ MaxCrashes \in Nat
  /\ Straddle \subseteq {"acquire", "deep"}
  /\ {ProbeMayFail, DeepActions, CleanOverlaps} \subseteq BOOLEAN

Day == HistoryStart..MaxDay
Bar == [adj : SUBSET Day, settled : BOOLEAN]

ASSUME NoBarAssumption == NoBar \notin Bar

VARIABLES
  today,     \* the current UTC day
  actions,   \* the splits and dividends so far
  bars,      \* stocks: the stored bar of each day
  from, to,  \* acquisition_state: covered_from, covered_to
  checked,   \* acquisition_state: last_checked_at
  marked,    \* risk_state: deep_history:<ticker>
  deep,      \* does the risk engine ask for deep history of this stock?
  job,       \* per thread: the acquisition it is in
  faults, crashes

vars == <<today, actions, bars, from, to, checked, marked, deep, job, faults, crashes>>
state == <<from, to, checked>>

Date == Day \cup {NoDay}
Rows == [Day -> Bar \cup {NoBar}]

Idle == [at |-> "idle"]

\* What a thread remembers between two transactions, at each step of its job.
Job ==
  LET Now == FirstDay..MaxDay
  IN  {Idle}
      \cup [at : {"probe"}, now : Now, from : Date, to : Date]
      \cup [at : {"fetch"}, now : Now, start : Day]
      \cup [at : {"save"}, now : Now, start : Day, rows : Rows]
      \cup [at : {"record"}, now : Now, start : Day, last : Day]
      \cup [at : {"deep"}, now : Now, end : Day \cup {MaxDay + 1}]
      \cup [at : {"deepsave"}, now : Now, rows : Rows]
      \cup [at : {"deepmark"}, now : Now]

StoredDays == {d \in Day : bars[d] # NoBar}
RowDays(rows) == {d \in Day : rows[d] # NoBar}

TypeOK ==
  /\ today \in FirstDay..MaxDay
  /\ actions \subseteq Day
  /\ bars \in Rows
  /\ from \in Date /\ to \in Date /\ checked \in Date
  /\ from = NoDay <=> to = NoDay
  /\ marked \in BOOLEAN /\ deep \in BOOLEAN
  /\ job \in [Worker -> Job]
  /\ faults \in 0..MaxFaults /\ crashes \in 0..MaxCrashes

Init ==
  /\ today = FirstDay
  /\ actions = {}
  /\ bars = [d \in Day |-> NoBar]
  /\ from = NoDay /\ to = NoDay /\ checked = NoDay
  /\ marked = FALSE
  /\ deep \in BOOLEAN
  /\ job = [w \in Worker |-> Idle]
  /\ faults = 0 /\ crashes = 0

-----------------------------------------------------------------------------
(* The provider.                                                           *)

\* What it serves now for the days of `asked`, through day `last`.
Served(asked, last) ==
  [d \in Day |-> IF d \in asked /\ d <= last /\ d <= today
                 THEN [adj |-> {a \in actions : d < a}, settled |-> d < today]
                 ELSE NoBar]

\* acquire keeps the bars that are settled on the day it began.
Settled(rows, now) == [d \in Day |-> IF d < now THEN rows[d] ELSE NoBar]

\* INSERT OR REPLACE.
Saved(rows) == [d \in Day |-> IF rows[d] = NoBar THEN bars[d] ELSE rows[d]]

-----------------------------------------------------------------------------
(* acquire.                                                                *)

\* needs_acquisition: asked since the last boundary, 00:00 UTC?
Needed(now) == checked # NoDay => checked < now

\* Read the state; a fresh subject is skipped.
Start(w) ==
  /\ job[w] = Idle
  /\ Needed(today)
  /\ job' = [job EXCEPT ![w] =
               [at |-> "probe", now |-> today, from |-> from, to |-> to]]
  /\ UNCHANGED <<today, actions, bars, state, marked, faults, crashes, deep>>

\* The first day of the planned range; its end is the day after `now`.  The
\* range is never empty: covered_to is before the day acquire runs.
BackfillStart(now) == now - BackfillDays

\* Defect: a full refetch covers ten years from today and no more.
WindowOnly(j, full) ==
  IF full \/ j.to = NoDay THEN BackfillStart(j.now) ELSE j.to + 1

PlanStart(j, full) ==
  IF full
  THEN IF j.from = NoDay THEN BackfillStart(j.now)
       ELSE Min({j.from, BackfillStart(j.now)})
  ELSE IF j.to = NoDay THEN BackfillStart(j.now) ELSE j.to + 1

\* Probe for corporate actions and plan.  A failing probe counts as no action.
Probe(w) ==
  /\ job[w].at = "probe"
  /\ \E fails \in {FALSE, ProbeMayFail /\ faults < MaxFaults} :
       LET j == job[w]
           full == /\ ~ fails /\ actions # {} /\ j.to # NoDay
                   /\ Max(actions) > j.to
       IN  /\ faults' = IF fails THEN faults + 1 ELSE faults
           /\ job' = [job EXCEPT ![w] =
                        [at |-> "fetch", now |-> j.now, start |-> PlanStart(j, full)]]
  /\ UNCHANGED <<today, actions, bars, state, marked, crashes, deep>>

\* The provider answers, possibly behind, or with nothing: a holiday, a
\* delisting.  Nothing usable: record the ask.
Fetch(w) ==
  /\ job[w].at = "fetch"
  /\ \E last \in {HistoryStart - 1} \cup (today - MaxLag)..today :
       LET now == job[w].now
           rows == Settled(Served(job[w].start..now, last), now)
       IN  IF RowDays(rows) = {}
           THEN /\ checked' = now
                /\ job' = [job EXCEPT ![w] = Idle]
           ELSE /\ job' = [job EXCEPT ![w] =
                             [at |-> "save", now |-> now,
                              start |-> job[w].start, rows |-> rows]]
                /\ UNCHANGED checked
  /\ UNCHANGED <<today, actions, bars, from, to, marked, faults, crashes, deep>>

\* The provider raises: record the failed ask, leave the coverage alone.
FetchFails(w) ==
  /\ job[w].at = "fetch"
  /\ faults < MaxFaults
  /\ faults' = faults + 1
  /\ checked' = job[w].now
  /\ job' = [job EXCEPT ![w] = Idle]
  /\ UNCHANGED <<today, actions, bars, from, to, marked, crashes, deep>>

\* Defect: the requested range is recorded, not the bars that came.
SaveTrustsRequest(w) ==
  /\ job[w].at = "save"
  /\ bars' = Saved(job[w].rows)
  /\ job' = [job EXCEPT ![w] =
               [at |-> "record", now |-> job[w].now, start |-> job[w].start,
                last |-> job[w].now - 1]]
  /\ UNCHANGED <<today, actions, state, marked, faults, crashes, deep>>

Save(w) ==
  /\ job[w].at = "save"
  /\ bars' = Saved(job[w].rows)
  /\ job' = [job EXCEPT ![w] =
               [at |-> "record", now |-> job[w].now, start |-> job[w].start,
                last |-> Max(RowDays(job[w].rows))]]
  /\ UNCHANGED <<today, actions, state, marked, faults, crashes, deep>>

\* Defect: the last writer's range replaces the recorded one.
RecordReplaces(w) ==
  /\ job[w].at = "record"
  /\ from' = job[w].start /\ to' = job[w].last
  /\ checked' = job[w].now
  /\ job' = [job EXCEPT ![w] = Idle]
  /\ UNCHANGED <<today, actions, bars, marked, faults, crashes, deep>>

\* Defect: MIN over a NULL covered_from is NULL, without the COALESCE.
RecordKeepsNull(w) ==
  /\ job[w].at = "record"
  /\ from' = IF from = NoDay THEN NoDay ELSE Min({from, job[w].start})
  /\ to' = IF to = NoDay THEN job[w].last ELSE Max({to, job[w].last})
  /\ checked' = job[w].now
  /\ job' = [job EXCEPT ![w] = Idle]
  /\ UNCHANGED <<today, actions, bars, marked, faults, crashes, deep>>

\* record_success: coverage only ever grows.
Record(w) ==
  /\ job[w].at = "record"
  /\ from' = IF from = NoDay THEN job[w].start ELSE Min({from, job[w].start})
  /\ to' = IF to = NoDay THEN job[w].last ELSE Max({to, job[w].last})
  /\ checked' = job[w].now
  /\ job' = [job EXCEPT ![w] = Idle]
  /\ UNCHANGED <<today, actions, bars, marked, faults, crashes, deep>>

-----------------------------------------------------------------------------
(* ensure_deep_history.                                                    *)

\* Bars that reach back far enough are only marked.
DeepStart(w) ==
  /\ deep /\ ~ marked
  /\ job[w] = Idle
  /\ LET end == IF StoredDays = {} THEN today + 1 ELSE Min(StoredDays)
     IN  IF end <= HistoryStart
         THEN marked' = TRUE /\ UNCHANGED job
         ELSE /\ job' = [job EXCEPT ![w] = [at |-> "deep", now |-> today, end |-> end]]
              /\ UNCHANGED marked
  /\ UNCHANGED <<today, actions, bars, state, faults, crashes, deep>>

\* Defect: the exclusive end of the range is taken for an inclusive one.
DeepFetchShort(w) ==
  /\ job[w].at = "deep"
  /\ job' = [job EXCEPT ![w] =
               [at |-> "deepsave", now |-> job[w].now,
                rows |-> Served(HistoryStart..(job[w].end - 2), MaxDay)]]
  /\ UNCHANGED <<today, actions, bars, state, marked, faults, crashes, deep>>

DeepFetch(w) ==
  /\ job[w].at = "deep"
  /\ job' = [job EXCEPT ![w] =
               [at |-> "deepsave", now |-> job[w].now,
                rows |-> Served(HistoryStart..(job[w].end - 1), MaxDay)]]
  /\ UNCHANGED <<today, actions, bars, state, marked, faults, crashes, deep>>

DeepFails(w) ==
  /\ job[w].at = "deep"
  /\ faults < MaxFaults
  /\ faults' = faults + 1
  /\ job' = [job EXCEPT ![w] = Idle]
  /\ UNCHANGED <<today, actions, bars, state, marked, crashes, deep>>

DeepSave(w) ==
  /\ job[w].at = "deepsave"
  /\ bars' = Saved(job[w].rows)
  /\ job' = [job EXCEPT ![w] = [at |-> "deepmark", now |-> job[w].now]]
  /\ UNCHANGED <<today, actions, state, marked, faults, crashes, deep>>

DeepMark(w) ==
  /\ job[w].at = "deepmark"
  /\ marked' = TRUE
  /\ job' = [job EXCEPT ![w] = Idle]
  /\ UNCHANGED <<today, actions, bars, state, faults, crashes, deep>>

-----------------------------------------------------------------------------
(* The surroundings.                                                       *)

Kind(w) == IF job[w].at \in {"deep", "deepsave", "deepmark"} THEN "deep" ELSE "acquire"

\* delete_ticker_caches: one transaction.  The ticker has been off the
\* watchlist for weeks, so no deep fetch of it is under way.
Clean ==
  /\ \A w \in Worker :
       job[w] # Idle => CleanOverlaps /\ Kind(w) = "acquire"
  /\ StoredDays # {}
  /\ bars' = [d \in Day |-> NoBar]
  /\ from' = NoDay /\ to' = NoDay /\ checked' = NoDay
  /\ marked' = FALSE
  /\ UNCHANGED <<today, actions, job, faults, crashes, deep>>

\* A split or a dividend goes ex today.
Act ==
  /\ Cardinality(actions) < MaxActions
  /\ today \notin actions
  /\ deep => DeepActions
  /\ actions' = actions \cup {today}
  /\ UNCHANGED <<today, bars, state, marked, job, faults, crashes, deep>>

\* Midnight.  A job takes minutes: it lasts over one midnight at most.
Tick ==
  /\ today < MaxDay
  /\ \A w \in Worker : job[w] # Idle => deep /\ Kind(w) \in Straddle /\ job[w].now = today
  /\ today' = today + 1
  /\ UNCHANGED <<actions, bars, state, marked, job, faults, crashes, deep>>

\* The process dies; what was committed stays.
Crash ==
  /\ crashes < MaxCrashes
  /\ crashes' = crashes + 1
  /\ job' = [w \in Worker |-> Idle]
  /\ UNCHANGED <<today, actions, bars, state, marked, faults, deep>>

Next ==
  \/ \E w \in Worker :
       \/ Start(w) \/ Probe(w) \/ Fetch(w) \/ FetchFails(w) \/ Save(w) \/ Record(w)
       \/ DeepStart(w) \/ DeepFetch(w) \/ DeepFails(w) \/ DeepSave(w) \/ DeepMark(w)
  \/ Clean \/ Act \/ Tick \/ Crash

Spec == Init /\ [][Next]_vars
-----------------------------------------------------------------------------
(* Properties.                                                             *)

\* "Coverage records what EXISTS, not what was requested": every day from
\* covered_from to covered_to has its settled bar, whatever the provider
\* lagged and however acquisitions overlapped, so that no day is skipped by
\* the deltas that follow (runner.py, acquire).
CoverageIsReal ==
  from # NoDay => \A d \in from..to : bars[d] # NoBar /\ bars[d].settled

\* No mixed adjustment: once the coverage reaches past a split or dividend --
\* from then on nothing looks for it any more -- every stored bar before it
\* accounts for it (ranges.py, plan_range; bars.py, latest_action_date).
\* A process that dies between save and record leaves bars no coverage tells
\* of, which a later action misses: the property is about the others.
OneAdjustment ==
  crashes = 0 /\ to # NoDay =>
    \A d \in StoredDays, a \in actions :
      d < a /\ a <= to => a \in bars[d].adj

\* A late acquisition never takes coverage back: short of a cleanup a recorded
\* range is only ever extended, whichever thread records last (record_success).
CoverageGrows ==
  [][from # NoDay /\ from' # NoDay => from' <= from /\ to' >= to]_vars

\* Marked means complete: deep history and the acquired bars meet, without a
\* hole from history_start to the newest bar (ensure_deep_history).
DeepMeetsAcquired ==
  marked /\ StoredDays # {} => StoredDays = HistoryStart..Max(StoredDays)
=============================================================================
