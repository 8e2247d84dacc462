------------------------- MODULE PortfolioAnalysis -------------------------
(***************************************************************************)
(* The analyses of the portfolio page (app/portfolio/page.tsx): comparison,*)
(* snapshot history and attribution.  Each is asked for explicitly, answers*)
(* the inputs it was asked for, and outlives the page in sessionStorage.   *)
(* The page shows old results as long as it says so: "Showing stale        *)
(* analysis for prior inputs" or "Calculating".                            *)
(*                                                                         *)
(* A result is known by the request it answers, a history by the versions  *)
(* it lists.  The benchmark stands for all the controls that are debounced *)
(* (benchmark, universe, custom tickers), the book for the holdings and    *)
(* their weights.  A refetch that cannot change an answer is left out, and *)
(* so is an empty watchlist, for which nothing is asked.                   *)
(***************************************************************************)
EXTENDS Integers, FiniteSets

CONSTANTS
  Benchmark, Book, DateFilter,
  PausedBook,        \* books whose weights exceed 100%: no attribution
  SnapshotVersion,   \* the versions that can be saved
  NoAnalysis,        \* no request, no result, no selection
  AnMaxChanges,      \* bound: changes of the inputs
  AnMaxRefreshes,    \* bound: "Refresh Analysis"
  AnMaxVisits,       \* bound: the page is opened so often
  AnMaxWrites,       \* bound: snapshots saved or deleted
  AnMaxFaults,       \* bound: requests that fail, after their retries
  AnPatient          \* TRUE: the user selects no snapshot while one is being
                     \* deleted, nor one from a list that is late

ASSUME AnAssumption ==
  /\ PausedBook \subseteq Book /\ PausedBook # Book
  /\ Benchmark # {} /\ DateFilter # {} /\ SnapshotVersion # {}
  /\ AnMaxChanges \in Nat /\ AnMaxRefreshes \in Nat
  /\ AnMaxVisits \in Nat /\ AnMaxWrites \in Nat /\ AnMaxFaults \in Nat
  /\ AnPatient \in BOOLEAN

VARIABLES
  anOpen,      \* the page is mounted
  anInput,     \* what the controls say now
  anSettled,   \* debouncedBenchmarkTicker
  anAsked,     \* the three requested snapshots
  anToken,     \* portfolioAnalysisRefreshToken; 0 for none
  anQuery,     \* the observed query of each analysis
  anSession,   \* sessionStorage: the last snapshot and result of each
  anCached,    \* the copies of it read when the page was opened
  anSelected,  \* selectedHistoryPoint
  anSaved,     \* the server: versions of the saved snapshots
  anDelete,    \* DELETE requests in flight
  anSaving,    \* the request to save a snapshot in flight
  anCut,       \* history: an attribution was asked for and never answered, or
               \* a refresh skipped it
  anUsed       \* bounds

anVars == <<anOpen, anInput, anSettled, anAsked, anToken, anQuery, anSession,
            anCached, anSelected, anSaved, anDelete, anSaving, anCut, anUsed>>

Analysis == {"comparison", "history", "attribution"}
Inputs == [mode : {"snapshot", "live"}, benchmark : Benchmark, book : Book,
           dates : DateFilter]

\* comparisonCurrentSnapshot, comparisonHistoryCurrentSnapshot and
\* attributionCurrentSnapshot: what each analysis depends on.
Current(kind, input, settled) ==
  CASE kind = "comparison" -> <<input.mode, settled, input.book>>
    [] kind = "history" -> <<settled, input.book>>
    [] kind = "attribution" -> <<settled, input.book, input.dates>>

AnRequests == UNION {{Current(kind, i, b) : i \in Inputs, b \in Benchmark} : kind \in Analysis}
ASSUME AnNothing ==
  NoAnalysis \notin SnapshotVersion \cup [of : AnRequests, lists : SUBSET SnapshotVersion]
                    \cup AnRequests \cup AnRequests \X Int

\* Defect: the comparison looks at the first field only.
OutdatedByFirst(snapshot, current) == snapshot # NoAnalysis /\ snapshot[1] # current[1]
\* isPortfolio...SnapshotStale: no request is never stale.
Outdated(snapshot, current) == snapshot # NoAnalysis /\ snapshot # current

\* A query: its key, where it stands, its data; of the history also what was saved when it was asked
\* for, and whether a read that set out before a write stands for the one that was to follow it.
NoQuery == [key |-> NoAnalysis, status |-> "idle", data |-> NoAnalysis, since |-> {}, late |-> FALSE]
AskedFor(kind, key, data) ==
  [NoQuery EXCEPT !.key = key, !.status = "asked", !.data = data,
                  !.since = IF kind = "history" THEN anSaved ELSE {}]
NoRequest == [phase |-> "no", selected |-> FALSE]
NothingAsked == [kind \in Analysis |-> NoAnalysis]
NothingStored == [kind \in Analysis |-> [snapshot |-> NoAnalysis, result |-> NoAnalysis]]
Unstarted == [kind \in Analysis |-> NoQuery]

\* The request an analysis stands for: what was asked, or, for the comparison
\* in snapshot mode, what the controls say.
Effective(kind, asked, input, settled) ==
  IF kind = "comparison" /\ asked[kind] = NoAnalysis /\ input.mode = "snapshot"
  THEN Current(kind, input, settled)
  ELSE asked[kind]

\* The key of the query.  History and attribution are idle without a token.
KeyOf(kind, asked, token, input, settled) ==
  LET request == Effective(kind, asked, input, settled)
  IN  IF request = NoAnalysis \/ (kind # "comparison" /\ token = 0)
      THEN NoAnalysis
      ELSE <<request, IF asked[kind] = NoAnalysis THEN -1 ELSE token>>

\* useQuery after a render: under a new key it starts afresh and the request
\* of the old one is cancelled or answered to nobody.  Attribution alone has
\* placeholderData: the last data stay until the new ones are there.
Observed(kind, query, key) ==
  LET kept == IF kind = "attribution" THEN query.data ELSE NoAnalysis
  IN  IF key = query.key THEN query
      ELSE IF key = NoAnalysis THEN [NoQuery EXCEPT !.data = kept]
      ELSE AskedFor(kind, key, kept)

\* query.data: a failed request shows no placeholder.
Data(kind, query) ==
  IF kind = "attribution" /\ query.status = "failed" THEN NoAnalysis ELSE query.data

\* Defect: the effects do not look whether there are data.
FiledUnanswered(kind, query, asked, input, settled, session) ==
  LET request == Effective(kind, asked, input, settled)
  IN  IF request # NoAnalysis THEN [snapshot |-> request, result |-> Data(kind, query)]
      ELSE session

\* The effects that write sessionStorage file the data under the request.
Filed(kind, query, asked, input, settled, session) ==
  LET request == Effective(kind, asked, input, settled)
  IN  IF Data(kind, query) # NoAnalysis /\ request # NoAnalysis
      THEN [snapshot |-> request, result |-> query.data]
      ELSE session

\* A render of the page, and the effects after it.
Render(asked, token, input, settled, query) ==
  LET observed == [kind \in Analysis |->
        Observed(kind, query[kind], KeyOf(kind, asked, token, input, settled))]
  IN  /\ anAsked' = asked /\ anToken' = token
      /\ anInput' = input /\ anSettled' = settled
      /\ anQuery' = observed
      /\ anSession' = [kind \in Analysis |->
           Filed(kind, observed[kind], asked, input, settled, anSession[kind])]

\* The page, if it is open, with nothing changed but its queries.
RenderData(query) ==
  IF anOpen THEN Render(anAsked, anToken, anInput, anSettled, query)
  ELSE UNCHANGED <<anAsked, anToken, anInput, anSettled, anQuery, anSession>>

Use(what) == anUsed' = [anUsed EXCEPT ![what] = @ + 1]

\* A new session.  Nothing tells one benchmark, date or version from another.
AnInit ==
  /\ anOpen = FALSE
  /\ anInput = CHOOSE i \in Inputs : i.mode = "snapshot" /\ i.book \notin PausedBook
  /\ anSettled = anInput.benchmark
  /\ anAsked = NothingAsked /\ anToken = 0
  /\ anQuery = Unstarted
  /\ anSession = NothingStored /\ anCached = NothingStored
  /\ anSelected = NoAnalysis
  /\ anSaved = {CHOOSE v \in SnapshotVersion : TRUE}
  /\ anDelete = [v \in SnapshotVersion |-> NoRequest]
  /\ anSaving = [phase |-> "no", page |-> FALSE]
  /\ anCut = FALSE
  /\ anUsed = [changes |-> 0, refreshes |-> 0, visits |-> 0, writes |-> 0,
               faults |-> 0]

-----------------------------------------------------------------------------
(* The user.                                                               *)

\* The page is opened: the requested snapshots and the copies are read from
\* the session, the controls are remembered (useTabState), the token is gone.
OpenPage ==
  /\ ~ anOpen /\ anUsed.visits < AnMaxVisits
  /\ anOpen' = TRUE
  /\ anCached' = anSession
  /\ anSelected' = NoAnalysis
  /\ Render([kind \in Analysis |-> anSession[kind].snapshot], 0,
            anInput, anInput.benchmark, Unstarted)
  /\ Use("visits")
  /\ UNCHANGED <<anSaved, anDelete, anSaving, anCut>>

\* The page is left.  Saves and deletions run on, but find no page to change.
LeavePage ==
  /\ anOpen
  /\ anOpen' = FALSE
  /\ anQuery' = Unstarted
  /\ anCut' = (anCut \/ anQuery["attribution"].status = "asked")
  /\ anDelete' = [v \in SnapshotVersion |-> [anDelete[v] EXCEPT !.selected = FALSE]]
  /\ anSaving' = [anSaving EXCEPT !.page = FALSE]
  /\ UNCHANGED <<anInput, anSettled, anAsked, anToken, anSession, anCached,
                 anSelected, anSaved, anUsed>>

\* A control is moved, or the watchlist is read with other rows.  All but the
\* dates and the book clear the selection, and so does leaving snapshot mode.
ChangeInput ==
  /\ anOpen /\ anUsed.changes < AnMaxChanges
  /\ \E input \in Inputs \ {anInput} :
       /\ Cardinality({f \in DOMAIN input : input[f] # anInput[f]}) = 1
       /\ anSelected' = IF input.benchmark # anInput.benchmark \/ input.mode = "live"
                        THEN NoAnalysis ELSE anSelected
       /\ Render(anAsked, anToken, input, anSettled, anQuery)
  /\ Use("changes")
  /\ UNCHANGED <<anOpen, anCached, anSaved, anDelete, anSaving, anCut>>

\* 400 ms without a key stroke.
SettleBenchmark ==
  /\ anOpen /\ anSettled # anInput.benchmark
  /\ Render(anAsked, anToken, anInput, anInput.benchmark, anQuery)
  /\ UNCHANGED <<anOpen, anCached, anSelected, anSaved, anDelete, anSaving, anCut, anUsed>>

\* "Refresh Analysis": everything is asked for again, under a new token.
RefreshAnalysis ==
  /\ anOpen /\ anUsed.refreshes < AnMaxRefreshes
  /\ LET paused == anInput.book \in PausedBook
         asked == [kind \in Analysis |->
                     IF kind = "attribution" /\ paused THEN NoAnalysis
                     ELSE Current(kind, anInput, anSettled)]
     IN  /\ Render(asked, anUsed.refreshes + 1, anInput, anSettled, anQuery)
         /\ anCut' = (anCut \/ paused \/ anQuery["attribution"].status = "asked")
  /\ anSelected' = NoAnalysis
  /\ Use("refreshes")
  /\ UNCHANGED <<anOpen, anCached, anSaved, anDelete, anSaving>>

-----------------------------------------------------------------------------
(* The queries.                                                            *)

\* The server answers.  What a history lists is what was saved when it was asked for, or is saved
\* when its answer comes.
AnswerQuery(kind) ==
  /\ anOpen /\ anQuery[kind].status = "asked"
  /\ \E listed \in IF kind = "history" THEN {anQuery[kind].since, anSaved} ELSE {{}} :
       RenderData([anQuery EXCEPT ![kind] =
         [NoQuery EXCEPT !.key = anQuery[kind].key, !.status = "done",
                         !.data = [of |-> anQuery[kind].key[1], lists |-> listed],
                         !.late = anQuery[kind].late /\ listed # anSaved]])
  /\ UNCHANGED <<anOpen, anCached, anSelected, anSaved, anDelete, anSaving, anCut, anUsed>>

\* A request fails, three retries included.
FailQuery(kind) ==
  /\ anOpen /\ anQuery[kind].status = "asked"
  /\ anUsed.faults < AnMaxFaults
  /\ RenderData([anQuery EXCEPT ![kind].status = "failed"])
  /\ anCut' = (anCut \/ kind = "attribution")
  /\ Use("faults")
  /\ UNCHANGED <<anOpen, anCached, anSelected, anSaved, anDelete, anSaving>>

\* What the page shows of an analysis: the data of its query, or else the copy
\* from the session when it answers what the controls say.
Shown(kind) ==
  LET cached == anCached[kind]
      current == Current(kind, anInput, anSettled)
  IN  IF Data(kind, anQuery[kind]) # NoAnalysis THEN Data(kind, anQuery[kind])
      ELSE IF Outdated(cached.snapshot, current) THEN NoAnalysis
      ELSE cached.result

\* portfolioComparisonCalculating and portfolioAnalysisIsStale.
ShownCalculating ==
  \/ anInput.benchmark # anSettled
  \/ \E kind \in Analysis : anQuery[kind].status = "asked"
ShownStale ==
  \E kind \in Analysis : Outdated(anAsked[kind], Current(kind, anInput, anSettled))

-----------------------------------------------------------------------------
(* Saved snapshots.                                                        *)

\* invalidateQueries: an observed history is read again, and a read under way is dropped for it; but
\* a first read, which has nothing to show yet, goes on and its answer is taken.
Invalidated(query) ==
  LET history == query["history"]
      firstRead == history.status = "asked" /\ history.data = NoAnalysis
  IN  IF history.key = NoAnalysis THEN query
      ELSE [query EXCEPT !["history"] = IF firstRead THEN [history EXCEPT !.late = TRUE]
                                        ELSE AskedFor("history", history.key, history.data)]

Listed ==
  IF Shown("history") = NoAnalysis THEN {} ELSE Shown("history").lists

\* portfolioSnapshotHistoryViewState: which of its views the list of snapshots is.
HistoryPanel ==
  LET query == anQuery["history"]
      settled == query.status # "failed" /\ (query.status = "asked" => query.data # NoAnalysis)
  IN  IF Shown("history") # NoAnalysis
      THEN IF ~ settled THEN "blank" ELSE IF Listed = {} THEN "empty" ELSE "list"
      ELSE IF settled THEN "idle" ELSE IF query.status = "failed" THEN "error" ELSE "loading"

\* "Review Snapshot", on the page or in the history modal.
SelectSnapshot(v) ==
  /\ anOpen /\ v \in Listed
  /\ AnPatient => /\ anQuery["history"].status = "done" /\ ~ anQuery["history"].late
                  /\ \A w \in SnapshotVersion : anDelete[w].phase = "no"
  /\ anSelected' = v
  /\ Render(anAsked, anToken, [anInput EXCEPT !.mode = "snapshot"], anSettled, anQuery)
  /\ UNCHANGED <<anOpen, anCached, anSaved, anDelete, anSaving, anCut, anUsed>>

\* handleDeleteSnapshotVersion keeps the selection it saw at the click.
DeleteSnapshot(v) ==
  /\ anOpen /\ anUsed.writes < AnMaxWrites
  /\ v \in Listed
  /\ anDelete[v].phase = "no"
  /\ anDelete' = [anDelete EXCEPT ![v] = [phase |-> "asked", selected |-> anSelected = v]]
  /\ Use("writes")
  /\ UNCHANGED <<anOpen, anInput, anSettled, anAsked, anToken, anQuery, anSession,
                 anCached, anSelected, anSaved, anSaving, anCut>>

DeleteServed(v) ==
  /\ anDelete[v].phase = "asked" /\ v \in anSaved
  /\ anDelete' = [anDelete EXCEPT ![v].phase = "served"]
  /\ anSaved' = anSaved \ {v}
  /\ UNCHANGED <<anOpen, anInput, anSettled, anAsked, anToken, anQuery, anSession,
                 anCached, anSelected, anSaving, anCut, anUsed>>

DeleteAnswered(v) ==
  /\ anDelete[v].phase = "served"
  /\ anDelete' = [anDelete EXCEPT ![v] = NoRequest]
  /\ anSelected' = IF anDelete[v].selected THEN NoAnalysis ELSE anSelected
  /\ RenderData(Invalidated(anQuery))
  /\ UNCHANGED <<anOpen, anCached, anSaved, anSaving, anCut, anUsed>>

\* The request or its answer is lost, or the server has no such version any more.
DeleteLost(v) ==
  /\ anDelete[v].phase # "no"
  /\ anDelete' = [anDelete EXCEPT ![v] = NoRequest]
  /\ IF anDelete[v].phase = "asked" /\ v \notin anSaved THEN UNCHANGED anUsed
     ELSE anUsed.faults < AnMaxFaults /\ Use("faults")
  /\ UNCHANGED <<anOpen, anInput, anSettled, anAsked, anToken, anQuery, anSession,
                 anCached, anSelected, anSaved, anSaving, anCut>>

\* "Save Current As Snapshot".
SaveSnapshot ==
  /\ anOpen /\ anUsed.writes < AnMaxWrites
  /\ anSaving.phase = "no" /\ anSaved # SnapshotVersion
  /\ anSaving' = [phase |-> "asked", page |-> TRUE]
  /\ Use("writes")
  /\ UNCHANGED <<anOpen, anInput, anSettled, anAsked, anToken, anQuery, anSession,
                 anCached, anSelected, anSaved, anDelete, anCut>>

SnapshotServed ==
  /\ anSaving.phase = "asked"
  /\ anSaving' = [anSaving EXCEPT !.phase = "served"]
  /\ \E v \in SnapshotVersion \ anSaved : anSaved' = anSaved \cup {v}
  /\ UNCHANGED <<anOpen, anInput, anSettled, anAsked, anToken, anQuery, anSession,
                 anCached, anSelected, anDelete, anCut, anUsed>>

\* The histories are read again, then the page turns to the latest snapshot;
\* a page opened since then only has its history read again.
SnapshotSaved ==
  /\ anSaving.phase = "served"
  /\ anSaving' = [phase |-> "no", page |-> FALSE]
  /\ IF anSaving.page
     THEN /\ anSelected' = NoAnalysis
          /\ Render(anAsked, anToken, [anInput EXCEPT !.mode = "snapshot"],
                    anSettled, Invalidated(anQuery))
     ELSE UNCHANGED anSelected /\ RenderData(Invalidated(anQuery))
  /\ UNCHANGED <<anOpen, anCached, anSaved, anDelete, anCut, anUsed>>

AnNext ==
  \/ OpenPage \/ LeavePage \/ ChangeInput \/ SettleBenchmark \/ RefreshAnalysis
  \/ \E kind \in Analysis : AnswerQuery(kind) \/ FailQuery(kind)
  \/ \E v \in SnapshotVersion :
       \/ SelectSnapshot(v) \/ DeleteSnapshot(v)
       \/ DeleteServed(v) \/ DeleteAnswered(v) \/ DeleteLost(v)
  \/ SaveSnapshot \/ SnapshotServed \/ SnapshotSaved

AnSpec == AnInit /\ [][AnNext]_anVars
-----------------------------------------------------------------------------
(* Properties.                                                             *)

Result(kind) == [of : {Current(kind, i, b) : i \in Inputs, b \in Benchmark},
                 lists : SUBSET SnapshotVersion]

AnTypeOK ==
  /\ anOpen \in BOOLEAN /\ anInput \in Inputs /\ anSettled \in Benchmark
  /\ \A kind \in Analysis :
       /\ anQuery[kind].status \in {"idle", "asked", "done", "failed"}
       /\ anQuery[kind].data \in Result(kind) \cup {NoAnalysis}
       /\ anQuery[kind].since \subseteq SnapshotVersion /\ anQuery[kind].late \in BOOLEAN
       /\ anSession[kind].result \in Result(kind) \cup {NoAnalysis}
       /\ anSession[kind].snapshot = NoAnalysis <=> anSession[kind].result = NoAnalysis
  /\ anToken \in 0..AnMaxRefreshes
  /\ anSelected \in SnapshotVersion \cup {NoAnalysis}
  /\ anSaved \subseteq SnapshotVersion

\* Whatever the page shows without "Calculating" and without "Showing stale
\* analysis for prior inputs" answers what the controls say: also after the
\* page was left and opened again with results of an earlier visit.  An
\* attribution that was asked for and never answered is excepted: its
\* placeholder, the result for the inputs before, is already filed under the
\* new request (attributionQuery and the effect that writes its cache).
FreshIsCurrent ==
  anOpen /\ ~ ShownCalculating /\ ~ ShownStale =>
    \A kind \in Analysis :
      Shown(kind) # NoAnalysis /\ (kind = "attribution" => ~ anCut) =>
        Shown(kind).of = Current(kind, anInput, anSettled)

\* Once no save, deletion or read is on its way, a history read in this visit
\* lists exactly the saved snapshots, and the one under review is one of them
\* (handleDeleteSnapshotVersion, handleRefreshPortfolioSnapshot).  A first read that was under way
\* when a write was answered is excepted: its answer may be of before the write.
ListedAreSaved ==
  /\ anUsed.faults = 0 /\ anQuery["history"].status = "done" /\ ~ anQuery["history"].late
  /\ anSaving.phase = "no" /\ \A v \in SnapshotVersion : anDelete[v].phase = "no"
  => /\ anQuery["history"].data.lists = anSaved
     /\ anSelected \in anSaved \cup {NoAnalysis}
     /\ HistoryPanel = IF anSaved = {} THEN "empty" ELSE "list"
=============================================================================
