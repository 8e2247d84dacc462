------------------------ MODULE CorporateAssumptions ------------------------
(***************************************************************************)
(* The assumptions of the corporate page (app/corporate/page.tsx).  They   *)
(* belong to the selected ticker: read from localStorage at once, from the *)
(* server a little later, edited, and saved 250 ms after the last edit.    *)
(* The figure stands for the fields the server keeps as they are saved;    *)
(* those it computes from statements are not the user's to save.           *)
(***************************************************************************)
EXTENDS Integers

CONSTANTS
  CaTicker, CaFigure,
  CaDefault,      \* defaultAssumptionsFor, of a ticker the server has not saved
  NoCa,           \* null, or no entry in a storage
  CaMaxEdits,     \* bound: changes of a figure or of the ROIC basis
  CaMaxPicks,     \* bound: tickers selected
  CaMaxVisits,    \* bound: the page is opened so often
  CaMaxFaults     \* bound: requests lost

ASSUME CaAssumption ==
  /\ CaTicker # {} /\ CaDefault \in CaFigure
  /\ NoCa \notin CaFigure \cup CaTicker
  /\ CaMaxEdits \in Nat /\ CaMaxPicks \in Nat
  /\ CaMaxVisits \in Nat /\ CaMaxFaults \in Nat

VARIABLES
  caOpen,       \* the page is mounted
  caShown,      \* assumptions
  caTimer,      \* the 250 ms of useDebounce are running
  caHydrating,  \* hydratingTickerRef
  caPending,    \* pendingMetricsPersistRef
  caLoaded,     \* the ticker of latestLoadedMetrics
  caReads,      \* GET /corporate/metrics requests in flight
  caPuts,       \* PUT /corporate/metrics requests in flight
  caLocal,      \* localStorage: figure by ticker
  caServer,     \* the server: figure by ticker
  caTyped,      \* history: what the user typed last, by ticker
  caRaced,      \* history: tickers with an edit that met a read, a selection
                \* or a save on its way, and is lost
  caReselected, \* history: the selected ticker was selected again
  caUsed        \* bounds

caVars == <<caOpen, caShown, caTimer, caHydrating, caPending, caLoaded,
            caReads, caPuts, caLocal, caServer, caTyped, caRaced,
            caReselected, caUsed>>

Assumptions == [ticker : CaTicker, figure : CaFigure]
ReadOf == [ticker : CaTicker, seen : CaFigure \cup {NoCa}, n : Nat]

CaUse(what) == caUsed' = [caUsed EXCEPT ![what] = @ + 1]

\* byTicker[ticker] ?? defaultAssumptionsFor(ticker)
Stored(ticker) ==
  [ticker |-> ticker,
   figure |-> IF caLocal[ticker] = NoCa THEN CaDefault ELSE caLocal[ticker]]

\* A render with new assumptions, and the effect that stores them.
Assume(assumptions) ==
  /\ caShown' = assumptions
  /\ caTimer' = TRUE
  /\ caLocal' = [caLocal EXCEPT ![assumptions.ticker] = assumptions.figure]

\* The effect on the ticker and the ROIC basis.  Reads are never aborted.
Hydrate(ticker) ==
  /\ caHydrating' = ticker
  /\ caReads' = caReads \cup
       {[ticker |-> ticker, seen |-> NoCa,
         n |-> CHOOSE n \in 1..(CaMaxEdits + CaMaxPicks + 1) :
                 \A r \in caReads : r.n # n]}

\* An edit of the ticker is on its way from the page to the server.
Unsaved(ticker) == caPending /\ caShown.ticker = ticker

CaInit ==
  /\ caOpen = FALSE
  /\ caShown = [ticker |-> CHOOSE t \in CaTicker : TRUE, figure |-> CaDefault]
  /\ caTimer = FALSE
  /\ caHydrating = NoCa /\ caPending = FALSE /\ caLoaded = NoCa
  /\ caReads = {} /\ caPuts = {}
  /\ caLocal = [t \in CaTicker |-> NoCa]
  /\ caServer = [t \in CaTicker |-> CaDefault]
  /\ caTyped = caServer /\ caRaced = {} /\ caReselected = FALSE
  /\ caUsed = [edits |-> 0, picks |-> 0, visits |-> 0, faults |-> 0]

\* The page is opened, at the ticker of a link (?ticker=), or of the session,
\* or at the first one.
OpenCorporate ==
  /\ ~ caOpen /\ caUsed.visits < CaMaxVisits
  /\ caOpen' = TRUE
  /\ \E t \in CaTicker :
       /\ caShown' = Stored(t)
       /\ caLocal' = [caLocal EXCEPT ![t] = Stored(t).figure]
       /\ Hydrate(t)
  /\ caTimer' = FALSE /\ caPending' = FALSE /\ caLoaded' = NoCa
  /\ CaUse("visits")
  /\ UNCHANGED <<caPuts, caServer, caTyped, caRaced, caReselected>>

\* Answers of reads find no page; saves run on.
LeaveCorporate ==
  /\ caOpen
  /\ caOpen' = FALSE
  /\ caReads' = {} /\ caTimer' = FALSE
  /\ caRaced' = caRaced \cup {t \in CaTicker : Unsaved(t)}
  /\ UNCHANGED <<caShown, caHydrating, caPending, caLoaded, caPuts, caLocal,
                 caServer, caTyped, caReselected, caUsed>>

\* update: a slider of the assumption table.
EditFigure ==
  /\ caOpen /\ caUsed.edits < CaMaxEdits
  /\ \E f \in CaFigure \ {caShown.figure} :
       /\ Assume([caShown EXCEPT !.figure = f])
       /\ caTyped' = [caTyped EXCEPT ![caShown.ticker] = f]
  /\ caPending' = TRUE
  /\ caRaced' = IF \E r \in caReads : r.ticker = caShown.ticker
                THEN caRaced \cup {caShown.ticker} ELSE caRaced
  /\ CaUse("edits")
  /\ UNCHANGED <<caOpen, caHydrating, caLoaded, caReads, caPuts, caServer, caReselected>>

\* Another ROIC basis or year reads the metrics again.  (The ROIC itself is
\* one of the fields that are computed.)
ChangeBasis ==
  /\ caOpen /\ caUsed.edits < CaMaxEdits
  /\ Hydrate(caShown.ticker)
  /\ caRaced' = caRaced \cup {t \in CaTicker : Unsaved(t)}
  /\ CaUse("edits")
  /\ UNCHANGED <<caOpen, caShown, caTimer, caPending, caLoaded, caPuts,
                 caLocal, caServer, caTyped, caReselected>>

\* selectTicker: from the search, a row of the comparison or a new company.
\* The effect reads the metrics only if the ticker is another one.  An edit
\* not yet saved leaves its mark, and the other ticker is saved instead.
SelectTicker(t) ==
  /\ caOpen /\ caUsed.picks < CaMaxPicks
  /\ caLoaded' = NoCa
  /\ Assume(Stored(t))
  /\ IF t = caShown.ticker
     THEN caReselected' = TRUE /\ UNCHANGED <<caHydrating, caReads, caRaced>>
     ELSE /\ Hydrate(t)
          /\ caRaced' = IF caPending THEN caRaced \cup {caShown.ticker, t} ELSE caRaced
          /\ UNCHANGED caReselected
  /\ CaUse("picks")
  /\ UNCHANGED <<caOpen, caPending, caPuts, caServer, caTyped>>

\* The server reads the figure.
CaReadServed(r) ==
  /\ r.seen = NoCa
  /\ caReads' = (caReads \ {r}) \cup {[r EXCEPT !.seen = caServer[r.ticker]]}
  /\ UNCHANGED <<caOpen, caShown, caTimer, caHydrating, caPending, caLoaded,
                 caPuts, caLocal, caServer, caTyped, caRaced, caReselected,
                 caUsed>>

\* Which metrics are kept: those of the ticker that is being hydrated, or
\* newer ones of the ticker whose metrics are kept already.
Kept(ticker) == IF caHydrating = ticker \/ caLoaded = ticker THEN ticker ELSE caLoaded

Unhydrated(ticker) == IF caHydrating = ticker THEN NoCa ELSE caHydrating

\* Defect: the answer of any read replaces the assumptions.
TakesAnyMetrics(r) ==
  /\ r.seen # NoCa
  /\ caReads' = caReads \ {r}
  /\ caLoaded' = Kept(r.ticker) /\ caHydrating' = Unhydrated(r.ticker)
  /\ Assume([ticker |-> r.ticker, figure |-> r.seen])
  /\ UNCHANGED <<caOpen, caPending, caPuts, caServer, caTyped,
                 caRaced, caReselected, caUsed>>

\* The answer is read; then and finally run before the next render.
CaReadAnswered(r) ==
  /\ r.seen # NoCa
  /\ caReads' = caReads \ {r}
  /\ caLoaded' = Kept(r.ticker) /\ caHydrating' = Unhydrated(r.ticker)
  /\ IF caShown.ticker = r.ticker
     THEN Assume([ticker |-> r.ticker, figure |-> r.seen])
     ELSE UNCHANGED <<caShown, caTimer, caLocal>>
  /\ UNCHANGED <<caOpen, caPending, caPuts, caServer, caTyped,
                 caRaced, caReselected, caUsed>>

CaReadLost(r) ==
  /\ caUsed.faults < CaMaxFaults
  /\ caReads' = caReads \ {r}
  /\ caHydrating' = Unhydrated(r.ticker)
  /\ CaUse("faults")
  /\ UNCHANGED <<caOpen, caShown, caTimer, caPending, caLoaded, caPuts, caLocal,
                 caServer, caTyped, caRaced, caReselected>>

\* 250 ms without a change, and the effect that saves.
AssumptionsSettle ==
  /\ caOpen /\ caTimer
  /\ caTimer' = FALSE
  /\ IF caHydrating = caShown.ticker \/ ~ caPending
     THEN UNCHANGED <<caPending, caPuts, caRaced>>
     ELSE /\ caPending' = FALSE
          /\ caPuts' = caPuts \cup {caShown}
          /\ caRaced' = IF \E p \in caPuts : p.ticker = caShown.ticker
                        THEN caRaced \cup {caShown.ticker} ELSE caRaced
  /\ UNCHANGED <<caOpen, caShown, caHydrating, caLoaded, caReads, caLocal, caServer, caTyped, caReselected, caUsed>>

\* Saves are not ordered among themselves; nobody waits for their answer.
CaPutServed(p) ==
  /\ caServer' = [caServer EXCEPT ![p.ticker] = p.figure]
  /\ caPuts' = caPuts \ {p}
  /\ UNCHANGED <<caOpen, caShown, caTimer, caHydrating, caPending, caLoaded,
                 caReads, caLocal, caTyped, caRaced, caReselected, caUsed>>

CaPutLost(p) ==
  /\ caUsed.faults < CaMaxFaults
  /\ caPuts' = caPuts \ {p}
  /\ caRaced' = caRaced \cup {p.ticker}
  /\ CaUse("faults")
  /\ UNCHANGED <<caOpen, caShown, caTimer, caHydrating, caPending, caLoaded,
                 caReads, caLocal, caServer, caTyped, caReselected>>

CaServes ==
  \/ AssumptionsSettle
  \/ \E r \in caReads : CaReadServed(r) \/ CaReadAnswered(r)
  \/ \E p \in caPuts : CaPutServed(p)

CaNext ==
  \/ OpenCorporate \/ LeaveCorporate \/ EditFigure \/ ChangeBasis
  \/ \E t \in CaTicker : SelectTicker(t)
  \/ CaServes
  \/ \E r \in caReads : CaReadLost(r)
  \/ \E p \in caPuts : CaPutLost(p)

\* Timers run out and requests are answered.
CaFairness == WF_caVars(CaServes)
CaSpec == CaInit /\ [][CaNext]_caVars /\ CaFairness
-----------------------------------------------------------------------------
(* Properties.                                                             *)

CaTypeOK ==
  /\ caOpen \in BOOLEAN /\ caTimer \in BOOLEAN /\ caPending \in BOOLEAN
  /\ caShown \in Assumptions
  /\ caHydrating \in CaTicker \cup {NoCa} /\ caLoaded \in CaTicker \cup {NoCa}
  /\ caReads \subseteq ReadOf /\ caPuts \subseteq Assumptions
  /\ caLocal \in [CaTicker -> CaFigure \cup {NoCa}]
  /\ caServer \in [CaTicker -> CaFigure]

\* The metrics shown beside the assumptions (the Ke the WACC was built with)
\* are there once nothing is being read: latestLoadedMetrics is kept for the
\* ticker on screen (useEffect on assumptions.ticker, selectTicker).
MetricsAreKept ==
  caOpen /\ caReads = {} /\ caUsed.faults = 0 => caLoaded = caShown.ticker

\* Only selecting the selected ticker again loses them.
MetricsAreLost == caReselected \/ MetricsAreKept

\* The last edit of every ticker is on the server in the end, whatever late
\* answers of reads for other tickers arrive (update, the effect on debounced,
\* the hydration effect).  Excepted are the edits caRaced tells of.
AssumptionsAreSaved ==
  \A t \in CaTicker : t \in caRaced \/ caServer[t] = caTyped[t]
=============================================================================
