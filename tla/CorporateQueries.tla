-------------------------- MODULE CorporateQueries --------------------------
(***************************************************************************)
(* The data of the corporate page that are asked for explicitly: the source*)
(* data of the ticker (metric history, quarterly statements and prices are *)
(* asked, kept and shown alike) and the comparison of a universe.  Each    *)
(* result outlives the page in sessionStorage, next to the request it      *)
(* answers.  The reports of all compared stocks are asked for from the rows*)
(* of the comparison.  A result is known by the input it answers.          *)
(***************************************************************************)
EXTENDS Integers

CONSTANTS
  CqInput,        \* tickers, or universes
  NoCq,           \* nothing asked, nothing there
  CqMaxChanges,   \* bound: changes of the inputs
  CqMaxRefreshes, \* bound: "Refresh" of the source data or the comparison
  CqMaxBatches,   \* bound: "Calculate all"
  CqMaxVisits,    \* bound: the page is opened so often
  CqMaxFaults     \* bound: requests that fail, after their retries

ASSUME CqAssumption ==
  /\ CqInput # {} /\ NoCq \notin CqInput
  /\ CqMaxChanges \in Nat /\ CqMaxRefreshes \in Nat /\ CqMaxBatches \in Nat
  /\ CqMaxVisits \in Nat /\ CqMaxFaults \in Nat

VARIABLES
  cqOpen,     \* the page is mounted
  cqInput,    \* the ticker, and the universe, that the controls say
  cqAsked,    \* sourceDataRequestedTicker, comparisonRequestedSnapshot
  cqQuery,    \* the queries: status and data
  cqSession,  \* sessionStorage: request and result
  cqCopy,     \* what it held when the page was opened
  cqBatch,    \* the universe whose reports are being calculated
  cqReports,  \* the universe of bulkDcfReports
  cqCut,      \* history: requests that were asked and not answered
  cqLate,     \* history: a batch was under way when the rows changed
  cqUsed      \* bounds

cqVars == <<cqOpen, cqInput, cqAsked, cqQuery, cqSession, cqCopy, cqBatch, cqReports,
            cqCut, cqLate, cqUsed>>

Demand == {"source", "comparison"}
CqNothing == [request |-> NoCq, result |-> NoCq]
CqIdle == [status |-> "idle", data |-> NoCq]

CqUse(what) == cqUsed' = [cqUsed EXCEPT ![what] = @ + 1]

\* query.data: the last data stay as a placeholder, but not after an error.
CqData(query) == IF query.status = "failed" THEN NoCq ELSE query.data

\* rawMetricsHistoryData and its like, comparisonDisplayData, and the request
\* they are said to answer.
CqRaw(d) == IF CqData(cqQuery[d]) # NoCq THEN CqData(cqQuery[d]) ELSE cqCopy[d].result
CqClaims(d) == IF CqData(cqQuery[d]) # NoCq THEN cqAsked[d] ELSE cqCopy[d].request

\* Source data of another ticker are hidden, an old comparison is marked.
CqShown(d) ==
  IF d = "source" /\ CqClaims(d) # cqInput[d] THEN NoCq ELSE CqRaw(d)
CqMarked(d) ==
  d = "comparison" /\ CqRaw(d) # NoCq /\ cqAsked[d] # NoCq /\ cqAsked[d] # cqInput[d]

\* The effects that write sessionStorage.
CqFiled(d, query, asked, session) ==
  IF CqData(query) # NoCq /\ asked # NoCq
  THEN [request |-> asked, result |-> query.data] ELSE session

\* A render with another state of one query, and its effects.  Reports are
\* dropped when the rows are of another universe.
CqRender(d, query, asked) ==
  /\ cqQuery' = [cqQuery EXCEPT ![d] = query]
  /\ cqAsked' = [cqAsked EXCEPT ![d] = asked]
  /\ cqSession' = [cqSession EXCEPT ![d] = CqFiled(d, query, asked, @)]
  /\ LET rows == IF CqData(query) # NoCq THEN CqData(query) ELSE cqCopy[d].result
         turned == d = "comparison" /\ rows # CqRaw(d)
     IN  /\ cqReports' = IF turned THEN NoCq ELSE cqReports
         /\ cqLate' = (cqLate \/ (turned /\ cqBatch # NoCq))

CqInit ==
  /\ cqOpen = FALSE
  /\ cqInput = [d \in Demand |-> CHOOSE i \in CqInput : TRUE]
  /\ cqAsked = [d \in Demand |-> NoCq]
  /\ cqQuery = [d \in Demand |-> CqIdle]
  /\ cqSession = [d \in Demand |-> CqNothing] /\ cqCopy = cqSession
  /\ cqBatch = NoCq /\ cqReports = NoCq
  /\ cqCut = {} /\ cqLate = FALSE
  /\ cqUsed = [changes |-> 0, refreshes |-> 0, batches |-> 0, visits |-> 0, faults |-> 0]

\* What was asked is restored; without a refresh nothing is asked again.
OpenQueries ==
  /\ ~ cqOpen /\ cqUsed.visits < CqMaxVisits
  /\ cqOpen' = TRUE
  /\ cqCopy' = cqSession
  /\ cqAsked' = [d \in Demand |-> cqSession[d].request]
  /\ CqUse("visits")
  /\ UNCHANGED <<cqInput, cqQuery, cqSession, cqBatch, cqReports, cqCut, cqLate>>

\* The signals cancel the reads; a batch is forgotten.
LeaveQueries ==
  /\ cqOpen
  /\ cqOpen' = FALSE
  /\ cqCut' = cqCut \cup {d \in Demand : cqQuery[d].status = "asked"}
  /\ cqQuery' = [d \in Demand |-> CqIdle]
  /\ cqAsked' = [d \in Demand |-> NoCq]
  /\ cqCopy' = [d \in Demand |-> CqNothing]
  /\ cqBatch' = NoCq /\ cqReports' = NoCq /\ cqLate' = FALSE
  /\ UNCHANGED <<cqInput, cqSession, cqUsed>>

ChangeDemand(d) ==
  /\ cqOpen /\ cqUsed.changes < CqMaxChanges
  /\ \E i \in CqInput \ {cqInput[d]} : cqInput' = [cqInput EXCEPT ![d] = i]
  /\ CqUse("changes")
  /\ UNCHANGED <<cqOpen, cqAsked, cqQuery, cqSession, cqCopy, cqBatch, cqReports, cqCut,
                 cqLate>>

\* handleRefreshSourceData, handleRefreshComparison: a new token, a new key.
RefreshDemand(d) ==
  /\ cqOpen /\ cqUsed.refreshes < CqMaxRefreshes
  /\ CqRender(d, [status |-> "asked", data |-> CqData(cqQuery[d])], cqInput[d])
  /\ cqCut' = IF cqQuery[d].status = "asked" THEN cqCut \cup {d} ELSE cqCut
  /\ CqUse("refreshes")
  /\ UNCHANGED <<cqOpen, cqInput, cqCopy, cqBatch>>

AnswerDemand(d) ==
  /\ cqQuery[d].status = "asked"
  /\ CqRender(d, [status |-> "done", data |-> cqAsked[d]], cqAsked[d])
  /\ UNCHANGED <<cqOpen, cqInput, cqCopy, cqBatch, cqCut, cqUsed>>

FailDemand(d) ==
  /\ cqQuery[d].status = "asked" /\ cqUsed.faults < CqMaxFaults
  /\ CqRender(d, [cqQuery[d] EXCEPT !.status = "failed"], cqAsked[d])
  /\ cqCut' = cqCut \cup {d}
  /\ CqUse("faults")
  /\ UNCHANGED <<cqOpen, cqInput, cqCopy, cqBatch>>

\* handleCalculateAllDcfReports
CalculateAll ==
  /\ cqOpen /\ cqBatch = NoCq /\ cqUsed.batches < CqMaxBatches
  /\ CqRaw("comparison") # NoCq
  /\ cqBatch' = CqRaw("comparison")
  /\ CqUse("batches")
  /\ UNCHANGED <<cqOpen, cqInput, cqAsked, cqQuery, cqSession, cqCopy, cqReports, cqCut,
                 cqLate>>

\* The batch is there, whatever rows are shown by now, or it failed.
BatchAnswered ==
  /\ cqBatch # NoCq
  /\ cqReports' = cqBatch
  /\ cqBatch' = NoCq
  /\ UNCHANGED <<cqOpen, cqInput, cqAsked, cqQuery, cqSession, cqCopy, cqCut, cqLate, cqUsed>>

BatchFails ==
  /\ cqBatch # NoCq /\ cqUsed.faults < CqMaxFaults
  /\ cqBatch' = NoCq
  /\ CqUse("faults")
  /\ UNCHANGED <<cqOpen, cqInput, cqAsked, cqQuery, cqSession, cqCopy, cqReports, cqCut,
                 cqLate>>

CqNext ==
  \/ OpenQueries \/ LeaveQueries
  \/ \E d \in Demand :
       ChangeDemand(d) \/ RefreshDemand(d) \/ AnswerDemand(d) \/ FailDemand(d)
  \/ CalculateAll \/ BatchAnswered \/ BatchFails

CqSpec == CqInit /\ [][CqNext]_cqVars
-----------------------------------------------------------------------------
(* Properties.                                                             *)

CqTypeOK ==
  /\ cqOpen \in BOOLEAN /\ cqInput \in [Demand -> CqInput]
  /\ cqAsked \in [Demand -> CqInput \cup {NoCq}]
  /\ cqQuery \in [Demand -> [status : {"idle", "asked", "done", "failed"},
                             data : CqInput \cup {NoCq}]]
  /\ cqSession \in [Demand -> [request : CqInput \cup {NoCq}, result : CqInput \cup {NoCq}]]
  /\ cqCopy \in [Demand -> [request : CqInput \cup {NoCq}, result : CqInput \cup {NoCq}]]
  /\ {cqBatch, cqReports} \subseteq CqInput \cup {NoCq}
  /\ cqCut \subseteq Demand /\ cqLate \in BOOLEAN

\* Data shown as those of the ticker, or as a comparison not marked stale, and
\* not being fetched, answer what the controls say, in this visit and in later
\* ones.  A request asked and never answered is excepted: the placeholder, the
\* data asked for before, is shown and filed as its answer.
DataAnswerTheControls ==
  \A d \in Demand :
    cqOpen /\ CqShown(d) # NoCq /\ ~ CqMarked(d) /\ cqQuery[d].status # "asked"
    /\ d \notin cqCut => CqShown(d) = cqInput[d]

\* The reports of all stocks are those of the rows they stand under, unless
\* the rows changed while they were being calculated.
ReportsMatchRows == cqReports # NoCq /\ ~ cqLate => cqReports = CqRaw("comparison")

QueriesHold == DataAnswerTheControls /\ ReportsMatchRows
=============================================================================
