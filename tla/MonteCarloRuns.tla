--------------------------- MODULE MonteCarloRuns ---------------------------
(***************************************************************************)
(* The runs of the Simulation Lab (app/monte-carlo/page.tsx) and the one   *)
(* worker they share (workers/simulation.worker.ts).  A run is a message   *)
(* to the worker, which computes it in one synchronous handler: a cancel   *)
(* message waits behind the run it cancels.  The page tells the answers    *)
(* apart by the request id alone.                                          *)
(*                                                                         *)
(* A result is known by its run and by the initial investment it was       *)
(* computed from.  Progress messages and warnings change nothing else and  *)
(* are left out; the tab "risk" stands for the return distribution too.    *)
(***************************************************************************)
EXTENDS Integers, Sequences, FiniteSets

CONSTANTS
  Amount,           \* initial investments the user types
  McNone,           \* no run, no result, no figures
  McMaxRuns,        \* bound: runs started
  McMaxTabs,        \* bound: changes of the tab
  McMaxErrors       \* bound: runs the worker fails

ASSUME McAssumption ==
  /\ Amount # {}
  /\ McMaxRuns \in Nat /\ McMaxTabs \in Nat /\ McMaxErrors \in Nat

VARIABLES
  mcTab,        \* activeTab
  mcAmount,     \* input.initialInvestment
  mcStatus,     \* status, valuationStatus, correlationStatus
  mcResult,     \* the result of each kind
  mcActive,     \* activeRequestIdRef and activeRequestKindRef
  mcPending,    \* figures the running run will replace
  mcBefore,     \* figures shown struck through
  mcInbox,      \* messages on their way to the worker
  mcJob,        \* the run the worker computes
  mcCancelled,  \* the worker's cancelledRequests
  mcOutbox,     \* answers on their way to the page
  mcDropped,    \* history: runs the user or a later run cancelled
  mcUsed        \* bounds

mcVars == <<mcTab, mcAmount, mcStatus, mcResult, mcActive, mcPending, mcBefore,
            mcInbox, mcJob, mcCancelled, mcOutbox, mcDropped, mcUsed>>

Kind == {"path", "valuation", "correlation"}
McTab == Kind \cup {"risk"}
RunId == 1 .. McMaxRuns
Figures == [tab : Kind, run : RunId, amount : Amount]
\* What the page posts; a cancel carries the run it cancels.
McMessage == [cancel : BOOLEAN, id : RunId, kind : Kind, amount : Amount,
              shown : Figures \cup {McNone}]
Answer == [failed : BOOLEAN, run : McMessage]

ASSUME NoneIsNone == McNone \notin Figures /\ McNone \notin McMessage

McTypeOK ==
  /\ mcTab \in McTab /\ mcAmount \in Amount
  /\ mcStatus \in [Kind -> {"idle", "loading", "error", "cancelled"}]
  /\ mcResult \in [Kind -> McMessage \cup {McNone}]
  /\ mcActive \in McMessage \cup {McNone}
  /\ mcPending \in Figures \cup {McNone}
  /\ mcBefore \in Figures \cup {McNone}
  /\ mcInbox \in Seq(McMessage) /\ mcOutbox \in Seq(Answer)
  /\ mcJob \in McMessage \cup {McNone}
  /\ mcCancelled \subseteq RunId /\ mcDropped \subseteq RunId
  /\ mcUsed \in [runs : 0..McMaxRuns, tabs : 0..McMaxTabs, errors : 0..McMaxErrors]

McInit ==
  /\ mcTab = "path"
  /\ mcAmount = CHOOSE a \in Amount : TRUE
  /\ mcStatus = [k \in Kind |-> "idle"]
  /\ mcResult = [k \in Kind |-> McNone]
  /\ mcActive = McNone /\ mcPending = McNone /\ mcBefore = McNone
  /\ mcInbox = <<>> /\ mcOutbox = <<>> /\ mcJob = McNone
  /\ mcCancelled = {} /\ mcDropped = {}
  /\ mcUsed = [runs |-> 0, tabs |-> 0, errors |-> 0]

-----------------------------------------------------------------------------
(* What the page shows.                                                    *)

\* sharedSimulation, and the figure values of the tabs: path figures are worked
\* out from the result and the amount in the input field.
FiguresOf(k) ==
  IF mcResult[k] = McNone THEN McNone
  ELSE [tab |-> k, run |-> mcResult[k].id,
        amount |-> IF k = "path" THEN mcAmount ELSE mcResult[k].amount]

\* The run button of the tab is enabled, its cancel button is not, and the
\* other way round.
CanRun(k) == mcTab = k /\ mcStatus[k] # "loading"
CanCancel(k) == mcTab = k /\ mcStatus[k] = "loading" /\ k # "correlation"

-----------------------------------------------------------------------------
(* The page.                                                               *)

\* update("initialInvestment", ...)
EditAmount(a) ==
  /\ mcTab = "path" /\ a # mcAmount
  /\ mcAmount' = a
  /\ UNCHANGED <<mcTab, mcStatus, mcResult, mcActive, mcPending, mcBefore,
                 mcInbox, mcJob, mcCancelled, mcOutbox, mcDropped, mcUsed>>

ChangeTab(tab) ==
  /\ tab # mcTab /\ mcUsed.tabs < McMaxTabs
  /\ mcTab' = tab
  /\ mcBefore' = McNone /\ mcPending' = McNone
  /\ mcUsed' = [mcUsed EXCEPT !.tabs = @ + 1]
  /\ UNCHANGED <<mcAmount, mcStatus, mcResult, mcActive, mcInbox, mcJob,
                 mcCancelled, mcOutbox, mcDropped>>

CancelMessage == [mcActive EXCEPT !.cancel = TRUE]

\* Defect: the superseded tab keeps its status.
SupersedesSilently(statuses) == statuses
\* supersedeActiveRun: what it leaves of the statuses.
Superseded(statuses) ==
  IF mcActive = McNone THEN statuses
  ELSE [statuses EXCEPT ![mcActive.kind] =
          IF mcActive.kind = "correlation" THEN "idle" ELSE "cancelled"]

\* runPathSimulation, runValuationSimulation, runCorrelationSimulation
Run(k) ==
  LET request == [cancel |-> FALSE, id |-> mcUsed.runs + 1, kind |-> k,
                  amount |-> mcAmount, shown |-> FiguresOf(k)]
      cancels == IF mcActive = McNone THEN <<>> ELSE <<CancelMessage>>
  IN /\ CanRun(k) /\ mcUsed.runs < McMaxRuns
     /\ mcPending' = FiguresOf(k)
     /\ mcStatus' = [Superseded(mcStatus) EXCEPT ![k] = "loading"]
     /\ mcActive' = request
     /\ mcInbox' = mcInbox \o cancels \o <<request>>
     /\ mcDropped' = mcDropped \cup {m.id : m \in {mcActive} \ {McNone}}
     /\ mcUsed' = [mcUsed EXCEPT !.runs = @ + 1]
     /\ UNCHANGED <<mcTab, mcAmount, mcResult, mcBefore, mcJob, mcCancelled, mcOutbox>>

\* cancelPathSimulation, cancelValuationSimulation
Cancel(k) ==
  /\ CanCancel(k) /\ mcActive # McNone
  /\ mcInbox' = Append(mcInbox, CancelMessage)
  /\ mcDropped' = mcDropped \cup {mcActive.id}
  /\ mcActive' = McNone
  /\ mcStatus' = [mcStatus EXCEPT ![k] = "cancelled"]
  /\ UNCHANGED <<mcTab, mcAmount, mcResult, mcPending, mcBefore, mcJob,
                 mcCancelled, mcOutbox, mcUsed>>

\* showResult: the figures the result replaced, on the tab that asked for it.
BeforeShown(k) ==
  IF mcPending # McNone /\ mcTab = k THEN
    IF mcPending.tab = k THEN mcPending ELSE McNone
  ELSE McNone

\* message.requestId is the one in activeRequestIdRef.
Expected(answer) == mcActive # McNone /\ answer.run.id = mcActive.id

\* worker.onmessage
Answered ==
  LET answer == Head(mcOutbox)
      k == answer.run.kind
  IN /\ mcOutbox # <<>>
     /\ mcOutbox' = Tail(mcOutbox)
     /\ IF ~ Expected(answer)
        THEN UNCHANGED <<mcStatus, mcResult, mcActive, mcBefore>>
        ELSE /\ mcActive' = McNone
             /\ IF answer.failed
                THEN /\ mcStatus' = [mcStatus EXCEPT ![mcActive.kind] = "error"]
                     /\ UNCHANGED <<mcResult, mcBefore>>
                ELSE /\ mcResult' = [mcResult EXCEPT ![k] = answer.run]
                     /\ mcStatus' = [mcStatus EXCEPT ![k] = "idle"]
                     /\ mcBefore' = BeforeShown(k)
     /\ UNCHANGED <<mcTab, mcAmount, mcPending, mcInbox, mcJob, mcCancelled,
                    mcDropped, mcUsed>>

-----------------------------------------------------------------------------
(* The worker.                                                             *)

\* A cancel message is noted; a run is taken up.
WorkerTakes ==
  LET message == Head(mcInbox)
  IN /\ mcJob = McNone /\ mcInbox # <<>>
     /\ mcInbox' = Tail(mcInbox)
     /\ IF message.cancel
        THEN mcCancelled' = mcCancelled \cup {message.id} /\ UNCHANGED mcJob
        ELSE mcCancelled' = mcCancelled \ {message.id} /\ mcJob' = message
     /\ UNCHANGED <<mcTab, mcAmount, mcStatus, mcResult, mcActive, mcPending,
                    mcBefore, mcOutbox, mcDropped, mcUsed>>

\* The handler ends: with a result, with an error, or with nothing when the run
\* is among the cancelled ones.
WorkerEnds(failed) ==
  /\ mcJob # McNone
  /\ failed => mcUsed.errors < McMaxErrors
  /\ mcOutbox' = IF mcJob.id \in mcCancelled THEN mcOutbox
                 ELSE Append(mcOutbox, [failed |-> failed, run |-> mcJob])
  /\ mcCancelled' = mcCancelled \ {mcJob.id}
  /\ mcJob' = McNone
  /\ mcUsed' = IF failed THEN [mcUsed EXCEPT !.errors = @ + 1] ELSE mcUsed
  /\ UNCHANGED <<mcTab, mcAmount, mcStatus, mcResult, mcActive, mcPending,
                 mcBefore, mcInbox, mcDropped>>

McNext ==
  \/ \E a \in Amount : EditAmount(a)
  \/ \E tab \in McTab : ChangeTab(tab)
  \/ \E k \in Kind : Run(k) \/ Cancel(k)
  \/ Answered
  \/ WorkerTakes
  \/ \E failed \in BOOLEAN : WorkerEnds(failed)

McSpec == McInit /\ [][McNext]_mcVars

-----------------------------------------------------------------------------
\* The answer to a run is still to come: in the worker's inbox, in its hands, or
\* on its way back.
OnItsWay(run) ==
  \/ \E i \in DOMAIN mcInbox : mcInbox[i] = run
  \/ mcJob = run
  \/ \E i \in DOMAIN mcOutbox : mcOutbox[i].run = run

\* A tab says "Running" exactly while its own run is the active one, and then its
\* answer is on its way: no tab runs for ever behind another tab's run.
LoadingIsActive ==
  \A k \in Kind :
    mcStatus[k] = "loading" <=>
      /\ mcActive # McNone /\ mcActive.kind = k
      /\ OnItsWay(mcActive)

\* No result of a cancelled or superseded run is ever shown.
CancelledNeverShows ==
  \A k \in Kind : mcResult[k] # McNone => mcResult[k].id \notin mcDropped

\* The values struck through are those the tab showed when the run whose result
\* it now shows was started.
BeforeIsReplaced ==
  mcBefore # McNone =>
    /\ mcBefore.tab = mcTab
    /\ mcResult[mcTab] # McNone /\ mcBefore = mcResult[mcTab].shown

\* The three together: what a tab of the lab shows is its own run, over one
\* worker, whatever the order of runs, cancels, tab changes and answers.
RunsAreTold == LoadingIsActive /\ CancelledNeverShows /\ BeforeIsReplaced
=============================================================================
