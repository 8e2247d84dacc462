---------------------------- MODULE CorporateDcf ----------------------------
(***************************************************************************)
(* The DCF of the corporate page (app/corporate/page.tsx): asked for the   *)
(* inputs on screen, streamed in phases, refused by the model for some     *)
(* inputs, kept in sessionStorage, and followed by a full report that is   *)
(* asked for on its own.  A value is known by the inputs it was computed   *)
(* from.  What changes the inputs (sliders, hydration, another ticker) is  *)
(* in CorporateAssumptions; here they change at any time.                  *)
(***************************************************************************)
EXTENDS Integers

CONSTANTS
  CdTicker, CdFigure,
  CdRefused,      \* figures with which the model declines to value
  NoDcf,          \* no value, no request, no refusal
  CdMaxChanges,   \* bound: changes of the inputs
  CdMaxRefreshes, \* bound: "Refresh DCF"
  CdMaxReports,   \* bound: full reports asked for
  CdMaxVisits,    \* bound: the page is opened so often
  CdMaxFaults     \* bound: requests that fail

DcfInputs == [ticker : CdTicker, figure : CdFigure]

ASSUME CdAssumption ==
  /\ CdRefused \subseteq CdFigure
  /\ DcfInputs # {} /\ NoDcf \notin DcfInputs
  /\ CdMaxChanges \in Nat /\ CdMaxRefreshes \in Nat /\ CdMaxReports \in Nat
  /\ CdMaxVisits \in Nat /\ CdMaxFaults \in Nat

VARIABLES
  cdOpen,      \* the page is mounted
  cdInput,     \* snapshotOf(assumptions)
  cdAsked,     \* dcfRequestedSnapshot
  cdStatus,    \* dcfStreamStatus
  cdPhase,     \* events of the running stream read so far
  cdResult,    \* dcfStreamResult: the inputs it was computed from
  cdCopy,      \* dcfCachedCalculation, read when the page was opened
  cdSession,   \* sessionStorage, DCF_CACHE_KEY
  cdRefusal,   \* dcfRefusal: the inputs refused
  cdReport,    \* dcfFullReport: the inputs it was computed from
  cdReporting, \* requests for a full report in flight
  cdUsed       \* bounds

cdVars == <<cdOpen, cdInput, cdAsked, cdStatus, cdPhase, cdResult, cdCopy, cdSession,
            cdRefusal, cdReport, cdReporting, cdUsed>>

CdUse(what) == cdUsed' = [cdUsed EXCEPT ![what] = @ + 1]

\* Defect: a value is shown under whatever ticker is selected.
OfAnyTicker(value, input) == value

\* A value is shown under its own ticker only.
OfTicker(value, input) ==
  IF value # NoDcf /\ value.ticker = input.ticker THEN value ELSE NoDcf

\* dcfDisplayData: the streamed value, else the copy; nothing once refused.
DcfShown ==
  IF cdRefusal # NoDcf THEN NoDcf
  ELSE IF OfTicker(cdResult, cdInput) # NoDcf THEN OfTicker(cdResult, cdInput)
  ELSE OfTicker(cdCopy, cdInput)

\* dcfIsStale
DcfStale == DcfShown # NoDcf /\ cdAsked # NoDcf /\ cdAsked # cdInput

ReportShown == OfTicker(cdReport, cdInput)

\* canLoadFullReport
ReportAllowed == cdRefusal = NoDcf /\ ~ (DcfShown = NoDcf /\ cdStatus = "idle")

\* The session may hold a value of an older model, which refused nothing.
CdInit ==
  /\ cdOpen = FALSE
  /\ cdInput = CHOOSE i \in DcfInputs : TRUE
  /\ cdSession \in {NoDcf} \cup DcfInputs
  /\ cdAsked = NoDcf /\ cdStatus = "idle" /\ cdPhase = 0
  /\ cdResult = NoDcf /\ cdCopy = NoDcf /\ cdRefusal = NoDcf
  /\ cdReport = NoDcf /\ cdReporting = {}
  /\ cdUsed = [changes |-> 0, refreshes |-> 0, reports |-> 0, visits |-> 0,
               faults |-> 0]

\* The requested snapshot is restored for the ticker the page opens with.
OpenDcf ==
  /\ ~ cdOpen /\ cdUsed.visits < CdMaxVisits
  /\ cdOpen' = TRUE
  /\ cdCopy' = cdSession
  /\ cdAsked' = OfTicker(cdSession, cdInput)
  /\ CdUse("visits")
  /\ UNCHANGED <<cdInput, cdStatus, cdPhase, cdResult, cdSession, cdRefusal, cdReport,
                 cdReporting>>

\* The stream is aborted.  A report runs on, but finds no page: its refusal
\* still drops the copy in the session.
LeaveDcf ==
  /\ cdOpen
  /\ cdOpen' = FALSE
  /\ cdReporting' = {[r EXCEPT !.page = FALSE] : r \in cdReporting}
  /\ cdAsked' = NoDcf /\ cdStatus' = "idle" /\ cdPhase' = 0
  /\ cdResult' = NoDcf /\ cdCopy' = NoDcf /\ cdRefusal' = NoDcf /\ cdReport' = NoDcf
  /\ UNCHANGED <<cdInput, cdSession, cdUsed>>

\* The inputs on screen change.
ChangeInputs ==
  /\ cdUsed.changes < CdMaxChanges
  /\ cdInput' \in DcfInputs \ {cdInput}
  /\ CdUse("changes")
  /\ UNCHANGED <<cdOpen, cdAsked, cdStatus, cdPhase, cdResult, cdCopy, cdSession,
                 cdRefusal, cdReport, cdReporting>>

\* handleRefreshDcf and the effect that starts the stream.
RefreshDcf ==
  /\ cdOpen /\ cdStatus # "streaming"
  /\ cdUsed.refreshes < CdMaxRefreshes
  /\ cdAsked' = cdInput
  /\ cdStatus' = "streaming" /\ cdPhase' = 0
  /\ cdRefusal' = NoDcf /\ cdReport' = NoDcf
  /\ CdUse("refreshes")
  /\ UNCHANGED <<cdOpen, cdInput, cdResult, cdCopy, cdSession, cdReporting>>

\* phase1 shows the value, phase2 (the assumptions used) stores it, complete
\* ends the stream.
StreamEvent ==
  /\ cdOpen /\ cdStatus = "streaming" /\ cdAsked.figure \notin CdRefused
  /\ cdPhase' = cdPhase + 1
  /\ cdResult' = IF cdPhase < 2 THEN cdAsked ELSE cdResult
  /\ cdSession' = IF cdPhase = 1 THEN cdAsked ELSE cdSession
  /\ cdStatus' = IF cdPhase = 2 THEN "complete" ELSE cdStatus
  /\ UNCHANGED <<cdOpen, cdInput, cdAsked, cdCopy, cdRefusal, cdReport, cdReporting, cdUsed>>

\* setDcfRefusal, and the streamed value with it.
Refuse(inputs) ==
  /\ cdRefusal' = inputs
  /\ cdSession' = NoDcf
  /\ cdResult' = NoDcf

\* A 422 instead of a stream.
StreamRefused ==
  /\ cdOpen /\ cdStatus = "streaming" /\ cdAsked.figure \in CdRefused
  /\ Refuse(cdAsked)
  /\ cdStatus' = "complete"
  /\ UNCHANGED <<cdOpen, cdInput, cdAsked, cdPhase, cdCopy, cdReport, cdReporting, cdUsed>>

StreamFails ==
  /\ cdOpen /\ cdStatus = "streaming" /\ cdUsed.faults < CdMaxFaults
  /\ cdStatus' = "error"
  /\ CdUse("faults")
  /\ UNCHANGED <<cdOpen, cdInput, cdAsked, cdPhase, cdResult, cdCopy, cdSession,
                 cdRefusal, cdReport, cdReporting>>

\* loadFullDcfReport: the DCF asked for, or the inputs on screen if that was
\* of another ticker.
LoadReport ==
  /\ cdOpen /\ cdUsed.reports < CdMaxReports /\ ReportAllowed
  /\ LET own == OfTicker(cdAsked, cdInput)
     IN  cdReporting' = cdReporting \cup
           {[of |-> IF own # NoDcf THEN own ELSE cdInput, page |-> TRUE]}
  /\ CdUse("reports")
  /\ UNCHANGED <<cdOpen, cdInput, cdAsked, cdStatus, cdPhase, cdResult, cdCopy, cdSession,
                 cdRefusal, cdReport>>

\* The report is there, refused, or fails; it is not aborted by a refresh.
ReportAnswered(r) ==
  /\ cdReporting' = cdReporting \ {r}
  /\ IF r.of.figure \in CdRefused
     THEN /\ cdSession' = NoDcf
          /\ IF r.page THEN cdRefusal' = r.of /\ cdResult' = NoDcf
             ELSE UNCHANGED <<cdRefusal, cdResult>>
          /\ UNCHANGED cdReport
     ELSE /\ cdReport' = IF r.page THEN r.of ELSE cdReport
          /\ UNCHANGED <<cdSession, cdRefusal, cdResult>>
  /\ UNCHANGED <<cdOpen, cdInput, cdAsked, cdStatus, cdPhase, cdCopy, cdUsed>>

ReportFails(r) ==
  /\ cdUsed.faults < CdMaxFaults
  /\ cdReporting' = cdReporting \ {r}
  /\ CdUse("faults")
  /\ UNCHANGED <<cdOpen, cdInput, cdAsked, cdStatus, cdPhase, cdResult, cdCopy, cdSession,
                 cdRefusal, cdReport>>

CdNext ==
  \/ OpenDcf \/ LeaveDcf \/ ChangeInputs \/ RefreshDcf
  \/ StreamEvent \/ StreamRefused \/ StreamFails
  \/ LoadReport
  \/ \E r \in cdReporting : ReportAnswered(r) \/ ReportFails(r)

CdSpec == CdInit /\ [][CdNext]_cdVars
-----------------------------------------------------------------------------
(* Properties.                                                             *)

CdTypeOK ==
  /\ cdOpen \in BOOLEAN /\ cdInput \in DcfInputs
  /\ cdStatus \in {"idle", "streaming", "complete", "error"} /\ cdPhase \in 0..3
  /\ {cdAsked, cdResult, cdCopy, cdSession, cdRefusal, cdReport}
       \subseteq DcfInputs \cup {NoDcf}
  /\ cdReporting \subseteq [of : DcfInputs, page : BOOLEAN]

\* A DCF shown without the stale mark, without a stream running and without an
\* error was computed from the inputs on screen, also after a reload and after
\* the ticker was changed there and back (dcfDisplayData, dcfIsStale).  A copy
\* of a ticker that nothing was asked for in this visit is excepted: dcfIsStale
\* has nothing to compare it with.
FreshDcfIsCurrent ==
  DcfShown # NoDcf /\ cdAsked # NoDcf /\ ~ DcfStale /\ cdStatus \in {"idle", "complete"}
    => DcfShown = cdInput

\* What is shown belongs to the ticker on screen, and a refused input is never
\* shown as a value once a stream for it has ended (ERROR-LOG 2026-10-15).
ShownIsOwn ==
  /\ DcfShown # NoDcf => DcfShown.ticker = cdInput.ticker
  /\ ReportShown # NoDcf => ReportShown.ticker = cdInput.ticker
  /\ cdStatus = "complete" /\ cdAsked = cdInput /\ cdInput.figure \in CdRefused
       => DcfShown = NoDcf

\* What the page shows as the DCF is the DCF of what the page shows.
DcfHolds == FreshDcfIsCurrent /\ ShownIsOwn
=============================================================================
