--------------------------- MODULE ValuationPage ---------------------------
(***************************************************************************)
(* The valuation page (app/valuation/page.tsx) once a ticker was chosen:   *)
(* the verdict, the fair value with the stored case it comes from, the     *)
(* list of stored cases, read only to offer a link, and the status of the  *)
(* records sync, read again for every verdict.  The service makes the fair *)
(* value's case on the first request of a ticker: it looks for one, then   *)
(* stores one, and an attempt whose connection was lost goes on there      *)
(* while the page tries again.                                             *)
(*                                                                         *)
(* Every read of a verdict runs a records sync; vpSyncs counts them.  The  *)
(* syncs of the other requests tell nothing more and are left out.         *)
(***************************************************************************)
EXTENDS Integers, FiniteSets

CONSTANTS
  VpTicker,     \* tickers
  VpRefused,    \* those the model cannot value
  NoVp,         \* nothing
  VpRetries,    \* how often a failed request for a fair value is sent again
  VpMaxActs,    \* bound: tickers chosen, visits
  VpMaxFaults   \* bound: requests that fail

ASSUME VpAssumption ==
  /\ VpTicker # {} /\ NoVp \notin VpTicker /\ VpRefused \subseteq VpTicker
  /\ VpRetries \in Nat /\ VpMaxActs \in Nat /\ VpMaxFaults \in Nat

VARIABLES
  vpTicker,    \* the ticker of the page, kept for the tab
  vpVerdict,   \* verdictQuery of a ticker: [sync, at, failed, asked]; sync is the one its read ran
  vpFair,      \* fair-value query of a ticker: [case, error, tries]
  vpPost,      \* its request: where the service is with it; orphan: with one given up
  vpCases,     \* casesQuery: [data, asked]
  vpStatus,    \* the records status: [of, sync, asked] for the verdict read at "of"
  vpStored,    \* the service: tickers with a stored case
  vpSyncs,     \* the service: records syncs so far; they also tell the verdicts' times apart
  vpRaced,     \* tickers two requests for which the service had in hand at once
  vpUsed       \* bounds

vpVars == <<vpTicker, vpVerdict, vpFair, vpPost, vpCases, vpStatus, vpStored, vpSyncs, vpRaced, vpUsed>>

Served == {"sent", "missing", "done", "refused", "clash"}
ASSUME VpNothing == NoVp \notin Served

VpTypeOK ==
  /\ vpTicker \in VpTicker \cup {NoVp}
  /\ vpVerdict \in [VpTicker -> [sync : Nat, at : Nat, failed : BOOLEAN, asked : BOOLEAN]]
  /\ vpFair \in [VpTicker -> [case : BOOLEAN, error : {"none", "refused", "failed"}, tries : 0..VpRetries]]
  /\ vpPost \in [VpTicker -> [mine : Served \cup {NoVp}, orphan : Served \cup {NoVp}]]
  /\ vpCases \in [data : (SUBSET VpTicker) \cup {NoVp}, asked : (SUBSET VpTicker) \cup {NoVp}]
  /\ vpStatus \in [of : Nat, sync : Nat, asked : BOOLEAN]
  /\ vpStored \subseteq VpTicker /\ vpSyncs \in Nat /\ vpRaced \subseteq VpTicker
  /\ vpUsed \in [acts : 0..VpMaxActs, faults : 0..VpMaxFaults]

VpInit ==
  /\ vpTicker = NoVp
  /\ vpVerdict = [t \in VpTicker |-> [sync |-> 0, at |-> 0, failed |-> FALSE, asked |-> FALSE]]
  /\ vpFair = [t \in VpTicker |-> [case |-> FALSE, error |-> "none", tries |-> 0]]
  /\ vpPost = [t \in VpTicker |-> [mine |-> NoVp, orphan |-> NoVp]]
  /\ vpCases = [data |-> NoVp, asked |-> NoVp]
  /\ vpStatus = [of |-> 0, sync |-> 0, asked |-> FALSE]
  /\ vpStored = {} /\ vpSyncs = 0 /\ vpRaced = {}
  /\ vpUsed = [acts |-> 0, faults |-> 0]

-----------------------------------------------------------------------------
VpFault == vpUsed.faults < VpMaxFaults /\ vpUsed' = [vpUsed EXCEPT !.faults = @ + 1]

\* What the page shows: the verdict is there, and then its status and the link are asked for.
IsSuccess(verdict, t) == t # NoVp /\ verdict[t].at > 0 /\ ~ verdict[t].failed
VerdictView ==
  IF vpTicker = NoVp THEN "choose"
  ELSE IF vpVerdict[vpTicker].failed THEN "error"
  ELSE IF vpVerdict[vpTicker].at > 0 THEN "panel" ELSE "loading"
FairView(t) ==
  IF vpFair[t].error # "none" THEN vpFair[t].error ELSE IF vpFair[t].case THEN "valued" ELSE "loading"
HasCases == vpTicker # NoVp /\ vpCases.data # NoVp /\ vpTicker \in vpCases.data

\* The status belongs to the verdict it was read for: a verdict read later asks for it again.
StatusFor(verdict, t) ==
  IF ~ IsSuccess(verdict, t) \/ vpStatus.of = verdict[t].at THEN vpStatus
  ELSE [vpStatus EXCEPT !.of = verdict[t].at, !.asked = TRUE]
\* The list of cases is asked for when there is none, or when it is older than half a minute.
CasesFor(verdict, t, old) ==
  IF IsSuccess(verdict, t) /\ vpCases.asked = NoVp /\ (vpCases.data = NoVp \/ old)
  THEN [vpCases EXCEPT !.asked = vpStored] ELSE vpCases

\* useFairValue: asked for when there is none, or when it is older than five minutes.
AskFair(t, old) ==
  IF vpPost[t].mine = NoVp /\ (~ vpFair[t].case \/ vpFair[t].error # "none" \/ old)
  THEN /\ vpPost' = [vpPost EXCEPT ![t].mine = "sent"]
       /\ vpFair' = [vpFair EXCEPT ![t].tries = 0, ![t].error = IF vpFair[t].case THEN @ ELSE "none"]
  ELSE UNCHANGED <<vpPost, vpFair>>

-----------------------------------------------------------------------------
\* A ticker is submitted, or the page is opened again on the one it had: what is missing or old is
\* asked for.
ShowTicker(t, old) ==
  /\ t \in VpTicker
  /\ vpTicker' = t
  /\ LET ask == ~ vpVerdict[t].asked /\ (vpVerdict[t].at = 0 \/ vpVerdict[t].failed \/ old)
         verdict == IF ask THEN [vpVerdict EXCEPT ![t].asked = TRUE,
                                                    ![t].failed = @ /\ vpVerdict[t].at > 0]
                    ELSE vpVerdict
     IN  /\ vpVerdict' = verdict
         /\ vpStatus' = StatusFor(verdict, t)
         /\ vpCases' = CasesFor(verdict, t, old)
  /\ AskFair(t, old)
  /\ vpUsed.acts < VpMaxActs /\ vpUsed' = [vpUsed EXCEPT !.acts = @ + 1]
  /\ UNCHANGED <<vpStored, vpSyncs, vpRaced>>

\* The read of a verdict syncs the records first.
VerdictRead(t, old) ==
  /\ vpVerdict[t].asked
  /\ vpSyncs' = vpSyncs + 1
  /\ LET verdict == [vpVerdict EXCEPT ![t] = [sync |-> vpSyncs + 1, at |-> vpSyncs + 1,
                                              failed |-> FALSE, asked |-> FALSE]]
     IN  /\ vpVerdict' = verdict
         /\ vpStatus' = StatusFor(verdict, vpTicker)
         /\ vpCases' = IF IsSuccess(vpVerdict, vpTicker) THEN vpCases ELSE CasesFor(verdict, vpTicker, old)
  /\ UNCHANGED <<vpTicker, vpFair, vpPost, vpStored, vpRaced, vpUsed>>

\* No bars, or the read fails.
VerdictFails(t) ==
  /\ vpVerdict[t].asked
  /\ vpVerdict' = [vpVerdict EXCEPT ![t].asked = FALSE, ![t].failed = TRUE]
  /\ VpFault
  /\ UNCHANGED <<vpTicker, vpFair, vpPost, vpCases, vpStatus, vpStored, vpSyncs, vpRaced>>

StatusRead ==
  /\ vpStatus.asked
  /\ vpStatus' = [vpStatus EXCEPT !.asked = FALSE, !.sync = vpSyncs]
  /\ UNCHANGED <<vpTicker, vpVerdict, vpFair, vpPost, vpCases, vpStored, vpSyncs, vpRaced, vpUsed>>

CasesListed(rows) ==
  /\ vpCases.asked # NoVp /\ rows \in {vpCases.asked, vpStored}
  /\ vpCases' = [data |-> rows, asked |-> NoVp]
  /\ UNCHANGED <<vpTicker, vpVerdict, vpFair, vpPost, vpStatus, vpStored, vpSyncs, vpRaced, vpUsed>>

-----------------------------------------------------------------------------
\* generate_fair_value_case_for_ticker: a refusal, the case that is stored, or one to be stored.
LooksForCase(t, which) ==
  /\ vpPost[t][which] = "sent"
  /\ vpPost' = [vpPost EXCEPT ![t][which] = IF t \in VpRefused THEN "refused"
                                            ELSE IF t \in vpStored THEN "done" ELSE "missing"]
  /\ UNCHANGED <<vpTicker, vpVerdict, vpFair, vpCases, vpStatus, vpStored, vpSyncs, vpRaced, vpUsed>>

\* create_case: the name of a case is unique.
StoresCase(t, which) ==
  /\ vpPost[t][which] = "missing"
  /\ vpPost' = [vpPost EXCEPT ![t][which] = IF t \in vpStored THEN "clash" ELSE "done"]
  /\ vpStored' = vpStored \cup {t}
  /\ UNCHANGED <<vpTicker, vpVerdict, vpFair, vpCases, vpStatus, vpSyncs, vpRaced, vpUsed>>

FairAnswered(t) ==
  /\ vpPost[t].mine \in {"done", "refused", "clash"}
  /\ vpFair' = [vpFair EXCEPT ![t] = IF vpPost[t].mine = "done" THEN [case |-> TRUE, error |-> "none", tries |-> 0]
                                     ELSE [@ EXCEPT !.error = "refused", !.tries = 0]]
  /\ vpPost' = [vpPost EXCEPT ![t].mine = NoVp]
  /\ UNCHANGED <<vpTicker, vpVerdict, vpCases, vpStatus, vpStored, vpSyncs, vpRaced, vpUsed>>

\* The connection is lost, wherever the service is: the request is sent again, or given up.
FairLost(t) ==
  /\ vpPost[t].mine # NoVp /\ vpPost[t].orphan \in {NoVp, "done", "refused", "clash"}
  /\ LET again == vpFair[t].tries < VpRetries
     IN  /\ vpPost' = [vpPost EXCEPT ![t] = [mine |-> IF again THEN "sent" ELSE NoVp, orphan |-> @.mine]]
         /\ vpFair' = IF again THEN [vpFair EXCEPT ![t].tries = @ + 1]
                      ELSE [vpFair EXCEPT ![t].error = "failed", ![t].tries = 0]
  /\ vpRaced' = IF vpPost[t].mine \in {"sent", "missing"} THEN vpRaced \cup {t} ELSE vpRaced
  /\ VpFault
  /\ UNCHANGED <<vpTicker, vpVerdict, vpCases, vpStatus, vpStored, vpSyncs>>

VpNext ==
  \/ \E t \in VpTicker : \/ \E old \in BOOLEAN : ShowTicker(t, old) \/ VerdictRead(t, old)
                         \/ VerdictFails(t) \/ FairAnswered(t) \/ FairLost(t)
                         \/ \E which \in {"mine", "orphan"} : LooksForCase(t, which) \/ StoresCase(t, which)
  \/ StatusRead \/ \E rows \in {vpCases.asked, vpStored} : CasesListed(rows)

VpSpec == VpInit /\ [][VpNext]_vpVars

-----------------------------------------------------------------------------
\* The status beside a verdict was read after the sync that verdict's read ran.
StatusIsLater ==
  VerdictView = "panel" /\ ~ vpStatus.asked => vpStatus.sync >= vpVerdict[vpTicker].sync

\* A repeated request is safe: a ticker is refused only if the model cannot value it, or if two
\* requests for it met in the service; a value that is shown has its case stored.
RefusedByModel ==
  \A t \in VpTicker : /\ FairView(t) = "refused" => t \in VpRefused \cup vpRaced
                      /\ FairView(t) = "valued" => t \in vpStored \ VpRefused

\* The link to the stored cases never names one that is not stored; neither the list nor the status
\* was asked for before a verdict was read.
ValuationHolds ==
  /\ StatusIsLater /\ RefusedByModel
  /\ HasCases => vpTicker \in vpStored
  /\ vpCases # [data |-> NoVp, asked |-> NoVp] \/ vpStatus.of > 0 => vpSyncs > 0
=============================================================================
