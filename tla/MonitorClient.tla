--------------------------- MODULE MonitorClient ---------------------------
(***************************************************************************)
(* How the pages report to the developer monitor (lib/api.ts and           *)
(* hooks/useDevMonitorPageLoad.ts).  Every monitored call and every page   *)
(* load ends in one event, posted if the backend has a monitor.  Whether   *)
(* it has one is asked with a check that all reporters share and whose     *)
(* answer is kept for fifteen seconds.                                     *)
(*                                                                         *)
(* Watched are one call and one page load.  A promise and what awaits it   *)
(* are one step.  The backend is changed once, when the tab has found the  *)
(* port of its own.                                                        *)
(***************************************************************************)
EXTENDS Integers

CONSTANT MeMaxExpiries   \* bound: times the kept answer grows old
ASSUME MeAssumption == MeMaxExpiries \in Nat

VARIABLES
  meMonitor,  \* what the two backends are: with a monitor, without, not there
  meBackend,  \* DYNAMIC_API_BASE_URL
  meMoved,    \* it changed after a check had been sent
  meKnown,    \* clientDevMonitorEnabled
  meFresh,    \* clientDevMonitorLastCheckedAt is less than fifteen seconds ago
  meCheck,    \* clientDevMonitorCheckPromise: the backend that is asked
  meCall,     \* fetchApi, up to what its caller gets
  mePage,     \* the page: not mounted, waiting for its frame, loaded
  meReport,   \* the event of each reporter
  meStored,   \* events the backends hold
  meUsed      \* checks sent; bound: expiries

meVars == <<meMonitor, meBackend, meMoved, meKnown, meFresh, meCheck, meCall, mePage,
            meReport, meStored, meUsed>>

Backend == {"default", "found"}
Reporter == {"call", "load"}
\* An error also says which: the network, the status of the answer, or its envelope.
Reported == {"success", "slow", "error"}
NoReport == [at |-> "none", event |-> "success", to |-> "default"]

MeTypeOK ==
  /\ meMonitor \in [Backend -> {"on", "off", "down"}]
  /\ meBackend \in Backend /\ meMoved \in BOOLEAN
  /\ meKnown \in {"unknown", "on", "off"} /\ meFresh \in BOOLEAN
  /\ meCheck \in Backend \cup {"none"}
  /\ meCall \in {"new", "out", "returned", "threw"}
  /\ mePage \in {"out", "frame", "in"}
  /\ meReport \in [Reporter -> [at : {"none", "asking", "posting", "ended"},
                                event : Reported, to : Backend]]
  /\ meStored \subseteq Reporter
  /\ meUsed \in [checks : 0..(MeMaxExpiries + 2), expiries : 0..MeMaxExpiries]

MeInit ==
  /\ meMonitor \in [Backend -> {"on", "off", "down"}] /\ meMonitor["found"] # "down"
  /\ meBackend = "default" /\ meMoved = FALSE
  /\ meKnown = "unknown" /\ meFresh = FALSE /\ meCheck = "none"
  /\ meCall = "new" /\ mePage = "out"
  /\ meReport = [r \in Reporter |-> NoReport] /\ meStored = {}
  /\ meUsed = [checks |-> 0, expiries |-> 0]

-----------------------------------------------------------------------------
(* emitClientPerformanceEvent and isClientDevMonitorEnabled.               *)

\* What becomes of a report once the monitor is known to be on or off.
Decided(report, on) ==
  IF on THEN [report EXCEPT !.at = "posting", !.to = meBackend]
  ELSE [report EXCEPT !.at = "ended"]

\* A check is sent unless one is out.
SendsCheck(need) == need /\ meCheck = "none"

\* A reporter has its event: it knows, or it waits for the check.
Emit(reporter, event) ==
  LET knows == meKnown # "unknown" /\ meFresh
      report == [at |-> "asking", event |-> event, to |-> "default"]
  IN  /\ meReport' = [meReport EXCEPT ![reporter] =
                        IF knows THEN Decided(report, meKnown = "on") ELSE report]
      /\ meCheck' = IF SendsCheck(~ knows) THEN meBackend ELSE meCheck
      /\ meUsed' = IF SendsCheck(~ knows) THEN [meUsed EXCEPT !.checks = @ + 1] ELSE meUsed

\* The check is answered, or fails: nobody there is like no monitor there.
CheckAnswered ==
  /\ meCheck # "none"
  /\ meKnown' = IF meMonitor[meCheck] = "on" THEN "on" ELSE "off"
  /\ meFresh' = TRUE
  /\ meCheck' = "none"
  /\ meReport' = [r \in Reporter |->
                    IF meReport[r].at = "asking" THEN Decided(meReport[r], meKnown' = "on")
                    ELSE meReport[r]]
  /\ UNCHANGED <<meMonitor, meBackend, meMoved, meCall, mePage, meStored, meUsed>>

\* The post of an event is answered, or is lost on its way.  A 404 says that the
\* monitor is off.
PostAnswered(r, lost) ==
  LET there == meMonitor[meReport[r].to] IN
  /\ meReport[r].at = "posting"
  /\ there = "down" => lost
  /\ meReport' = [meReport EXCEPT ![r].at = "ended"]
  /\ meStored' = IF ~ lost /\ there = "on" THEN meStored \cup {r} ELSE meStored
  /\ IF ~ lost /\ there = "off" THEN meKnown' = "off" /\ meFresh' = TRUE
     ELSE UNCHANGED <<meKnown, meFresh>>
  /\ UNCHANGED <<meMonitor, meBackend, meMoved, meCheck, meCall, mePage, meUsed>>

\* Fifteen seconds have passed since the last answer.
Expires ==
  /\ meFresh /\ meUsed.expiries < MeMaxExpiries
  /\ meFresh' = FALSE /\ meUsed' = [meUsed EXCEPT !.expiries = @ + 1]
  /\ UNCHANGED <<meMonitor, meBackend, meMoved, meKnown, meCheck, meCall, mePage,
                 meReport, meStored>>

\* setDynamicPort: what was learnt of the other backend stays.
SetDynamicPort ==
  /\ meBackend = "default"
  /\ meBackend' = "found"
  /\ meMoved' = (meKnown # "unknown" \/ meCheck # "none")
  /\ UNCHANGED <<meMonitor, meKnown, meFresh, meCheck, meCall, mePage, meReport,
                 meStored, meUsed>>

-----------------------------------------------------------------------------
(* fetchApi with the option `monitor`.                                     *)

FetchSent ==
  /\ meCall = "new"
  /\ meCall' = "out"
  /\ UNCHANGED <<meMonitor, meBackend, meMoved, meKnown, meFresh, meCheck, mePage,
                 meReport, meStored, meUsed>>

\* The event of an answer, and what the caller gets.  An answer is slow after a
\* second, or after slowThresholdMs.
FetchAnswered(event) ==
  /\ meCall = "out"
  /\ meCall' = IF event \in {"success", "slow"} THEN "returned" ELSE "threw"
  /\ Emit("call", event)
  /\ UNCHANGED <<meMonitor, meBackend, meMoved, meKnown, meFresh, mePage, meStored>>

\* An answer that is no JSON is thrown to the caller and not reported.
FetchUnreadable ==
  /\ meCall = "out"
  /\ meCall' = "threw"
  /\ UNCHANGED <<meMonitor, meBackend, meMoved, meKnown, meFresh, meCheck, mePage,
                 meReport, meStored, meUsed>>

-----------------------------------------------------------------------------
(* useDevMonitorPageLoad.                                                  *)

\* Mounted, or its path or ticker changed: the effect asks for a frame.
PageMounts ==
  /\ mePage \in {"out", "in"}
  /\ mePage' = "frame"
  /\ UNCHANGED <<meMonitor, meBackend, meMoved, meKnown, meFresh, meCheck, meCall,
                 meReport, meStored, meUsed>>

\* The frame: the load is over, and slow if it took a second.  Bound: one load is
\* watched.
LoadFrameRuns(event) ==
  /\ mePage = "frame" /\ meReport["load"].at = "none"
  /\ mePage' = "in"
  /\ Emit("load", event)
  /\ UNCHANGED <<meMonitor, meBackend, meMoved, meKnown, meFresh, meCall, meStored>>

\* The page is left: the cleanup cancels the frame.
PageUnmounts ==
  /\ mePage \in {"frame", "in"}
  /\ mePage' = "out"
  /\ UNCHANGED <<meMonitor, meBackend, meMoved, meKnown, meFresh, meCheck, meCall,
                 meReport, meStored, meUsed>>

MeNext ==
  \/ CheckAnswered \/ Expires \/ SetDynamicPort
  \/ \E r \in Reporter, lost \in BOOLEAN : PostAnswered(r, lost)
  \/ FetchSent \/ (\E event \in Reported : FetchAnswered(event)) \/ FetchUnreadable
  \/ PageMounts \/ (\E event \in {"success", "slow"} : LoadFrameRuns(event)) \/ PageUnmounts

MeSpec == MeInit /\ [][MeNext]_meVars

-----------------------------------------------------------------------------
\* However many events are reported at once, the backend is asked once, and again only
\* after the answer has grown old: also when the check failed.
ChecksAreRare == meUsed.checks <= 1 + meUsed.expiries

\* Events are posted only to a backend that has a monitor, unless the backend changed
\* after the answer had been asked for.
PostsAreWelcome ==
  \A r \in Reporter : meReport[r].at = "posting" => meMonitor[meReport[r].to] = "on" \/ meMoved

\* An event tells what the caller got.
EventsTellTheTruth ==
  /\ meReport["call"].at # "none" =>
       (meCall = "returned" <=> meReport["call"].event \in {"success", "slow"})
  /\ \A r \in meStored : meReport[r].at = "ended"

\* Reporting to the monitor stays quiet and true.
ReportsAreTrue == ChecksAreRare /\ PostsAreWelcome /\ EventsTellTheTruth
=============================================================================
