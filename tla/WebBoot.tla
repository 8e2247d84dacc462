------------------------------ MODULE WebBoot ------------------------------
(***************************************************************************)
(* How the web frontend finds its backend when a tab is opened             *)
(* (components/providers/AppProvider.tsx, lib/backendPortDiscovery.ts,     *)
(* lib/server/backendPort.ts): look the port up, ask that port for its     *)
(* health, and try again with growing delays while the connection fails.   *)
(*                                                                         *)
(* Time is counted in half seconds.  The launcher, the backend and a       *)
(* program that may sit on the default port are external.                  *)
(***************************************************************************)
EXTENDS Integers

CONSTANTS
  FirstDelay, MaxDelayUnits, \* delay: 1 (500 ms), at most 10 (maxDelay)
  Threshold,                 \* timeoutThreshold: 60
  WbMaxFaults                \* bound: lookups that fail

ASSUME WbAssumption ==
  /\ FirstDelay \in Nat \ {0} /\ MaxDelayUnits \in Nat \ {0}
  /\ Threshold \in Nat /\ WbMaxFaults \in Nat

VARIABLES
  wbPhase,     \* what the boot check waits for, or how it ended
  wbDelay, wbElapsed,
  wbPort,      \* setDynamicPort
  wbHome,      \* the port the backend is started on
  wbStranger,  \* another program answers on the default port
  wbWritten,   \* the launcher has written the port file
  wbUp,        \* the backend listens
  wbFaults     \* bound

wbVars == <<wbPhase, wbDelay, wbElapsed, wbPort, wbHome, wbStranger, wbWritten,
            wbUp, wbFaults>>

Port == {"default", "other"}

WbTypeOK ==
  /\ wbPhase \in {"timer", "lookup", "health", "silent", "ready", "failed"}
  /\ wbDelay \in 1..(MaxDelayUnits + FirstDelay)
  /\ wbElapsed \in 0..(Threshold + MaxDelayUnits)
  /\ wbPort \in Port /\ wbHome \in Port
  /\ wbStranger \in BOOLEAN /\ wbWritten \in BOOLEAN /\ wbUp \in BOOLEAN
  /\ wbFaults \in 0..WbMaxFaults

WbInit ==
  /\ wbPhase = "timer" /\ wbDelay = FirstDelay /\ wbElapsed = 0
  /\ wbPort = "default"
  /\ wbHome \in Port /\ wbStranger \in BOOLEAN
  /\ wbStranger => wbHome = "other"
  /\ wbWritten = FALSE /\ wbUp = FALSE /\ wbFaults = 0

\* The launcher writes the port file before it starts the backend.
PortFileWritten ==
  /\ ~ wbWritten /\ wbWritten' = TRUE
  /\ UNCHANGED <<wbPhase, wbDelay, wbElapsed, wbPort, wbHome, wbStranger, wbUp, wbFaults>>

BackendUp ==
  /\ wbWritten /\ ~ wbUp /\ wbUp' = TRUE
  /\ UNCHANGED <<wbPhase, wbDelay, wbElapsed, wbPort, wbHome, wbStranger, wbWritten, wbFaults>>

\* checkBackend: give up, or look the port up.
CheckDue ==
  /\ wbPhase = "timer"
  /\ wbPhase' = IF wbElapsed > Threshold THEN "failed" ELSE "lookup"
  /\ UNCHANGED <<wbDelay, wbElapsed, wbPort, wbHome, wbStranger, wbWritten, wbUp, wbFaults>>

\* readBackendPort on the server: the port of the file, or the default.
PortRead == IF wbWritten THEN wbHome ELSE "default"

\* resolveBackendPort: a failed lookup answers the default port.
PortResolved(failed) ==
  /\ wbPhase = "lookup"
  /\ failed => wbFaults < WbMaxFaults
  /\ wbPort' = IF failed THEN "default" ELSE PortRead
  /\ wbFaults' = IF failed THEN wbFaults + 1 ELSE wbFaults
  /\ wbPhase' = "health"
  /\ UNCHANGED <<wbDelay, wbElapsed, wbHome, wbStranger, wbWritten, wbUp>>

Healthy == wbUp /\ wbPort = wbHome
Refused == ~ Healthy /\ ~ (wbStranger /\ wbPort = "default")

HealthOk ==
  /\ wbPhase = "health" /\ Healthy
  /\ wbPhase' = "ready"
  /\ UNCHANGED <<wbDelay, wbElapsed, wbPort, wbHome, wbStranger, wbWritten, wbUp, wbFaults>>

Backoff == IF 2 * wbDelay < MaxDelayUnits THEN 2 * wbDelay ELSE MaxDelayUnits

Waited == wbElapsed + wbDelay

\* Defect: the refused answer is caught, and nothing is tried again.
RefusedAndLeft ==
  /\ wbPhase = "health" /\ Refused
  /\ wbPhase' = "silent"
  /\ UNCHANGED <<wbDelay, wbElapsed, wbPort, wbHome, wbStranger, wbWritten, wbUp, wbFaults>>

\* No connection: try again after the delay.
HealthRefused ==
  /\ wbPhase = "health" /\ Refused
  /\ wbElapsed' = Waited
  /\ wbDelay' = Backoff
  /\ wbPhase' = "timer"
  /\ UNCHANGED <<wbPort, wbHome, wbStranger, wbWritten, wbUp, wbFaults>>

\* An answer that is not ok: neither ready, nor caught, nor tried again.
HealthNotOk ==
  /\ wbPhase = "health" /\ ~ Healthy /\ ~ Refused
  /\ wbPhase' = "silent"
  /\ UNCHANGED <<wbDelay, wbElapsed, wbPort, wbHome, wbStranger, wbWritten, wbUp, wbFaults>>

WbPage ==
  CheckDue \/ (\E failed \in BOOLEAN : PortResolved(failed))
    \/ HealthOk \/ HealthRefused \/ HealthNotOk
WbNext == PortFileWritten \/ BackendUp \/ WbPage

\* Timers fire and every fetch is answered or refused.  Nothing obliges the
\* launcher to start the backend.
WbFairness == WF_wbVars(WbPage)
WbSpec == WbInit /\ [][WbNext]_wbVars /\ WbFairness

-----------------------------------------------------------------------------
\* The boot screen does not stay: the tab gets its pages or says it has failed.
BootScreenEnds == <>(wbPhase \in {"ready", "failed"})

\* The same where nothing but the backend answers on the port asked: the screen is left for good.
BootEnded == wbStranger \/ wbPhase \in {"ready", "failed"}
BootEnds == <>[]BootEnded
=============================================================================
