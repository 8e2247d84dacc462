-------------------------- MODULE PerformanceStream --------------------------
(***************************************************************************)
(* The developer monitor page (app/dev/monitor/page.tsx) and its event     *)
(* stream (hooks/usePerformanceStream.ts): an EventSource that reconnects  *)
(* by a timer of its own, is closed while the page is paused or the        *)
(* monitor is off, and whose events are merged with a list read once.      *)
(*                                                                         *)
(* An event is known by its number in the server's log, which orders it in *)
(* time too.  Effects run some time after the render that changed their    *)
(* dependencies; until then the stream's handlers are those of the render  *)
(* before (psSeen).  Those of a click run before the next click.  Filters  *)
(* and panels only read what is shown.                                     *)
(***************************************************************************)
EXTENDS Integers, FiniteSets

CONSTANTS
  PsMaxEvents,   \* bound: events of the server
  PsMaxBuffer,   \* maxBuffer (1000)
  PsMaxSeeds,    \* INITIAL_RECENT_LIMIT (200)
  PsMaxDrops,    \* bound: times the stream breaks
  PsMaxClicks    \* bound: pause, resume, clear, refresh

ASSUME PsAssumption ==
  /\ PsMaxEvents \in Nat /\ PsMaxBuffer \in Nat \ {0} /\ PsMaxSeeds \in Nat \ {0}
  /\ PsMaxDrops \in Nat /\ PsMaxClicks \in Nat

VARIABLES
  psWanted,    \* enabled and isPaused of the last render
  psSeen,      \* the same, of the last run of the effects
  psStreams,   \* EventSource objects not closed
  psConnected, \* the open one is connected
  psTimer,     \* the reconnect timer is set
  psState,     \* streamState
  psLog,       \* the server: number of events so far
  psGot,       \* streamEvents
  psSeeds,     \* recentQuery.data.events
  psCutoff,    \* clearCutoff: the events up to then are cleared
  psUsed       \* bounds

psVars == <<psWanted, psSeen, psStreams, psConnected, psTimer, psState, psLog, psGot,
            psSeeds, psCutoff, psUsed>>

Event == 1..PsMaxEvents
Wish == [enabled : BOOLEAN, paused : BOOLEAN]
Active(wish) == wish.enabled /\ ~ wish.paused

PsTypeOK ==
  /\ psWanted \in Wish /\ psSeen \in Wish
  /\ psStreams \in 0..2 /\ psConnected \in BOOLEAN /\ psTimer \in BOOLEAN
  /\ psState \in {"connecting", "live", "reconnecting", "error"}
  /\ psLog \in 0..PsMaxEvents
  /\ psGot \subseteq Event /\ psSeeds \subseteq Event
  /\ psCutoff \in 0..PsMaxEvents
  /\ psUsed \in [drops : 0..PsMaxDrops, clicks : 0..PsMaxClicks]

\* The page is mounted and its first effects have run: the stream is asked for.
PsInit ==
  /\ psWanted = [enabled |-> TRUE, paused |-> FALSE] /\ psSeen = psWanted
  /\ psStreams = 1 /\ psConnected = FALSE /\ psTimer = FALSE
  /\ psState = "connecting"
  /\ psLog = 0 /\ psGot = {} /\ psSeeds = {} /\ psCutoff = 0
  /\ psUsed = [drops |-> 0, clicks |-> 0]

\* The newest n of a set of events.
Newest(events, n) == {e \in events : Cardinality({f \in events : f > e}) < n}

\* mergeEvents
Merge(events, incoming) == Newest(events \cup incoming, PsMaxBuffer)

\* The events shown: both sources, without the cleared ones.
MonitorShown == Merge({e \in psSeeds : e > psCutoff}, {e \in psGot : e > psCutoff})

-----------------------------------------------------------------------------
(* The stream.                                                             *)

Opened ==
  /\ psStreams = 1 /\ ~ psConnected
  /\ psConnected' = TRUE /\ psState' = "live"
  /\ UNCHANGED <<psWanted, psSeen, psStreams, psTimer, psLog, psGot, psSeeds,
                 psCutoff, psUsed>>

\* An event happens; a connected stream delivers it.  A malformed one is only
\* said to have come.
EventHappens(malformed) ==
  /\ psLog < PsMaxEvents
  /\ psLog' = psLog + 1
  /\ psGot' = IF psConnected /\ ~ malformed THEN Merge(psGot, {psLog + 1}) ELSE psGot
  /\ psState' = IF psConnected /\ malformed THEN "error" ELSE psState
  /\ UNCHANGED <<psWanted, psSeen, psStreams, psConnected, psTimer, psSeeds,
                 psCutoff, psUsed>>

\* onerror: close, and try again later unless nobody wants the stream any more.
StreamBreaks ==
  /\ psStreams > 0 /\ psUsed.drops < PsMaxDrops
  /\ psStreams' = psStreams - 1 /\ psConnected' = FALSE
  /\ IF Active(psSeen) THEN psTimer' = TRUE /\ psState' = "reconnecting"
     ELSE UNCHANGED <<psTimer, psState>>
  /\ psUsed' = [psUsed EXCEPT !.drops = @ + 1]
  /\ UNCHANGED <<psWanted, psSeen, psLog, psGot, psSeeds, psCutoff>>

\* openStream: nothing to do when it is not wanted or already there.
StreamsAfterOpen(wish, streams) ==
  IF Active(wish) /\ streams = 0 THEN 1 ELSE streams

ReconnectDue ==
  /\ psTimer
  /\ psTimer' = FALSE
  /\ psStreams' = StreamsAfterOpen(psSeen, psStreams)
  /\ UNCHANGED <<psWanted, psSeen, psConnected, psState, psLog, psGot, psSeeds,
                 psCutoff, psUsed>>

\* Defect: the effect's cleanup closes the stream and leaves the timer.
CleanupKeepsTimer == psTimer
\* clearReconnectTimer
TimerAfterCleanup == FALSE

\* The effect, after its cleanup: everything closed, and opened if wanted.
EffectRuns ==
  /\ psSeen # psWanted
  /\ psSeen' = psWanted
  /\ psTimer' = TimerAfterCleanup
  /\ psStreams' = StreamsAfterOpen(psWanted, 0) /\ psConnected' = FALSE
  /\ UNCHANGED <<psWanted, psState, psLog, psGot, psSeeds, psCutoff, psUsed>>

-----------------------------------------------------------------------------
(* The page.                                                               *)

Click == psUsed.clicks < PsMaxClicks /\ psUsed' = [psUsed EXCEPT !.clicks = @ + 1]

Pause ==
  /\ Click /\ psSeen = psWanted /\ ~ psWanted.paused
  /\ psWanted' = [psWanted EXCEPT !.paused = TRUE]
  /\ UNCHANGED <<psSeen, psStreams, psConnected, psTimer, psState, psLog, psGot,
                 psSeeds, psCutoff>>

Resume ==
  /\ Click /\ psSeen = psWanted /\ psWanted.paused
  /\ psWanted' = [psWanted EXCEPT !.paused = FALSE]
  /\ psState' = "connecting"
  /\ UNCHANGED <<psSeen, psStreams, psConnected, psTimer, psLog, psGot, psSeeds,
                 psCutoff>>

Clear ==
  /\ Click
  /\ psCutoff' = psLog /\ psGot' = {}
  /\ UNCHANGED <<psWanted, psSeen, psStreams, psConnected, psTimer, psState, psLog,
                 psSeeds>>

\* recentQuery: read at the start and by "Refresh summary".  A 404 says that the
\* monitor is off, a later answer that it is on again.
RecentAnswered(on) ==
  /\ Click
  /\ psWanted' = [psWanted EXCEPT !.enabled = on]
  /\ psSeeds' = IF on THEN Newest(1..psLog, PsMaxSeeds) ELSE psSeeds
  /\ UNCHANGED <<psSeen, psStreams, psConnected, psTimer, psState, psLog, psGot,
                 psCutoff>>

PsNext ==
  \/ Opened \/ StreamBreaks \/ ReconnectDue \/ EffectRuns
  \/ Pause \/ Resume \/ Clear
  \/ \E malformed \in BOOLEAN : EventHappens(malformed)
  \/ \E on \in BOOLEAN : RecentAnswered(on)

PsSpec == PsInit /\ [][PsNext]_psVars

-----------------------------------------------------------------------------
\* Once the effects have run, a wanted stream is open or its timer is set, never
\* both and never neither; an unwanted one is closed and nothing will open it.
StreamIsWanted ==
  psSeen = psWanted =>
    IF Active(psWanted) THEN (psStreams = 1) # psTimer
    ELSE psStreams = 0 /\ ~ psTimer

\* The page never shows a cleared event again, whatever is read or merged later,
\* and shows every event its stream brought since, up to the buffer's size.
ClearedStaysCleared ==
  /\ \A e \in MonitorShown : e > psCutoff
  /\ \A e \in psGot : e > psCutoff /\ e \notin MonitorShown => Cardinality(MonitorShown) = PsMaxBuffer

\* The monitor follows the stream it shows.
StreamHolds == StreamIsWanted /\ ClearedStaysCleared
=============================================================================
