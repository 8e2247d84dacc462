----------------------------- MODULE NewsPacer -----------------------------
(***************************************************************************)
(* The gate in front of Google News (news_feed/pacer.py): one fetch at a   *)
(* time, a random gap after each, nothing more that day once Google blocks *)
(* or the daily cap is reached, interactive requests before bulk ones.     *)
(* Request threads wait on one condition; what must survive a restart is   *)
(* kept in risk_state.                                                     *)
(*                                                                         *)
(* Time is cyclic: the second of the UTC day, and how long ago the last    *)
(* fetch ended, which stops at the longest gap.  Everything stored under a *)
(* day's key, and a block until midnight, is forgotten at midnight.        *)
(***************************************************************************)
EXTENDS Naturals, FiniteSetsExt

CONSTANTS Thread,          \* the threads that request news
          BulkGap,         \* the gaps BULK_GAP draws from
          InteractiveGap,  \* the gaps INTERACTIVE_GAP draws from
          DayLength,
          DailyCap,        \* DAILY_CAP
          Never,           \* no fetch recorded
          MaxArrivals,     \* bound on requests
          MaxStops,        \* bound on shutdowns and deaths
          Killable         \* may the process die during a fetch?

ASSUME ThreadsAssumption == IsFiniteSet(Thread)

ASSUME GapsAssumption ==
  /\ BulkGap \subseteq Nat /\ InteractiveGap \subseteq Nat
  /\ IsFiniteSet(BulkGap \cup InteractiveGap)
  /\ BulkGap # {} /\ InteractiveGap # {}
  /\ DayLength \in Nat \ {0} /\ DailyCap \in Nat
  /\ Never \notin Nat
  /\ MaxArrivals \in Nat /\ MaxStops \in Nat /\ Killable \in BOOLEAN

Kind == {"bulk", "interactive"}
Gaps(kind) == IF kind = "bulk" THEN BulkGap ELSE InteractiveGap
LongestGap == Max(BulkGap \cup InteractiveGap)

VARIABLES
  second,      \* of the current UTC day
  blocked,     \* risk_state: news_blocked_until lies ahead
  count,       \* risk_state: today's news_requests
  last,        \* risk_state: the age of news_last_request_at
  busy, interactive_waiting,   \* the Pacer's own fields
  stop,        \* STOP
  request,     \* per thread: the request it is making
  quiet,       \* history: how long ago the last fetch really ended
  started,     \* history: the fetches begun today
  refused,     \* history: Google blocked a fetch today
  arrivals, stops

store == <<blocked, count, last>>
vars == <<second, store, busy, interactive_waiting, stop, request,
          quiet, started, refused, arrivals, stops>>

Idle == [at |-> "idle"]
Pending == [at : {"wait", "fetch"}, kind : Kind, gap : BulkGap \cup InteractiveGap]
Waiting(r) == request[r].at = "wait"
Fetching(r) == request[r].at = "fetch"

TypeOK ==
  /\ second \in 0..DayLength - 1
  /\ blocked \in BOOLEAN /\ count \in 0..DailyCap /\ last \in Nat \cup {Never}
  /\ busy \in BOOLEAN /\ interactive_waiting \in 0..Cardinality(Thread)
  /\ stop \in BOOLEAN
  /\ request \in [Thread -> {Idle} \cup Pending]
  /\ quiet \in Nat \cup {Never} /\ started \in Nat /\ refused \in BOOLEAN
  /\ arrivals \in 0..MaxArrivals /\ stops \in 0..MaxStops

Init ==
  /\ second = 0
  /\ blocked = FALSE /\ count = 0 /\ last = Never
  /\ busy = FALSE /\ interactive_waiting = 0 /\ stop = FALSE
  /\ request = [r \in Thread |-> Idle]
  /\ quiet = Never /\ started = 0 /\ refused = FALSE
  /\ arrivals = 0 /\ stops = 0

-----------------------------------------------------------------------------
(* Pacer.request.                                                          *)

\* Draw the gap, enter the critical section and count oneself.
Arrive(r, kind) ==
  /\ request[r] = Idle
  /\ arrivals < MaxArrivals
  /\ arrivals' = arrivals + 1
  /\ \E gap \in Gaps(kind) :
       request' = [request EXCEPT ![r] = [at |-> "wait", kind |-> kind, gap |-> gap]]
  /\ interactive_waiting' =
       interactive_waiting + (IF kind = "interactive" THEN 1 ELSE 0)
  /\ UNCHANGED <<second, store, busy, stop, quiet, started, refused, stops>>

\* Defect: the waiter count is not given back.
KeepWaiting(r) == UNCHANGED interactive_waiting

\* The `finally` of the waiting loop.
StopWaiting(r) ==
  interactive_waiting' =
    interactive_waiting - (IF request[r].kind = "interactive" THEN 1 ELSE 0)

\* Defect: the cap counts the fetches before this one only.
OpenAtCap == ~ blocked /\ count <= DailyCap

\* Defect: only the cap closes the gate.
OpenWhenBlocked == count < DailyCap

\* _check_open.
Open == ~ blocked /\ count < DailyCap

\* One round of the loop ends it: NewsStopped or NewsBlocked.
Refuse(r) ==
  /\ Waiting(r)
  /\ stop \/ ~ Open
  /\ StopWaiting(r)
  /\ request' = [request EXCEPT ![r] = Idle]
  /\ UNCHANGED <<second, store, busy, stop, quiet, started, refused, arrivals, stops>>

\* _gap_left is zero or less.
GapOver(r) == last # Never => last >= request[r].gap

\* Defect: a bulk request does not look for interactive ones.
GoUnyielding(r) ==
  /\ Waiting(r)
  /\ ~ stop /\ Open
  /\ ~ busy
  /\ GapOver(r)
  /\ StopWaiting(r)
  /\ busy' = TRUE
  /\ request' = [request EXCEPT ![r].at = "fetch"]
  /\ started' = started + 1
  /\ UNCHANGED <<second, store, stop, quiet, refused, arrivals, stops>>

\* One round of the loop breaks out of it and takes the send slot; otherwise
\* the thread waits and looks again.
Go(r) ==
  /\ Waiting(r)
  /\ ~ stop /\ Open
  /\ ~ busy
  /\ request[r].kind = "interactive" \/ interactive_waiting = 0
  /\ GapOver(r)
  /\ StopWaiting(r)
  /\ busy' = TRUE
  /\ request' = [request EXCEPT ![r].at = "fetch"]
  /\ started' = started + 1
  /\ UNCHANGED <<second, store, stop, quiet, refused, arrivals, stops>>

\* Defect: a fetch that raises is neither counted nor timed.
AnswerUntimed(r, outcome) ==
  /\ Fetching(r)
  /\ count' = IF outcome = "raised" THEN count ELSE count + 1
  /\ last' = IF outcome = "raised" THEN last ELSE 0
  /\ quiet' = 0
  /\ blocked' = (blocked \/ outcome = "blocked")
  /\ refused' = (refused \/ outcome = "blocked")
  /\ busy' = FALSE
  /\ request' = [request EXCEPT ![r] = Idle]
  /\ UNCHANGED <<second, interactive_waiting, stop, started, arrivals, stops>>

\* Defect: a fetch that raises does not give the slot back.
AnswerKeepsSlot(r, outcome) ==
  /\ Fetching(r)
  /\ count' = count + 1
  /\ last' = 0 /\ quiet' = 0
  /\ blocked' = (blocked \/ outcome = "blocked")
  /\ refused' = (refused \/ outcome = "blocked")
  /\ busy' = (outcome = "raised")
  /\ request' = [request EXCEPT ![r] = Idle]
  /\ UNCHANGED <<second, interactive_waiting, stop, started, arrivals, stops>>

\* _send: whatever the fetch returned or raised is counted and timed when it
\* ends; a block closes the gate; the slot is given back.
Answer(r, outcome) ==
  /\ Fetching(r)
  /\ count' = count + 1
  /\ last' = 0 /\ quiet' = 0
  /\ blocked' = (blocked \/ outcome = "blocked")
  /\ refused' = (refused \/ outcome = "blocked")
  /\ busy' = FALSE
  /\ request' = [request EXCEPT ![r] = Idle]
  /\ UNCHANGED <<second, interactive_waiting, stop, started, arrivals, stops>>

-----------------------------------------------------------------------------
(* Time and the process.                                                   *)

Older(age) == IF age = Never \/ age = LongestGap THEN age ELSE age + 1

\* A second passes; at midnight the day's count and the block are over.
Tick ==
  LET midnight == second + 1 = DayLength
  IN  /\ second' = IF midnight THEN 0 ELSE second + 1
      /\ count' = IF midnight THEN 0 ELSE count
      /\ started' = IF midnight THEN 0 ELSE started
      /\ blocked' = (blocked /\ ~ midnight)
      /\ refused' = (refused /\ ~ midnight)
  /\ last' = Older(last) /\ quiet' = Older(quiet)
  /\ UNCHANGED <<busy, interactive_waiting, stop, request, arrivals, stops>>

\* Shutdown.
Stop ==
  /\ ~ stop /\ stops < MaxStops
  /\ stops' = stops + 1
  /\ stop' = TRUE
  /\ UNCHANGED <<second, store, busy, interactive_waiting, request,
                 quiet, started, refused, arrivals>>

\* The next start, after a shutdown or a death.  The interpreter waits for
\* its worker threads, so only a kill ends a fetch half-way.
Restart ==
  /\ stops < MaxStops \/ stop
  /\ Killable \/ ~ \E r \in Thread : Fetching(r)
  /\ stops' = IF stop THEN stops ELSE stops + 1
  /\ stop' = FALSE
  /\ busy' = FALSE /\ interactive_waiting' = 0
  /\ request' = [r \in Thread |-> Idle]
  /\ quiet' = IF \E r \in Thread : Fetching(r) THEN 0 ELSE quiet
  /\ UNCHANGED <<second, store, started, refused, arrivals>>

Outcome == {"items", "failed", "blocked", "raised"}

Step(r) ==
  \/ Refuse(r) \/ Go(r)
  \/ \E outcome \in Outcome : Answer(r, outcome)

Next ==
  \/ \E r \in Thread : Step(r) \/ \E kind \in Kind : Arrive(r, kind)
  \/ Tick \/ Stop \/ Restart

Spec == Init /\ [][Next]_vars

\* Threads are scheduled and look again twice a second, fetches end, the
\* clock runs.
Fairness == WF_vars(Tick) /\ \A r \in Thread : WF_vars(Step(r))

FairSpec == Spec /\ Fairness
-----------------------------------------------------------------------------
(* Properties.                                                             *)

Begins(r) == Waiting(r) /\ request'[r].at = "fetch"

\* A fetch begins only when the shortest gap of its kind has passed since the
\* end of the fetch before it, across restarts too, and only one is under way
\* ("serializes sends, spaces them with a random gap").
Spaced ==
  [][\A r \in Thread : Begins(r) =>
       /\ quiet # Never => quiet >= Min(Gaps(request[r].kind))
       /\ ~ \E s \in Thread : Fetching(s)]_vars

\* No fetch begins on a day on which Google has blocked one, whoever was
\* already waiting when it did ("stops everything after a block").
BlockStopsAll ==
  [][\A r \in Thread : Begins(r) => ~ refused]_vars

Turnstile ==
  INSTANCE NewsTurnstile
  WITH Allowance <- DailyCap, ShortestRest <- Min(BulkGap \cup InteractiveGap),
       LongestRest <- LongestGap,
       passing <- busy, passed <- started, rest <- quiet, barred <- refused

\* To the outside the pacer is a turnstile: whatever its threads, its counts and
\* its restarts, no more fetches begin on a day than the cap allows (also when one ends
\* after midnight and is counted for the next day), one at a time, at rest from each
\* other, none after a block.
IsTurnstile == Turnstile!Spec

\* A bulk request never begins a fetch while an interactive one waits.
BulkYields ==
  [][\A r, s \in Thread :
       Begins(r) /\ Waiting(s) /\ request[s].kind = "interactive"
         => request[r].kind = "interactive"]_vars

\* No request waits for ever: whatever was refused, raised or restarted, its
\* thread comes out with an answer, a block or a stop.
EveryWaitEnds ==
  \A r \in Thread : Waiting(r) ~> ~ Waiting(r)
=============================================================================
