-------------------------- MODULE NewsPacerProofs --------------------------
(***************************************************************************)
(* The pacer's gate for any number of threads, any gaps and any daily cap. *)
(***************************************************************************)
EXTENDS NewsPacer, TLAPS, WellFoundedInduction, FiniteSetTheorems

\* The interactive requests that wait.
Interactives == {r \in Thread : Waiting(r) /\ request[r].kind = "interactive"}

\* The send slot is taken exactly while a fetch is under way, and by one.
SlotHeld ==
  /\ busy <=> \E r \in Thread : Fetching(r)
  /\ \A r, s \in Thread : Fetching(r) /\ Fetching(s) => r = s

\* Whoever holds the slot found the day's count below the cap.
RoomForOne == busy => count < DailyCap

\* interactive_waiting counts what its name says.
WaitersCounted == interactive_waiting = Cardinality(Interactives)

\* A request that is not idle has a gap of its own kind.
GapsDrawn ==
  \A r \in Thread : Waiting(r) => request[r].gap \in Gaps(request[r].kind)

GateInv == TypeOK /\ SlotHeld /\ RoomForOne /\ WaitersCounted /\ GapsDrawn

-----------------------------------------------------------------------------
(* Lemmas.                                                                 *)

\* Every nonempty set of naturals has a least member, and Min names it.
LEMMA LeastNatural ==
  ASSUME NEW S \in SUBSET Nat, S # {}
  PROVE  Min(S) \in S /\ \A n \in S : Min(S) <= n
<1> DEFINE R == {pair \in Nat \X Nat : pair[1] < pair[2]}
<1>1. IsWellFoundedOn(R, Nat)
  BY NatLessThanWellFounded DEF OpToRel
<1>2. PICK m \in S : \A n \in S : <<n, m>> \notin R
  <2> HIDE DEF R
  <2> QED BY <1>1, WFMin
<1>3. \A n \in S : m <= n
  <2> TAKE n \in S
  <2>1. m \in Nat /\ n \in Nat
    OBVIOUS
  <2>2. ~ (n < m)
    BY <1>2, <2>1
  <2> QED BY <2>1, <2>2
<1> QED BY <1>3 DEF Min

\* How the count of waiting interactive requests moves with the set.
LEMMA OneMore ==
  ASSUME NEW S \in SUBSET Thread, NEW r, r \notin S
  PROVE  Cardinality(S \cup {r}) = Cardinality(S) + 1
BY ThreadsAssumption, FS_Subset, FS_AddElement

LEMMA OneLess ==
  ASSUME NEW S \in SUBSET Thread, NEW r \in S
  PROVE  Cardinality(S \ {r}) = Cardinality(S) - 1
BY ThreadsAssumption, FS_Subset, FS_RemoveElement

LEMMA CountInRange ==
  ASSUME NEW S \in SUBSET Thread
  PROVE  Cardinality(S) \in 0..Cardinality(Thread)
BY ThreadsAssumption, FS_Subset, FS_CardinalityType

\* A bulk request that sees no waiting interactive one is right.
LEMMA NoneWaiting ==
  ASSUME WaitersCounted, interactive_waiting = 0
  PROVE  Interactives = {}
<1>1. Interactives \in SUBSET Thread
  BY DEF Interactives
<1>2. IsFiniteSet(Interactives)
  BY <1>1, ThreadsAssumption, FS_Subset
<1> QED BY <1>2, FS_EmptySet DEF WaitersCounted

-----------------------------------------------------------------------------
(* The invariant.                                                          *)

USE GapsAssumption DEF Idle, Waiting, Fetching, store

LEMMA InitGate == Init => GateInv
<1> SUFFICES ASSUME Init PROVE GateInv
  OBVIOUS
<1>1. Interactives = {}
  BY DEF Init, Interactives
<1>2. Cardinality({}) = 0 /\ Cardinality(Thread) \in Nat
  BY ThreadsAssumption, FS_EmptySet, FS_CardinalityType
<1>3. TypeOK
  <2>1. request \in [Thread -> {Idle} \cup Pending]
    BY DEF Init
  <2>2. second \in 0..DayLength - 1 /\ count \in 0..DailyCap
    BY DEF Init
  <2>3. interactive_waiting \in 0..Cardinality(Thread)
    BY <1>2 DEF Init
  <2>4. arrivals \in 0..MaxArrivals /\ stops \in 0..MaxStops
    BY DEF Init
  <2> QED BY <2>1, <2>2, <2>3, <2>4 DEF Init, TypeOK
<1> QED BY <1>1, <1>2, <1>3 DEF Init, GateInv, SlotHeld, RoomForOne, WaitersCounted, GapsDrawn

LEMMA ArriveGate ==
  ASSUME GateInv, NEW r \in Thread, NEW kind \in Kind, Arrive(r, kind)
  PROVE  GateInv'
<1> USE DEF GateInv
<1>1. PICK gap \in Gaps(kind) :
        request' = [request EXCEPT ![r] = [at |-> "wait", kind |-> kind, gap |-> gap]]
  BY DEF Arrive
<1> DEFINE new == [at |-> "wait", kind |-> kind, gap |-> gap]
<1>2. new \in Pending /\ new.at = "wait" /\ new.kind = kind /\ new.gap = gap
  BY DEF Pending, Gaps, Kind
<1>3. /\ request' \in [Thread -> {Idle} \cup Pending]
      /\ request'[r] = new
      /\ \A s \in Thread \ {r} : request'[s] = request[s]
  BY <1>1, <1>2 DEF TypeOK
<1>4. ~ Waiting(r) /\ ~ Fetching(r)
  BY DEF Arrive
<1> HIDE DEF new
<1>5. WaitersCounted'
  <2>1. CASE kind = "interactive"
    <3>1. Interactives' = Interactives \cup {r} /\ r \notin Interactives
      BY <1>2, <1>3, <1>4, <2>1 DEF Interactives
    <3>2. Cardinality(Interactives') = Cardinality(Interactives) + 1
      BY <3>1, OneMore DEF Interactives
    <3> QED BY <3>2, <2>1 DEF WaitersCounted, Arrive
  <2>2. CASE kind # "interactive"
    <3>1. Interactives' = Interactives
      BY <1>2, <1>3, <1>4, <2>2 DEF Interactives
    <3>2. interactive_waiting' = interactive_waiting + 0
      BY <2>2 DEF Arrive
    <3> QED BY <3>1, <3>2 DEF WaitersCounted, TypeOK
  <2> QED BY <2>1, <2>2
<1>6. TypeOK'
  <2>1. Cardinality(Interactives)' \in 0..Cardinality(Thread)
    BY CountInRange DEF Interactives
  <2> QED BY <1>3, <1>5, <2>1 DEF TypeOK, Arrive, WaitersCounted
<1>7. SlotHeld'
  BY <1>2, <1>3, <1>4 DEF SlotHeld, Arrive
<1>8. RoomForOne'
  BY DEF RoomForOne, Arrive
<1>9. GapsDrawn'
  BY <1>2, <1>3 DEF GapsDrawn, Gaps
<1> QED BY <1>5, <1>6, <1>7, <1>8, <1>9

\* A waiting thread that turns to something else is no longer counted.
LEMMA LeaveWait ==
  ASSUME GateInv, NEW r \in Thread, Waiting(r), StopWaiting(r),
         ~ Waiting(r)', \A s \in Thread \ {r} : request'[s] = request[s]
  PROVE  WaitersCounted' /\ interactive_waiting' \in 0..Cardinality(Thread)
<1> USE DEF GateInv
<1>1. WaitersCounted'
  <2>1. CASE request[r].kind = "interactive"
    <3>1. Interactives' = Interactives \ {r} /\ r \in Interactives
      BY <2>1 DEF Interactives
    <3>2. Cardinality(Interactives') = Cardinality(Interactives) - 1
      BY <3>1, OneLess DEF Interactives
    <3> QED BY <3>2, <2>1 DEF WaitersCounted, StopWaiting
  <2>2. CASE request[r].kind # "interactive"
    <3>1. Interactives' = Interactives
      BY <2>2 DEF Interactives
    <3>2. interactive_waiting' = interactive_waiting - 0
      BY <2>2 DEF StopWaiting
    <3> QED BY <3>1, <3>2 DEF WaitersCounted, TypeOK
  <2> QED BY <2>1, <2>2
<1>2. Cardinality(Interactives)' \in 0..Cardinality(Thread)
  BY CountInRange DEF Interactives
<1> QED BY <1>1, <1>2 DEF WaitersCounted

LEMMA RefuseGate ==
  ASSUME GateInv, NEW r \in Thread, Refuse(r)
  PROVE  GateInv'
<1> USE DEF GateInv
<1>1. /\ request' \in [Thread -> {Idle} \cup Pending]
      /\ request'[r] = Idle
      /\ \A s \in Thread \ {r} : request'[s] = request[s]
  BY DEF Refuse, TypeOK
<1>2. WaitersCounted' /\ interactive_waiting' \in 0..Cardinality(Thread)
  BY <1>1, LeaveWait DEF Refuse
<1>3. TypeOK'
  BY <1>1, <1>2 DEF TypeOK, Refuse
<1>4. SlotHeld'
  BY <1>1 DEF SlotHeld, Refuse
<1>5. RoomForOne' /\ GapsDrawn'
  BY <1>1 DEF RoomForOne, GapsDrawn, Refuse, Gaps
<1> QED BY <1>2, <1>3, <1>4, <1>5

\* A record with another stage stays a pending request.
LEMMA NextStage ==
  ASSUME NEW j \in Pending
  PROVE  [j EXCEPT !.at = "fetch"] \in Pending
BY DEF Pending

LEMMA GoGate ==
  ASSUME GateInv, NEW r \in Thread, Go(r)
  PROVE  GateInv'
<1> USE DEF GateInv
<1> DEFINE new == [request[r] EXCEPT !.at = "fetch"]
<1>1. request[r] \in Pending
  BY DEF TypeOK, Go
<1>2. new \in Pending /\ new.at = "fetch"
  BY <1>1, NextStage DEF Pending
<1>3. request' = [request EXCEPT ![r] = new]
  BY DEF Go
<1> HIDE DEF new
<1>4. /\ request' \in [Thread -> {Idle} \cup Pending]
      /\ request'[r] = new
      /\ \A s \in Thread \ {r} : request'[s] = request[s]
  BY <1>2, <1>3 DEF TypeOK
<1>5. WaitersCounted' /\ interactive_waiting' \in 0..Cardinality(Thread)
  BY <1>2, <1>4, LeaveWait DEF Go
<1>6. TypeOK'
  BY <1>4, <1>5 DEF TypeOK, Go
<1>7. SlotHeld'
  BY <1>2, <1>4 DEF SlotHeld, Go
<1>8. RoomForOne'
  BY DEF RoomForOne, Go, Open
<1>9. GapsDrawn'
  BY <1>2, <1>4 DEF GapsDrawn, Gaps
<1> QED BY <1>5, <1>6, <1>7, <1>8, <1>9

LEMMA AnswerGate ==
  ASSUME GateInv, NEW r \in Thread, NEW outcome \in Outcome, Answer(r, outcome)
  PROVE  GateInv'
<1> USE DEF GateInv
<1>1. /\ request' \in [Thread -> {Idle} \cup Pending]
      /\ request'[r] = Idle
      /\ \A s \in Thread \ {r} : request'[s] = request[s]
  BY DEF Answer, TypeOK
<1>2. Interactives' = Interactives
  BY <1>1 DEF Interactives, Answer
<1>3. count' \in 0..DailyCap
  BY DEF Answer, SlotHeld, RoomForOne, TypeOK
<1>4. TypeOK'
  BY <1>1, <1>3 DEF TypeOK, Answer
<1>5. SlotHeld'
  BY <1>1 DEF SlotHeld, Answer
<1>6. RoomForOne' /\ GapsDrawn'
  BY <1>1 DEF RoomForOne, GapsDrawn, Answer, Gaps
<1> QED BY <1>2, <1>4, <1>5, <1>6 DEF WaitersCounted, Answer

LEMMA TickGate == ASSUME GateInv, Tick PROVE GateInv'
<1> USE DEF GateInv
<1>1. request' = request /\ busy' = busy /\ interactive_waiting' = interactive_waiting
  BY DEF Tick
<1>2. \A a \in Nat \cup {Never} : Older(a) \in Nat \cup {Never}
  BY DEF Older
<1>3. second' \in 0..DayLength - 1 /\ started' \in Nat
  BY DEF Tick, TypeOK
<1>4. count' \in 0..DailyCap /\ (busy => count' < DailyCap)
  BY DEF Tick, TypeOK, RoomForOne
<1>5. blocked' \in BOOLEAN /\ refused' \in BOOLEAN
  BY DEF Tick
<1>6. last' \in Nat \cup {Never} /\ quiet' \in Nat \cup {Never}
  BY <1>2 DEF Tick, TypeOK
<1>7. TypeOK'
  BY <1>1, <1>3, <1>4, <1>5, <1>6 DEF Tick, TypeOK
<1>8. Interactives' = Interactives
  BY <1>1 DEF Interactives
<1> QED BY <1>1, <1>4, <1>7, <1>8 DEF SlotHeld, RoomForOne, WaitersCounted, GapsDrawn, Gaps

LEMMA RestartGate == ASSUME GateInv, Restart PROVE GateInv'
<1> USE DEF GateInv
<1>1. request' = [r \in Thread |-> Idle] /\ ~ busy' /\ interactive_waiting' = 0
  BY DEF Restart
<1>2. Interactives' = {}
  BY <1>1 DEF Interactives
<1>3. Cardinality({}) = 0 /\ Cardinality(Thread) \in Nat
  BY ThreadsAssumption, FS_EmptySet, FS_CardinalityType
<1>4. request' \in [Thread -> {Idle} \cup Pending]
  BY <1>1
<1>5. stops' \in 0..MaxStops /\ quiet' \in Nat \cup {Never}
  BY DEF Restart, TypeOK
<1>6. TypeOK'
  <2>1. blocked' \in BOOLEAN /\ busy' \in BOOLEAN /\ stop' \in BOOLEAN /\ refused' \in BOOLEAN
    BY DEF Restart, TypeOK
  <2>2. second' = second /\ count' = count /\ last' = last
        /\ started' = started /\ arrivals' = arrivals
    BY DEF Restart
  <2>3. interactive_waiting' \in 0..Cardinality(Thread)
    BY <1>1, <1>3
  <2> QED BY <2>1, <2>2, <2>3, <1>4, <1>5 DEF TypeOK
<1> QED BY <1>1, <1>2, <1>3, <1>6 DEF SlotHeld, RoomForOne, WaitersCounted, GapsDrawn

LEMMA RestGate == ASSUME GateInv, Stop \/ UNCHANGED vars PROVE GateInv'
<1> USE DEF GateInv
<1>1. /\ request' = request /\ busy' = busy /\ count' = count
      /\ interactive_waiting' = interactive_waiting
  BY DEF Stop, vars
<1>2. TypeOK'
  <2>1. /\ second' = second /\ blocked' = blocked /\ last' = last
        /\ quiet' = quiet /\ started' = started /\ refused' = refused
        /\ arrivals' = arrivals
    BY DEF Stop, vars
  <2>2. stop' \in BOOLEAN /\ stops' \in 0..MaxStops
    <3>1. CASE Stop
      BY <3>1 DEF Stop, TypeOK
    <3>2. CASE UNCHANGED vars
      BY <3>2 DEF vars, TypeOK
    <3> QED BY <3>1, <3>2
  <2> QED BY <1>1, <2>1, <2>2 DEF TypeOK
<1>3. Interactives' = Interactives
  BY <1>1 DEF Interactives
<1> QED BY <1>1, <1>2, <1>3 DEF SlotHeld, RoomForOne, WaitersCounted, GapsDrawn, Gaps

LEMMA StepGate == ASSUME GateInv, [Next]_vars PROVE GateInv'
<1>1. CASE \E r \in Thread, kind \in Kind : Arrive(r, kind)
  BY <1>1, ArriveGate
<1>2. CASE \E r \in Thread : Refuse(r)
  BY <1>2, RefuseGate
<1>3. CASE \E r \in Thread : Go(r)
  BY <1>3, GoGate
<1>4. CASE \E r \in Thread, outcome \in Outcome : Answer(r, outcome)
  BY <1>4, AnswerGate
<1>5. CASE Tick
  BY <1>5, TickGate
<1>6. CASE Restart
  BY <1>6, RestartGate
<1>7. CASE Stop \/ UNCHANGED vars
  BY <1>7, RestGate
<1> QED BY <1>1, <1>2, <1>3, <1>4, <1>5, <1>6, <1>7 DEF Next, Step

\* The gate's bookkeeping agrees with what its threads do, however many
\* there are (the fields of Pacer).
THEOREM GateCorrect == Spec => []GateInv
BY InitGate, StepGate, PTL DEF Spec

-----------------------------------------------------------------------------
(* What follows from it.                                                   *)

\* Every variable keeps its type; in particular the day's count stays within
\* the cap, and the waiter count between zero and the number of threads.
THEOREM TypeCorrect == Spec => []TypeOK
BY GateCorrect, PTL DEF GateInv

\* Only Go begins a fetch.
LEMMA OnlyGoBegins ==
  ASSUME [Next]_vars, NEW r \in Thread, Begins(r), TypeOK
  PROVE  Go(r)
<1>1. request'[r].at = "fetch" /\ request[r].at = "wait"
  BY DEF Begins
<1>2. CASE \E s \in Thread, kind \in Kind : Arrive(s, kind)
  <2>1. PICK s \in Thread, kind \in Kind : Arrive(s, kind)
    BY <1>2
  <2>2. PICK gap \in Gaps(kind) :
          request' = [request EXCEPT ![s] = [at |-> "wait", kind |-> kind, gap |-> gap]]
    BY <2>1 DEF Arrive
  <2> QED BY <1>1, <2>2 DEF TypeOK
<1>3. CASE \E s \in Thread : Refuse(s)
  BY <1>1, <1>3 DEF Refuse, TypeOK
<1>4. CASE \E s \in Thread : Go(s)
  <2>1. PICK s \in Thread : Go(s)
    BY <1>4
  <2>2. r # s => request'[r] = request[r]
    BY <2>1 DEF Go, TypeOK
  <2> QED BY <1>1, <2>1, <2>2
<1>5. CASE \E s \in Thread, outcome \in Outcome : Answer(s, outcome)
  BY <1>1, <1>5 DEF Answer, TypeOK
<1>6. CASE Tick \/ Stop \/ UNCHANGED vars
  BY <1>1, <1>6 DEF Tick, Stop, vars
<1>7. CASE Restart
  BY <1>1, <1>7 DEF Restart
<1> QED BY <1>2, <1>3, <1>4, <1>5, <1>6, <1>7 DEF Next, Step

\* A bulk request never begins a fetch while an interactive one waits,
\* whichever thread looks first (Pacer.request).
THEOREM BulkAlwaysYields == Spec => BulkYields
<1>1. ASSUME GateInv, [Next]_vars
      PROVE  [\A r, s \in Thread :
                Begins(r) /\ Waiting(s) /\ request[s].kind = "interactive"
                  => request[r].kind = "interactive"]_vars
  <2> SUFFICES ASSUME NEW r \in Thread, NEW s \in Thread,
                      Begins(r), Waiting(s), request[s].kind = "interactive"
               PROVE  request[r].kind = "interactive"
    OBVIOUS
  <2>1. Go(r)
    BY <1>1, OnlyGoBegins DEF GateInv
  <2>2. s \in Interactives
    BY DEF Interactives
  <2>3. interactive_waiting # 0
    BY <1>1, <2>2, NoneWaiting DEF GateInv
  <2> QED BY <2>1, <2>3 DEF Go
<1> QED BY <1>1, GateCorrect, PTL DEF Spec, BulkYields

\* A block is on record as long as the day lasts.
RefusalStored == refused => blocked

LEMMA BlockOnRecord == Spec => []RefusalStored
<1>1. Init => RefusalStored
  BY DEF Init, RefusalStored
<1>2. ASSUME RefusalStored, [Next]_vars PROVE RefusalStored'
  <2>1. CASE \E r \in Thread, outcome \in Outcome : Answer(r, outcome)
    BY <1>2, <2>1, Zenon DEF Answer, RefusalStored
  <2>2. CASE Tick
    BY <1>2, <2>2, Zenon DEF Tick, RefusalStored
  <2>3. CASE UNCHANGED <<blocked, refused>>
    BY <1>2, <2>3, Zenon DEF RefusalStored
  <2>4. ASSUME NEW r \in Thread, NEW kind \in Kind, Arrive(r, kind)
        PROVE  UNCHANGED <<blocked, refused>>
    BY <2>4 DEF Arrive
  <2>5. ASSUME NEW r \in Thread, Refuse(r) \/ Go(r)
        PROVE  UNCHANGED <<blocked, refused>>
    BY <2>5 DEF Refuse, Go
  <2>6. ASSUME Stop \/ Restart \/ UNCHANGED vars
        PROVE  UNCHANGED <<blocked, refused>>
    BY <2>6 DEF Stop, Restart, vars
  <2> QED BY <1>2, <2>1, <2>2, <2>3, <2>4, <2>5, <2>6 DEF Next, Step
<1> QED BY <1>1, <1>2, PTL DEF Spec

\* No fetch begins on a day on which Google has blocked one, whoever was
\* already waiting and however often the process restarts (_check_open).
THEOREM BlockAlwaysStops == Spec => BlockStopsAll
<1>1. ASSUME RefusalStored, GateInv, [Next]_vars
      PROVE  [\A r \in Thread : Begins(r) => ~ refused]_vars
  <2> SUFFICES ASSUME NEW r \in Thread, Begins(r) PROVE ~ refused
    OBVIOUS
  <2>1. Go(r)
    BY <1>1, OnlyGoBegins DEF GateInv
  <2> QED BY <1>1, <2>1, Zenon DEF Go, Open, RefusalStored
<1> QED BY <1>1, BlockOnRecord, GateCorrect, PTL DEF Spec, BlockStopsAll

-----------------------------------------------------------------------------
(* Without a kill in the middle of a fetch the store knows what happened.  *)

\* Every fetch begun today is counted, but for the one under way.
StartedCounted == started <= count + (IF busy THEN 1 ELSE 0)

\* The recorded end of the last fetch is the real one.
QuietRecorded == quiet = last

LEMMA InitRecorded == Init => StartedCounted /\ QuietRecorded
BY DEF Init, StartedCounted, QuietRecorded

LEMMA StepRecorded ==
  ASSUME ~ Killable, GateInv, StartedCounted, QuietRecorded, [Next]_vars
  PROVE  StartedCounted' /\ QuietRecorded'
<1> USE DEF GateInv, StartedCounted, QuietRecorded
<1>1. CASE \E r \in Thread, kind \in Kind : Arrive(r, kind)
  BY <1>1 DEF Arrive
<1>2. CASE \E r \in Thread : Refuse(r)
  BY <1>2 DEF Refuse
<1>3. CASE \E r \in Thread : Go(r)
  BY <1>3 DEF Go, TypeOK
<1>4. CASE \E r \in Thread, outcome \in Outcome : Answer(r, outcome)
  BY <1>4 DEF Answer, TypeOK, SlotHeld
<1>5. CASE Tick
  BY <1>5 DEF Tick, TypeOK
<1>6. CASE Restart
  <2>1. ~ \E r \in Thread : Fetching(r)
    BY <1>6 DEF Restart
  <2>2. ~ busy
    BY <2>1 DEF SlotHeld
  <2> QED BY <1>6, <2>1, <2>2 DEF Restart, TypeOK
<1>7. CASE Stop \/ UNCHANGED vars
  BY <1>7 DEF Stop, vars
<1> QED BY <1>1, <1>2, <1>3, <1>4, <1>5, <1>6, <1>7 DEF Next, Step

\* A fetch begins only when the shortest gap of its kind has passed since the
\* one before it really ended, and only one is under way, across shutdowns
\* and restarts too (Pacer.request, _gap_left).
THEOREM AlwaysSpaced == ASSUME ~ Killable PROVE Spec => Spaced
<1>1. ASSUME GateInv, QuietRecorded, [Next]_vars
      PROVE  [\A r \in Thread : Begins(r) =>
                /\ quiet # Never => quiet >= Min(Gaps(request[r].kind))
                /\ ~ \E s \in Thread : Fetching(s)]_vars
  <2> SUFFICES ASSUME NEW r \in Thread, Begins(r)
               PROVE  /\ quiet # Never => quiet >= Min(Gaps(request[r].kind))
                      /\ ~ \E s \in Thread : Fetching(s)
    OBVIOUS
  <2> DEFINE S == Gaps(request[r].kind)
  <2>1. Go(r)
    BY <1>1, OnlyGoBegins DEF GateInv
  <2>2. ~ \E s \in Thread : Fetching(s)
    BY <1>1, <2>1 DEF Go, GateInv, SlotHeld
  <2>3. S \in SUBSET Nat /\ request[r].gap \in S
    BY <1>1, <2>1 DEF Go, GateInv, GapsDrawn, Gaps
  <2>4. Min(S) <= request[r].gap
    <3> HIDE DEF S
    <3> QED BY <2>3, LeastNatural
  <2>5. last # Never => last >= request[r].gap
    BY <2>1 DEF Go, GapOver
  <2>6. Min(S) \in Nat
    <3> HIDE DEF S
    <3> QED BY <2>3, LeastNatural
  <2> QED BY <1>1, <2>2, <2>3, <2>4, <2>5, <2>6 DEF QuietRecorded, GateInv, TypeOK
<1> QED BY <1>1, InitRecorded, StepRecorded, GateCorrect, PTL DEF Spec, Spaced

-----------------------------------------------------------------------------
(* The refinement.                                                         *)

\* The shortest rest the turnstile asks for is no longer than any gap drawn.
LEMMA RestsLongEnough ==
  ASSUME GateInv, QuietRecorded, NEW r \in Thread, Go(r)
  PROVE  quiet # Never => quiet >= Min(BulkGap \cup InteractiveGap)
<1> DEFINE S == BulkGap \cup InteractiveGap
<1>1. S \in SUBSET Nat /\ request[r].gap \in S
  BY DEF Go, GateInv, GapsDrawn, Gaps
<1>2. Min(S) \in Nat /\ Min(S) <= request[r].gap
  <2> HIDE DEF S
  <2> QED BY <1>1, LeastNatural
<1>3. last # Never => last >= request[r].gap
  BY DEF Go, GapOver
<1> HIDE DEF S
<1>4. QuietRecorded /\ (last \in Nat \cup {Never}) /\ request[r].gap \in Nat
  BY <1>1 DEF GateInv, TypeOK
<1>5. quiet # Never => quiet >= Min(S)
  BY <1>2, <1>3, <1>4 DEF QuietRecorded
<1> QED BY <1>5 DEF S

LEMMA GoEnters ==
  ASSUME GateInv, StartedCounted, QuietRecorded, RefusalStored, NEW r \in Thread, Go(r)
  PROVE  Turnstile!Enter
<1>1. ~ busy /\ busy' = TRUE
  BY DEF Go
<1>2. started < DailyCap /\ started' = started + 1
  BY DEF Go, Open, StartedCounted, GateInv, TypeOK
<1>3. UNCHANGED <<quiet, refused>>
  BY DEF Go
<1>4. ~ refused
  BY Zenon DEF Go, Open, RefusalStored
<1> QED BY <1>1, <1>2, <1>3, <1>4, RestsLongEnough DEF Turnstile!Enter

LEMMA AnswerLeaves ==
  ASSUME GateInv, NEW r \in Thread, NEW outcome \in Outcome, Answer(r, outcome)
  PROVE  Turnstile!Leave
<1>1. busy /\ busy' = FALSE
  BY DEF Answer, GateInv, SlotHeld
<1>2. refused' \in {refused, TRUE}
  BY Zenon DEF Answer, GateInv, TypeOK
<1> QED BY <1>1, <1>2 DEF Answer, Turnstile!Leave

LEMMA TickRests == ASSUME GateInv, Tick PROVE Turnstile!Rest
<1>1. \/ UNCHANGED <<started, refused>>
      \/ started' = 0 /\ refused' = FALSE
  <2>1. CASE second + 1 = DayLength
    BY <2>1, Zenon DEF Tick
  <2>2. CASE second + 1 # DayLength
    <3>1. refused' = refused
      BY <2>2, Zenon DEF Tick, GateInv, TypeOK
    <3> QED BY <2>2, <3>1 DEF Tick
  <2> QED BY <2>1, <2>2
<1>2. UNCHANGED busy /\ quiet' = Older(quiet)
  BY DEF Tick
<1> QED BY <1>1, <1>2 DEF Turnstile!Rest, Older

\* To the outside the pacer is a turnstile for any number of threads, any gaps
\* and any cap, unless the process is killed in the middle of a fetch
\* (Pacer.request, _send, _check_open, _gap_left).
THEOREM PacerIsTurnstile == ASSUME ~ Killable PROVE Spec => IsTurnstile
<1>1. Init => Turnstile!Init
  BY DEF Init, Turnstile!Init
<1>2. ASSUME GateInv, StartedCounted, QuietRecorded, RefusalStored, [Next]_vars
      PROVE  [Turnstile!Enter \/ Turnstile!Leave \/ Turnstile!Rest]_Turnstile!turnstileVars
  <2> USE <1>2
  <2>1. CASE \E r \in Thread, kind \in Kind : Arrive(r, kind)
    BY <2>1 DEF Arrive, Turnstile!turnstileVars
  <2>2. CASE \E r \in Thread : Refuse(r)
    BY <2>2 DEF Refuse, Turnstile!turnstileVars
  <2>3. CASE \E r \in Thread : Go(r)
    BY <2>3, GoEnters
  <2>4. CASE \E r \in Thread, outcome \in Outcome : Answer(r, outcome)
    BY <2>4, AnswerLeaves
  <2>5. CASE Tick
    BY <2>5, TickRests
  <2>6. CASE Restart
    <3>1. ~ \E r \in Thread : Fetching(r)
      BY <2>6 DEF Restart
    <3>2. ~ busy
      BY <3>1 DEF GateInv, SlotHeld
    <3>3. UNCHANGED busy
      BY <2>6, <3>2, Zenon DEF Restart, GateInv, TypeOK
    <3>4. UNCHANGED <<started, refused, quiet>>
      BY <2>6, <3>1 DEF Restart
    <3> QED BY <3>3, <3>4 DEF Turnstile!turnstileVars
  <2>7. CASE Stop \/ UNCHANGED vars
    BY <2>7 DEF Stop, vars, Turnstile!turnstileVars
  <2> QED BY <2>1, <2>2, <2>3, <2>4, <2>5, <2>6, <2>7 DEF Next, Step
<1> QED
  BY <1>1, <1>2, InitRecorded, StepRecorded, GateCorrect, BlockOnRecord, PTL
  DEF Spec, IsTurnstile, Turnstile!Spec
=============================================================================
