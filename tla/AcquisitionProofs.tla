------------------------- MODULE AcquisitionProofs -------------------------
(***************************************************************************)
(* Acquisition for any number of threads, any calendar and any number of   *)
(* actions, provider errors and process deaths.                            *)
(***************************************************************************)
EXTENDS Acquisition, WellFoundedInduction, TLAPS

-----------------------------------------------------------------------------
(* What holds whatever the parameters.                                     *)

\* A job remembers no future.
OnTime(j) ==
  /\ j # Idle => j.now <= today
  /\ j.at = "probe" =>
       /\ j.from = NoDay <=> j.to = NoDay
       /\ j.to # NoDay => j.to < j.now
  /\ j.at = "save" =>
       /\ RowDays(j.rows) # {}
       /\ \A d \in RowDays(j.rows) : d < j.now
  /\ j.at = "record" => j.last < j.now

\* And nothing is covered that is not over yet.
Timely ==
  /\ to # NoDay => to < today
  /\ \A w \in Worker : OnTime(job[w])

BaseInv == TypeOK /\ Timely

-----------------------------------------------------------------------------
(* The calendar.                                                           *)

LEMMA DaysAreNaturals ==
  /\ Day \subseteq Nat /\ NoDay \notin Day
  /\ FirstDay..MaxDay \subseteq Day
  /\ \A now \in FirstDay..MaxDay : BackfillStart(now) \in Day /\ BackfillStart(now) <= now
BY CalendarAssumption DEF Day, BackfillStart

LEMMA DaysBetween ==
  ASSUME NEW d \in Day, NEW e \in Day
  PROVE  d..e \subseteq Day
BY CalendarAssumption DEF Day

\* A nonempty set of days has a first one.
LEMMA FirstOfDays ==
  ASSUME NEW S \in SUBSET Day, S # {}
  PROVE  Min(S) \in S /\ \A d \in S : Min(S) <= d
<1> DEFINE R == {pair \in Nat \X Nat : pair[1] < pair[2]}
<1>1. S \subseteq Nat
  BY DaysAreNaturals
<1>2. IsWellFoundedOn(R, Nat)
  BY NatLessThanWellFounded DEF OpToRel
<1>3. PICK m \in S : \A d \in S : <<d, m>> \notin R
  <2> HIDE DEF R
  <2> QED BY <1>1, <1>2, WFMin
<1>4. \A d \in S : m <= d
  <2> TAKE d \in S
  <2>1. d \in Nat /\ m \in Nat
    BY <1>1
  <2>2. ~ (d < m)
    BY <1>3, <2>1
  <2> QED BY <2>1, <2>2
<1> QED BY <1>4 DEF Min

\* And a last one.
LEMMA LastOfDays ==
  ASSUME NEW S \in SUBSET Day, S # {}
  PROVE  Max(S) \in S /\ \A d \in S : d <= Max(S)
<1> DEFINE R == {pair \in Nat \X Nat : pair[1] < pair[2]}
           D == {MaxDay - d : d \in S}
<1>1. D \subseteq Nat
  BY CalendarAssumption DEF Day
<1>2. D # {}
  OBVIOUS
<1>3. IsWellFoundedOn(R, Nat)
  BY NatLessThanWellFounded DEF OpToRel
<1>4. PICK m \in D : \A e \in D : <<e, m>> \notin R
  <2> HIDE DEF R, D
  <2> QED BY <1>1, <1>2, <1>3, WFMin
<1>5. PICK last \in S : m = MaxDay - last
  OBVIOUS
<1>6. \A d \in S : d <= last
  <2> TAKE d \in S
  <2>1. d \in Nat /\ last \in Nat /\ MaxDay \in Nat
    BY DaysAreNaturals, CalendarAssumption
  <2>2. ~ (MaxDay - d < MaxDay - last)
    BY <1>1, <1>4, <1>5
  <2> QED BY <2>1, <2>2
<1>7. \A d \in S : last >= d
  BY <1>6, DaysAreNaturals
<1>8. Max(S) \in S /\ \A d \in S : Max(S) >= d
  BY <1>7 DEF Max
<1> QED BY <1>8, DaysAreNaturals

LEMMA EarlierOfTwo ==
  ASSUME NEW d \in Day, NEW e \in Day
  PROVE  /\ Min({d, e}) \in {d, e} /\ Min({d, e}) \in Day
         /\ Min({d, e}) <= d /\ Min({d, e}) <= e
<1>1. {d, e} \in SUBSET Day /\ {d, e} # {}
  OBVIOUS
<1> QED BY <1>1, FirstOfDays

LEMMA LaterOfTwo ==
  ASSUME NEW d \in Day, NEW e \in Day
  PROVE  /\ Max({d, e}) \in {d, e} /\ Max({d, e}) \in Day
         /\ d <= Max({d, e}) /\ e <= Max({d, e})
<1>1. {d, e} \in SUBSET Day /\ {d, e} # {}
  OBVIOUS
<1> QED BY <1>1, LastOfDays

-----------------------------------------------------------------------------
(* Jobs.                                                                   *)

LEMMA JobFields ==
  ASSUME NEW j \in Job
  PROVE  /\ j.at \in {"idle", "probe", "fetch", "save", "record",
                      "deep", "deepsave", "deepmark"}
         /\ j.at = "idle" <=> j = Idle
         /\ j.at # "idle" => j.now \in FirstDay..MaxDay
         /\ j.at = "probe" => j.from \in Date /\ j.to \in Date
         /\ j.at \in {"fetch", "save", "record"} => j.start \in Day
         /\ j.at \in {"save", "deepsave"} => j.rows \in Rows
         /\ j.at = "record" => j.last \in Day
         /\ j.at = "deep" => j.end \in Day \cup {MaxDay + 1}
<1> DEFINE Now == FirstDay..MaxDay
<1>1. CASE j = Idle
  BY <1>1 DEF Idle
<1>2. CASE j \in [at : {"probe"}, now : Now, from : Date, to : Date]
  BY <1>2 DEF Idle
<1>3. CASE j \in [at : {"fetch"}, now : Now, start : Day]
  BY <1>3 DEF Idle
<1>4. CASE j \in [at : {"save"}, now : Now, start : Day, rows : Rows]
  BY <1>4 DEF Idle
<1>5. CASE j \in [at : {"record"}, now : Now, start : Day, last : Day]
  BY <1>5 DEF Idle
<1>6. CASE j \in [at : {"deep"}, now : Now, end : Day \cup {MaxDay + 1}]
  BY <1>6 DEF Idle
<1>7. CASE j \in [at : {"deepsave"}, now : Now, rows : Rows]
  BY <1>7 DEF Idle
<1>8. CASE j \in [at : {"deepmark"}, now : Now]
  BY <1>8 DEF Idle
<1> QED BY <1>1, <1>2, <1>3, <1>4, <1>5, <1>6, <1>7, <1>8 DEF Job

LEMMA JobRecords ==
  ASSUME NEW now \in FirstDay..MaxDay
  PROVE  /\ Idle \in Job
         /\ \A f, t \in Date : [at |-> "probe", now |-> now, from |-> f, to |-> t] \in Job
         /\ \A s \in Day : [at |-> "fetch", now |-> now, start |-> s] \in Job
         /\ \A s \in Day, rows \in Rows :
              [at |-> "save", now |-> now, start |-> s, rows |-> rows] \in Job
         /\ \A s, l \in Day : [at |-> "record", now |-> now, start |-> s, last |-> l] \in Job
         /\ \A e \in Day \cup {MaxDay + 1} : [at |-> "deep", now |-> now, end |-> e] \in Job
         /\ \A rows \in Rows : [at |-> "deepsave", now |-> now, rows |-> rows] \in Job
         /\ [at |-> "deepmark", now |-> now] \in Job
BY DEF Job

-----------------------------------------------------------------------------
(* Rows.                                                                   *)

LEMMA ServedRows ==
  ASSUME TypeOK, NEW asked, NEW last \in Int
  PROVE  /\ Served(asked, last) \in Rows
         /\ RowDays(Served(asked, last)) = {d \in Day : d \in asked /\ d <= last /\ d <= today}
         /\ \A d \in RowDays(Served(asked, last)) :
              /\ Served(asked, last)[d].adj = {a \in actions : d < a}
              /\ Served(asked, last)[d].settled <=> d < today
<1>1. \A d \in Day : [adj |-> {a \in actions : d < a}, settled |-> d < today] \in Bar
  BY DEF TypeOK, Bar
<1>2. Served(asked, last) \in Rows
  BY <1>1 DEF Served, Rows
<1>3. RowDays(Served(asked, last)) = {d \in Day : d \in asked /\ d <= last /\ d <= today}
  BY <1>1, NoBarAssumption DEF Served, RowDays
<1>4. ASSUME NEW d \in RowDays(Served(asked, last))
      PROVE  Served(asked, last)[d] = [adj |-> {a \in actions : d < a}, settled |-> d < today]
  BY <1>3 DEF Served
<1>5. ASSUME NEW d \in RowDays(Served(asked, last))
      PROVE  /\ Served(asked, last)[d].adj = {a \in actions : d < a}
             /\ Served(asked, last)[d].settled <=> d < today
  <2> DEFINE bar == Served(asked, last)[d]
             A == {a \in actions : d < a}
             past == d < today
  <2>1. bar = [adj |-> A, settled |-> past]
    BY <1>4
  <2> HIDE DEF bar, A, past
  <2>2. bar.adj = A
    BY <2>1
  <2>3. bar.settled = past
    BY <2>1
  <2> QED BY <2>2, <2>3 DEF bar, A, past
<1> QED BY <1>2, <1>3, <1>5

LEMMA SettledRows ==
  ASSUME NEW rows \in Rows, NEW now \in Int
  PROVE  /\ Settled(rows, now) \in Rows
         /\ RowDays(Settled(rows, now)) = {d \in RowDays(rows) : d < now}
         /\ \A d \in Day : d < now => Settled(rows, now)[d] = rows[d]
BY DEF Settled, Rows, RowDays

LEMMA SavedRows ==
  ASSUME bars \in Rows, NEW rows \in Rows
  PROVE  /\ Saved(rows) \in Rows
         /\ \A d \in RowDays(rows) : Saved(rows)[d] = rows[d]
         /\ \A d \in Day \ RowDays(rows) : Saved(rows)[d] = bars[d]
BY DEF Saved, Rows, RowDays

\* The provider's answer to a job, as acquire keeps it.
Answer(j, last) == Settled(Served(j.start..j.now, last), j.now)

LEMMA AnswerRows ==
  ASSUME TypeOK, NEW j \in Job, j.at = "fetch", NEW last \in Int, j.now <= today
  PROVE  /\ Answer(j, last) \in Rows
         /\ RowDays(Answer(j, last)) = {d \in Day : j.start <= d /\ d < j.now /\ d <= last}
         /\ \A d \in RowDays(Answer(j, last)) :
              /\ Answer(j, last)[d].adj = {a \in actions : d < a}
              /\ Answer(j, last)[d].settled
<1> DEFINE served == Served(j.start..j.now, last)
<1>1. j.now \in Int /\ j.start \in Int /\ today \in Int
  BY JobFields, CalendarAssumption DEF TypeOK, Day
<1>2. served \in Rows /\ RowDays(served) = {d \in Day : d \in j.start..j.now /\ d <= last /\ d <= today}
  BY ServedRows
<1>3. \A d \in RowDays(served) :
        served[d].adj = {a \in actions : d < a} /\ (served[d].settled <=> d < today)
  BY ServedRows
<1> HIDE DEF served
<1>4. RowDays(Settled(served, j.now)) = {d \in Day : j.start <= d /\ d < j.now /\ d <= last}
  <2>1. RowDays(Settled(served, j.now)) = {d \in RowDays(served) : d < j.now}
    BY <1>1, <1>2, SettledRows
  <2>2. \A d \in Day : d < j.now => d <= today
    BY <1>1, DaysAreNaturals
  <2>3. \A d \in Day : d \in j.start..j.now /\ d < j.now <=> j.start <= d /\ d < j.now
    BY <1>1, DaysAreNaturals
  <2> QED BY <1>2, <2>1, <2>2, <2>3
<1>5. \A d \in RowDays(Settled(served, j.now)) : d \in RowDays(served) /\ d < j.now /\ d < today
  BY <1>1, <1>2, SettledRows, DaysAreNaturals DEF RowDays
<1>6. Settled(served, j.now) \in Rows
      /\ \A d \in RowDays(Settled(served, j.now)) : Settled(served, j.now)[d] = served[d]
  BY <1>1, <1>2, <1>5, SettledRows DEF RowDays
<1>7. Answer(j, last) = Settled(served, j.now)
  BY DEF Answer, served
<1> QED BY <1>3, <1>4, <1>5, <1>6, <1>7

\* What Fetch makes of it.
Fetched(w, last) ==
  LET now == job[w].now
      rows == Answer(job[w], last)
  IN  IF RowDays(rows) = {}
      THEN /\ checked' = now
           /\ job' = [job EXCEPT ![w] = Idle]
      ELSE /\ job' = [job EXCEPT ![w] =
                        [at |-> "save", now |-> now,
                         start |-> job[w].start, rows |-> rows]]
           /\ UNCHANGED checked

\* The plan of a probe: from the recorded start, from the day after the
\* recorded end, or ten years back where nothing is recorded.
LEMMA PlannedStart ==
  ASSUME NEW j \in Job, j.at = "probe", OnTime(j), NEW full \in BOOLEAN
  PROVE  /\ PlanStart(j, full) \in Day
         /\ j.from = NoDay => PlanStart(j, full) = BackfillStart(j.now)
         /\ j.from # NoDay /\ ~ full => PlanStart(j, full) = j.to + 1
         /\ j.from # NoDay /\ full =>
              /\ PlanStart(j, full) \in {j.from, BackfillStart(j.now)}
              /\ PlanStart(j, full) <= j.from /\ PlanStart(j, full) <= BackfillStart(j.now)
<1>1. /\ j.now \in FirstDay..MaxDay /\ j.from \in Date /\ j.to \in Date
      /\ j.from = NoDay <=> j.to = NoDay
      /\ j.to # NoDay => j.to < j.now
  BY JobFields DEF OnTime
<1>2. BackfillStart(j.now) \in Day
  BY <1>1, DaysAreNaturals
<1>3. CASE j.from = NoDay
  BY <1>1, <1>2, <1>3 DEF PlanStart
<1>4. CASE j.from # NoDay
  <2>1. j.from \in Day /\ j.to \in Day /\ j.to + 1 \in Day
    BY <1>1, <1>4, CalendarAssumption DEF Date, Day
  <2>2. CASE full
    BY <1>2, <1>4, <2>1, <2>2, EarlierOfTwo DEF PlanStart
  <2>3. CASE ~ full
    BY <1>1, <1>4, <2>1, <2>3 DEF PlanStart
  <2> QED BY <2>2, <2>3
<1> QED BY <1>3, <1>4

-----------------------------------------------------------------------------
(* Types, and the order of days.                                           *)

LEMMA BaseInit == Init => BaseInv
<1> SUFFICES ASSUME Init PROVE BaseInv
  OBVIOUS
<1>1. Idle \in Job /\ OnTime(Idle)
  BY DEF Job, Idle, OnTime
<1>2. job \in [Worker -> Job] /\ \A w \in Worker : OnTime(job[w])
  BY <1>1 DEF Init
<1>3. bars \in Rows /\ from \in Date
  BY DEF Init, Rows, Date
<1>4. today \in FirstDay..MaxDay /\ 0 \in 0..MaxFaults /\ 0 \in 0..MaxCrashes
  BY CalendarAssumption DEF Init
<1> QED BY <1>2, <1>3, <1>4 DEF Init, BaseInv, TypeOK, Timely

\* One job changes, into one of its type that knows no future; no covered day
\* is still to come.
LEMMA BaseJob ==
  ASSUME BaseInv, NEW w \in Worker, NEW j \in Job,
         job' = [job EXCEPT ![w] = j], OnTime(j), today' = today,
         actions' = actions, bars' \in Rows, from' \in Date, to' \in Date,
         from' = NoDay <=> to' = NoDay, to' # NoDay => to' < today,
         checked' \in Date, marked' \in BOOLEAN, deep' = deep,
         faults' \in 0..MaxFaults, crashes' = crashes
  PROVE  BaseInv'
<1>1. TypeOK'
  BY DEF BaseInv, TypeOK
<1>2. ASSUME NEW u \in Worker PROVE OnTime(job[u])'
  BY DEF BaseInv, TypeOK, Timely, OnTime, RowDays
<1> QED BY <1>1, <1>2 DEF BaseInv, Timely

LEMMA BaseStep == BaseInv /\ [Next]_vars => BaseInv'
<1> SUFFICES ASSUME BaseInv, [Next]_vars PROVE BaseInv'
  OBVIOUS
<1> USE CalendarAssumption
<1>0. /\ today \in FirstDay..MaxDay /\ bars \in Rows /\ marked \in BOOLEAN
      /\ from \in Date /\ to \in Date /\ checked \in Date
      /\ from = NoDay <=> to = NoDay
      /\ to # NoDay => to < today
      /\ faults \in 0..MaxFaults /\ job \in [Worker -> Job]
      /\ Idle \in Job /\ OnTime(Idle)
      /\ \A w \in Worker : job[w] \in Job /\ OnTime(job[w])
      /\ \A w \in Worker : job[w].at # "idle" => job[w].now \in FirstDay..MaxDay
      /\ \A w \in Worker : job[w].at # "idle" => job[w].now <= today
  BY JobFields DEF BaseInv, TypeOK, Timely, OnTime, Idle, Job
<1>1. ASSUME NEW w \in Worker, Start(w) PROVE BaseInv'
  <2> DEFINE j == [at |-> "probe", now |-> today, from |-> from, to |-> to]
  <2>1. j \in Job
    BY <1>0, JobRecords
  <2>2. OnTime(j)
    BY <1>0 DEF OnTime
  <2> HIDE DEF j
  <2>3. job' = [job EXCEPT ![w] = j]
    BY <1>1 DEF Start, j
  <2> QED BY <1>0, <1>1, <2>1, <2>2, <2>3, BaseJob DEF Start, state
<1>2. ASSUME NEW w \in Worker, Probe(w) PROVE BaseInv'
  <2> DEFINE j(full) ==
        [at |-> "fetch", now |-> job[w].now, start |-> PlanStart(job[w], full)]
  <2>1. PICK full \in BOOLEAN : job' = [job EXCEPT ![w] = j(full)]
    BY <1>2 DEF Probe
  <2>2. j(full) \in Job /\ OnTime(j(full))
    BY <1>0, <1>2, PlannedStart, JobRecords DEF Probe, OnTime, Idle
  <2>3. faults' = faults \/ (faults < MaxFaults /\ faults' = faults + 1)
    BY <1>2, Zenon DEF Probe
  <2>4. faults' \in 0..MaxFaults
    BY <1>0, <2>3
  <2> QED BY <1>0, <1>2, <2>1, <2>2, <2>4, BaseJob DEF Probe, state
<1>3. ASSUME NEW w \in Worker, Fetch(w) PROVE BaseInv'
  <2>1. PICK last \in {HistoryStart - 1} \cup (today - MaxLag)..today : Fetched(w, last)
    BY <1>3 DEF Fetch, Fetched, Answer
  <2> DEFINE rows == Answer(job[w], last)
  <2>2. last \in Int
    BY <1>0, <2>1
  <2>3. rows \in Rows /\ \A d \in RowDays(rows) : d < job[w].now
    BY <1>0, <1>3, <2>2, AnswerRows DEF Fetch, BaseInv
  <2>4. CASE RowDays(rows) = {}
    <3>1. job' = [job EXCEPT ![w] = Idle] /\ checked' = job[w].now
      BY <2>1, <2>4 DEF Fetched
    <3>2. checked' \in Date
      BY <1>0, <1>3, <3>1, DaysAreNaturals DEF Fetch, Date
    <3> QED BY <1>0, <1>3, <3>1, <3>2, BaseJob DEF Fetch
  <2>5. CASE RowDays(rows) # {}
    <3> DEFINE j == [at |-> "save", now |-> job[w].now, start |-> job[w].start, rows |-> rows]
    <3>1. job' = [job EXCEPT ![w] = j] /\ checked' = checked
      BY <2>1, <2>5 DEF Fetched
    <3>2. j \in Job
      BY <1>0, <1>3, <2>3, JobFields, JobRecords DEF Fetch
    <3>3. OnTime(j)
      BY <1>0, <1>3, <2>3, <2>5 DEF Fetch, OnTime
    <3> HIDE DEF j
    <3> QED BY <1>0, <1>3, <3>1, <3>2, <3>3, BaseJob DEF Fetch
  <2> QED BY <2>4, <2>5
<1>4. ASSUME NEW w \in Worker, FetchFails(w) PROVE BaseInv'
  <2>1. checked' \in Date
    BY <1>0, <1>4, DaysAreNaturals DEF FetchFails, Date
  <2>2. faults' \in 0..MaxFaults
    BY <1>0, <1>4 DEF FetchFails
  <2> QED BY <1>0, <1>4, <2>1, <2>2, BaseJob DEF FetchFails
<1>5. ASSUME NEW w \in Worker, Save(w) PROVE BaseInv'
  <2> DEFINE rows == job[w].rows
             j == [at |-> "record", now |-> job[w].now, start |-> job[w].start,
                   last |-> Max(RowDays(rows))]
  <2>1. rows \in Rows /\ job[w].start \in Day
    BY <1>0, <1>5, JobFields DEF Save
  <2>2. Max(RowDays(rows)) \in RowDays(rows)
    BY <1>0, <1>5, LastOfDays DEF Save, OnTime, RowDays
  <2>3. j \in Job
    BY <1>0, <1>5, <2>1, <2>2, JobRecords DEF Save, RowDays
  <2>4. OnTime(j)
    BY <1>0, <1>5, <2>2 DEF Save, OnTime
  <2>5. bars' \in Rows
    BY <1>0, <1>5, <2>1, SavedRows DEF Save
  <2>6. job' = [job EXCEPT ![w] = j]
    BY <1>5 DEF Save
  <2> HIDE DEF j
  <2> QED BY <1>0, <1>5, <2>3, <2>4, <2>5, <2>6, BaseJob DEF Save, state
<1>6. ASSUME NEW w \in Worker, Record(w) PROVE BaseInv'
  <2> DEFINE j == job[w]
  <2>0. j \in Job /\ j.at = "record" /\ j.now \in FirstDay..MaxDay /\ j.now <= today
    BY <1>0, <1>6 DEF Record
  <2>1. j.start \in Day /\ j.last \in Day /\ j.last < today
    <3>1. j.start \in Day /\ j.last \in Day
      BY <2>0, JobFields
    <3>2. j.last < j.now
      BY <1>0, <2>0 DEF OnTime
    <3>3. today \in Nat /\ j.now \in Nat /\ j.last \in Nat
      BY <1>0, <2>0, <3>1, DaysAreNaturals
    <3> HIDE DEF j
    <3> QED BY <2>0, <3>1, <3>2, <3>3
  <2>2. from' \in Day /\ to' \in Day /\ to' < today
    BY <1>0, <1>6, <2>1, EarlierOfTwo, LaterOfTwo DEF Record, Date
  <2>3. checked' \in Date
    BY <1>0, <1>6, DaysAreNaturals DEF Record, Date
  <2>4. from' \in Date /\ to' \in Date /\ (from' = NoDay <=> to' = NoDay) /\ to' < today'
    BY <1>6, <2>2, DaysAreNaturals DEF Date, Record
  <2> QED BY <1>0, <1>6, <2>3, <2>4, BaseJob DEF Record
<1>7. ASSUME NEW w \in Worker, DeepStart(w) PROVE BaseInv'
  <2> DEFINE end == IF StoredDays = {} THEN today + 1 ELSE Min(StoredDays)
             j == [at |-> "deep", now |-> today, end |-> end]
  <2>1. end \in Day \cup {MaxDay + 1}
    <3>1. CASE StoredDays = {}
      BY <1>0, <3>1 DEF Day
    <3>2. CASE StoredDays # {}
      <4>1. Min(StoredDays) \in Day
        BY <3>2, FirstOfDays DEF StoredDays
      <4> QED BY <3>2, <4>1
    <3> QED BY <3>1, <3>2
  <2>2. j \in Job /\ OnTime(j)
    <3> HIDE DEF end
    <3>1. j \in Job
      BY <1>0, <2>1, JobRecords
    <3>2. OnTime(j)
      BY <1>0 DEF OnTime
    <3> QED BY <3>1, <3>2
  <2>3. CASE end <= HistoryStart
    <3>1. marked' = TRUE /\ job' = job
      BY <1>7, <2>3 DEF DeepStart
    <3>2. job' = [job EXCEPT ![w] = Idle]
      BY <1>0, <1>7, <3>1 DEF DeepStart
    <3> QED BY <1>0, <1>7, <3>1, <3>2, BaseJob DEF DeepStart, state
  <2>4. CASE ~ (end <= HistoryStart)
    <3>1. job' = [job EXCEPT ![w] = j] /\ marked' = marked
      BY <1>7, <2>4 DEF DeepStart
    <3> HIDE DEF j
    <3> QED BY <1>0, <1>7, <2>2, <3>1, BaseJob DEF DeepStart, state
  <2> QED BY <2>3, <2>4
<1>8. ASSUME NEW w \in Worker, DeepFetch(w) PROVE BaseInv'
  <2> DEFINE rows == Served(HistoryStart..(job[w].end - 1), MaxDay)
             j == [at |-> "deepsave", now |-> job[w].now, rows |-> rows]
  <2>1. rows \in Rows
    BY ServedRows DEF BaseInv
  <2>2. j \in Job
    BY <1>0, <1>8, <2>1, JobRecords DEF DeepFetch
  <2>3. OnTime(j)
    BY <1>0, <1>8 DEF DeepFetch, OnTime
  <2>4. job' = [job EXCEPT ![w] = j]
    BY <1>8 DEF DeepFetch
  <2> HIDE DEF j
  <2> QED BY <1>0, <1>8, <2>2, <2>3, <2>4, BaseJob DEF DeepFetch, state
<1>9. ASSUME NEW w \in Worker, DeepFails(w) PROVE BaseInv'
  <2>1. faults' \in 0..MaxFaults
    BY <1>0, <1>9 DEF DeepFails
  <2> QED BY <1>0, <1>9, <2>1, BaseJob DEF DeepFails, state
<1>10. ASSUME NEW w \in Worker, DeepSave(w) PROVE BaseInv'
  <2> DEFINE j == [at |-> "deepmark", now |-> job[w].now]
  <2>1. bars' \in Rows
    BY <1>0, <1>10, JobFields, SavedRows DEF DeepSave
  <2>2. j \in Job
    BY <1>0, <1>10, JobRecords DEF DeepSave
  <2>3. OnTime(j)
    BY <1>0, <1>10 DEF DeepSave, OnTime
  <2>4. job' = [job EXCEPT ![w] = j]
    BY <1>10 DEF DeepSave
  <2> HIDE DEF j
  <2> QED BY <1>0, <1>10, <2>1, <2>2, <2>3, <2>4, BaseJob DEF DeepSave, state
<1>11. ASSUME NEW w \in Worker, DeepMark(w) PROVE BaseInv'
  BY <1>0, <1>11, BaseJob DEF DeepMark, state
<1>12. CASE Clean
  <2>1. bars' \in Rows /\ from' \in Date /\ to' \in Date /\ checked' \in Date
    BY <1>12 DEF Clean, Rows, Date
  <2>2. TypeOK'
    BY <1>12, <2>1 DEF Clean, BaseInv, TypeOK
  <2>3. Timely'
    BY <1>12 DEF Clean, BaseInv, Timely, OnTime, RowDays
  <2> QED BY <2>2, <2>3 DEF BaseInv
<1>13. CASE Act
  <2>1. actions' \subseteq Day
    BY <1>0, <1>13, DaysAreNaturals DEF Act, BaseInv, TypeOK
  <2>2. TypeOK'
    BY <1>13, <2>1 DEF Act, state, BaseInv, TypeOK
  <2>3. Timely'
    BY <1>13 DEF Act, state, BaseInv, Timely, OnTime, RowDays
  <2> QED BY <2>2, <2>3 DEF BaseInv
<1>14. CASE Tick
  <2>1. today' \in FirstDay..MaxDay /\ today' = today + 1
    BY <1>0, <1>14 DEF Tick
  <2>2. TypeOK'
    BY <1>14, <2>1 DEF Tick, state, BaseInv, TypeOK
  <2>3. to' # NoDay => to' < today'
    BY <1>0, <1>14, <2>1, DaysAreNaturals DEF Tick, state, Date
  <2>4. ASSUME NEW w \in Worker PROVE OnTime(job[w])'
    <3>1. job'[w] = job[w]
      BY <1>14 DEF Tick
    <3>2. job[w] # Idle => job[w].now <= today + 1
      BY <1>0, JobFields
    <3> QED BY <1>0, <2>1, <3>1, <3>2 DEF OnTime, RowDays
  <2> QED BY <2>2, <2>3, <2>4 DEF BaseInv, Timely
<1>15. CASE Crash
  <2>1. job' \in [Worker -> Job] /\ \A w \in Worker : job'[w] = Idle
    BY <1>0, <1>15 DEF Crash
  <2>2. crashes' \in 0..MaxCrashes
    BY <1>15 DEF Crash, BaseInv, TypeOK
  <2>3. TypeOK'
    BY <1>15, <2>1, <2>2 DEF Crash, state, BaseInv, TypeOK
  <2>4. Timely'
    BY <1>0, <1>15, <2>1 DEF Crash, state, BaseInv, Timely, OnTime, Idle
  <2> QED BY <2>3, <2>4 DEF BaseInv
<1>16. CASE UNCHANGED vars
  BY <1>16 DEF vars, BaseInv, TypeOK, Timely, OnTime, RowDays
<1> QED BY <1>1, <1>2, <1>3, <1>4, <1>5, <1>6, <1>7, <1>8, <1>9, <1>10, <1>11,
           <1>12, <1>13, <1>14, <1>15, <1>16 DEF Next

\* Every variable keeps its type, and so does what each thread remembers of
\* its job, whatever the threads, the provider and the calendar do.
THEOREM TypeCorrect == Spec => []TypeOK
<1>1. BaseInv => TypeOK
  BY DEF BaseInv
<1> QED BY <1>1, BaseInit, BaseStep, PTL DEF Spec

-----------------------------------------------------------------------------
(* Coverage is real.                                                       *)

\* Jobs end within a day of their beginning; one of the risk engine, on it.
IsDeep(j) == j.at \in {"deep", "deepsave", "deepmark"}

IsRecent(j) ==
  /\ j # Idle => j.now \in {today - 1, today}
  /\ IsDeep(j) => j.now = today

Recent == \A w \in Worker : IsRecent(job[w])

Covered(d) == bars[d] # NoBar /\ bars[d].settled

CoverageHeld ==
  from # NoDay =>
    /\ from <= to /\ from <= BackfillStart(today)
    /\ \A d \in from..to : Covered(d)

\* A job that fetches, or that will without having seen any coverage.
Fetches(j) == j.at \in {"fetch", "save", "record"} \/ (j.at = "probe" /\ j.from = NoDay)

Begins(j) == IF j.at = "probe" THEN BackfillStart(j.now) ELSE j.start

\* What it fetches will be joined to what is covered, from either side.
Joins(j) ==
  IF from = NoDay THEN Begins(j) = BackfillStart(j.now)
  ELSE Begins(j) <= to + 1 /\ from <= Begins(j) + 1

\* The coverage a probe goes by is still covered.
SeenIsCovered(j) ==
  /\ from # NoDay
  /\ from <= j.from /\ j.from <= j.to /\ j.to <= to
  /\ j.from <= BackfillStart(j.now)

\* Fetched bars are settled and follow one another from the day asked for.
RowsJoined(j) ==
  \A d \in RowDays(j.rows) :
    j.start <= d /\ \A e \in j.start..d : j.rows[e] # NoBar /\ j.rows[e].settled

JoinsUp(j) ==
  /\ Fetches(j) => Joins(j)
  /\ j.at = "probe" /\ j.from # NoDay => SeenIsCovered(j)
  /\ j.at = "save" => RowsJoined(j)
  /\ j.at = "record" => j.start <= j.last /\ \A d \in j.start..j.last : Covered(d)
  /\ j.at = "deepsave" =>
       \A d \in RowDays(j.rows) : j.rows[d].settled <=> d < j.now

JobsJoin == \A w \in Worker : JoinsUp(job[w])

CoverageInv == BaseInv /\ Recent /\ CoverageHeld /\ JobsJoin

\* A recorded range is only ever extended, short of a cleanup: Record takes the
\* earlier start and the later end, and nothing else writes them.
THEOREM CoverageOnlyGrows == Spec => CoverageGrows
<1>1. ASSUME BaseInv, [Next]_vars
      PROVE  [from # NoDay /\ from' # NoDay => from' <= from /\ to' >= to]_vars
  <2> SUFFICES ASSUME from # NoDay, from' # NoDay PROVE from' <= from /\ to' >= to
    OBVIOUS
  <2>1. from \in Day /\ to \in Day /\ Day \subseteq Nat
    BY <1>1, DaysAreNaturals DEF BaseInv, TypeOK, Date
  <2>2. CASE from' = from /\ to' = to
    BY <2>1, <2>2
  <2>3. ASSUME NEW w \in Worker, Record(w) PROVE from' <= from /\ to' >= to
    <3>1. job[w].start \in Day /\ job[w].last \in Day
      BY <1>1, <2>3, JobFields DEF Record, BaseInv, TypeOK
    <3>2. from' = Min({from, job[w].start}) /\ to' = Max({to, job[w].last})
      BY <1>1, <2>1, <2>3, DaysAreNaturals DEF Record
    <3> QED BY <2>1, <3>1, <3>2, EarlierOfTwo, LaterOfTwo
  <2>4. CASE Clean
    BY <2>4 DEF Clean
  <2>5. CASE UNCHANGED vars
    BY <2>2, <2>5 DEF vars
  <2> QED BY <1>1, <2>2, <2>3, <2>4, <2>5
          DEF Next, Start, Probe, Fetch, FetchFails, Save, DeepStart, DeepFetch, DeepFails,
              DeepSave, DeepMark, Act, Tick, Crash, state
<1> QED BY <1>1, BaseInit, BaseStep, PTL DEF Spec, CoverageGrows

LEMMA CoverageInit == Init => CoverageInv
<1> SUFFICES ASSUME Init PROVE CoverageInv
  OBVIOUS
<1>1. ASSUME NEW w \in Worker PROVE IsRecent(job[w]) /\ JoinsUp(job[w])
  BY DEF Init, IsRecent, IsDeep, JoinsUp, Fetches, Idle
<1> QED BY <1>1, BaseInit DEF Init, CoverageInv, Recent, CoverageHeld, JobsJoin

\* One job changes, the bars and the coverage do not.
LEMMA CoverageJob ==
  ASSUME CoverageInv, BaseInv', NEW w \in Worker, NEW j,
         job' = [job EXCEPT ![w] = j], IsRecent(j), JoinsUp(j),
         UNCHANGED <<today, bars, from, to>>
  PROVE  CoverageInv'
<1>1. CoverageHeld'
  BY DEF CoverageInv, CoverageHeld, Covered
<1>2. ASSUME NEW u \in Worker PROVE job'[u] \in {job[u], j}
  BY DEF CoverageInv, BaseInv, TypeOK
<1>3. ASSUME NEW u \in Worker PROVE IsRecent(job'[u]) /\ JoinsUp(job'[u])
  BY <1>2 DEF CoverageInv, Recent, JobsJoin
<1>4. ASSUME NEW u \in Worker PROVE IsRecent(job[u])' /\ JoinsUp(job[u])'
  BY <1>3 DEF IsRecent, JoinsUp, Joins, SeenIsCovered, RowsJoined, Covered, RowDays
<1> QED BY <1>1, <1>4 DEF CoverageInv, Recent, JobsJoin

\* One job has saved its rows; what was covered still is.
LEMMA CoverageSave ==
  ASSUME CoverageInv, BaseInv', NEW w \in Worker, NEW j,
         job' = [job EXCEPT ![w] = j], IsRecent(j), JoinsUp(j)',
         UNCHANGED <<today, from, to>>,
         \A d \in Day : d < today /\ Covered(d) => Covered(d)'
  PROVE  CoverageInv'
<1>0. /\ today \in Nat /\ from \in Date /\ to \in Date /\ Day \subseteq Nat
      /\ from = NoDay <=> to = NoDay
      /\ to # NoDay => to < today
      /\ \A u \in Worker : job[u] \in Job /\ OnTime(job[u])
  BY CalendarAssumption, DaysAreNaturals DEF CoverageInv, BaseInv, TypeOK, Timely
<1>1. CoverageHeld'
  <2> SUFFICES ASSUME from # NoDay
               PROVE  from <= to /\ from <= BackfillStart(today) /\ \A d \in from..to : Covered(d)'
    BY DEF CoverageHeld
  <2>1. from <= to /\ from <= BackfillStart(today) /\ \A d \in from..to : Covered(d)
    BY DEF CoverageInv, CoverageHeld
  <2>2. \A d \in from..to : d \in Day /\ d < today
    <3>1. from \in Day /\ to \in Day /\ to < today
      BY <1>0, DaysAreNaturals DEF Date
    <3> QED BY <1>0, <3>1, DaysBetween
  <2> QED BY <2>1, <2>2
<1>2. ASSUME NEW u \in Worker, u # w PROVE IsRecent(job[u])' /\ JoinsUp(job[u])'
  <2>1. job'[u] = job[u]
    BY <1>2 DEF CoverageInv, BaseInv, TypeOK
  <2>2. IsRecent(job[u]) /\ JoinsUp(job[u])
    BY DEF CoverageInv, Recent, JobsJoin
  <2>3. job[u].at = "record" => \A d \in job[u].start..job[u].last : Covered(d)'
    <3> SUFFICES ASSUME job[u].at = "record", NEW d \in job[u].start..job[u].last PROVE Covered(d)'
      OBVIOUS
    <3>1. job[u].start \in Day /\ job[u].last \in Day /\ job[u].last < job[u].now
      BY <1>0, JobFields DEF OnTime
    <3>2. job[u].now <= today /\ job[u].now \in Nat
      BY <1>0, JobFields, DaysAreNaturals DEF OnTime
    <3>3. d \in Day /\ d < today
      <4>1. job[u].start \in Nat /\ job[u].last \in Nat
        BY <1>0, <3>1
      <4>2. d \in Nat /\ d <= job[u].last
        BY <4>1
      <4>3. d \in Day
        BY <3>1, DaysBetween
      <4> QED BY <1>0, <3>1, <3>2, <4>1, <4>2, <4>3
    <3>4. Covered(d)
      BY <2>2 DEF JoinsUp
    <3> QED BY <3>3, <3>4
  <2> QED BY <2>1, <2>2, <2>3 DEF IsRecent, JoinsUp, Joins, SeenIsCovered, RowsJoined, RowDays
<1>3. job'[w] = j
  BY DEF CoverageInv, BaseInv, TypeOK
<1>4. IsRecent(job[w])' /\ JoinsUp(job[w])'
  BY <1>3 DEF IsRecent
<1>5. \A u \in Worker : IsRecent(job[u])' /\ JoinsUp(job[u])'
  BY <1>2, <1>4
<1> QED BY <1>1, <1>5 DEF CoverageInv, Recent, JobsJoin

LEMMA CoverageStep ==
  ASSUME CleanOverlaps = FALSE, "deep" \notin Straddle, CoverageInv, [Next]_vars
  PROVE  CoverageInv'
<1>0. BaseInv /\ BaseInv'
  BY BaseStep DEF CoverageInv
<1>1. /\ today \in FirstDay..MaxDay /\ today \in Nat /\ Day \subseteq Nat
      /\ from \in Date /\ to \in Date /\ bars \in Rows
      /\ from = NoDay <=> to = NoDay
      /\ to # NoDay => to < today
      /\ \A w \in Worker : job[w] \in Job /\ OnTime(job[w])
      /\ \A w \in Worker : IsRecent(job[w]) /\ JoinsUp(job[w])
      /\ \A w \in Worker : job[w].at # "idle" =>
           job[w] # Idle /\ job[w].now \in Nat /\ job[w].now <= today
      /\ IsRecent(Idle) /\ JoinsUp(Idle)
  BY <1>0, CalendarAssumption, DaysAreNaturals, JobFields
     DEF CoverageInv, BaseInv, TypeOK, Timely, Recent, JobsJoin, OnTime,
         IsRecent, IsDeep, JoinsUp, Fetches, Idle
<1>2. ASSUME NEW w \in Worker, Start(w) PROVE CoverageInv'
  <2> DEFINE j == [at |-> "probe", now |-> today, from |-> from, to |-> to]
  <2>1. IsRecent(j)
    BY DEF IsRecent, IsDeep
  <2>2. CASE from = NoDay
    <3>1. JoinsUp(j)
      BY <2>2 DEF JoinsUp, Joins, Fetches, Begins
    <3>2. job' = [job EXCEPT ![w] = j]
      BY <1>2 DEF Start
    <3> HIDE DEF j
    <3> QED BY <1>0, <1>2, <2>1, <3>1, <3>2, CoverageJob DEF Start, state
  <2>3. CASE from # NoDay
    <3>1. from <= to /\ from <= BackfillStart(today) /\ from \in Nat /\ to \in Nat
      BY <1>1, <2>3 DEF CoverageInv, CoverageHeld, Date
    <3>2. JoinsUp(j)
      BY <2>3, <3>1 DEF JoinsUp, SeenIsCovered, Fetches
    <3>3. job' = [job EXCEPT ![w] = j]
      BY <1>2 DEF Start
    <3> HIDE DEF j
    <3> QED BY <1>0, <1>2, <2>1, <3>2, <3>3, CoverageJob DEF Start, state
  <2> QED BY <2>2, <2>3
<1>3. ASSUME NEW w \in Worker, Probe(w) PROVE CoverageInv'
  <2> DEFINE p == job[w]
             j(full) == [at |-> "fetch", now |-> p.now, start |-> PlanStart(p, full)]
  <2>1. PICK full \in BOOLEAN : job' = [job EXCEPT ![w] = j(full)]
    BY <1>3 DEF Probe
  <2>2. /\ p \in Job /\ p.at = "probe" /\ OnTime(p) /\ IsRecent(p) /\ JoinsUp(p) /\ p # Idle
        /\ p.from \in Date /\ p.to \in Date /\ p.now \in FirstDay..MaxDay
        /\ p.from = NoDay <=> p.to = NoDay
    BY <1>1, <1>3, JobFields DEF Probe, OnTime
  <2> DEFINE s == PlanStart(p, full)
  <2>3. ASSUME p.from = NoDay PROVE Joins(j(full))
    <3>1. s = BackfillStart(p.now) /\ s = Begins(p)
      BY <2>2, <2>3, PlannedStart DEF Begins
    <3>2. Joins(p)
      BY <2>2, <2>3 DEF JoinsUp, Fetches
    <3> HIDE DEF s, p
    <3>3. Joins(j(full))
      BY <3>1, <3>2 DEF Joins, Begins, s
    <3> QED BY <3>3
  <2>4. ASSUME p.from # NoDay PROVE Joins(j(full))
    <3>1. SeenIsCovered(p)
      BY <2>2, <2>4 DEF JoinsUp
    <3>2. /\ from \in Nat /\ to \in Nat /\ p.from \in Nat /\ p.to \in Nat
          /\ BackfillStart(p.now) \in Nat
      BY <1>1, <2>2, <2>4, <3>1, DaysAreNaturals DEF SeenIsCovered, Date
    <3>3. s = p.to + 1 \/ s = p.from
      <4>1. s \in Day /\ (~ full => s = p.to + 1)
        BY <2>2, <2>4, PlannedStart
      <4>2. full => s \in {p.from, BackfillStart(p.now)} /\ s <= p.from /\ s <= BackfillStart(p.now)
        BY <2>2, <2>4, PlannedStart
      <4>3. p.from <= BackfillStart(p.now)
        BY <3>1 DEF SeenIsCovered
      <4> HIDE DEF s, p
      <4>4. full => s = p.from
        BY <3>2, <4>2, <4>3
      <4> QED BY <4>1, <4>4
    <3>4. from # NoDay /\ from <= p.from /\ p.from <= p.to /\ p.to <= to
      BY <3>1 DEF SeenIsCovered
    <3> HIDE DEF s, p
    <3>5. from <= s + 1 /\ s <= to + 1
      BY <3>2, <3>3, <3>4
    <3> QED BY <3>4, <3>5 DEF Joins, Begins, s
  <2>5. Joins(j(full))
    BY <2>3, <2>4
  <2>6. IsRecent(j(full))
    BY <2>2 DEF IsRecent, IsDeep
  <2> HIDE DEF p
  <2>7. JoinsUp(j(full))
    BY <2>5 DEF JoinsUp
  <2> HIDE DEF j
  <2> QED BY <1>0, <1>3, <2>1, <2>6, <2>7, CoverageJob DEF Probe, state
<1>4. ASSUME NEW w \in Worker, Fetch(w) PROVE CoverageInv'
  <2> DEFINE f == job[w]
  <2>1. /\ f \in Job /\ f.at = "fetch" /\ IsRecent(f) /\ JoinsUp(f) /\ f # Idle
        /\ f.start \in Nat /\ f.now \in Nat /\ f.now <= today
    BY <1>1, <1>4, JobFields DEF Fetch
  <2>2. PICK last \in {HistoryStart - 1} \cup (today - MaxLag)..today : Fetched(w, last)
    BY <1>4 DEF Fetch, Fetched, Answer
  <2> DEFINE rows == Answer(f, last)
             j == [at |-> "save", now |-> f.now, start |-> f.start, rows |-> rows]
  <2>3. CASE RowDays(rows) = {}
    <3>1. job' = [job EXCEPT ![w] = Idle]
      BY <2>2, <2>3 DEF Fetched
    <3> QED BY <1>0, <1>1, <1>4, <3>1, CoverageJob DEF Fetch
  <2>4. CASE RowDays(rows) # {}
    <3>1. job' = [job EXCEPT ![w] = j]
      BY <2>2, <2>4 DEF Fetched
    <3>2. RowsJoined(j)
      <4>1. last \in Int
        BY <2>2, CalendarAssumption
      <4>2. /\ RowDays(rows) = {d \in Day : f.start <= d /\ d < f.now /\ d <= last}
            /\ \A d \in RowDays(rows) : rows[d].settled
        BY <1>0, <2>1, <4>1, AnswerRows DEF BaseInv
      <4> HIDE DEF rows, f
      <4> SUFFICES ASSUME NEW d \in RowDays(rows)
                   PROVE  f.start <= d /\ \A e \in f.start..d : rows[e] # NoBar /\ rows[e].settled
        BY DEF RowsJoined
      <4>3. d \in Day /\ d \in Nat /\ f.start <= d /\ d < f.now /\ d <= last
        BY <1>1, <4>2
      <4>4. ASSUME NEW e \in f.start..d PROVE e \in RowDays(rows)
        <5>1. e \in Int /\ f.start <= e /\ e <= d
          BY <2>1, <4>3
        <5>2. f.start \in Day
          BY <2>1, JobFields DEF f
        <5>3. e \in Day
          BY <4>3, <5>2, DaysBetween
        <5> QED BY <1>1, <2>1, <4>1, <4>2, <4>3, <5>1, <5>3
      <4>5. \A e \in RowDays(rows) : rows[e] # NoBar
        BY DEF RowDays
      <4> QED BY <4>2, <4>3, <4>4, <4>5
    <3>3. IsRecent(j)
      BY <2>1 DEF IsRecent, IsDeep
    <3>4. Joins(j)
      BY <2>1 DEF JoinsUp, Fetches, Joins, Begins
    <3>5. JoinsUp(j)
      BY <3>2, <3>4 DEF JoinsUp
    <3> HIDE DEF j
    <3> QED BY <1>0, <1>4, <3>1, <3>3, <3>5, CoverageJob DEF Fetch
  <2> QED BY <2>3, <2>4
<1>5. ASSUME NEW w \in Worker, FetchFails(w) PROVE CoverageInv'
  BY <1>0, <1>1, <1>5, CoverageJob DEF FetchFails
<1>6. ASSUME NEW w \in Worker, Save(w) PROVE CoverageInv'
  <2> DEFINE v == job[w]
             last == Max(RowDays(v.rows))
  <2>1. /\ v \in Job /\ v.at = "save" /\ OnTime(v) /\ IsRecent(v) /\ JoinsUp(v) /\ v # Idle
        /\ v.start \in Day /\ v.rows \in Rows
    BY <1>1, <1>6, JobFields DEF Save
  <2>2. PICK j : /\ j = [at |-> "record", now |-> v.now, start |-> v.start, last |-> last]
                 /\ bars' = Saved(v.rows) /\ job' = [job EXCEPT ![w] = j]
    BY <1>6 DEF Save
  <2>3. RowsJoined(v)
    BY <2>1 DEF JoinsUp
  <2>4. \A d \in RowDays(v.rows) : Covered(d)'
    <3> SUFFICES ASSUME NEW d \in RowDays(v.rows) PROVE Covered(d)'
      OBVIOUS
    <3>0. d \in Day /\ v.start <= d
      BY <2>3 DEF RowsJoined, RowDays
    <3>1. d \in v.start..d
      <4>1. d \in Nat /\ v.start \in Nat
        BY <1>1, <2>1, <3>0
      <4> HIDE DEF v
      <4> QED BY <3>0, <4>1
    <3>2. v.rows[d] # NoBar /\ v.rows[d].settled
      BY <2>3, <3>1 DEF RowsJoined
    <3>3. bars'[d] = v.rows[d]
      BY <1>1, <2>1, <2>2, <3>0, SavedRows
    <3> QED BY <3>2, <3>3 DEF Covered
  <2>5. \A d \in Day : Covered(d) => Covered(d)'
    <3> SUFFICES ASSUME NEW d \in Day, Covered(d), d \notin RowDays(v.rows) PROVE Covered(d)'
      BY <2>4
    <3>1. bars'[d] = bars[d]
      BY <1>1, <2>1, <2>2, SavedRows
    <3> QED BY <3>1 DEF Covered
  <2>6. last \in RowDays(v.rows)
    BY <2>1, LastOfDays DEF OnTime, RowDays
  <2>7. v.start <= last /\ \A d \in v.start..last : d \in RowDays(v.rows)
    <3>1. \A d \in v.start..last : d \in Day
      BY <2>1, <2>6, DaysBetween DEF RowDays
    <3>2. v.start <= last /\ \A d \in v.start..last : v.rows[d] # NoBar
      BY <2>3, <2>6 DEF RowsJoined
    <3> QED BY <3>1, <3>2 DEF RowDays
  <2>8. IsRecent(j)
    BY <2>1, <2>2 DEF IsRecent, IsDeep
  <2>9. Joins(v)
    BY <2>1 DEF JoinsUp, Fetches
  <2>10. from' = from /\ to' = to /\ today' = today
    BY <1>6 DEF Save, state
  <2> HIDE DEF v, last
  <2>11. Joins(j)'
    BY <2>1, <2>2, <2>9, <2>10 DEF Joins, Begins
  <2>12. JoinsUp(j)'
    BY <2>2, <2>4, <2>7, <2>11 DEF JoinsUp, Fetches
  <2> QED BY <1>0, <2>2, <2>5, <2>8, <2>10, <2>12, CoverageSave
<1>7. ASSUME NEW w \in Worker, Record(w) PROVE CoverageInv'
  <2> DEFINE r == job[w]
             s == r.start
             l == r.last
  <2>1. /\ r.at = "record" /\ OnTime(r) /\ IsRecent(r) /\ JoinsUp(r) /\ r # Idle
        /\ s \in Day /\ l \in Day /\ r.now \in Nat /\ l < r.now /\ r.now <= today
        /\ s \in Nat /\ l \in Nat
    BY <1>1, <1>7, JobFields DEF Record, OnTime
  <2>2. /\ from = NoDay => from' = s /\ to' = l
        /\ from # NoDay => from' = Min({from, s}) /\ to' = Max({to, l})
        /\ job' = [job EXCEPT ![w] = Idle] /\ bars' = bars /\ today' = today
    BY <1>1, <1>7 DEF Record
  <2>3. s <= l /\ \A d \in s..l : Covered(d)
    BY <2>1 DEF JoinsUp
  <2>4. IF from = NoDay THEN s = BackfillStart(r.now) ELSE s <= to + 1 /\ from <= s + 1
    BY <2>1 DEF JoinsUp, Fetches, Joins, Begins
  <2>5. from # NoDay => /\ from \in Day /\ to \in Day /\ from \in Nat /\ to \in Nat
                        /\ from <= to /\ from <= BackfillStart(today)
                        /\ \A d \in from..to : Covered(d)
    BY <1>1 DEF Date, CoverageInv, CoverageHeld
  <2> HIDE DEF r, s, l
  <2>6. from # NoDay => /\ from' \in {from, s} /\ from' <= from /\ from' <= s
                        /\ to' \in {to, l} /\ to <= to' /\ l <= to'
    BY <2>1, <2>2, <2>5, EarlierOfTwo, LaterOfTwo
  <2>7. from' # NoDay /\ from' \in Nat /\ to' \in Nat
    BY <1>1, <2>1, <2>2, <2>5, <2>6, DaysAreNaturals
  <2>8. from' <= to' /\ from' <= BackfillStart(today)
    BY <1>1, <2>1, <2>2, <2>3, <2>4, <2>5, <2>6, CalendarAssumption DEF BackfillStart
  <2>9. ASSUME NEW d \in from'..to' PROVE Covered(d)
    <3>1. d \in s..l \/ (from # NoDay /\ d \in from..to)
      BY <2>1, <2>2, <2>3, <2>4, <2>5, <2>6, <2>7
    <3> QED BY <2>3, <2>5, <3>1
  <2>10. CoverageHeld'
    BY <2>2, <2>7, <2>8, <2>9 DEF CoverageHeld, Covered
  <2>11. ASSUME NEW u \in Worker PROVE IsRecent(job[u])' /\ JoinsUp(job[u])'
    <3>0. PICK j : j = job'[u]
      OBVIOUS
    <3>1. j = Idle \/ (j = job[u] /\ job[u] # Idle)
      BY <1>1, <2>2, <3>0 DEF CoverageInv, BaseInv, TypeOK
    <3>2. CASE j = Idle
      BY <1>1, <2>2, <3>0, <3>2 DEF IsRecent, IsDeep, JoinsUp, Fetches, Idle
    <3>3. CASE j = job[u] /\ job[u] # Idle
      <4>1. j \in Job /\ IsRecent(j) /\ JoinsUp(j)
        BY <1>1, <3>3
      <4>2. j.at # "idle" /\ j.now \in FirstDay..MaxDay /\ j.now \in {today - 1, today}
        BY <3>3, <4>1, JobFields DEF IsRecent
      <4>3. Fetches(j) => Joins(j)'
        <5> SUFFICES ASSUME Fetches(j)
                     PROVE  Begins(j) <= to' + 1 /\ from' <= Begins(j) + 1
          BY <2>7 DEF Joins
        <5>1. Joins(j)
          BY <4>1 DEF JoinsUp
        <5>2. CASE from = NoDay
          <6>1. Begins(j) = j.now - BackfillDays /\ s = r.now - BackfillDays
            BY <2>4, <5>1, <5>2 DEF Joins, BackfillStart
          <6>2. r.now \in {today - 1, today}
            BY <2>1 DEF IsRecent
          <6> QED BY <1>1, <2>1, <2>2, <2>3, <4>2, <5>2, <6>1, <6>2, CalendarAssumption
        <5>3. CASE from # NoDay
          <6>1. Begins(j) <= to + 1 /\ from <= Begins(j) + 1
            BY <5>1, <5>3 DEF Joins
          <6>2. Begins(j) \in Nat
            <7>1. CASE j.at = "probe"
              <8>1. Begins(j) = BackfillStart(j.now)
                BY <7>1 DEF Begins
              <8>2. BackfillStart(j.now) \in Day
                BY <4>2, DaysAreNaturals
              <8> QED BY <8>1, <8>2, DaysAreNaturals
            <7>2. CASE j.at # "probe"
              <8>1. Begins(j) = j.start
                BY <7>2 DEF Begins
              <8>2. j.start \in Day
                BY <4>1, <7>2, JobFields DEF Fetches
              <8> QED BY <8>1, <8>2, DaysAreNaturals
            <7> QED BY <7>1, <7>2
          <6> QED BY <2>5, <2>6, <2>7, <5>3, <6>1, <6>2
        <5> QED BY <5>2, <5>3
      <4>4. j.at = "probe" /\ j.from # NoDay => SeenIsCovered(j)'
        <5> SUFFICES ASSUME j.at = "probe", j.from # NoDay PROVE SeenIsCovered(j)'
          OBVIOUS
        <5>1. SeenIsCovered(j) /\ j.from \in Date /\ j.to \in Date
          BY <4>1, JobFields DEF JoinsUp
        <5>2. /\ from # NoDay /\ from <= j.from /\ j.from <= j.to /\ j.to <= to
              /\ j.from <= BackfillStart(j.now)
          BY <5>1 DEF SeenIsCovered
        <5>3. j.from \in Nat
          BY <1>1, <5>1 DEF Date
        <5>4. j.to \in Nat
          BY <1>1, <3>3, <5>1 DEF Date, OnTime
        <5>5. from' <= j.from /\ j.to <= to'
          BY <2>5, <2>6, <2>7, <5>2, <5>3, <5>4
        <5> QED BY <2>7, <5>2, <5>5 DEF SeenIsCovered
      <4>5. IsRecent(j)'
        BY <2>2, <4>1 DEF IsRecent
      <4>6. JoinsUp(j)'
        BY <2>2, <4>1, <4>3, <4>4 DEF JoinsUp, RowsJoined, Covered, RowDays
      <4> QED BY <3>0, <4>5, <4>6
    <3> QED BY <3>1, <3>2, <3>3
  <2> QED BY <1>0, <2>10, <2>11 DEF CoverageInv, Recent, JobsJoin
<1>8. ASSUME NEW w \in Worker, DeepStart(w) PROVE CoverageInv'
  <2> DEFINE end == IF StoredDays = {} THEN today + 1 ELSE Min(StoredDays)
             j == [at |-> "deep", now |-> today, end |-> end]
  <2>1. IsRecent(j) /\ JoinsUp(j)
    <3> HIDE DEF end
    <3> QED BY DEF IsRecent, IsDeep, JoinsUp, Fetches
  <2>2. job' = [job EXCEPT ![w] = j] \/ job' = [job EXCEPT ![w] = Idle]
    <3>1. CASE end <= HistoryStart
      BY <1>8, <3>1 DEF DeepStart, CoverageInv, BaseInv, TypeOK
    <3>2. CASE ~ (end <= HistoryStart)
      BY <1>8, <3>2 DEF DeepStart
    <3> QED BY <3>1, <3>2
  <2> HIDE DEF j
  <2> QED BY <1>0, <1>1, <1>8, <2>1, <2>2, CoverageJob DEF DeepStart, state
<1>9. ASSUME NEW w \in Worker, DeepFetch(w) PROVE CoverageInv'
  <2> DEFINE rows == Served(HistoryStart..(job[w].end - 1), MaxDay)
             j == [at |-> "deepsave", now |-> job[w].now, rows |-> rows]
  <2>1. job[w].now = today
    BY <1>1, <1>9 DEF DeepFetch, IsRecent, IsDeep
  <2>2. \A d \in RowDays(rows) : rows[d].settled <=> d < today
    BY <1>0, CalendarAssumption, ServedRows DEF BaseInv
  <2>3. IsRecent(j)
    BY <2>1 DEF IsRecent, IsDeep
  <2>4. JoinsUp(j)
    <3> HIDE DEF rows
    <3> QED BY <2>1, <2>2 DEF JoinsUp, Fetches
  <2>5. job' = [job EXCEPT ![w] = j]
    BY <1>9 DEF DeepFetch
  <2> HIDE DEF j
  <2> QED BY <1>0, <1>9, <2>3, <2>4, <2>5, CoverageJob DEF DeepFetch, state
<1>10. ASSUME NEW w \in Worker, DeepFails(w) PROVE CoverageInv'
  BY <1>0, <1>1, <1>10, CoverageJob DEF DeepFails, state
<1>11. ASSUME NEW w \in Worker, DeepSave(w) PROVE CoverageInv'
  <2> DEFINE v == job[w]
  <2>1. v.now = today /\ v.rows \in Rows /\ \A d \in RowDays(v.rows) : v.rows[d].settled <=> d < today
    BY <1>1, <1>11, JobFields DEF DeepSave, IsRecent, IsDeep, JoinsUp
  <2>2. PICK j : /\ j = [at |-> "deepmark", now |-> v.now]
                 /\ bars' = Saved(v.rows) /\ job' = [job EXCEPT ![w] = j]
    BY <1>11 DEF DeepSave
  <2>3. IsRecent(j) /\ JoinsUp(j)'
    <3> HIDE DEF v
    <3> QED BY <2>1, <2>2 DEF IsRecent, IsDeep, JoinsUp, Fetches
  <2>4. ASSUME NEW d \in Day, d < today, Covered(d) PROVE Covered(d)'
    <3>1. CASE d \in RowDays(v.rows)
      <4>1. bars'[d] = v.rows[d] /\ v.rows[d] # NoBar
        BY <1>1, <2>1, <2>2, <3>1, SavedRows DEF RowDays
      <4>2. v.rows[d].settled
        BY <2>1, <2>4, <3>1
      <4> QED BY <4>1, <4>2 DEF Covered
    <3>2. CASE d \notin RowDays(v.rows)
      <4>1. bars'[d] = bars[d]
        BY <1>1, <2>1, <2>2, <3>2, SavedRows
      <4> QED BY <2>4, <4>1 DEF Covered
    <3> QED BY <3>1, <3>2
  <2>5. UNCHANGED <<today, from, to>>
    BY <1>11 DEF DeepSave, state
  <2> QED BY <1>0, <2>2, <2>3, <2>4, <2>5, CoverageSave
<1>12. ASSUME NEW w \in Worker, DeepMark(w) PROVE CoverageInv'
  BY <1>0, <1>1, <1>12, CoverageJob DEF DeepMark, state
<1>13. CASE Clean
  <2>1. ASSUME NEW w \in Worker PROVE job'[w] = Idle
    BY <1>13 DEF Clean
  <2>2. from' = NoDay /\ today' = today
    BY <1>13 DEF Clean
  <2>3. ASSUME NEW w \in Worker PROVE IsRecent(job[w])' /\ JoinsUp(job[w])'
    BY <2>1 DEF IsRecent, IsDeep, JoinsUp, Fetches, Idle
  <2> QED BY <1>0, <2>2, <2>3 DEF CoverageInv, CoverageHeld, Recent, JobsJoin
<1>14. CASE Act
  <2>1. UNCHANGED <<today, bars, from, to, job>>
    BY <1>14 DEF Act, state
  <2> QED BY <1>0, <2>1 DEF CoverageInv, CoverageHeld, Recent, JobsJoin, IsRecent, IsDeep,
                           JoinsUp, Fetches, Joins, Begins, SeenIsCovered, RowsJoined, RowDays, Covered
<1>15. CASE Tick
  <2>1. UNCHANGED <<bars, from, to, job>> /\ today' = today + 1
    BY <1>15 DEF Tick, state
  <2>2. CoverageHeld'
    <3> SUFFICES ASSUME from # NoDay
                 PROVE  from <= to /\ from <= BackfillStart(today + 1) /\ \A d \in from..to : Covered(d)
      BY <2>1 DEF CoverageHeld, Covered
    <3>1. from <= to /\ from <= BackfillStart(today) /\ \A d \in from..to : Covered(d)
      BY DEF CoverageInv, CoverageHeld
    <3>2. from \in Nat
      BY <1>1 DEF Date
    <3> QED BY <1>1, <3>1, <3>2, CalendarAssumption DEF BackfillStart
  <2>3. ASSUME NEW w \in Worker PROVE IsRecent(job[w])'
    <3>1. job[w] # Idle => job[w].now = today /\ Kind(w) \in Straddle
      BY <1>15 DEF Tick
    <3>2. job[w] # Idle => ~ IsDeep(job[w])
      BY <3>1 DEF Kind, IsDeep
    <3>3. ~ IsDeep(Idle)
      BY DEF Idle, IsDeep
    <3>4. ~ IsDeep(job[w])
      BY <3>2, <3>3
    <3> QED BY <1>1, <2>1, <3>1, <3>4 DEF IsRecent, IsDeep
  <2>4. ASSUME NEW w \in Worker PROVE JoinsUp(job[w])'
    BY <1>1, <2>1 DEF JoinsUp, Fetches, Joins, Begins, SeenIsCovered, RowsJoined, RowDays, Covered
  <2> QED BY <1>0, <2>2, <2>3, <2>4 DEF CoverageInv, Recent, JobsJoin
<1>16. CASE Crash
  <2>1. UNCHANGED <<today, bars, from, to>> /\ \A w \in Worker : job'[w] = Idle
    BY <1>16 DEF Crash, state
  <2>2. CoverageHeld'
    BY <2>1 DEF CoverageInv, CoverageHeld, Covered
  <2>3. ASSUME NEW w \in Worker PROVE IsRecent(job[w])' /\ JoinsUp(job[w])'
    BY <2>1 DEF IsRecent, IsDeep, JoinsUp, Fetches, Idle
  <2> QED BY <1>0, <2>2, <2>3 DEF CoverageInv, Recent, JobsJoin
<1>17. CASE UNCHANGED vars
  <2>1. UNCHANGED <<today, bars, from, to, job>>
    BY <1>17 DEF vars
  <2> QED BY <1>0, <2>1 DEF CoverageInv, CoverageHeld, Recent, JobsJoin, IsRecent, IsDeep,
                           JoinsUp, Fetches, Joins, Begins, SeenIsCovered, RowsJoined, RowDays, Covered
<1> QED BY <1>2, <1>3, <1>4, <1>5, <1>6, <1>7, <1>8, <1>9, <1>10, <1>11, <1>12,
           <1>13, <1>14, <1>15, <1>16, <1>17 DEF Next

\* Every covered day has its settled bar, as long as no cleanup runs during an
\* acquisition and no deep fetch lasts over midnight: a job's rows follow one
\* another from its start, and its start is joined to what the others have
\* covered by then, however they interleave, lag, fail or die (acquire).
THEOREM CoverageExists ==
  ASSUME CleanOverlaps = FALSE, "deep" \notin Straddle
  PROVE  Spec => []CoverageIsReal
<1>1. CoverageInv /\ [Next]_vars => CoverageInv'
  BY CoverageStep
<1>2. CoverageInv => CoverageIsReal
  BY DEF CoverageInv, CoverageHeld, CoverageIsReal, Covered
<1> QED BY <1>1, <1>2, CoverageInit, PTL DEF Spec

-----------------------------------------------------------------------------
(* Deep history meets the acquired bars.                                   *)

\* An answer that has bars has one at most so many days old.
Lag == IF MaxLag = 0 THEN 1 ELSE MaxLag

\* No two acquisitions are as many days apart as one looks back: ten years.
Horizon == BackfillStart(MaxDay) <= FirstDay - Lag + 1

WithoutHole == \A d, e \in StoredDays : d..e \subseteq StoredDays

\* Stored bars reach back as far as any plan and on to the days of the model.
StoredReach ==
  StoredDays # {} =>
    /\ \E d \in StoredDays : d <= BackfillStart(today)
    /\ \E d \in StoredDays : d >= FirstDay - Lag

\* A deep fetch up to `end` leaves no gap before the stored bars.
Meets(end) ==
  /\ HistoryStart < end
  /\ \/ end = today + 1
     \/ end <= today /\ end \in StoredDays

DeepJoins(j) ==
  /\ j.at = "deep" => Meets(j.end)
  /\ j.at = "deepsave" =>
       \E e \in Day \cup {MaxDay + 1} :
         Meets(e) /\ RowDays(j.rows) = HistoryStart..(e - 1)
  /\ j.at = "deepmark" => HistoryStart \in StoredDays
  /\ j.at = "save" => \E d \in RowDays(j.rows) : d >= FirstDay - Lag

DeepInv ==
  /\ CoverageInv /\ WithoutHole /\ StoredReach
  /\ \A w \in Worker : DeepJoins(job[w])
  /\ marked => HistoryStart \in StoredDays

LEMMA LagFacts == Lag \in Nat /\ Lag >= 1 /\ Lag >= MaxLag
BY CalendarAssumption DEF Lag

\* Two ranges that overlap or touch make one.
LEMMA TouchingRanges ==
  ASSUME NEW A \in SUBSET Day, \A d, e \in A : d..e \subseteq A,
         NEW R \in SUBSET Day, \A d, e \in R : d..e \subseteq R,
         NEW a \in A, NEW r \in R, a <= r + 1, r <= a + 1
  PROVE  \A d, e \in A \cup R : d..e \subseteq A \cup R
<1> SUFFICES ASSUME NEW d \in A \cup R, NEW e \in A \cup R, NEW x \in d..e
             PROVE  x \in A \cup R
  OBVIOUS
<1>1. a \in Nat /\ r \in Nat /\ d \in Nat /\ e \in Nat
  BY DaysAreNaturals
<1>2. x \in Nat /\ d <= x /\ x <= e
  BY <1>1
<1>3. CASE d \in A /\ e \in A
  BY <1>3
<1>4. CASE d \in R /\ e \in R
  BY <1>4
<1>5. CASE d \in A /\ e \in R
  <2>1. x \in d..a \/ x \in r..e
    BY <1>1, <1>2
  <2> QED BY <1>5, <2>1
<1>6. CASE d \in R /\ e \in A
  <2>1. x \in d..r \/ x \in a..e
    BY <1>1, <1>2
  <2> QED BY <1>6, <2>1
<1> QED BY <1>3, <1>4, <1>5, <1>6

\* A day just past neither end of a range has a neighbour in it.
LEMMA Neighbour ==
  ASSUME NEW A \in SUBSET Day, \A d, e \in A : d..e \subseteq A, NEW s \in Day,
         NEW a \in A, a <= s + 1, NEW b \in A, s <= b + 1
  PROVE  \E c \in A : c <= s + 1 /\ s <= c + 1
<1>1. a \in Nat /\ b \in Nat /\ s \in Nat
  BY DaysAreNaturals
<1>2. CASE s <= a
  BY <1>1, <1>2
<1>3. CASE b <= s
  BY <1>1, <1>3
<1>4. CASE a <= s /\ s <= b
  <2>1. s \in a..b
    BY <1>1, <1>4
  <2> QED BY <1>1, <2>1
<1> QED BY <1>1, <1>2, <1>3, <1>4

LEMMA StoredAfterSave ==
  ASSUME bars \in Rows, NEW rows \in Rows, bars' = Saved(rows)
  PROVE  StoredDays' = StoredDays \cup RowDays(rows)
<1>1. \A d \in RowDays(rows) : bars'[d] = rows[d] /\ rows[d] # NoBar
  BY SavedRows DEF RowDays
<1>2. \A d \in Day \ RowDays(rows) : bars'[d] = bars[d]
  BY SavedRows
<1> QED BY <1>1, <1>2 DEF StoredDays, RowDays

LEMMA DeepInit == Init => DeepInv
<1> SUFFICES ASSUME Init PROVE DeepInv
  OBVIOUS
<1>1. StoredDays = {} /\ ~ marked
  BY DEF Init, StoredDays
<1>2. ASSUME NEW w \in Worker PROVE DeepJoins(job[w])
  BY DEF Init, DeepJoins, Idle
<1> QED BY <1>1, <1>2, CoverageInit DEF DeepInv, WithoutHole, StoredReach

\* One job changes; no stored bar goes away.
LEMMA DeepJob ==
  ASSUME DeepInv, CoverageInv', NEW w \in Worker, NEW j,
         job' = [job EXCEPT ![w] = j], DeepJoins(j)', today' = today,
         StoredDays \subseteq StoredDays', WithoutHole', StoredReach',
         marked' => marked \/ HistoryStart \in StoredDays'
  PROVE  DeepInv'
<1>1. ASSUME NEW u \in Worker, u # w PROVE DeepJoins(job[u])'
  <2>1. job'[u] = job[u] /\ DeepJoins(job[u])
    BY <1>1 DEF DeepInv, CoverageInv, BaseInv, TypeOK
  <2>2. \A e : Meets(e) => Meets(e)'
    BY DEF Meets
  <2> QED BY <2>1, <2>2 DEF DeepJoins, RowDays
<1>2. job'[w] = j
  BY DEF DeepInv, CoverageInv, BaseInv, TypeOK
<1>3. ASSUME NEW u \in Worker PROVE DeepJoins(job[u])'
  BY <1>1, <1>2
<1> QED BY <1>3 DEF DeepInv

\* The same where the bars do not change either.
LEMMA DeepFrame ==
  ASSUME DeepInv, CoverageInv', NEW w \in Worker, NEW j,
         job' = [job EXCEPT ![w] = j], DeepJoins(j), UNCHANGED <<today, bars>>,
         marked' => marked \/ HistoryStart \in StoredDays
  PROVE  DeepInv'
<1>1. StoredDays' = StoredDays
  BY DEF StoredDays
<1>2. WithoutHole' /\ StoredReach'
  BY <1>1 DEF DeepInv, WithoutHole, StoredReach
<1>3. DeepJoins(j)'
  BY <1>1 DEF DeepJoins, Meets, RowDays
<1> QED BY <1>1, <1>2, <1>3, DeepJob

LEMMA DeepStep ==
  ASSUME CleanOverlaps = FALSE, "deep" \notin Straddle, Horizon, DeepInv, [Next]_vars
  PROVE  DeepInv'
<1>0. CoverageInv /\ CoverageInv' /\ BaseInv
  BY CoverageStep DEF DeepInv, CoverageInv
<1>1. /\ today \in FirstDay..MaxDay /\ today \in Nat /\ Day \subseteq Nat /\ today \in Day
      /\ from \in Date /\ to \in Date /\ bars \in Rows
      /\ from = NoDay <=> to = NoDay
      /\ \A w \in Worker : job[w] \in Job /\ OnTime(job[w])
      /\ \A w \in Worker : IsRecent(job[w]) /\ JoinsUp(job[w]) /\ DeepJoins(job[w])
      /\ DeepJoins(Idle)
      /\ StoredDays \in SUBSET Day /\ \A d, e \in StoredDays : d..e \subseteq StoredDays
      /\ HistoryStart \in Day /\ HistoryStart \in Nat
      /\ FirstDay \in Nat /\ MaxDay \in Nat /\ BackfillDays \in Nat
      /\ HistoryStart <= FirstDay - BackfillDays
  <2>1. TypeOK /\ Timely /\ Recent /\ JobsJoin /\ WithoutHole
    BY <1>0 DEF CoverageInv, BaseInv, DeepInv
  <2>2. /\ today \in FirstDay..MaxDay /\ today \in Nat /\ Day \subseteq Nat /\ today \in Day
        /\ HistoryStart \in Day /\ HistoryStart \in Nat
        /\ FirstDay \in Nat /\ MaxDay \in Nat /\ BackfillDays \in Nat
        /\ HistoryStart <= FirstDay - BackfillDays
    BY <2>1, CalendarAssumption, DaysAreNaturals DEF TypeOK, Day
  <2>3. from \in Date /\ to \in Date /\ bars \in Rows /\ (from = NoDay <=> to = NoDay)
    BY <2>1 DEF TypeOK
  <2>4. \A w \in Worker : job[w] \in Job /\ OnTime(job[w])
    BY <2>1 DEF TypeOK, Timely
  <2>5. \A w \in Worker : IsRecent(job[w]) /\ JoinsUp(job[w]) /\ DeepJoins(job[w])
    BY <2>1 DEF Recent, JobsJoin, DeepInv
  <2>6. DeepJoins(Idle)
    BY DEF DeepJoins, Idle
  <2>7. StoredDays \in SUBSET Day /\ \A d, e \in StoredDays : d..e \subseteq StoredDays
    BY <2>1 DEF WithoutHole, StoredDays
  <2> QED BY <2>2, <2>3, <2>4, <2>5, <2>6, <2>7
<1>2. ASSUME NEW w \in Worker, Start(w) PROVE DeepInv'
  <2> DEFINE j == [at |-> "probe", now |-> today, from |-> from, to |-> to]
  <2>1. DeepJoins(j) /\ job' = [job EXCEPT ![w] = j]
    BY <1>2 DEF DeepJoins, Start
  <2> HIDE DEF j
  <2> QED BY <1>0, <1>2, <2>1, DeepFrame DEF Start, state
<1>3. ASSUME NEW w \in Worker, Probe(w) PROVE DeepInv'
  <2> DEFINE j(full) ==
        [at |-> "fetch", now |-> job[w].now, start |-> PlanStart(job[w], full)]
  <2>1. PICK full \in BOOLEAN : job' = [job EXCEPT ![w] = j(full)]
    BY <1>3 DEF Probe
  <2>2. DeepJoins(j(full))
    BY DEF DeepJoins
  <2> HIDE DEF j
  <2> QED BY <1>0, <1>3, <2>1, <2>2, DeepFrame DEF Probe, state
<1>4. ASSUME NEW w \in Worker, Fetch(w) PROVE DeepInv'
  <2> DEFINE f == job[w]
  <2>1. /\ f \in Job /\ f.at = "fetch" /\ f # Idle
        /\ f.start \in Day /\ f.now \in FirstDay..MaxDay /\ f.now <= today
    BY <1>1, <1>4, JobFields DEF Fetch, OnTime, Idle
  <2>2. PICK last \in {HistoryStart - 1} \cup (today - MaxLag)..today : Fetched(w, last)
    BY <1>4 DEF Fetch, Fetched, Answer
  <2> DEFINE rows == Answer(f, last)
             j == [at |-> "save", now |-> f.now, start |-> f.start, rows |-> rows]
  <2>3. CASE RowDays(rows) = {}
    <3>1. job' = [job EXCEPT ![w] = Idle]
      BY <2>2, <2>3 DEF Fetched
    <3> QED BY <1>0, <1>1, <1>4, <3>1, DeepFrame DEF Fetch
  <2>4. CASE RowDays(rows) # {}
    <3>1. job' = [job EXCEPT ![w] = j]
      BY <2>2, <2>4 DEF Fetched
    <3>2. last \in Int
      BY <2>2, CalendarAssumption
    <3>3. RowDays(rows) = {d \in Day : f.start <= d /\ d < f.now /\ d <= last}
      BY <1>0, <2>1, <3>2, AnswerRows DEF BaseInv
    <3> HIDE DEF rows, f
    <3>4. PICK d \in RowDays(rows) : TRUE
      BY <2>4
    <3>5. d \in Day /\ d \in Nat /\ f.start <= d /\ d < f.now /\ d <= last /\ HistoryStart <= d
      BY <1>1, <3>3, <3>4 DEF Day
    <3>6. last >= today - MaxLag
      BY <1>1, <2>2, <3>5, CalendarAssumption
    <3>7. f.now - 1 \in Day /\ f.now - 1 >= FirstDay - Lag /\ d <= f.now - 1
      BY <1>1, <2>1, <3>5, LagFacts DEF Day
    <3>8. last >= FirstDay - Lag
      BY <1>1, <3>2, <3>6, LagFacts, CalendarAssumption
    <3>9. f.start \in Nat /\ f.now \in Nat
      BY <2>1, DaysAreNaturals
    <3>10. last <= f.now - 1 => last \in Day
      BY <1>1, <2>1, <3>2, <3>5, <3>9 DEF Day
    <3>11. last <= f.now - 1 => last \in RowDays(rows)
      BY <3>2, <3>3, <3>5, <3>9, <3>10
    <3>12. f.now - 1 <= last => f.now - 1 \in RowDays(rows)
      BY <3>2, <3>3, <3>5, <3>7, <3>9
    <3>13. \E e \in RowDays(rows) : e >= FirstDay - Lag
      BY <3>2, <3>7, <3>8, <3>9, <3>11, <3>12
    <3>14. DeepJoins(j)
      BY <3>13 DEF DeepJoins
    <3> HIDE DEF j
    <3> QED BY <1>0, <1>4, <3>1, <3>14, DeepFrame DEF Fetch
  <2> QED BY <2>3, <2>4
<1>5. ASSUME NEW w \in Worker, FetchFails(w) \/ Record(w) PROVE DeepInv'
  BY <1>0, <1>1, <1>5, DeepFrame DEF FetchFails, Record
<1>6. ASSUME NEW w \in Worker, Save(w) PROVE DeepInv'
  <2> DEFINE v == job[w]
             R == RowDays(v.rows)
             s == v.start
  <2>1. /\ v \in Job /\ v.at = "save" /\ OnTime(v) /\ IsRecent(v) /\ JoinsUp(v) /\ v # Idle
        /\ s \in Day /\ v.rows \in Rows /\ v.now \in FirstDay..MaxDay
    BY <1>1, <1>6, JobFields DEF Save
  <2>2. PICK j : /\ j = [at |-> "record", now |-> v.now, start |-> s, last |-> Max(R)]
                 /\ bars' = Saved(v.rows) /\ job' = [job EXCEPT ![w] = j]
    BY <1>6 DEF Save
  <2>3. StoredDays' = StoredDays \cup R
    BY <1>1, <2>1, <2>2, StoredAfterSave
  <2>4. /\ R \in SUBSET Day /\ R # {}
        /\ \A d \in R : s <= d /\ \A e \in s..d : v.rows[e] # NoBar
    BY <2>1 DEF JoinsUp, RowsJoined, OnTime, RowDays
  <2>5. \A d \in R : s..d \subseteq R
    <3> SUFFICES ASSUME NEW d \in R, NEW e \in s..d PROVE e \in R
      OBVIOUS
    <3>1. e \in Day
      BY <2>1, <2>4, DaysBetween
    <3> QED BY <2>4, <3>1 DEF RowDays
  <2>6. Joins(v) /\ Begins(v) = s
    BY <2>1 DEF JoinsUp, Fetches, Begins
  <2>7. \E d \in R : d >= FirstDay - Lag
    BY <1>1, <2>1 DEF DeepJoins
  <2>8. v.now \in Nat /\ v.now \in {today - 1, today} /\ s \in Nat
    <3>1. v.now \in {today - 1, today}
      BY <2>1 DEF IsRecent
    <3> HIDE DEF v, s
    <3> QED BY <2>1, <3>1, DaysAreNaturals
  <2>9. DeepJoins(j)'
    BY <2>2 DEF DeepJoins
  <2>10. today' = today /\ marked' = marked
    BY <1>6 DEF Save
  <2> HIDE DEF v, R, s
  <2>11. s \in R
    <3>1. PICK d \in R : s <= d /\ s..d \subseteq R
      BY <2>4, <2>5
    <3>2. d \in Nat
      BY <1>1, <2>4
    <3> QED BY <2>8, <3>1, <3>2
  <2>12. \A d, e \in R : d..e \subseteq R
    <3> SUFFICES ASSUME NEW d \in R, NEW e \in R, NEW x \in d..e PROVE x \in R
      OBVIOUS
    <3>1. d \in Nat /\ e \in Nat /\ s <= d
      BY <1>1, <2>4
    <3>2. x \in s..e
      BY <2>8, <3>1
    <3> QED BY <2>5, <3>2
  <2>13. CASE StoredDays = {}
    <3>1. from = NoDay
      BY <1>0, <2>13 DEF CoverageInv, CoverageHeld, Covered, StoredDays, BaseInv, TypeOK, Date, Day
    <3>2. s = v.now - BackfillDays
      BY <2>6, <3>1 DEF Joins, BackfillStart
    <3>3. s <= BackfillStart(today)
      BY <1>1, <2>8, <3>2 DEF BackfillStart
    <3>4. WithoutHole'
      BY <2>3, <2>12, <2>13 DEF WithoutHole
    <3>5. StoredReach'
      BY <2>3, <2>7, <2>10, <2>11, <3>3 DEF StoredReach
    <3> QED BY <1>0, <2>2, <2>3, <2>9, <2>10, <3>4, <3>5, DeepJob
  <2>14. CASE StoredDays # {}
    <3>1. \E a, b \in StoredDays : a <= s + 1 /\ s <= b + 1
      <4>1. CASE from = NoDay
        <5>1. s = v.now - BackfillDays
          BY <2>6, <4>1 DEF Joins, BackfillStart
        <5>2. PICK a \in StoredDays, b \in StoredDays :
                a <= BackfillStart(today) /\ b >= FirstDay - Lag
          BY <2>14 DEF DeepInv, StoredReach
        <5>3. a \in Nat /\ b \in Nat
          BY <1>1
        <5>4. a <= s + 1
          BY <1>1, <2>8, <5>1, <5>2, <5>3 DEF BackfillStart
        <5>5. s <= b + 1
          BY <1>1, <2>1, <2>8, <5>1, <5>2, <5>3, LagFacts DEF BackfillStart, Horizon
        <5> QED BY <5>4, <5>5
      <4>2. CASE from # NoDay
        <5>1. from \in Day /\ to \in Day /\ from <= to /\ \A d \in from..to : bars[d] # NoBar
          BY <1>0, <1>1, <4>2 DEF CoverageInv, CoverageHeld, Covered, Date
        <5>2. from \in Nat /\ to \in Nat
          BY <1>1, <5>1
        <5>3. from \in from..to /\ to \in from..to
          BY <5>1, <5>2
        <5>4. from \in StoredDays /\ to \in StoredDays
          BY <5>1, <5>3 DEF StoredDays
        <5>5. s <= to + 1 /\ from <= s + 1
          BY <2>6, <4>2 DEF Joins
        <5> QED BY <5>4, <5>5
      <4> QED BY <4>1, <4>2
    <3>2. PICK c \in StoredDays : c <= s + 1 /\ s <= c + 1
      BY <1>1, <2>1, <2>4, <2>11, <3>1, Neighbour
    <3>3. WithoutHole'
      BY <1>1, <2>3, <2>4, <2>11, <2>12, <3>2, TouchingRanges DEF WithoutHole
    <3>4. StoredReach'
      BY <2>3, <2>10, <2>14 DEF StoredReach, DeepInv
    <3> QED BY <1>0, <2>2, <2>3, <2>9, <2>10, <3>3, <3>4, DeepJob
  <2> QED BY <2>13, <2>14
<1>7. ASSUME NEW w \in Worker, DeepStart(w) PROVE DeepInv'
  <2> DEFINE end == IF StoredDays = {} THEN today + 1 ELSE Min(StoredDays)
             j == [at |-> "deep", now |-> today, end |-> end]
  <2>1. StoredDays # {} => /\ Min(StoredDays) \in StoredDays /\ Min(StoredDays) \in Nat
                           /\ HistoryStart <= Min(StoredDays) /\ Min(StoredDays) <= today
    <3> SUFFICES ASSUME StoredDays # {}
                 PROVE  /\ Min(StoredDays) \in StoredDays /\ Min(StoredDays) \in Nat
                        /\ HistoryStart <= Min(StoredDays) /\ Min(StoredDays) <= today
      OBVIOUS
    <3>1. Min(StoredDays) \in StoredDays /\ \A d \in StoredDays : Min(StoredDays) <= d
      BY <1>1, FirstOfDays
    <3>2. PICK d \in StoredDays : d <= BackfillStart(today)
      BY DEF DeepInv, StoredReach
    <3>3. d \in Nat /\ Min(StoredDays) \in Nat /\ Min(StoredDays) <= d
      BY <1>1, <3>1, <3>2
    <3>4. HistoryStart <= Min(StoredDays)
      <4>1. Min(StoredDays) \in Day
        BY <1>1, <3>1
      <4> QED BY <1>1, <4>1 DEF Day
    <3> QED BY <1>1, <3>1, <3>2, <3>3, <3>4 DEF BackfillStart
  <2>2. CASE end <= HistoryStart
    <3>1. HistoryStart \in StoredDays
      BY <1>1, <2>1, <2>2
    <3>2. job' = [job EXCEPT ![w] = Idle]
      BY <1>0, <1>7, <2>2 DEF DeepStart, BaseInv, TypeOK
    <3> QED BY <1>0, <1>1, <1>7, <3>1, <3>2, DeepFrame DEF DeepStart, state
  <2>3. CASE ~ (end <= HistoryStart)
    <3>1. job' = [job EXCEPT ![w] = j] /\ marked' = marked
      BY <1>7, <2>3 DEF DeepStart
    <3>2. Meets(end)
      BY <1>1, <2>1, <2>3 DEF Meets
    <3> HIDE DEF end
    <3>3. DeepJoins(j)
      BY <3>2 DEF DeepJoins
    <3> HIDE DEF j
    <3> QED BY <1>0, <1>7, <3>1, <3>3, DeepFrame DEF DeepStart, state
  <2> QED BY <2>2, <2>3
<1>8. ASSUME NEW w \in Worker, DeepFetch(w) PROVE DeepInv'
  <2> DEFINE end == job[w].end
             rows == Served(HistoryStart..(end - 1), MaxDay)
             j == [at |-> "deepsave", now |-> job[w].now, rows |-> rows]
  <2>1. end \in Day \cup {MaxDay + 1} /\ Meets(end)
    BY <1>1, <1>8, JobFields DEF DeepFetch, DeepJoins
  <2>2. RowDays(rows) = {d \in Day : d \in HistoryStart..(end - 1) /\ d <= MaxDay /\ d <= today}
    <3> DEFINE asked == HistoryStart..(end - 1)
    <3> HIDE DEF asked
    <3>1. RowDays(Served(asked, MaxDay)) = {d \in Day : d \in asked /\ d <= MaxDay /\ d <= today}
      BY <1>0, CalendarAssumption, ServedRows DEF BaseInv
    <3> QED BY <3>1 DEF asked
  <2>3. job' = [job EXCEPT ![w] = j]
    BY <1>8 DEF DeepFetch
  <2> HIDE DEF end, rows
  <2>4. end \in Nat /\ end <= today + 1
    BY <1>1, <2>1 DEF Meets
  <2>5. RowDays(rows) = HistoryStart..(end - 1)
    <3>1. ASSUME NEW d \in HistoryStart..(end - 1) PROVE d \in Day /\ d <= MaxDay /\ d <= today
      BY <1>1, <2>4 DEF Day
    <3> QED BY <2>2, <3>1
  <2>6. DeepJoins(j)
    BY <2>1, <2>5 DEF DeepJoins
  <2> HIDE DEF j
  <2> QED BY <1>0, <1>8, <2>3, <2>6, DeepFrame DEF DeepFetch, state
<1>9. ASSUME NEW w \in Worker, DeepFails(w) PROVE DeepInv'
  BY <1>0, <1>1, <1>9, DeepFrame DEF DeepFails, state
<1>10. ASSUME NEW w \in Worker, DeepSave(w) PROVE DeepInv'
  <2> DEFINE v == job[w]
             R == RowDays(v.rows)
  <2>1. v.rows \in Rows
    BY <1>1, <1>10, JobFields DEF DeepSave
  <2>2. PICK j : /\ j = [at |-> "deepmark", now |-> v.now]
                 /\ bars' = Saved(v.rows) /\ job' = [job EXCEPT ![w] = j]
    BY <1>10 DEF DeepSave
  <2>3. StoredDays' = StoredDays \cup R
    BY <1>1, <2>1, <2>2, StoredAfterSave
  <2>4. PICK e \in Day \cup {MaxDay + 1} : Meets(e) /\ R = HistoryStart..(e - 1)
    BY <1>1, <1>10 DEF DeepSave, DeepJoins
  <2>5. /\ HistoryStart < e /\ e \in Nat
        /\ e = today + 1 \/ (e <= today /\ e \in StoredDays)
    BY <1>1, <2>4 DEF Meets
  <2>6. R \in SUBSET Day
    BY DEF RowDays
  <2>7. today' = today /\ marked' = marked
    BY <1>10 DEF DeepSave
  <2> HIDE DEF v, R
  <2>8. HistoryStart \in R /\ e - 1 \in R
    BY <1>1, <2>4, <2>5
  <2>9. \A d, f \in R : d..f \subseteq R
    BY <1>1, <2>4, <2>5
  <2>10. DeepJoins(j)'
    BY <2>2, <2>3, <2>8 DEF DeepJoins
  <2>11. HistoryStart <= BackfillStart(today)
    BY <1>1 DEF BackfillStart
  <2>12. CASE StoredDays = {}
    <3>1. today \in R
      BY <1>1, <2>5, <2>8, <2>12
    <3>2. today >= FirstDay - Lag
      BY <1>1, LagFacts
    <3>3. WithoutHole'
      BY <2>3, <2>9, <2>12 DEF WithoutHole
    <3>4. StoredReach'
      BY <2>3, <2>7, <2>8, <2>11, <3>1, <3>2 DEF StoredReach
    <3> QED BY <1>0, <2>2, <2>3, <2>7, <2>10, <3>3, <3>4, DeepJob
  <2>13. CASE StoredDays # {}
    <3>1. \E a \in StoredDays, r \in R : a <= r + 1 /\ r <= a + 1
      <4>1. CASE e = today + 1
        <5>1. PICK a \in StoredDays : a <= BackfillStart(today)
          BY <2>13 DEF DeepInv, StoredReach
        <5>2. a \in Nat /\ HistoryStart <= a
          BY <1>1, <5>1 DEF Day
        <5>3. a \in R
          BY <1>1, <2>4, <4>1, <5>1, <5>2 DEF BackfillStart
        <5> QED BY <5>2, <5>3
      <4>2. CASE e \in StoredDays
        BY <2>5, <2>8, <4>2
      <4> QED BY <2>5, <4>1, <4>2
    <3>2. WithoutHole'
      BY <1>1, <2>3, <2>6, <2>9, <3>1, TouchingRanges DEF WithoutHole
    <3>3. StoredReach'
      BY <2>3, <2>7, <2>13 DEF StoredReach, DeepInv
    <3> QED BY <1>0, <2>2, <2>3, <2>7, <2>10, <3>2, <3>3, DeepJob
  <2> QED BY <2>12, <2>13
<1>11. ASSUME NEW w \in Worker, DeepMark(w) PROVE DeepInv'
  <2>1. HistoryStart \in StoredDays
    BY <1>1, <1>11 DEF DeepMark, DeepJoins
  <2> QED BY <1>0, <1>1, <1>11, <2>1, DeepFrame DEF DeepMark, state
<1>12. CASE Clean
  <2>1. StoredDays' = {} /\ ~ marked'
    BY <1>12 DEF Clean, StoredDays
  <2>2. ASSUME NEW w \in Worker PROVE DeepJoins(job[w])'
    <3>1. job'[w] = Idle
      BY <1>12 DEF Clean
    <3> QED BY <3>1 DEF DeepJoins, Idle
  <2> QED BY <1>0, <2>1, <2>2 DEF DeepInv, WithoutHole, StoredReach
<1>13. CASE Act \/ UNCHANGED vars
  <2>1. UNCHANGED <<today, bars, from, to, job, marked>>
    BY <1>13 DEF Act, state, vars
  <2>2. StoredDays' = StoredDays
    BY <2>1 DEF StoredDays
  <2> QED BY <1>0, <2>1, <2>2 DEF DeepInv, WithoutHole, StoredReach, DeepJoins, Meets, RowDays
<1>14. CASE Tick
  <2>1. UNCHANGED <<bars, from, to, job, marked>> /\ today' = today + 1
    BY <1>14 DEF Tick, state
  <2>2. StoredDays' = StoredDays
    BY <2>1 DEF StoredDays
  <2>3. StoredReach'
    <3> SUFFICES ASSUME StoredDays # {}
                 PROVE  /\ \E d \in StoredDays : d <= BackfillStart(today + 1)
                        /\ \E d \in StoredDays : d >= FirstDay - Lag
      BY <2>1, <2>2 DEF StoredReach
    <3>1. PICK d \in StoredDays : d <= BackfillStart(today)
      BY DEF DeepInv, StoredReach
    <3>2. d \in Nat
      BY <1>1
    <3>3. d <= BackfillStart(today + 1)
      BY <1>1, <3>1, <3>2 DEF BackfillStart
    <3> QED BY <3>3 DEF DeepInv, StoredReach
  <2>4. ASSUME NEW w \in Worker PROVE DeepJoins(job[w])'
    <3>1. job[w] # Idle => Kind(w) \in Straddle
      BY <1>14 DEF Tick
    <3>2. ~ IsDeep(job[w])
      BY <3>1 DEF Kind, IsDeep, Idle
    <3>3. job'[w] = job[w] /\ DeepJoins(job[w])
      BY <1>1, <2>1
    <3> QED BY <3>2, <3>3 DEF DeepJoins, IsDeep, RowDays
  <2> QED BY <1>0, <2>1, <2>2, <2>3, <2>4 DEF DeepInv, WithoutHole
<1>15. CASE Crash
  <2>1. UNCHANGED <<today, bars, marked>> /\ \A w \in Worker : job'[w] = Idle
    BY <1>15 DEF Crash, state
  <2>2. StoredDays' = StoredDays
    BY <2>1 DEF StoredDays
  <2>3. ASSUME NEW w \in Worker PROVE DeepJoins(job[w])'
    BY <2>1 DEF DeepJoins, Idle
  <2> QED BY <1>0, <2>1, <2>2, <2>3 DEF DeepInv, WithoutHole, StoredReach
<1> QED BY <1>2, <1>3, <1>4, <1>5, <1>6, <1>7, <1>8, <1>9, <1>10, <1>11, <1>12,
           <1>13, <1>14, <1>15 DEF Next

\* Behind the deep marker there is no hole, whatever interleaves: the deep rows
\* reach to the first stored bar, and what an acquisition saves touches what is
\* stored.  For a stock acquired now and then: over a time longer than the ten
\* years a plan looks back a process death could leave a gap
\* (ensure_deep_history).
THEOREM DeepIsComplete ==
  ASSUME CleanOverlaps = FALSE, "deep" \notin Straddle, Horizon
  PROVE  Spec => []DeepMeetsAcquired
<1>1. DeepInv /\ [Next]_vars => DeepInv'
  BY DeepStep
<1>2. DeepInv => DeepMeetsAcquired
  <2> SUFFICES ASSUME DeepInv, marked, StoredDays # {}
               PROVE  StoredDays = HistoryStart..Max(StoredDays)
    BY DEF DeepMeetsAcquired
  <2>1. StoredDays \in SUBSET Day
    BY DEF StoredDays
  <2>2. Max(StoredDays) \in StoredDays /\ \A d \in StoredDays : d <= Max(StoredDays)
    BY <2>1, LastOfDays
  <2>3. HistoryStart \in StoredDays
    BY DEF DeepInv
  <2>4. HistoryStart..Max(StoredDays) \subseteq StoredDays
    BY <2>2, <2>3 DEF DeepInv, WithoutHole
  <2>5. ASSUME NEW d \in StoredDays PROVE d \in HistoryStart..Max(StoredDays)
    BY <2>1, <2>2, CalendarAssumption DEF Day
  <2> QED BY <2>4, <2>5
<1> QED BY <1>1, <1>2, DeepInit, PTL DEF Spec

-----------------------------------------------------------------------------
(* One adjustment.                                                         *)

\* Of a stock no deep history is asked for, every job ends on its day.
SameDay(j) == j # Idle => ~ IsDeep(j) /\ j.now = today

\* The actions after day d that a bar fetched now accounts for.
Due(d) == {a \in actions : d < a /\ a < today}

\* The first covered day, or the one coverage will begin at.
Front == IF from = NoDay THEN BackfillStart(today) ELSE from

\* An action no acquisition has looked past yet.
Missed(a) == a < today /\ (to # NoDay => to < a)

\* As long as there is one, whoever has planned since fetches from the front.
AdjustJoins(j) ==
  /\ Fetches(j) => Front <= Begins(j) /\ (from = NoDay => Begins(j) = Front)
  /\ j.at = "probe" =>
       IF j.from = NoDay THEN Front = BackfillStart(j.now)
       ELSE from # NoDay /\ j.from = from /\ j.from <= j.to /\ j.to <= to
  /\ j.at \in {"fetch", "save", "record"} =>
       \A a \in actions : Missed(a) => j.start = Front
  /\ j.at = "save" =>
       \A d \in RowDays(j.rows) :
         /\ j.start <= d
         /\ \A e \in j.start..d : j.rows[e] # NoBar
         /\ Due(d) \subseteq j.rows[d].adj
  /\ j.at = "record" =>
       /\ j.start <= j.last
       /\ \A d \in j.start..j.last : bars[d] # NoBar /\ Due(d) \subseteq bars[d].adj

Adjusted ==
  to # NoDay =>
    \A d \in StoredDays, a \in actions : d < a /\ a <= to => a \in bars[d].adj

FrontHeld ==
  /\ from # NoDay => from <= to /\ from <= BackfillStart(today)
  /\ from = NoDay /\ StoredDays # {} => \E w \in Worker : job[w].at = "record"
  /\ \A d \in StoredDays : Front <= d

AdjustCalm == FrontHeld /\ Adjusted /\ \A w \in Worker : AdjustJoins(job[w])

AdjustInv ==
  /\ BaseInv
  /\ \A a \in actions : a <= today
  /\ deep => actions = {}
  /\ ~ deep => \A w \in Worker : SameDay(job[w])
  /\ ~ deep /\ crashes = 0 => AdjustCalm

LEMMA AdjustInit == Init => AdjustInv
<1> SUFFICES ASSUME Init PROVE AdjustInv
  OBVIOUS
<1>1. StoredDays = {} /\ actions = {} /\ from = NoDay
  BY DEF Init, StoredDays
<1>2. ASSUME NEW w \in Worker PROVE SameDay(job[w]) /\ AdjustJoins(job[w])
  BY DEF Init, SameDay, AdjustJoins, Fetches, Idle
<1>3. FrontHeld /\ Adjusted
  BY <1>1 DEF FrontHeld, Adjusted
<1> QED BY <1>1, <1>2, <1>3, BaseInit DEF AdjustInv, AdjustCalm

\* One job changes that has saved nothing; what it goes by does not.
LEMMA AdjustJob ==
  ASSUME AdjustCalm, job \in [Worker -> Job], NEW w \in Worker, NEW j,
         job' = [job EXCEPT ![w] = j], AdjustJoins(j), job[w].at # "record",
         UNCHANGED <<today, actions, bars, from, to>>
  PROVE  AdjustCalm'
<1>1. StoredDays' = StoredDays /\ Front' = Front
  BY DEF StoredDays, Front
<1>2. FrontHeld'
  <2>1. from' = NoDay /\ StoredDays' # {} => \E u \in Worker : job'[u].at = "record"
    <3> SUFFICES ASSUME from = NoDay, StoredDays # {} PROVE \E u \in Worker : job'[u].at = "record"
      BY <1>1
    <3>1. PICK u \in Worker : job[u].at = "record"
      BY DEF AdjustCalm, FrontHeld
    <3>2. job'[u] = job[u]
      BY <3>1
    <3> QED BY <3>1, <3>2
  <2> QED BY <1>1, <2>1 DEF AdjustCalm, FrontHeld
<1>3. Adjusted'
  BY <1>1 DEF AdjustCalm, Adjusted
<1>4. ASSUME NEW u \in Worker PROVE AdjustJoins(job[u])'
  <2>1. PICK r : r = job'[u]
    OBVIOUS
  <2>2. r = job[u] \/ r = j
    BY <2>1
  <2>3. AdjustJoins(r)
    BY <2>2 DEF AdjustCalm
  <2>4. AdjustJoins(r)'
    BY <1>1, <2>3 DEF AdjustJoins, Fetches, Begins, Missed, Due, RowDays
  <2> QED BY <2>1, <2>4
<1> QED BY <1>2, <1>3, <1>4 DEF AdjustCalm

LEMMA AdjustStep ==
  ASSUME ProbeMayFail = FALSE, DeepActions = FALSE, CleanOverlaps = FALSE,
         AdjustInv, [Next]_vars
  PROVE  AdjustInv'
<1>0. BaseInv /\ BaseInv'
  BY BaseStep DEF AdjustInv
<1>1. /\ today \in FirstDay..MaxDay /\ today \in Nat /\ Day \subseteq Nat
      /\ from \in Date /\ to \in Date /\ bars \in Rows /\ actions \subseteq Day
      /\ from = NoDay <=> to = NoDay
      /\ to # NoDay => to < today
      /\ job \in [Worker -> Job] /\ deep \in BOOLEAN
      /\ \A w \in Worker : job[w] \in Job /\ OnTime(job[w])
      /\ crashes \in Nat
  BY <1>0, CalendarAssumption, DaysAreNaturals DEF BaseInv, TypeOK, Timely
<1>2. \A a \in actions' : a <= today'
  <2>1. CASE Act
    BY <1>1, <2>1 DEF Act, AdjustInv
  <2>2. CASE Tick
    BY <1>1, <2>2 DEF Tick, AdjustInv
  <2>3. CASE UNCHANGED <<actions, today>>
    BY <2>3 DEF AdjustInv
  <2> QED BY <2>1, <2>2, <2>3
          DEF Next, Start, Probe, Fetch, FetchFails, Save, Record, DeepStart, DeepFetch, DeepFails,
              DeepSave, DeepMark, Clean, Crash, vars
<1>3. deep' = deep /\ (deep => actions' = {})
  <2>1. CASE Act
    BY <2>1 DEF Act, AdjustInv
  <2>2. CASE UNCHANGED <<actions, deep>>
    BY <2>2 DEF AdjustInv
  <2> QED BY <2>1, <2>2
          DEF Next, Start, Probe, Fetch, FetchFails, Save, Record, DeepStart, DeepFetch, DeepFails,
              DeepSave, DeepMark, Clean, Tick, Crash, vars
<1>4. ASSUME ~ deep PROVE \A w \in Worker : SameDay(job[w])'
  <2>1. \A w \in Worker : SameDay(job[w])
    BY <1>4 DEF AdjustInv
  <2>2. ASSUME NEW w \in Worker, NEW r, job' = [job EXCEPT ![w] = r], SameDay(r), today' = today
        PROVE  \A u \in Worker : SameDay(job[u])'
    <3> SUFFICES ASSUME NEW u \in Worker PROVE SameDay(job[u])'
      OBVIOUS
    <3>1. job'[u] = r \/ job'[u] = job[u]
      BY <1>1, <2>2
    <3> QED BY <2>1, <2>2, <3>1 DEF SameDay, IsDeep
  <2>3. SameDay(Idle)
    BY DEF SameDay
  <2>4. ASSUME NEW w \in Worker, Start(w) PROVE \A u \in Worker : SameDay(job[u])'
    BY <2>2, <2>4 DEF Start, SameDay, IsDeep
  <2>5. \A w \in Worker : ~ IsDeep(job[w])
    BY <2>1 DEF SameDay, IsDeep, Idle
  <2>6. \A w \in Worker : job[w].at # "idle" => job[w].now = today
    BY <2>1 DEF SameDay, Idle
  <2>7. ASSUME NEW w \in Worker, Probe(w) PROVE \A u \in Worker : SameDay(job[u])'
    <3>1. PICK full \in BOOLEAN :
            job' = [job EXCEPT ![w] = [at |-> "fetch", now |-> job[w].now,
                                       start |-> PlanStart(job[w], full)]]
      BY <2>7 DEF Probe
    <3> QED BY <2>2, <2>6, <2>7, <3>1 DEF Probe, SameDay, IsDeep
  <2>8. ASSUME NEW w \in Worker, Fetch(w) PROVE \A u \in Worker : SameDay(job[u])'
    <3>1. PICK last \in {HistoryStart - 1} \cup (today - MaxLag)..today : Fetched(w, last)
      BY <2>8 DEF Fetch, Fetched, Answer
    <3> DEFINE j == [at |-> "save", now |-> job[w].now, start |-> job[w].start,
                     rows |-> Answer(job[w], last)]
    <3>2. job' = [job EXCEPT ![w] = Idle] \/ job' = [job EXCEPT ![w] = j]
      BY <3>1 DEF Fetched
    <3>3. SameDay(j)
      BY <2>6, <2>8 DEF Fetch, SameDay, IsDeep
    <3> HIDE DEF j
    <3> QED BY <2>2, <2>3, <2>8, <3>2, <3>3 DEF Fetch
  <2>9. ASSUME NEW w \in Worker, FetchFails(w) \/ Record(w)
        PROVE  \A u \in Worker : SameDay(job[u])'
    BY <2>2, <2>3, <2>9 DEF FetchFails, Record
  <2>10. ASSUME NEW w \in Worker, Save(w) PROVE \A u \in Worker : SameDay(job[u])'
    BY <2>2, <2>6, <2>10 DEF Save, SameDay, IsDeep
  <2>11. ASSUME NEW w \in Worker,
                DeepFetch(w) \/ DeepFails(w) \/ DeepSave(w) \/ DeepMark(w) \/ DeepStart(w)
         PROVE  FALSE
    BY <1>4, <2>5, <2>11 DEF DeepFetch, DeepFails, DeepSave, DeepMark, DeepStart, IsDeep
  <2>12. CASE Tick
    BY <1>4, <2>12 DEF Tick, SameDay, IsDeep
  <2>13. CASE Crash \/ Clean
    BY <2>13 DEF Crash, Clean, SameDay, IsDeep, Idle
  <2>14. CASE Act \/ UNCHANGED vars
    BY <2>1, <2>14 DEF Act, vars, SameDay, IsDeep
  <2> QED BY <2>4, <2>7, <2>8, <2>9, <2>10, <2>11, <2>12, <2>13, <2>14 DEF Next
<1>5. ASSUME ~ deep, crashes' = 0 PROVE AdjustCalm'
  <2>1. crashes = 0
    <3>1. CASE Crash
      BY <1>1, <1>5, <3>1 DEF Crash
    <3>2. CASE crashes' = crashes
      BY <1>5, <3>2
    <3> QED BY <3>1, <3>2
            DEF Next, Start, Probe, Fetch, FetchFails, Save, Record, DeepStart, DeepFetch,
                DeepFails, DeepSave, DeepMark, Clean, Act, Tick, vars
  <2>2. AdjustCalm /\ \A w \in Worker : AdjustJoins(job[w]) /\ SameDay(job[w])
    BY <1>5, <2>1 DEF AdjustInv, AdjustCalm
  <2>3. \A w \in Worker : job[w].at # "idle" => job[w].now = today /\ ~ IsDeep(job[w])
    BY <2>2 DEF SameDay, Idle
  <2>4. from # NoDay => /\ from \in Nat /\ to \in Nat /\ from \in Day /\ to \in Day
                        /\ from <= to /\ from <= BackfillStart(today)
    BY <1>1, <2>2 DEF AdjustCalm, FrontHeld, Date
  <2>5. BackfillStart(today) \in Nat /\ Front \in Nat
    BY <1>1, <2>4, DaysAreNaturals DEF Front
  <2>6. AdjustJoins(Idle)
    BY DEF AdjustJoins, Fetches, Idle
  <2>7. ASSUME NEW w \in Worker, Start(w) PROVE AdjustCalm'
    <3> DEFINE j == [at |-> "probe", now |-> today, from |-> from, to |-> to]
    <3>1. AdjustJoins(j)
      <4>1. Fetches(j) => from = NoDay /\ Begins(j) = BackfillStart(today)
        BY DEF Fetches, Begins
      <4>2. Fetches(j) => Front <= Begins(j) /\ (from = NoDay => Begins(j) = Front)
        BY <2>5, <4>1 DEF Front
      <4>3. IF from = NoDay THEN Front = BackfillStart(today)
            ELSE from # NoDay /\ from <= to /\ to <= to
        BY <2>4 DEF Front
      <4> QED BY <4>2, <4>3 DEF AdjustJoins
    <3>2. job' = [job EXCEPT ![w] = j] /\ job[w].at # "record"
      BY <2>7 DEF Start, Idle
    <3> HIDE DEF j
    <3> QED BY <1>1, <2>2, <2>7, <3>1, <3>2, AdjustJob DEF Start, state
  <2>8. ASSUME NEW w \in Worker, Probe(w) PROVE AdjustCalm'
    <3> DEFINE p == job[w]
               full == actions # {} /\ p.to # NoDay /\ Max(actions) > p.to
               s == PlanStart(p, full)
               j == [at |-> "fetch", now |-> p.now, start |-> s]
    <3>1. job' = [job EXCEPT ![w] = j]
      <4>1. PICK fails \in {FALSE, ProbeMayFail /\ faults < MaxFaults} :
              job' = [job EXCEPT ![w] =
                        [at |-> "fetch", now |-> p.now,
                         start |-> PlanStart(p, /\ ~ fails /\ actions # {} /\ p.to # NoDay
                                                /\ Max(actions) > p.to)]]
        BY <2>8 DEF Probe
      <4>2. fails = FALSE
        OBVIOUS
      <4>3. (/\ ~ fails /\ actions # {} /\ p.to # NoDay /\ Max(actions) > p.to) = full
        BY <4>2
      <4> QED BY <4>1, <4>3
    <3>2. /\ p \in Job /\ p.at = "probe" /\ OnTime(p) /\ AdjustJoins(p) /\ full \in BOOLEAN
          /\ p.now = today /\ p.from \in Date /\ p.to \in Date
          /\ p.from = NoDay <=> p.to = NoDay
      BY <1>1, <2>2, <2>3, <2>8, JobFields DEF Probe, OnTime, Idle
    <3>3. \A a \in actions : a <= Max(actions) /\ Max(actions) \in Day
      BY <1>1, LastOfDays
    <3>4. ASSUME p.from = NoDay PROVE AdjustJoins(j)
      <4>1. s = BackfillStart(today) /\ Begins(p) = s
        BY <3>2, <3>4, PlannedStart DEF Begins
      <4>2. Front = s
        BY <3>2, <3>4, <4>1 DEF AdjustJoins
      <4> HIDE DEF s, p
      <4> QED BY <2>5, <4>2 DEF AdjustJoins, Fetches, Begins
    <3>5. ASSUME p.from # NoDay PROVE AdjustJoins(j)
      <4>1. from # NoDay /\ p.from = from /\ p.from <= p.to /\ p.to <= to
        BY <3>2, <3>5 DEF AdjustJoins
      <4>2. p.to \in Nat /\ p.to \in Day
        BY <1>1, <3>2, <3>5 DEF Date
      <4>3. CASE full
        <5>1. s \in {from, BackfillStart(today)} /\ s <= from
          BY <3>2, <3>5, <4>1, <4>3, PlannedStart
        <5> HIDE DEF s, p, full
        <5>2. s = from
          BY <2>4, <2>5, <4>1, <5>1
        <5> QED BY <2>4, <4>1, <5>2 DEF AdjustJoins, Fetches, Begins, Front
      <4>4. CASE ~ full
        <5>1. s = p.to + 1
          BY <3>2, <3>5, <4>4, PlannedStart
        <5>2. \A a \in actions : ~ Missed(a)
          <6> SUFFICES ASSUME NEW a \in actions, Missed(a) PROVE FALSE
            OBVIOUS
          <6>1. to < a /\ a \in Nat /\ a <= Max(actions) /\ Max(actions) \in Nat
            BY <1>1, <2>4, <3>3, <4>1 DEF Missed
          <6>2. Max(actions) > p.to
            BY <2>4, <4>1, <4>2, <6>1
          <6>3. p.to # NoDay /\ actions # {}
            BY <3>2, <3>5
          <6> QED BY <4>4, <6>2, <6>3
        <5> HIDE DEF s, p, full
        <5>3. from <= s
          BY <2>4, <4>1, <4>2, <5>1
        <5> QED BY <2>4, <4>1, <5>2, <5>3 DEF AdjustJoins, Fetches, Begins, Front
      <4> QED BY <4>3, <4>4
    <3>6. AdjustJoins(j)
      BY <3>4, <3>5
    <3> HIDE DEF j
    <3> QED BY <1>1, <2>2, <2>8, <3>1, <3>6, AdjustJob DEF Probe, state
  <2>9. ASSUME NEW w \in Worker, Fetch(w) PROVE AdjustCalm'
    <3> DEFINE f == job[w]
    <3>1. /\ f \in Job /\ f.at = "fetch" /\ f.now = today /\ AdjustJoins(f) /\ f.start \in Day
      BY <1>1, <2>2, <2>3, <2>9, JobFields DEF Fetch
    <3>2. PICK last \in {HistoryStart - 1} \cup (today - MaxLag)..today : Fetched(w, last)
      BY <2>9 DEF Fetch, Fetched, Answer
    <3> DEFINE rows == Answer(f, last)
               j == [at |-> "save", now |-> f.now, start |-> f.start, rows |-> rows]
    <3>3. CASE RowDays(rows) = {}
      <4>1. job' = [job EXCEPT ![w] = Idle]
        BY <3>2, <3>3 DEF Fetched
      <4> QED BY <1>1, <2>2, <2>6, <2>9, <4>1, AdjustJob DEF Fetch
    <3>4. CASE RowDays(rows) # {}
      <4>1. job' = [job EXCEPT ![w] = j]
        BY <3>2, <3>4 DEF Fetched
      <4>2. last \in Int
        BY <1>1, <3>2, CalendarAssumption
      <4>3. /\ RowDays(rows) = {d \in Day : f.start <= d /\ d < today /\ d <= last}
            /\ \A d \in RowDays(rows) : rows[d].adj = {a \in actions : d < a}
        BY <1>0, <1>1, <3>1, <4>2, AnswerRows DEF BaseInv
      <4>4. ASSUME NEW d \in RowDays(rows)
            PROVE  /\ f.start <= d /\ Due(d) \subseteq rows[d].adj
                   /\ \A e \in f.start..d : rows[e] # NoBar
        <5> HIDE DEF rows, f
        <5>1. d \in Day /\ d \in Nat /\ f.start <= d /\ d < today /\ d <= last
          BY <1>1, <4>3
        <5>2. Due(d) \subseteq rows[d].adj
          BY <4>3 DEF Due
        <5>3. ASSUME NEW e \in f.start..d PROVE rows[e] # NoBar
          <6>1. e \in Day
            BY <3>1, <5>1, DaysBetween
          <6>2. e \in Nat /\ f.start \in Nat
            BY <1>1, <3>1, <6>1
          <6>3. e \in RowDays(rows)
            BY <1>1, <4>2, <4>3, <5>1, <6>1, <6>2
          <6> QED BY <6>3 DEF RowDays
        <5> QED BY <5>1, <5>2, <5>3
      <4> HIDE DEF rows, f
      <4>5. AdjustJoins(j)
        <5>1. Begins(j) = Begins(f)
          BY <3>1 DEF Begins
        <5>2. Fetches(j) => Front <= Begins(j) /\ (from = NoDay => Begins(j) = Front)
          BY <3>1, <5>1 DEF AdjustJoins, Fetches
        <5>3. \A a \in actions : Missed(a) => j.start = Front
          BY <3>1 DEF AdjustJoins
        <5> QED BY <4>4, <5>2, <5>3 DEF AdjustJoins
      <4> HIDE DEF j
      <4> QED BY <1>1, <2>2, <2>9, <4>1, <4>5, AdjustJob DEF Fetch
    <3> QED BY <3>3, <3>4
  <2>10. ASSUME NEW w \in Worker, FetchFails(w) PROVE AdjustCalm'
    BY <1>1, <2>2, <2>6, <2>10, AdjustJob DEF FetchFails
  <2>11. ASSUME NEW w \in Worker, Save(w) PROVE AdjustCalm'
    <3> DEFINE v == job[w]
               R == RowDays(v.rows)
               s == v.start
               last == Max(R)
    <3>1. /\ v \in Job /\ v.at = "save" /\ OnTime(v) /\ AdjustJoins(v) /\ v # Idle
          /\ s \in Day /\ v.rows \in Rows /\ v.now = today
      BY <1>1, <2>2, <2>3, <2>11, JobFields DEF Save
    <3>2. PICK j : /\ j = [at |-> "record", now |-> v.now, start |-> s, last |-> last]
                   /\ bars' = Saved(v.rows) /\ job' = [job EXCEPT ![w] = j]
      BY <2>11 DEF Save
    <3>3. UNCHANGED <<today, actions, from, to>>
      BY <2>11 DEF Save, state
    <3>4. StoredDays' = StoredDays \cup R
      BY <1>1, <3>1, <3>2, StoredAfterSave
    <3>5. /\ R \in SUBSET Day /\ last \in R
          /\ \A d \in R : /\ s <= d /\ Due(d) \subseteq v.rows[d].adj
                          /\ \A e \in s..d : v.rows[e] # NoBar
      <4>1. R \in SUBSET Day /\ R # {}
        BY <3>1 DEF OnTime, RowDays
      <4>2. last \in R
        BY <4>1, LastOfDays
      <4> QED BY <3>1, <4>1, <4>2 DEF AdjustJoins
    <3>6. \A d \in R : bars'[d] = v.rows[d] /\ v.rows[d] # NoBar
      BY <1>1, <3>1, <3>2, SavedRows DEF RowDays
    <3>7. \A d \in Day \ R : bars'[d] = bars[d]
      BY <1>1, <3>1, <3>2, SavedRows
    <3>8. \A d \in s..last : d \in R
      <4>1. \A d \in s..last : d \in Day
        BY <3>1, <3>5, DaysBetween
      <4> QED BY <3>5, <4>1 DEF RowDays
    <3>9. Fetches(v) /\ Begins(v) = s
      BY <3>1 DEF Fetches, Begins
    <3>10. Front <= s /\ (from = NoDay => s = Front) /\ \A a \in actions : Missed(a) => s = Front
      BY <3>1, <3>9 DEF AdjustJoins
    <3> HIDE DEF v, R, s, last
    <3>11. Front' = Front /\ \A d : Due(d)' = Due(d) /\ \A a : Missed(a)' = Missed(a)
      BY <3>3 DEF Front, Due, Missed
    <3>12. ASSUME NEW d \in Day, bars[d] # NoBar, Due(d) \subseteq bars[d].adj
           PROVE  bars'[d] # NoBar /\ Due(d) \subseteq bars'[d].adj
      BY <3>5, <3>6, <3>7, <3>12
    <3>13. FrontHeld'
      <4>1. ASSUME NEW d \in StoredDays' PROVE Front <= d
        <5>1. CASE d \in StoredDays
          BY <2>2, <5>1 DEF AdjustCalm, FrontHeld
        <5>2. CASE d \in R
          <6>1. d \in Nat /\ s \in Nat /\ s <= d
            BY <1>1, <3>1, <3>5, <5>2
          <6> QED BY <2>5, <3>10, <6>1
        <5> QED BY <3>4, <5>1, <5>2
      <4>2. job'[w].at = "record"
        BY <1>1, <3>2
      <4> QED BY <2>4, <3>3, <3>11, <4>1, <4>2 DEF FrontHeld
    <3>14. Adjusted'
      <4> SUFFICES ASSUME to # NoDay, NEW d \in StoredDays', NEW a \in actions, d < a, a <= to
                   PROVE  a \in bars'[d].adj
        BY <3>3 DEF Adjusted
      <4>1. CASE d \in R
        <5>1. a < today
          BY <1>1, <2>4
        <5>2. a \in Due(d)
          BY <5>1 DEF Due
        <5> QED BY <3>5, <3>6, <4>1, <5>2
      <4>2. CASE d \notin R
        <5>1. d \in StoredDays /\ d \in Day
          BY <3>4, <4>2 DEF StoredDays
        <5> QED BY <2>2, <3>7, <4>2, <5>1 DEF AdjustCalm, Adjusted
      <4> QED BY <4>1, <4>2
    <3>15. AdjustJoins(j)'
      <4>1. ASSUME NEW d \in s..last
            PROVE  bars'[d] # NoBar /\ Due(d) \subseteq bars'[d].adj
        BY <3>5, <3>6, <3>8
      <4>2. s <= last
        BY <3>5
      <4>3. Begins(j) = s
        BY <3>2 DEF Begins
      <4> QED BY <3>2, <3>3, <3>10, <3>11, <4>1, <4>2, <4>3 DEF AdjustJoins, Fetches
    <3>16. ASSUME NEW u \in Worker, u # w PROVE AdjustJoins(job[u])'
      <4>1. PICK r : r = job[u]
        OBVIOUS
      <4>2. job'[u] = r /\ AdjustJoins(r) /\ r \in Job
        BY <1>1, <2>2, <3>2, <3>16, <4>1
      <4>3. r.at = "record" =>
              \A d \in r.start..r.last : bars'[d] # NoBar /\ Due(d) \subseteq bars'[d].adj
        <5> SUFFICES ASSUME r.at = "record", NEW d \in r.start..r.last
                     PROVE  bars'[d] # NoBar /\ Due(d) \subseteq bars'[d].adj
          OBVIOUS
        <5>1. d \in Day
          BY <4>2, JobFields, DaysBetween
        <5>2. bars[d] # NoBar /\ Due(d) \subseteq bars[d].adj
          BY <4>2 DEF AdjustJoins
        <5> QED BY <3>12, <5>1, <5>2
      <4>4. AdjustJoins(r)'
        BY <3>3, <3>11, <4>2, <4>3 DEF AdjustJoins, RowDays
      <4> QED BY <4>2, <4>4
    <3>17. \A u \in Worker : AdjustJoins(job[u])'
      <4>1. job'[w] = j
        BY <1>1, <3>2
      <4> QED BY <3>15, <3>16, <4>1
    <3> QED BY <3>13, <3>14, <3>17 DEF AdjustCalm
  <2>12. ASSUME NEW w \in Worker, Record(w) PROVE AdjustCalm'
    <3> DEFINE r == job[w]
               s == r.start
               l == r.last
    <3>1. /\ r \in Job /\ r.at = "record" /\ OnTime(r) /\ AdjustJoins(r) /\ r # Idle
          /\ s \in Day /\ l \in Day /\ r.now = today
      BY <1>1, <2>2, <2>3, <2>12, JobFields DEF Record
    <3>2. /\ from = NoDay => from' = s /\ to' = l
          /\ from # NoDay => from' = Min({from, s}) /\ to' = Max({to, l})
          /\ job' = [job EXCEPT ![w] = Idle] /\ UNCHANGED <<today, actions, bars>>
      BY <1>1, <2>12 DEF Record
    <3>3. /\ Front <= s /\ (from = NoDay => s = Front)
          /\ \A a \in actions : Missed(a) => s = Front
          /\ s <= l /\ \A d \in s..l : bars[d] # NoBar /\ Due(d) \subseteq bars[d].adj
      BY <3>1 DEF AdjustJoins, Fetches, Begins
    <3>4. l < today
      BY <3>1 DEF OnTime
    <3> HIDE DEF r, s, l
    <3>5. s \in Nat /\ l \in Nat
      BY <1>1, <3>1
    <3>6. from' = Front /\ from' # NoDay
      <4>1. CASE from = NoDay
        BY <1>1, <3>1, <3>2, <3>3, <4>1, DaysAreNaturals DEF Front
      <4>2. CASE from # NoDay
        <5>1. from' \in {from, s} /\ from' <= from /\ Front = from
          BY <2>4, <3>1, <3>2, <4>2, EarlierOfTwo DEF Front
        <5> QED BY <2>4, <3>3, <3>5, <4>2, <5>1
      <4> QED BY <4>1, <4>2
    <3>7. /\ to' \in Nat /\ to' < today /\ l <= to' /\ to' # NoDay
          /\ from # NoDay => to <= to'
          /\ to' = l \/ (from # NoDay /\ to' = to)
      <4>1. CASE from = NoDay
        BY <3>1, <3>2, <3>4, <3>5, <4>1, DaysAreNaturals
      <4>2. CASE from # NoDay
        <5>1. to' \in {to, l} /\ to' \in Day /\ to <= to' /\ l <= to'
          BY <2>4, <3>1, <3>2, <4>2, LaterOfTwo
        <5> QED BY <1>1, <2>4, <3>4, <4>2, <5>1, DaysAreNaturals
      <4> QED BY <4>1, <4>2
    <3>8. Front' = Front /\ StoredDays' = StoredDays /\ \A d : Due(d)' = Due(d)
      BY <3>2, <3>6 DEF Front, StoredDays, Due
    <3>9. \A a \in actions : Missed(a)' => Missed(a)
      <4> SUFFICES ASSUME NEW a \in actions, a < today, to' < a, to # NoDay PROVE to < a
        BY <3>2, <3>7 DEF Missed
      <4> QED BY <1>1, <2>4, <3>7
    <3>10. FrontHeld'
      <4>1. Front <= BackfillStart(today)
        BY <2>4, <2>5 DEF Front
      <4>2. from' <= to'
        BY <2>5, <3>3, <3>5, <3>6, <3>7
      <4>3. \A d \in StoredDays : Front <= d
        BY <2>2 DEF AdjustCalm, FrontHeld
      <4> QED BY <3>2, <3>6, <3>8, <4>1, <4>2, <4>3 DEF FrontHeld
    <3>11. Adjusted'
      <4> SUFFICES ASSUME NEW d \in StoredDays, NEW a \in actions, d < a, a <= to'
                   PROVE  a \in bars[d].adj
        BY <3>2, <3>8 DEF Adjusted
      <4>1. d \in Nat /\ a \in Nat
        BY <1>1 DEF StoredDays
      <4>2. CASE to # NoDay /\ a <= to
        BY <2>2, <4>2 DEF AdjustCalm, Adjusted
      <4>3. CASE ~ (to # NoDay /\ a <= to)
        <5>1. a <= l /\ Missed(a)
          BY <1>1, <2>4, <3>4, <3>5, <3>7, <4>1, <4>3 DEF Missed
        <5>2. Front <= d
          BY <2>2 DEF AdjustCalm, FrontHeld
        <5>3. d \in s..l
          BY <3>3, <3>5, <4>1, <5>1, <5>2
        <5>4. a \in Due(d)
          BY <5>1 DEF Due, Missed
        <5> QED BY <3>3, <5>3, <5>4
      <4> QED BY <4>2, <4>3
    <3>12. ASSUME NEW u \in Worker PROVE AdjustJoins(job[u])'
      <4>1. PICK k : k = job'[u]
        OBVIOUS
      <4>2. (k = Idle \/ k = job[u]) /\ AdjustJoins(k)
        BY <1>1, <2>2, <2>6, <3>2, <4>1
      <4>3. k.at = "probe" =>
              IF k.from = NoDay THEN Front = BackfillStart(k.now)
              ELSE from' # NoDay /\ k.from = from' /\ k.from <= k.to /\ k.to <= to'
        <5> SUFFICES ASSUME k.at = "probe", k.from # NoDay
                     PROVE  from' # NoDay /\ k.from = from' /\ k.from <= k.to /\ k.to <= to'
          BY <4>2 DEF AdjustJoins
        <5>1. from # NoDay /\ k.from = from /\ k.from <= k.to /\ k.to <= to
          BY <4>2 DEF AdjustJoins
        <5>2. k \in Job /\ k.to # NoDay
          BY <1>1, <4>2 DEF OnTime, Idle
        <5>3. k.to \in Nat
          BY <1>1, <5>2, JobFields DEF Date
        <5> QED BY <2>4, <3>6, <3>7, <5>1, <5>3 DEF Front
      <4>4. Fetches(k) => Front <= Begins(k)
        BY <4>2 DEF AdjustJoins
      <4>5. k.at \in {"fetch", "save", "record"} => \A a \in actions : Missed(a)' => k.start = Front
        BY <3>9, <4>2 DEF AdjustJoins
      <4>6. AdjustJoins(k)'
        BY <3>2, <3>6, <3>8, <4>2, <4>3, <4>4, <4>5 DEF AdjustJoins, RowDays
      <4> QED BY <4>1, <4>6
    <3> QED BY <3>10, <3>11, <3>12 DEF AdjustCalm
  <2>13. ASSUME NEW w \in Worker,
                DeepFetch(w) \/ DeepFails(w) \/ DeepSave(w) \/ DeepMark(w) \/ DeepStart(w)
         PROVE  FALSE
    BY <1>5, <2>3, <2>13 DEF DeepFetch, DeepFails, DeepSave, DeepMark, DeepStart, IsDeep
  <2>14. CASE Clean
    <3>1. StoredDays' = {} /\ from' = NoDay /\ to' = NoDay
      BY <2>14 DEF Clean, StoredDays
    <3>2. ASSUME NEW u \in Worker PROVE AdjustJoins(job[u])'
      <4>1. job'[u] = Idle
        BY <2>14 DEF Clean
      <4> QED BY <4>1 DEF AdjustJoins, Fetches, Idle
    <3> QED BY <3>1, <3>2 DEF AdjustCalm, FrontHeld, Adjusted
  <2>15. CASE Act
    <3>1. UNCHANGED <<today, bars, from, to, job>> /\ actions' = actions \cup {today}
      BY <2>15 DEF Act, state
    <3>2. StoredDays' = StoredDays /\ Front' = Front
      BY <3>1 DEF StoredDays, Front
    <3>3. \A d : Due(d)' = Due(d)
      BY <1>1, <3>1 DEF Due
    <3>4. \A a : Missed(a)' = Missed(a)
      BY <3>1 DEF Missed
    <3>5. ~ Missed(today)
      BY <1>1 DEF Missed
    <3>6. FrontHeld'
      BY <2>2, <3>1, <3>2 DEF AdjustCalm, FrontHeld
    <3>7. Adjusted'
      <4> SUFFICES ASSUME to # NoDay, NEW d \in StoredDays, NEW a \in actions \cup {today},
                          d < a, a <= to
                   PROVE  a \in bars[d].adj
        BY <3>1, <3>2 DEF Adjusted
      <4>1. a # today
        BY <1>1, <2>4
      <4> QED BY <2>2, <4>1 DEF AdjustCalm, Adjusted
    <3>8. ASSUME NEW u \in Worker PROVE AdjustJoins(job[u])'
      <4>1. PICK k : k = job[u]
        OBVIOUS
      <4>2. job'[u] = k /\ AdjustJoins(k)
        BY <2>2, <3>1, <4>1
      <4>3. k.at \in {"fetch", "save", "record"} =>
              \A a \in actions' : Missed(a)' => k.start = Front
        BY <3>1, <3>4, <3>5, <4>2 DEF AdjustJoins
      <4>4. AdjustJoins(k)'
        BY <3>1, <3>2, <3>3, <4>2, <4>3 DEF AdjustJoins, RowDays
      <4> QED BY <4>2, <4>4
    <3> QED BY <3>6, <3>7, <3>8 DEF AdjustCalm
  <2>16. CASE Tick
    <3>1. UNCHANGED <<actions, bars, from, to, job>> /\ today' = today + 1
      BY <2>16 DEF Tick, state
    <3>2. \A u \in Worker : job[u] = Idle
      BY <1>5, <2>16 DEF Tick
    <3>3. StoredDays' = StoredDays
      BY <3>1 DEF StoredDays
    <3>4. from = NoDay => StoredDays = {}
      BY <2>2, <3>2 DEF AdjustCalm, FrontHeld, Idle
    <3>5. from # NoDay => from <= BackfillStart(today + 1)
      BY <1>1, <2>4, CalendarAssumption DEF BackfillStart
    <3>6. FrontHeld'
      BY <2>2, <3>1, <3>3, <3>4, <3>5 DEF AdjustCalm, FrontHeld, Front
    <3>7. Adjusted'
      BY <2>2, <3>1, <3>3 DEF AdjustCalm, Adjusted
    <3>8. ASSUME NEW u \in Worker PROVE AdjustJoins(job[u])'
      BY <3>1, <3>2 DEF AdjustJoins, Fetches, Idle
    <3> QED BY <3>6, <3>7, <3>8 DEF AdjustCalm
  <2>17. ~ Crash
    BY <1>1, <1>5 DEF Crash
  <2>18. CASE UNCHANGED vars
    <3>1. UNCHANGED <<today, actions, bars, from, to, job>>
      BY <2>18 DEF vars
    <3> QED BY <2>2, <3>1 DEF AdjustCalm, FrontHeld, Adjusted, AdjustJoins, Fetches, Begins,
                              Front, Missed, Due, StoredDays, RowDays
  <2> QED BY <2>7, <2>8, <2>9, <2>10, <2>11, <2>12, <2>13, <2>14, <2>15, <2>16, <2>17, <2>18
          DEF Next
<1> QED BY <1>0, <1>2, <1>3, <1>4, <1>5 DEF AdjustInv

\* No bar a split or dividend has left behind, once coverage reaches past it:
\* an action beyond the covered days makes every later plan start at the front,
\* so that whoever first records past it has stored every bar before it anew
\* (plan_range, latest_action_date).  For stocks that do not split while their
\* deep history is asked for; a process death between a save and its record is
\* the exception the property names.
THEOREM AdjustedAlike ==
  ASSUME ProbeMayFail = FALSE, DeepActions = FALSE, CleanOverlaps = FALSE
  PROVE  Spec => []OneAdjustment
<1>1. AdjustInv /\ [Next]_vars => AdjustInv'
  BY AdjustStep
<1>2. AdjustInv => OneAdjustment
  <2> SUFFICES ASSUME AdjustInv, crashes = 0, to # NoDay,
                      NEW d \in StoredDays, NEW a \in actions, d < a, a <= to
               PROVE  a \in bars[d].adj
    BY DEF OneAdjustment
  <2>1. ~ deep
    BY DEF AdjustInv
  <2> QED BY <2>1 DEF AdjustInv, AdjustCalm, Adjusted
<1> QED BY <1>1, <1>2, AdjustInit, PTL DEF Spec
=============================================================================
