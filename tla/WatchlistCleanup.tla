-------------------------- MODULE WatchlistCleanup --------------------------
(***************************************************************************)
(* Deferred cleanup (services/watchlist_cleanup.py).  A ticker that leaves *)
(* the watchlist is recorded in cleanup_pending; a pass, at startup and    *)
(* then once a day, deletes the caches of the tickers that have been       *)
(* pending for the whole grace period and that nothing refers to.  The     *)
(* pass is one scanning transaction followed by one transaction per due    *)
(* ticker; user edits, cache fills and process death come in between.      *)
(*                                                                         *)
(* Instead of a calendar each record carries its age, which stops at the   *)
(* end of the grace period: nothing asks how much older it is.             *)
(***************************************************************************)
EXTENDS Naturals, FiniteSets, TLAPS

CONSTANTS Ticker,
          Table,          \* the tables of CLEANUP_TABLES
          Candidate,      \* the ones _CANDIDATE_QUERIES looks at
          Marker,         \* risk_state: the deep-history marker
          Grace,          \* CLEANUP_GRACE_DAYS
          NoRecord,       \* a ticker without a cleanup_pending row
          BadRecord,      \* a removal time that does not parse
          MaxEdits,       \* bound on what users and peers do
          MaxFaults       \* bound on failing deletes and process deaths

ASSUME TablesAssumption ==
  /\ Candidate \subseteq Table /\ Marker \in Table \ Candidate
  /\ Grace \in Nat \ {0}
  /\ NoRecord \notin Nat /\ BadRecord \notin Nat /\ NoRecord # BadRecord
  /\ MaxEdits \in Nat /\ MaxFaults \in Nat

Age == 0..Grace

VARIABLES
  listed,    \* the watchlist
  held,      \* tickers another reference query names
  cached,    \* per ticker: the tables that hold rows of it
  pending,   \* per ticker: the age of its cleanup_pending record
  due,       \* tickers the running pass has still to delete
  offlist,   \* history: per ticker, how long it has been off the watchlist
  calm,      \* history: no edit has come between a scan and its deletes
  edits, faults

vars == <<listed, held, cached, pending, due, offlist, calm, edits, faults>>

Referenced(t) == t \in listed \/ t \in held

TypeOK ==
  /\ listed \subseteq Ticker /\ held \subseteq Ticker
  /\ cached \in [Ticker -> SUBSET Table]
  /\ pending \in [Ticker -> Age \cup {NoRecord, BadRecord}]
  /\ due \subseteq Ticker
  /\ offlist \in [Ticker -> Age]
  /\ calm \in BOOLEAN
  /\ edits \in 0..MaxEdits /\ faults \in 0..MaxFaults

\* A database from before the cleanup existed, or one with a damaged record.
Init ==
  /\ listed \in SUBSET Ticker
  /\ held = {}
  /\ cached \in [Ticker -> {{}, Table}]
  /\ pending \in [Ticker -> {NoRecord, BadRecord}]
  /\ due = {}
  /\ offlist = [t \in Ticker |-> 0]
  /\ calm = TRUE
  /\ edits = 0 /\ faults = 0

-----------------------------------------------------------------------------
(* What users, peers and the fetchers do.                                  *)

MayEdit ==
  /\ edits < MaxEdits
  /\ edits' = edits + 1
  /\ calm' = (calm /\ due = {})

\* A row arrives: POST /watchlist, the sync or the bootstrap; clear_pending.
Add(t) ==
  /\ MayEdit
  /\ t \notin listed
  /\ listed' = listed \cup {t}
  /\ pending' = [pending EXCEPT ![t] = NoRecord]
  /\ UNCHANGED <<held, cached, due, offlist, faults>>

\* A row leaves: DELETE or the sync; record_pending restarts the clock.
Remove(t) ==
  /\ MayEdit
  /\ t \in listed
  /\ listed' = listed \ {t}
  /\ pending' = [pending EXCEPT ![t] = 0]
  /\ offlist' = [offlist EXCEPT ![t] = 0]
  /\ UNCHANGED <<held, cached, due, faults>>

\* A decision, case or snapshot is written or deleted: no hook.
Hold(t) ==
  /\ MayEdit
  /\ held' = IF t \in held THEN held \ {t} ELSE held \cup {t}
  /\ UNCHANGED <<listed, cached, pending, due, offlist, faults>>

\* A page view or a sweep fills caches; the marker is for listed tickers and
\* comes after their bars.
Fill(t) ==
  /\ MayEdit
  /\ cached' = [cached EXCEPT ![t] = IF t \in listed THEN Table ELSE @ \cup Candidate]
  /\ UNCHANGED <<listed, held, pending, due, offlist, faults>>

-----------------------------------------------------------------------------
(* run_cleanup.                                                            *)

\* Defect: a removal time that does not parse is left as it is.
ScannedUnrepaired(t) ==
  IF Referenced(t) THEN NoRecord
  ELSE IF pending[t] = NoRecord /\ cached[t] \cap Candidate # {} THEN 0
  ELSE pending[t]

\* Defect: a removal time that does not parse is set to the epoch, a time
\* older than any grace period.
ScannedEpoch(t) ==
  IF Referenced(t) THEN NoRecord
  ELSE IF pending[t] = NoRecord /\ cached[t] \cap Candidate # {} THEN 0
  ELSE IF pending[t] = BadRecord THEN Grace + 1
  ELSE pending[t]

\* Defect: a ticker found without a record counts as long removed.
ScannedAtOnce(t) ==
  IF Referenced(t) THEN NoRecord
  ELSE IF pending[t] = NoRecord /\ cached[t] \cap Candidate # {} THEN Grace
  ELSE IF pending[t] = BadRecord THEN 0
  ELSE pending[t]

\* What the scan makes of a record: drop it, start it, repair it or keep it.
Scanned(t) ==
  IF Referenced(t) THEN NoRecord
  ELSE IF pending[t] = NoRecord /\ cached[t] \cap Candidate # {} THEN 0
  ELSE IF pending[t] = BadRecord THEN 0
  ELSE pending[t]

\* The first transaction.  Only records that were there before it are due.
Scan ==
  /\ due = {}
  /\ pending' = [t \in Ticker |-> Scanned(t)]
  /\ due' = {t \in Ticker : ~ Referenced(t) /\ pending[t] = Grace}
  /\ UNCHANGED <<listed, held, cached, offlist, edits, faults, calm>>

\* Defect: the references of the scan are trusted.
DeleteUnchecked(t) ==
  /\ t \in due
  /\ due' = due \ {t}
  /\ cached' = [cached EXCEPT ![t] = {}]
  /\ pending' = [pending EXCEPT ![t] = NoRecord]
  /\ UNCHANGED <<listed, held, offlist, edits, faults, calm>>

\* Defect: CLEANUP_TABLES without the marker.
DeleteKeepsMarker(t) ==
  /\ t \in due
  /\ due' = due \ {t}
  /\ cached' = [cached EXCEPT ![t] = IF Referenced(t) THEN @ ELSE @ \cap {Marker}]
  /\ pending' = [pending EXCEPT ![t] = NoRecord]
  /\ UNCHANGED <<listed, held, offlist, edits, faults, calm>>

\* delete_ticker_caches of one due ticker: BEGIN IMMEDIATE, references again,
\* one savepoint per table.  A table that fails stays, and so does the record.
DeleteOne(t) ==
  /\ t \in due
  /\ due' = due \ {t}
  /\ IF Referenced(t)
     THEN /\ pending' = [pending EXCEPT ![t] = NoRecord]
          /\ UNCHANGED <<cached, faults>>
     ELSE \E failed \in SUBSET Table :
            /\ failed # {} => faults < MaxFaults
            /\ faults' = IF failed = {} THEN faults ELSE faults + 1
            /\ cached' = [cached EXCEPT ![t] = @ \cap failed]
            /\ pending' = IF failed = {} THEN [pending EXCEPT ![t] = NoRecord]
                          ELSE pending
  /\ UNCHANGED <<listed, held, offlist, edits, calm>>

\* The transaction itself fails: logged, the pass goes on.
DeleteFails(t) ==
  /\ t \in due
  /\ faults < MaxFaults
  /\ faults' = faults + 1
  /\ due' = due \ {t}
  /\ UNCHANGED <<listed, held, cached, pending, offlist, edits, calm>>

\* The process dies in the middle of a pass.
Restart ==
  /\ due # {}
  /\ faults < MaxFaults
  /\ faults' = faults + 1
  /\ due' = {}
  /\ UNCHANGED <<listed, held, cached, pending, offlist, edits, calm>>

Older(a) == IF a \in Nat /\ a < Grace THEN a + 1 ELSE a

\* A day passes, for the records and for the history alike.
Tick ==
  /\ due = {}
  /\ pending' = [t \in Ticker |-> Older(pending[t])]
  /\ offlist' = [t \in Ticker |-> Older(offlist[t])]
  /\ UNCHANGED <<listed, held, cached, due, edits, faults, calm>>

Next ==
  \/ \E t \in Ticker : Add(t) \/ Remove(t) \/ Hold(t) \/ Fill(t)
                       \/ DeleteOne(t) \/ DeleteFails(t)
  \/ Scan \/ Restart \/ Tick

Spec == Init /\ [][Next]_vars

\* watchlist_cleanup_cycle: a pass every day, each run to its end; time passes.
Fairness ==
  /\ WF_vars(Scan) /\ WF_vars(Tick)
  /\ \A t \in Ticker : WF_vars(DeleteOne(t))

FairSpec == Spec /\ Fairness
-----------------------------------------------------------------------------
(* Properties.                                                             *)

Loses(t) == ~ (cached[t] \subseteq cached'[t])

\* A cache is deleted only while nothing refers to its ticker, also when a
\* reference appeared after the scan (delete_ticker_caches).
NeverDeletesReferenced ==
  [][\A t \in Ticker : Loses(t) => ~ Referenced(t)]_vars

\* A ticker's caches outlive the whole grace period that its last removal
\* from the watchlist began ("A later removal restarts the clock"), as long as
\* no edit has ever come in the middle of a pass.
GraceKept ==
  [][\A t \in Ticker : calm /\ Loses(t) => offlist[t] = Grace]_vars

\* The marker never outlives the bars: "with the bars gone it must be fetched
\* again" (CLEANUP_TABLES).  A failed delete leaves it behind until its retry,
\* which an edit may cancel: the property is about passes without faults.
MarkerHasBars ==
  faults = 0 =>
    \A t \in Ticker : Marker \in cached[t] => Candidate \subseteq cached[t]

\* A ticker that is and stays unreferenced and unfetched is forgotten in the
\* end, whatever failed, crashed or was never recorded.
EventuallyClean ==
  \A t \in Ticker :
    <>[](~ Referenced(t)) => <>[](cached[t] \cap Candidate = {})

-----------------------------------------------------------------------------
(* The cleanup for any tickers, any tables and any grace period.           *)

LEMMA OlderAge ==
  ASSUME NEW a \in Age \cup {NoRecord, BadRecord}
  PROVE  /\ Older(a) \in Age \cup {NoRecord, BadRecord}
         /\ a \in Age => Older(a) \in Age
BY TablesAssumption DEF Older, Age

\* What the scan writes into cleanup_pending is a record or none.
LEMMA ScannedType ==
  ASSUME TypeOK, NEW t \in Ticker
  PROVE  Scanned(t) \in Age \cup {NoRecord, BadRecord}
<1>1. 0 \in Age
  BY TablesAssumption DEF Age
<1> QED BY <1>1 DEF TypeOK, Scanned

\* Every variable keeps its type; no removal time is ever older than the
\* model can tell (run_cleanup and the hooks that write cleanup_pending).
THEOREM TypeCorrect == Spec => []TypeOK
<1>1. Init => TypeOK
  BY TablesAssumption DEF Init, TypeOK, Age
<1>2. ASSUME TypeOK, [Next]_vars PROVE TypeOK'
  <2> USE <1>2, TablesAssumption
  <2>0. 0 \in Age
    BY DEF Age
  <2>1. ASSUME NEW t \in Ticker, Add(t) PROVE TypeOK'
    BY <2>1 DEF TypeOK, Add, MayEdit
  <2>2. ASSUME NEW t \in Ticker, Remove(t) PROVE TypeOK'
    BY <2>0, <2>2 DEF TypeOK, Remove, MayEdit
  <2>3. ASSUME NEW t \in Ticker, Hold(t) PROVE TypeOK'
    BY <2>3 DEF TypeOK, Hold, MayEdit
  <2>4. ASSUME NEW t \in Ticker, Fill(t) PROVE TypeOK'
    BY <2>4 DEF TypeOK, Fill, MayEdit
  <2>5. ASSUME NEW t \in Ticker, DeleteOne(t) PROVE TypeOK'
    <3>1. CASE Referenced(t)
      BY <2>5, <3>1 DEF TypeOK, DeleteOne
    <3>2. CASE ~ Referenced(t)
      BY <2>5, <3>2 DEF TypeOK, DeleteOne
    <3> QED BY <3>1, <3>2
  <2>6. ASSUME NEW t \in Ticker, DeleteFails(t) PROVE TypeOK'
    BY <2>6 DEF TypeOK, DeleteFails
  <2>7. CASE Scan
    <3>1. pending' \in [Ticker -> Age \cup {NoRecord, BadRecord}]
      BY <2>7, ScannedType DEF Scan
    <3> QED BY <2>7, <3>1 DEF TypeOK, Scan
  <2>8. CASE Restart
    BY <2>8 DEF TypeOK, Restart
  <2>9. CASE Tick
    <3>1. pending' \in [Ticker -> Age \cup {NoRecord, BadRecord}]
      BY <2>9, OlderAge DEF Tick, TypeOK
    <3>2. offlist' \in [Ticker -> Age]
      BY <2>9, OlderAge DEF Tick, TypeOK
    <3> QED BY <2>9, <3>1, <3>2 DEF TypeOK, Tick
  <2>10. CASE UNCHANGED vars
    BY <2>10 DEF TypeOK, vars
  <2> QED BY <2>1, <2>2, <2>3, <2>4, <2>5, <2>6, <2>7, <2>8, <2>9, <2>10 DEF Next
<1> QED BY <1>1, <1>2, PTL DEF Spec

\* Nothing that anything refers to loses a row, for every interleaving of
\* edits with the pass (delete_ticker_caches looks again under its own lock).
THEOREM ReferencedIsSafe == Spec => NeverDeletesReferenced
<1>1. ASSUME TypeOK, [Next]_vars
      PROVE  [\A t \in Ticker : Loses(t) => ~ Referenced(t)]_vars
  <2> SUFFICES ASSUME NEW t \in Ticker, Loses(t) PROVE ~ Referenced(t)
    OBVIOUS
  <2>1. cached'[t] # cached[t]
    BY DEF Loses
  <2>2. CASE \E u \in Ticker : DeleteOne(u)
    <3>1. PICK u \in Ticker : DeleteOne(u)
      BY <2>2
    <3>2. u = t
      BY <1>1, <2>1, <3>1 DEF DeleteOne, TypeOK
    <3> QED BY <2>1, <3>1, <3>2 DEF DeleteOne
  <2>3. CASE \E u \in Ticker : Fill(u)
    BY <1>1, <2>3 DEF Fill, Loses, TypeOK
  <2>4. CASE \E u \in Ticker : Add(u) \/ Remove(u) \/ Hold(u) \/ DeleteFails(u)
    BY <2>1, <2>4 DEF Add, Remove, Hold, DeleteFails
  <2>5. CASE Scan \/ Restart \/ Tick \/ UNCHANGED vars
    BY <2>1, <2>5 DEF Scan, Restart, Tick, vars
  <2> QED BY <1>1, <2>2, <2>3, <2>4, <2>5 DEF Next
<1> QED BY <1>1, TypeCorrect, PTL DEF Spec, NeverDeletesReferenced

\* The marker never outlives the bars as long as no delete fails, whatever
\* edits come between the scan and the deletes: the tables of a ticker go
\* together, and Fill brings the bars whenever it brings the marker.
THEOREM MarkerIsTrue == Spec => []MarkerHasBars
<1>1. Init => MarkerHasBars
  BY TablesAssumption DEF Init, MarkerHasBars
<1>2. ASSUME TypeOK, MarkerHasBars, [Next]_vars PROVE MarkerHasBars'
  <2> SUFFICES ASSUME faults' = 0, NEW t \in Ticker, Marker \in cached'[t]
               PROVE  Candidate \subseteq cached'[t]
    BY DEF MarkerHasBars
  <2> USE TablesAssumption
  <2>1. CASE \E u \in Ticker : Fill(u)
    <3>1. faults = 0
      BY <2>1 DEF Fill
    <3>2. PICK u \in Ticker : Fill(u)
      BY <2>1
    <3>3. CASE u = t
      BY <3>2, <3>3, <1>2 DEF Fill, TypeOK
    <3>4. CASE u # t
      BY <3>1, <3>2, <3>4, <1>2 DEF Fill, TypeOK, MarkerHasBars
    <3> QED BY <3>3, <3>4
  <2>2. CASE \E u \in Ticker : DeleteOne(u)
    <3>1. PICK u \in Ticker : DeleteOne(u)
      BY <2>2
    <3>2. faults = 0
      BY <3>1, <1>2 DEF DeleteOne, TypeOK
    <3>3. CASE cached' = cached
      BY <3>2, <3>3, <1>2 DEF MarkerHasBars
    <3>4. CASE ~ Referenced(u) /\ cached' # cached
      <4>1. PICK failed \in SUBSET Table :
               /\ faults' = IF failed = {} THEN faults ELSE faults + 1
               /\ cached' = [cached EXCEPT ![u] = @ \cap failed]
        BY <3>1, <3>4 DEF DeleteOne
      <4>2. failed = {}
        BY <4>1, <3>2
      <4> QED BY <4>1, <4>2, <3>2, <1>2 DEF TypeOK, MarkerHasBars
    <3> QED BY <3>1, <3>3, <3>4 DEF DeleteOne
  <2>3. CASE \E u \in Ticker : Add(u) \/ Remove(u) \/ Hold(u)
    BY <2>3, <1>2 DEF Add, Remove, Hold, MarkerHasBars
  <2>4. CASE \E u \in Ticker : DeleteFails(u)
    BY <2>4, <1>2 DEF DeleteFails, TypeOK
  <2>5. CASE Restart
    BY <2>5, <1>2 DEF Restart, TypeOK
  <2>6. CASE Scan \/ Tick \/ UNCHANGED vars
    BY <2>6, <1>2 DEF Scan, Tick, vars, MarkerHasBars
  <2> QED BY <1>2, <2>1, <2>2, <2>3, <2>4, <2>5, <2>6 DEF Next
<1> QED BY <1>1, <1>2, TypeCorrect, PTL DEF Spec

-----------------------------------------------------------------------------
(* The grace period.  A record is never older than the ticker's absence,   *)
(* so what a scan finds due has been away for the whole period; in a calm  *)
(* pass nothing changes that before the delete.                            *)

\* No record claims more days than the ticker has been off the watchlist.
RecordsHonest ==
  \A t \in Ticker : pending[t] \in Age => pending[t] <= offlist[t]

\* What a calm pass has still to delete has been away long enough.
DueLongEnough ==
  calm => \A t \in due : offlist[t] = Grace

GraceInv == TypeOK /\ RecordsHonest /\ DueLongEnough

LEMMA OlderKeepsOrder ==
  ASSUME NEW a \in Age \cup {NoRecord, BadRecord}, NEW b \in Age,
         a \in Age => a <= b, Older(a) \in Age
  PROVE  Older(a) <= Older(b)
BY TablesAssumption DEF Older, Age

LEMMA GraceInductive ==
  ASSUME GraceInv, TypeOK', [Next]_vars
  PROVE  RecordsHonest' /\ DueLongEnough'
<1> USE TablesAssumption DEF GraceInv
<1>0. 0 \in Age /\ Grace \in Age
  BY DEF Age
<1>1. ASSUME NEW t \in Ticker, Add(t) PROVE RecordsHonest' /\ DueLongEnough'
  <2>1. RecordsHonest'
    BY <1>1 DEF Add, RecordsHonest, TypeOK, Age
  <2>2. DueLongEnough'
    BY <1>1 DEF Add, MayEdit, DueLongEnough
  <2> QED BY <2>1, <2>2
<1>2. ASSUME NEW t \in Ticker, Remove(t) PROVE RecordsHonest' /\ DueLongEnough'
  <2>1. RecordsHonest'
    BY <1>2 DEF Remove, RecordsHonest, TypeOK, Age
  <2>2. DueLongEnough'
    BY <1>2 DEF Remove, MayEdit, DueLongEnough
  <2> QED BY <2>1, <2>2
<1>3. ASSUME NEW t \in Ticker, Hold(t) \/ Fill(t)
      PROVE  RecordsHonest' /\ DueLongEnough'
  BY <1>3 DEF Hold, Fill, MayEdit, RecordsHonest, DueLongEnough
<1>4. ASSUME NEW t \in Ticker, DeleteOne(t)
      PROVE  RecordsHonest' /\ DueLongEnough'
  <2>1. /\ due' = due \ {t} /\ offlist' = offlist /\ calm' = calm
        /\ pending' = [pending EXCEPT ![t] = NoRecord] \/ pending' = pending
    BY <1>4 DEF DeleteOne
  <2>2. RecordsHonest'
    BY <2>1 DEF RecordsHonest, TypeOK, Age
  <2>3. DueLongEnough'
    BY <2>1 DEF DueLongEnough
  <2> QED BY <2>2, <2>3
<1>5. ASSUME NEW t \in Ticker, DeleteFails(t)
      PROVE  RecordsHonest' /\ DueLongEnough'
  BY <1>5 DEF DeleteFails, RecordsHonest, DueLongEnough
<1>6. CASE Scan
  <2>1. RecordsHonest'
    <3> SUFFICES ASSUME NEW t \in Ticker, pending'[t] \in Age
                 PROVE  pending'[t] <= offlist'[t]
      BY DEF RecordsHonest
    <3>1. pending'[t] = Scanned(t) /\ offlist'[t] = offlist[t] /\ offlist[t] \in Age
      BY <1>6 DEF Scan, TypeOK
    <3>2. Scanned(t) = 0 \/ Scanned(t) = pending[t] \/ Scanned(t) = NoRecord
      BY DEF Scanned
    <3> QED BY <3>1, <3>2 DEF RecordsHonest, Age
  <2>2. DueLongEnough'
    <3> SUFFICES ASSUME NEW t \in due' PROVE offlist'[t] = Grace
      BY DEF DueLongEnough
    <3>1. t \in Ticker /\ pending[t] = Grace /\ offlist'[t] = offlist[t]
      BY <1>6 DEF Scan
    <3>2. offlist[t] \in Age /\ Grace <= offlist[t]
      BY <3>1, <1>0 DEF RecordsHonest, TypeOK
    <3> QED BY <3>1, <3>2 DEF Age
  <2> QED BY <2>1, <2>2
<1>7. CASE Restart
  BY <1>7 DEF Restart, RecordsHonest, DueLongEnough
<1>8. CASE Tick
  <2>1. RecordsHonest'
    <3> SUFFICES ASSUME NEW t \in Ticker, pending'[t] \in Age
                 PROVE  pending'[t] <= offlist'[t]
      BY DEF RecordsHonest
    <3>1. pending'[t] = Older(pending[t]) /\ offlist'[t] = Older(offlist[t])
      BY <1>8 DEF Tick
    <3> QED BY <3>1, OlderKeepsOrder DEF RecordsHonest, TypeOK
  <2>2. DueLongEnough'
    BY <1>8 DEF Tick, DueLongEnough
  <2> QED BY <2>1, <2>2
<1>9. CASE UNCHANGED vars
  BY <1>9 DEF vars, RecordsHonest, DueLongEnough
<1> QED BY <1>1, <1>2, <1>3, <1>4, <1>5, <1>6, <1>7, <1>8, <1>9 DEF Next

\* In a calm pass no cache goes before its ticker has been off the watchlist
\* for the whole grace period, for any period, tickers and tables.
THEOREM GraceIsKept == Spec => GraceKept
<1>1. Init => GraceInv
  <2>1. Init => TypeOK
    BY TablesAssumption DEF Init, TypeOK, Age
  <2>2. Init => RecordsHonest
    BY TablesAssumption DEF Init, RecordsHonest, Age
  <2>3. Init => DueLongEnough
    BY DEF Init, DueLongEnough
  <2> QED BY <2>1, <2>2, <2>3 DEF GraceInv
<1>2. ASSUME GraceInv, TypeOK', [Next]_vars PROVE GraceInv'
  BY <1>2, GraceInductive DEF GraceInv
<1>3. ASSUME GraceInv, [Next]_vars
      PROVE  [\A t \in Ticker : calm /\ Loses(t) => offlist[t] = Grace]_vars
  <2> SUFFICES ASSUME NEW t \in Ticker, calm, Loses(t) PROVE offlist[t] = Grace
    OBVIOUS
  <2>1. cached'[t] # cached[t]
    BY DEF Loses
  <2>2. CASE \E u \in Ticker : DeleteOne(u)
    <3>1. PICK u \in Ticker : DeleteOne(u)
      BY <2>2
    <3>2. u = t
      BY <1>3, <2>1, <3>1 DEF DeleteOne, TypeOK, GraceInv
    <3> QED BY <3>1, <3>2, <1>3 DEF DeleteOne, GraceInv, DueLongEnough
  <2>3. CASE \E u \in Ticker : Fill(u)
    BY <1>3, <2>3 DEF Fill, Loses, TypeOK, GraceInv
  <2>4. CASE \E u \in Ticker : Add(u) \/ Remove(u) \/ Hold(u) \/ DeleteFails(u)
    BY <2>1, <2>4 DEF Add, Remove, Hold, DeleteFails
  <2>5. CASE Scan \/ Restart \/ Tick \/ UNCHANGED vars
    BY <2>1, <2>5 DEF Scan, Restart, Tick, vars
  <2> QED BY <1>3, <2>2, <2>3, <2>4, <2>5 DEF Next
<1> QED BY <1>1, <1>2, <1>3, TypeCorrect, PTL DEF Spec, GraceKept
=============================================================================
