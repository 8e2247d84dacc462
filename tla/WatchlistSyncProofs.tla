------------------------ MODULE WatchlistSyncProofs ------------------------
(***************************************************************************)
(* Watchlist peer sync, for every number of PCs, tickers and threads, every *)
(* bound and every interleaving: type correctness, that a sync never       *)
(* publishes a contradiction nor loses what a PC knows, and that a ticker  *)
(* is pending exactly when it left the list.  With the writers of a PC one *)
(* at a time: its changes outrank all it held, it never forgets and never  *)
(* reseeds, and a stamp and its author stand for one content.              *)
(***************************************************************************)
EXTENDS WatchlistSync, MergeLoop

\* A stamp next_stamp issues while there is room is a stamp.
LEMMA NextStampType ==
  ASSUME NEW now \in ClockReading, NEW last \in Stamp, NEW after \in Stamp,
         last < MaxStamp, after < MaxStamp
  PROVE  NextStamp(now, last, after) \in Stamp
BY BoundsAssumption
   DEF NextStamp, Larger, ClockReading, Stamp, BaselineStamp, NullStamp

LEMMA CausalStampType ==
  ASSUME TypeOK, NEW p \in PC, NEW k \in Thread, NEW t \in Ticker, MayEdit(p, k, t),
         NEW now \in ClockReading
  PROVE  CausalStamp(p, t, now) \in Stamp
<1>1. db[p] \in State /\ issued[p] \in Stamp
  BY DEF TypeOK
<1>2. SeenStamp(p, t) \in Stamp
  BY <1>1, BoundsAssumption, AbsenceAssumption
     DEF SeenStamp, StampOf, Larger, State, Row, Tomb, Stamp, NullStamp
<1> QED BY <1>1, <1>2, NextStampType DEF CausalStamp, MayEdit

\* A row as read_local_state reads it: the row, or its unstamped copy raised
\* to the baseline.
LEMMA AsReadType ==
  ASSUME NEW row \in Row
  PROVE  /\ AsRead(row) \in Row
         /\ \/ AsRead(row) = row
            \/ row.ts = NullStamp /\ AsRead(row).ts = BaselineStamp
<1>1. BaselineStamp \in Stamp /\ 0 \in Author
  BY BoundsAssumption DEF Stamp, Author, BaselineStamp
<1>2. [row EXCEPT !.ts = BaselineStamp, !.by = 0] \in Row
  BY <1>1 DEF Row
<1>3. [row EXCEPT !.ts = BaselineStamp, !.by = 0].ts = BaselineStamp
  BY DEF Row
<1> QED BY <1>2, <1>3 DEF AsRead

LEMMA LocalStateType ==
  ASSUME TypeOK, NEW p \in PC
  PROVE  LocalState(p) \in State
<1>1. db[p] \in State
  BY DEF TypeOK
<1>2. \A t \in Ticker : AsRead(db[p].rows[t]) \in Row \cup {NoRow}
  <2> TAKE t \in Ticker
  <2>1. CASE db[p].rows[t] \in Row
    BY <2>1, AsReadType
  <2>2. CASE db[p].rows[t] = NoRow
    BY <2>2 DEF AsRead
  <2> QED BY <1>1, <2>1, <2>2 DEF State
<1> QED BY <1>1, <1>2 DEF LocalState, State

\* Replacing the rows of a PC by typed rows keeps the databases typed.
LEMMA DbRowsType ==
  ASSUME TypeOK, NEW p \in PC, NEW rows \in [Ticker -> Row \cup {NoRow}]
  PROVE  [db EXCEPT ![p].rows = rows] \in [PC -> State]
BY DEF TypeOK, State

LEMMA InitType == Init => TypeOK
<1> SUFFICES ASSUME Init PROVE TypeOK
  OBVIOUS
<1>1. \A m \in LegacyMeta : LegacyRow(m) \in Row
  BY BoundsAssumption, InstanceAssumption
     DEF LegacyRow, Row, Stamp, Author, NullStamp
<1>2. db \in [PC -> State]
  BY <1>1 DEF Init, State, EmptyState
<1>3. issued \in [PC -> Stamp]
  BY BoundsAssumption DEF Init, Stamp, BaselineStamp
<1>4. /\ req \in [PC -> [Thread -> Request]]
      /\ sync \in [PC -> Sync]
      /\ seen \in [PC -> [PC -> FolderEntry]]
  BY DEF Init, Request, Sync, FolderEntry
<1>5. enabled \in [PC -> BOOLEAN]
  BY DEF Init
<1>6. edits \in 0..MaxEdits /\ faults \in 0..MaxFaults /\ restarts \in 0..MaxRestarts
  BY InstanceAssumption DEF Init
<1> QED BY <1>2, <1>3, <1>4, <1>5, <1>6 DEF Init, TypeOK

-----------------------------------------------------------------------------
LEMMA UpsertReadType ==
  ASSUME TypeOK, NEW p \in PC, NEW k \in Thread, NEW t \in Ticker, NEW m \in 0..MaxMeta,
         UpsertRead(p, k, t, m)
  PROVE  TypeOK'
<1> USE DEF TypeOK
<1>1. MayEdit(p, k, t)
  BY DEF UpsertRead
<1>2. PICK now \in ClockReading :
       LET old == db[p].rows[t]
           changed == old = NoRow \/ old.meta # m
           stamp == CausalStamp(p, t, now)
           new == IF changed
                  THEN [ts |-> stamp, by |-> p, meta |-> m, theme |-> 0]
                  ELSE old
       IN  /\ issued' = IF changed THEN [issued EXCEPT ![p] = stamp] ELSE issued
           /\ req' = [req EXCEPT ![p][k] =
                        [at |-> "upsert", ticker |-> t, row |-> new]]
  BY DEF UpsertRead
<1> DEFINE stamp == CausalStamp(p, t, now)
           new == IF db[p].rows[t] = NoRow \/ db[p].rows[t].meta # m
                  THEN [ts |-> stamp, by |-> p, meta |-> m, theme |-> 0]
                  ELSE db[p].rows[t]
<1>3. stamp \in Stamp
  BY <1>1, CausalStampType
<1>4. p \in Author
  BY InstanceAssumption, BoundsAssumption DEF PC, Author
<1>5. new \in Row
  BY <1>3, <1>4, BoundsAssumption DEF State, Row
<1>6. [at |-> "upsert", ticker |-> t, row |-> new] \in Request
  BY <1>5 DEF Request, EditRequest
<1> HIDE DEF new, stamp
<1>7. issued' \in [PC -> Stamp]
  BY <1>2, <1>3 DEF stamp
<1>8. req' \in [PC -> [Thread -> Request]]
  BY <1>2, <1>6 DEF stamp, new
<1>9. edits' \in 0..MaxEdits
  BY InstanceAssumption DEF UpsertRead, MayEdit
<1> QED BY <1>7, <1>8, <1>9 DEF UpsertRead

\* A request between its read and its write holds a ticker and a row.
LEMMA PreparedEdit ==
  ASSUME TypeOK, NEW p \in PC, NEW k \in Thread,
         req[p][k].at \in {"upsert", "delete"}
  PROVE  req[p][k].ticker \in Ticker /\ req[p][k].row \in Row
<1>1. req[p][k] \in Request
  BY DEF TypeOK
<1> QED BY <1>1 DEF Request, EditRequest, IdleRequest, MarkRequest

LEMMA UpsertWriteType ==
  ASSUME TypeOK, NEW p \in PC, NEW k \in Thread, UpsertWrite(p, k)
  PROVE  TypeOK'
<1> DEFINE t == req[p][k].ticker
           theme == IF Present(p, t) THEN db[p].rows[t].theme ELSE 0
           row == [req[p][k].row EXCEPT !.theme = theme]
<1>1. t \in Ticker /\ req[p][k].row \in Row
  BY PreparedEdit DEF UpsertWrite
<1>2. theme \in 0..MaxTheme
  BY <1>1, BoundsAssumption DEF TypeOK, State, Row, Present
<1>3. row \in Row
  BY <1>1, <1>2 DEF Row
<1>4. db' = SetRow(p, t, row)
  BY DEF UpsertWrite
<1> HIDE DEF row, t
<1>5. db' \in [PC -> State]
  BY <1>1, <1>3, <1>4 DEF TypeOK, SetRow, State
<1>6. req' \in [PC -> [Thread -> Request]]
  BY DEF TypeOK, UpsertWrite, Request
<1>7. pending' \in [PC -> SUBSET Ticker]
  BY DEF TypeOK, UpsertWrite
<1> QED BY <1>5, <1>6, <1>7 DEF TypeOK, UpsertWrite

LEMMA RestampType ==
  ASSUME TypeOK, NEW p \in PC, NEW k \in Thread, NEW t \in Ticker,
         NEW m \in 0..MaxMeta, NEW h \in 0..MaxTheme, Restamp(p, k, t, m, h)
  PROVE  TypeOK'
<1>1. PICK now \in ClockReading :
        /\ issued' = [issued EXCEPT ![p] = CausalStamp(p, t, now)]
        /\ db' = SetRow(p, t, [ts |-> CausalStamp(p, t, now), by |-> p,
                               meta |-> m, theme |-> h])
  BY DEF Restamp
<1>2. CausalStamp(p, t, now) \in Stamp
  BY CausalStampType DEF Restamp
<1>3. p \in Author
  BY InstanceAssumption, BoundsAssumption DEF PC, Author
<1>4. [ts |-> CausalStamp(p, t, now), by |-> p, meta |-> m, theme |-> h] \in Row
  BY <1>2, <1>3 DEF Row
<1>5. db' \in [PC -> State]
  BY <1>1, <1>4 DEF TypeOK, SetRow, State
<1>6. req' \in [PC -> [Thread -> Request]]
  BY DEF TypeOK, Restamp, Request
<1>7. edits' \in 0..MaxEdits
  BY InstanceAssumption DEF TypeOK, Restamp, MayEdit
<1> QED BY <1>1, <1>2, <1>5, <1>6, <1>7 DEF TypeOK, Restamp

LEMMA DeleteReadType ==
  ASSUME TypeOK, NEW p \in PC, NEW k \in Thread, NEW t \in Ticker, DeleteRead(p, k, t)
  PROVE  TypeOK'
<1>1. PICK now \in ClockReading :
       LET stamp == IF enabled[p] THEN CausalStamp(p, t, now) ELSE NullStamp
       IN  /\ issued' = [issued EXCEPT ![p] = Larger(@, stamp)]
           /\ req' = [req EXCEPT ![p][k] =
                        [at |-> "delete", ticker |-> t,
                         row |-> [ts |-> stamp, by |-> p, meta |-> 0, theme |-> 0]]]
  BY DEF DeleteRead
<1> DEFINE stamp == IF enabled[p] THEN CausalStamp(p, t, now) ELSE NullStamp
           row == [ts |-> stamp, by |-> p, meta |-> 0, theme |-> 0]
<1>2. stamp \in Stamp
  BY CausalStampType, BoundsAssumption DEF DeleteRead, Stamp, NullStamp
<1>3. row \in Row
  BY <1>2, InstanceAssumption, BoundsAssumption DEF PC, Author, Row
<1> HIDE DEF stamp
<1>4. issued' \in [PC -> Stamp]
  BY <1>1, <1>2 DEF TypeOK, Larger, stamp
<1>5. [at |-> "delete", ticker |-> t, row |-> row] \in Request
  BY <1>3 DEF Request, EditRequest
<1> HIDE DEF row
<1>6. req' \in [PC -> [Thread -> Request]]
  BY <1>1, <1>5 DEF TypeOK, stamp, row
<1>7. edits' \in 0..MaxEdits
  BY InstanceAssumption DEF TypeOK, DeleteRead, MayEdit
<1> QED BY <1>4, <1>6, <1>7 DEF TypeOK, DeleteRead

\* Updating both fields of one PC's state, one after the other.
LEMMA TwoFieldsType ==
  ASSUME NEW f \in [PC -> State], NEW p \in PC, NEW t \in Ticker,
         NEW r \in Row \cup {NoRow}, NEW d \in Tomb \cup {NoTomb}
  PROVE  [f EXCEPT ![p].rows[t] = r, ![p].removed[t] = d] \in [PC -> State]
<1> DEFINE g == [f EXCEPT ![p].rows[t] = r]
<1>1. g \in [PC -> State]
  BY DEF State
<1> HIDE DEF g
<1>2. [g EXCEPT ![p].removed[t] = d] \in [PC -> State]
  BY <1>1 DEF State
<1>3. [f EXCEPT ![p].rows[t] = r, ![p].removed[t] = d]
        = [g EXCEPT ![p].removed[t] = d]
  BY DEF g
<1> QED BY <1>2, <1>3

LEMMA DeleteWriteType ==
  ASSUME TypeOK, NEW p \in PC, NEW k \in Thread, DeleteWrite(p, k)
  PROVE  TypeOK'
<1> DEFINE t == req[p][k].ticker
           tomb == [ts |-> req[p][k].row.ts, by |-> p]
<1>1. t \in Ticker /\ req[p][k].row \in Row
  BY PreparedEdit DEF DeleteWrite
<1>2. tomb \in Tomb
  BY <1>1, InstanceAssumption, BoundsAssumption DEF PC, Author, Row, Tomb
<1>3. db' = [db EXCEPT ![p].rows[t] = NoRow,
                       ![p].removed[t] = IF enabled[p] THEN tomb
                                         ELSE db[p].removed[t]]
  BY DEF DeleteWrite
<1>4. pending' = [pending EXCEPT ![p] = @ \cup {t}]
  BY DEF DeleteWrite
<1> HIDE DEF t, tomb
<1>5. db' \in [PC -> State]
  <2> DEFINE d == IF enabled[p] THEN tomb ELSE db[p].removed[t]
  <2>1. d \in Tomb \cup {NoTomb}
    BY <1>1, <1>2 DEF TypeOK, State
  <2> HIDE DEF d
  <2>2. [db EXCEPT ![p].rows[t] = NoRow, ![p].removed[t] = d] \in [PC -> State]
    BY <1>1, <2>1, TwoFieldsType DEF TypeOK
  <2> QED BY <1>3, <2>2 DEF d
<1>6. req' \in [PC -> [Thread -> Request]]
  BY DEF TypeOK, DeleteWrite, Request
<1> QED BY <1>1, <1>4, <1>5, <1>6 DEF TypeOK, DeleteWrite
-----------------------------------------------------------------------------
\* A sync between its peer read and its merge holds states; one about to
\* publish holds a state.
LEMMA RunningSync ==
  ASSUME TypeOK, NEW p \in PC
  PROVE  /\ sync[p].at \in {"read", "seed", "merge"} =>
              /\ sync[p] \in ReadSync
              /\ sync[p].peers \in SUBSET State /\ sync[p].skipped \in BOOLEAN
         /\ sync[p].at = "publish" =>
              sync[p] \in MergedSync /\ sync[p].merged \in State
<1>1. sync[p] \in Sync
  BY DEF TypeOK
<1> QED BY <1>1 DEF Sync, ReadSync, MergedSync, IdleSync

LEMMA SyncOpenType ==
  ASSUME TypeOK, NEW p \in PC, SyncOpen(p)
  PROVE  TypeOK'
<1>1. ASSUME NEW row \in Row PROVE [row EXCEPT !.ts = BaselineStamp, !.by = p] \in Row
  <2>1. BaselineStamp \in Stamp /\ p \in Author
    BY BoundsAssumption, InstanceAssumption DEF Stamp, Author, BaselineStamp, PC
  <2> QED BY <2>1 DEF Row
<1> DEFINE rows == [t \in Ticker |->
              IF Present(p, t) /\ db[p].rows[t].ts = NullStamp
              THEN [db[p].rows[t] EXCEPT !.ts = BaselineStamp, !.by = p]
              ELSE db[p].rows[t]]
           peers == {seen[p][q] : q \in PC \ {p}} \ {NoFile, Unreadable}
           skipped == Unreadable \in {seen[p][q] : q \in PC}
<1>2. rows \in [Ticker -> Row \cup {NoRow}]
  <2> SUFFICES ASSUME NEW t \in Ticker PROVE rows[t] \in Row \cup {NoRow}
    OBVIOUS
  <2>1. db[p].rows[t] \in Row \cup {NoRow}
    BY DEF TypeOK, State
  <2> QED BY <1>1, <2>1 DEF Present
<1>3. db' = [db EXCEPT ![p].rows = rows]
  BY DEF SyncOpen
<1>4. db' \in [PC -> State]
  <2> HIDE DEF rows
  <2> QED BY <1>2, <1>3, DbRowsType
<1>5. peers \in SUBSET State
  BY DEF TypeOK, FolderEntry
<1>6. sync' = [sync EXCEPT ![p] = [at |-> "read", peers |-> peers, skipped |-> skipped]]
  BY DEF SyncOpen
<1>7. skipped \in BOOLEAN
  OBVIOUS
<1>8. [at |-> "read", peers |-> peers, skipped |-> skipped] \in Sync
  <2> HIDE DEF peers, skipped
  <2> QED BY <1>5, <1>7 DEF Sync, ReadSync
<1>9. sync' \in [PC -> Sync]
  <2> HIDE DEF peers, skipped
  <2> QED BY <1>6, <1>8 DEF TypeOK
<1> QED BY <1>4, <1>9 DEF TypeOK, SyncOpen

LEMMA SyncDecideType ==
  ASSUME TypeOK, NEW p \in PC, SyncDecide(p)
  PROVE  TypeOK'
<1>1. PICK next \in {"seed", "merge"}, joining \in BOOLEAN :
        /\ sync' = [sync EXCEPT ![p].at = next]
        /\ marked' = [marked EXCEPT ![p] = @ \/ joining]
  BY DEF SyncDecide
<1>2. [sync[p] EXCEPT !.at = next] \in ReadSync
  BY RunningSync DEF SyncDecide, ReadSync
<1>3. sync' \in [PC -> Sync]
  BY <1>1, <1>2 DEF TypeOK, Sync
<1> QED BY <1>1, <1>3 DEF TypeOK, SyncDecide

LEMMA WithSeedType ==
  ASSUME TypeOK, NEW p \in PC
  PROVE  WithSeed(p) \in [PC -> State]
<1> DEFINE seed == [ts |-> SeedStamp, by |-> p, meta |-> 0, theme |-> 0]
           rows == [t \in Ticker |-> IF t \in SeedTicker /\ ~ Present(p, t)
                                     THEN seed ELSE db[p].rows[t]]
<1>1. seed \in Row
  BY BoundsAssumption, InstanceAssumption DEF Row, Stamp, Author, SeedStamp, PC
<1>2. rows \in [Ticker -> Row \cup {NoRow}]
  <2> HIDE DEF seed
  <2> QED BY <1>1 DEF TypeOK, State
<1>3. WithSeed(p) = [db EXCEPT ![p].rows = rows]
  BY DEF WithSeed
<1> HIDE DEF rows
<1> QED BY <1>2, <1>3, DbRowsType

LEMMA SyncSeedType ==
  ASSUME TypeOK, NEW p \in PC, SyncSeed(p)
  PROVE  TypeOK'
<1>1. db' \in [PC -> State]
  BY WithSeedType DEF SyncSeed
<1>2. [sync[p] EXCEPT !.at = "merge"] \in ReadSync
  BY RunningSync DEF SyncSeed, ReadSync
<1>3. sync' \in [PC -> Sync]
  BY <1>2 DEF TypeOK, Sync, SyncSeed
<1>4. pending' \in [PC -> SUBSET Ticker]
  BY DEF TypeOK, SyncSeed
<1> QED BY <1>1, <1>3, <1>4 DEF TypeOK, SyncSeed

\* What SyncMerge merges and applies.
LEMMA MergedType ==
  ASSUME TypeOK, NEW p \in PC, sync[p].at = "merge"
  PROVE  /\ {LocalState(p)} \cup sync[p].peers \in SUBSET State
         /\ Merge({LocalState(p)} \cup sync[p].peers) \in State
<1>1. {LocalState(p)} \cup sync[p].peers \in SUBSET State
  BY LocalStateType, RunningSync
<1> QED BY <1>1, MergeType

LEMMA AppliedType ==
  ASSUME TypeOK, NEW p \in PC, NEW merged \in State
  PROVE  Applied(p, merged) \in State
<1> DEFINE rows == [t \in Ticker |-> IF merged.rows[t] = AsRead(db[p].rows[t])
                                     THEN db[p].rows[t] ELSE merged.rows[t]]
<1>1. rows \in [Ticker -> Row \cup {NoRow}]
  BY DEF TypeOK, State
<1>2. Applied(p, merged) = [merged EXCEPT !.rows = rows]
  BY DEF Applied
<1> HIDE DEF rows
<1> QED BY <1>1, <1>2 DEF State

LEMMA SyncMergeType ==
  ASSUME TypeOK, NEW p \in PC, SyncMerge(p)
  PROVE  TypeOK'
<1> DEFINE merged == Merge({LocalState(p)} \cup sync[p].peers)
<1>1. merged \in State
  BY MergedType DEF SyncMerge
<1>2. /\ db' = [db EXCEPT ![p] = Applied(p, merged)]
      /\ sync' = [sync EXCEPT ![p] = [at |-> "publish", merged |-> merged]]
  BY DEF SyncMerge
<1>3. pending' \in [PC -> SUBSET Ticker]
  BY DEF SyncMerge, TypeOK
<1> HIDE DEF merged
<1>4. db' \in [PC -> State]
  BY <1>1, <1>2, AppliedType DEF TypeOK
<1>5. sync' \in [PC -> Sync]
  BY <1>1, <1>2 DEF TypeOK, Sync, MergedSync
<1> QED BY <1>3, <1>4, <1>5 DEF TypeOK, SyncMerge

LEMMA SyncPublishType ==
  ASSUME TypeOK, NEW p \in PC, SyncPublish(p)
  PROVE  TypeOK'
<1>1. file' \in [PC -> State \cup {NoFile}]
  BY RunningSync DEF TypeOK, SyncPublish
<1>2. seen' \in [PC -> [PC -> FolderEntry]]
  BY <1>1 DEF TypeOK, SyncPublish, FolderEntry
<1>3. sync' \in [PC -> Sync]
  BY DEF TypeOK, SyncPublish, Sync
<1> QED BY <1>1, <1>2, <1>3 DEF TypeOK, SyncPublish

LEMMA ResyncType ==
  ASSUME TypeOK, NEW p \in PC, Resync(p)
  PROVE  TypeOK'
<1> DEFINE theme(t) == IF Present(p, t) THEN db[p].rows[t].theme ELSE 0
           rows == [t \in Ticker |->
              IF t \in SeedTicker
              THEN [ts |-> BaselineStamp, by |-> p, meta |-> 0, theme |-> theme(t)]
              ELSE NoRow]
<1>1. \A t \in Ticker : theme(t) \in 0..MaxTheme
  BY BoundsAssumption DEF TypeOK, State, Row, Present
<1>2. rows \in [Ticker -> Row \cup {NoRow}]
  <2> HIDE DEF theme
  <2> QED BY <1>1, BoundsAssumption, InstanceAssumption
             DEF Row, Stamp, Author, BaselineStamp, PC
<1>3. db' = [db EXCEPT ![p].rows = rows]
  BY DEF Resync
<1>4. db' \in [PC -> State]
  <2> HIDE DEF rows
  <2> QED BY <1>2, <1>3, DbRowsType
<1>5. pending' \in [PC -> SUBSET Ticker]
  BY InstanceAssumption DEF TypeOK, Resync
<1>6. edits' \in 0..MaxEdits
  BY InstanceAssumption DEF TypeOK, Resync
<1> QED BY <1>4, <1>5, <1>6 DEF TypeOK, Resync

LEMMA RestartType ==
  ASSUME TypeOK, NEW p \in PC, Restart(p)
  PROVE  TypeOK'
<1>1. req' \in [PC -> [Thread -> Request]] /\ sync' \in [PC -> Sync]
  BY DEF TypeOK, Restart, Request, Sync
<1>2. issued' \in [PC -> Stamp]
  BY BoundsAssumption DEF TypeOK, Restart, Stamp, BaselineStamp
<1>3. enabled' \in [PC -> BOOLEAN]
  BY DEF TypeOK, Restart
<1>4. restarts' \in 0..MaxRestarts
  BY InstanceAssumption DEF TypeOK, Restart
<1> QED BY <1>1, <1>2, <1>3, <1>4 DEF TypeOK, Restart
-----------------------------------------------------------------------------
LEMMA HandleType ==
  ASSUME TypeOK, NEW p \in PC, NEW k \in Thread, Handle(p, k)
  PROVE  TypeOK'
<1>1. ASSUME NEW t \in Ticker, NEW m \in 0..MaxMeta, SetGroup(p, k, t, m) PROVE TypeOK'
  <2>1. db[p].rows[t].theme \in 0..MaxTheme
    BY <1>1 DEF SetGroup, Present, TypeOK, State, Row
  <2> QED BY <1>1, <2>1, RestampType DEF SetGroup
<1>2. ASSUME NEW t \in Ticker, NEW h \in 0..MaxTheme, SetTheme(p, k, t, h) PROVE TypeOK'
  <2>1. db[p].rows[t].meta \in 0..MaxMeta
    BY <1>2 DEF SetTheme, Present, TypeOK, State, Row
  <2> QED BY <1>2, <2>1, RestampType DEF SetTheme
<1>3. ASSUME NEW t \in Ticker, KeepGroup(p, k, t) PROVE TypeOK'
  <2>1. edits' \in 0..MaxEdits
    BY <1>3, InstanceAssumption DEF TypeOK, KeepGroup, MayEdit
  <2>2. req' \in [PC -> [Thread -> Request]]
    BY <1>3 DEF TypeOK, KeepGroup, Request
  <2> QED BY <1>3, <2>1, <2>2 DEF TypeOK, KeepGroup
<1>4. CASE MarkState(p, k)
  BY <1>4 DEF TypeOK, MarkState, Request
<1> QED BY <1>1, <1>2, <1>3, <1>4, UpsertReadType, UpsertWriteType, DeleteReadType,
           DeleteWriteType DEF Handle

LEMMA StepType ==
  ASSUME TypeOK, [Next]_vars
  PROVE  TypeOK'
<1>1. ASSUME NEW p \in PC, NEW k \in Thread, Handle(p, k) PROVE TypeOK'
  BY <1>1, HandleType
<1>2. ASSUME NEW p \in PC, SyncStep(p) PROVE TypeOK'
  BY <1>2, SyncOpenType, SyncDecideType, SyncSeedType, SyncMergeType, SyncPublishType
     DEF SyncStep
<1>3. ASSUME NEW p \in PC, SyncFail(p) PROVE TypeOK'
  BY <1>3, InstanceAssumption DEF TypeOK, SyncFail, Sync
<1>4. ASSUME NEW p \in PC, PageReadOff(p) PROVE TypeOK'
  BY <1>4, WithSeedType DEF TypeOK, PageReadOff
<1>5. ASSUME NEW p \in PC, Vanish(p) PROVE TypeOK'
  BY <1>5, InstanceAssumption DEF TypeOK, Vanish
<1>6. ASSUME NEW p \in PC, NEW q \in PC, Deliver(p, q) PROVE TypeOK'
  BY <1>6 DEF TypeOK, Deliver, FolderEntry
<1>7. ASSUME NEW p \in PC, NEW q \in PC, Glitch(p, q) PROVE TypeOK'
  BY <1>7, InstanceAssumption DEF TypeOK, Glitch, FolderEntry
<1>8. CASE UNCHANGED vars
  BY <1>8 DEF TypeOK, vars
<1> QED BY <1>1, <1>2, <1>3, <1>4, <1>5, <1>6, <1>7, <1>8, ResyncType, RestartType
        DEF Next

\* Every reachable state is well formed: in particular no handler or sync ever
\* writes a row, tombstone or stamp outside the format peers accept.
THEOREM TypeCorrect == Spec => []TypeOK
<1>1. Init => TypeOK
  BY InitType
<1>2. TypeOK /\ [Next]_vars => TypeOK'
  BY StepType
<1> QED BY <1>1, <1>2, PTL DEF Spec
-----------------------------------------------------------------------------
(* What is published.  FilesSettled is not inductive: the file is written   *)
(* from the state the sync merged several steps before.                    *)

MergedSettled ==
  \A p \in PC : sync[p].at = "publish" => Settled(sync[p].merged)

FilesInv == FilesSettled /\ MergedSettled

\* No step but SyncMerge brings a sync to its publishing step, and none but
\* SyncPublish and Vanish touches a file.
LEMMA PublishStateFrame ==
  ASSUME TypeOK, [Next]_vars, NEW p \in PC, ~ SyncMerge(p)
  PROVE  sync'[p].at = "publish" => sync'[p] = sync[p]
<1>1. ASSUME NEW q \in PC, NEW k \in Thread, Handle(q, k) PROVE UNCHANGED sync
  BY <1>1 DEF Handle, UpsertRead, UpsertWrite, SetGroup, KeepGroup, SetTheme, Restamp,
              DeleteRead, DeleteWrite, MarkState
<1>2. ASSUME NEW q \in PC, SyncOpen(q) PROVE sync'[p].at = "publish" => sync'[p] = sync[p]
  BY <1>2 DEF TypeOK, SyncOpen
<1>3. ASSUME NEW q \in PC, SyncDecide(q) PROVE sync'[p].at = "publish" => sync'[p] = sync[p]
  BY <1>3, RunningSync DEF TypeOK, SyncDecide, ReadSync
<1>4. ASSUME NEW q \in PC, SyncSeed(q) PROVE sync'[p].at = "publish" => sync'[p] = sync[p]
  BY <1>4, RunningSync DEF TypeOK, SyncSeed, ReadSync
<1>5. ASSUME NEW q \in PC, SyncMerge(q) PROVE sync'[p] = sync[p]
  BY <1>5 DEF TypeOK, SyncMerge
<1>6. ASSUME NEW q \in PC, SyncPublish(q) \/ SyncFail(q) \/ Restart(q)
      PROVE  sync'[p].at = "publish" => sync'[p] = sync[p]
  BY <1>6 DEF TypeOK, SyncPublish, SyncFail, Restart, IdleSync
<1>7. ASSUME NEW q \in PC, NEW r \in PC,
             PageReadOff(q) \/ Resync(q) \/ Vanish(q) \/ Deliver(q, r) \/ Glitch(q, r)
      PROVE  UNCHANGED sync
  BY <1>7 DEF PageReadOff, Resync, Vanish, Deliver, Glitch
<1>8. CASE UNCHANGED vars
  BY <1>8 DEF vars
<1> QED BY <1>1, <1>2, <1>3, <1>4, <1>5, <1>6, <1>7, <1>8 DEF Next, SyncStep

LEMMA FileFrame ==
  ASSUME TypeOK, [Next]_vars, NEW p \in PC
  PROVE  \/ file'[p] = file[p]
         \/ file'[p] = NoFile
         \/ /\ sync[p].at = "publish" /\ Publishable(sync[p].merged)
            /\ file'[p] = sync[p].merged
<1>1. ASSUME NEW q \in PC, NEW k \in Thread, Handle(q, k) PROVE UNCHANGED file
  BY <1>1 DEF Handle, UpsertRead, UpsertWrite, SetGroup, KeepGroup, SetTheme, Restamp,
              DeleteRead, DeleteWrite, MarkState
<1>2. ASSUME NEW q \in PC, NEW r \in PC,
             \/ SyncOpen(q) \/ SyncDecide(q) \/ SyncSeed(q) \/ SyncMerge(q) \/ SyncFail(q)
             \/ PageReadOff(q) \/ Resync(q) \/ Restart(q) \/ Deliver(q, r) \/ Glitch(q, r)
      PROVE  UNCHANGED file
  BY <1>2 DEF SyncOpen, SyncDecide, SyncSeed, SyncMerge, SyncFail, PageReadOff, Resync,
              Restart, Deliver, Glitch
<1>3. ASSUME NEW q \in PC, Vanish(q) PROVE file'[p] \in {file[p], NoFile}
  BY <1>3 DEF TypeOK, Vanish
<1>4. ASSUME NEW q \in PC, SyncPublish(q)
      PROVE  \/ file'[p] = file[p]
             \/ /\ sync[p].at = "publish" /\ Publishable(sync[p].merged)
                /\ file'[p] = sync[p].merged
  BY <1>4 DEF TypeOK, SyncPublish
<1>5. CASE UNCHANGED vars
  BY <1>5 DEF vars
<1> QED BY <1>1, <1>2, <1>3, <1>4, <1>5 DEF Next, SyncStep

\* A published file never contradicts itself and never holds what a peer would
\* refuse, whatever races or crashes happened while it was made.
THEOREM FilesAlwaysSettled == Spec => []FilesSettled
<1>1. Init => FilesInv
  BY DEF Init, FilesInv, FilesSettled, MergedSettled, IdleSync
<1>2. TypeOK /\ FilesInv /\ [Next]_vars => FilesInv'
  <2> SUFFICES ASSUME TypeOK, FilesInv, [Next]_vars PROVE FilesInv'
    OBVIOUS
  <2>1. MergedSettled'
    <3> SUFFICES ASSUME NEW p \in PC, sync'[p].at = "publish"
                 PROVE  Settled(sync'[p].merged)
      BY DEF MergedSettled, Settled
    <3>1. CASE SyncMerge(p)
      <4>1. sync'[p].merged = Merge({LocalState(p)} \cup sync[p].peers)
        BY <3>1 DEF SyncMerge, TypeOK
      <4> QED BY <4>1, MergeSettled
    <3>2. CASE ~ SyncMerge(p)
      BY <3>2, PublishStateFrame DEF FilesInv, MergedSettled
    <3> QED BY <3>1, <3>2
  <2>2. FilesSettled'
    <3> SUFFICES ASSUME NEW p \in PC, file'[p] # NoFile
                 PROVE  Settled(file'[p]) /\ Publishable(file'[p])
      BY DEF FilesSettled, Settled, Publishable
    <3> QED BY FileFrame DEF FilesInv, FilesSettled, MergedSettled
  <2> QED BY <2>1, <2>2 DEF FilesInv
<1>3. FilesInv => FilesSettled
  BY DEF FilesInv
<1> QED BY <1>1, <1>2, <1>3, TypeCorrect, PTL DEF Spec

-----------------------------------------------------------------------------
(* What a sync knows is never lost.                                        *)

LEMMA NotOlderReflexive ==
  ASSUME NEW s \in State, NEW t \in Ticker
  PROVE  NotOlder(s, s, t)
<1>1. \A k \in KeysOf(s, t) : k.ts \in Nat /\ k.by \in Nat
  BY BoundsAssumption DEF KeysOf, State, Row, Tomb, Stamp, Author
<1> QED BY <1>1 DEF NotOlder, KeyLT

LEMMA MergeKeepsTombs ==
  ASSUME NEW states \in SUBSET State, NEW s \in states, NEW t \in Ticker,
         s.removed[t] # NoTomb
  PROVE  /\ Merge(states).removed[t] \in Tomb
         /\ ~ KeyLT(Merge(states).removed[t], s.removed[t])
BY BestTombFacts DEF Merge, TombsFor

\* SyncMerge keeps the newest of what p held: its unstamped rows read as older
\* than anything, and the rows it does not rewrite keep their own key.
LEMMA SyncMergeKeepsNewest ==
  ASSUME TypeOK, NEW p \in PC, NEW t \in Ticker, SyncMerge(p)
  PROVE  NotOlder(db[p], db'[p], t)
<1> DEFINE states == {LocalState(p)} \cup sync[p].peers
           m == Merge(states)
<1>1. states \in SUBSET State /\ m \in State /\ LocalState(p) \in states
  BY MergedType DEF SyncMerge
<1>2. db'[p] = Applied(p, m)
  BY DEF SyncMerge, TypeOK
<1>3. /\ db'[p].removed[t] = m.removed[t]
      /\ db'[p].rows[t] = IF m.rows[t] = AsRead(db[p].rows[t])
                          THEN db[p].rows[t] ELSE m.rows[t]
  BY <1>1, <1>2 DEF Applied, State
<1>4. /\ LocalState(p).removed[t] = db[p].removed[t]
      /\ LocalState(p).rows[t] = AsRead(db[p].rows[t])
  BY DEF LocalState, TypeOK, State
<1>5. /\ db[p].rows[t] \in Row \cup {NoRow} /\ db[p].removed[t] \in Tomb \cup {NoTomb}
      /\ m.rows[t] \in Row \cup {NoRow} /\ m.removed[t] \in Tomb \cup {NoTomb}
  <2>1. db[p] \in State
    BY DEF TypeOK
  <2> HIDE DEF m
  <2> QED BY <1>1, <2>1 DEF State
<1> SUFFICES ASSUME NEW k \in KeysOf(db[p], t)
             PROVE  \E j \in KeysOf(db'[p], t) : ~ KeyLT(j, k)
  BY DEF NotOlder
<1>6. CASE db[p].removed[t] # NoTomb /\ k = db[p].removed[t]
  <2>1. m.removed[t] \in Tomb /\ ~ KeyLT(m.removed[t], k)
    <3> HIDE DEF states
    <3> QED BY <1>1, <1>4, <1>6, MergeKeepsTombs
  <2>2. m.removed[t] \in KeysOf(db'[p], t)
    BY <1>3, <2>1, AbsenceAssumption DEF KeysOf
  <2> QED BY <2>1, <2>2
<1>7. CASE db[p].rows[t] # NoRow /\ k = [ts |-> db[p].rows[t].ts, by |-> db[p].rows[t].by]
  <2>1. k.ts \in Nat /\ k.by \in Nat
    BY <1>5, <1>7, BoundsAssumption DEF Row, Stamp, Author
  <2>2. CASE db'[p].rows[t] = db[p].rows[t]
    <3>1. k \in KeysOf(db'[p], t)
      BY <1>7, <2>2 DEF KeysOf
    <3> QED BY <2>1, <3>1 DEF KeyLT
  <2>3. CASE db'[p].rows[t] # db[p].rows[t]
    <3>1. db'[p].rows[t] = m.rows[t]
      BY <1>3, <2>3
    <3>2. KeysOf(db'[p], t) = KeysOf(m, t)
      BY <1>3, <3>1 DEF KeysOf
    <3>3. PICK l \in Row : /\ l = AsRead(db[p].rows[t]) /\ l # NoRow
                           /\ l.ts > k.ts \/ (l.ts = k.ts /\ l.by = k.by)
      <4>1. /\ AsRead(db[p].rows[t]) \in Row
            /\ \/ AsRead(db[p].rows[t]) = db[p].rows[t]
               \/ /\ db[p].rows[t].ts = NullStamp
                  /\ AsRead(db[p].rows[t]).ts = BaselineStamp
        BY <1>5, <1>7, AsReadType
      <4> QED BY <1>7, <4>1, AbsenceAssumption DEF NullStamp, BaselineStamp
    <3>4. [ts |-> l.ts, by |-> l.by] \in KeysOf(LocalState(p), t)
      BY <1>4, <3>3 DEF KeysOf
    <3>5. PICK j \in KeysOf(m, t) : ~ KeyLT(j, [ts |-> l.ts, by |-> l.by])
      <4> HIDE DEF states
      <4>1. NotOlder(LocalState(p), m, t)
        BY <1>1, MergeKeepsNewest
      <4> QED BY <3>4, <4>1 DEF NotOlder
    <3>6. j.ts \in Nat /\ j.by \in Nat /\ l.ts \in Nat /\ l.by \in Nat
      BY <1>5, BoundsAssumption DEF KeysOf, Row, Tomb, Stamp, Author
    <3>7. ~ KeyLT(j, k)
      BY <2>1, <3>3, <3>5, <3>6 DEF KeyLT
    <3> QED BY <3>2, <3>7
  <2> QED BY <2>2, <2>3
<1> QED BY <1>6, <1>7 DEF KeysOf

LEMMA SyncOpenKeepsNewest ==
  ASSUME TypeOK, NEW p \in PC, NEW t \in Ticker, SyncOpen(p)
  PROVE  NotOlder(db[p], db'[p], t)
<1>1. db[p] \in State /\ db[p].rows[t] \in Row \cup {NoRow}
  BY DEF TypeOK, State
<1>2. /\ db'[p].removed[t] = db[p].removed[t]
      /\ db'[p].rows[t] = IF Present(p, t) /\ db[p].rows[t].ts = NullStamp
                          THEN [db[p].rows[t] EXCEPT !.ts = BaselineStamp, !.by = p]
                          ELSE db[p].rows[t]
  BY DEF SyncOpen, TypeOK, State
<1>3. CASE db'[p].rows[t] = db[p].rows[t]
  <2>1. KeysOf(db'[p], t) = KeysOf(db[p], t)
    BY <1>2, <1>3 DEF KeysOf
  <2>2. NotOlder(db[p], db[p], t)
    BY <1>1, NotOlderReflexive
  <2> QED BY <2>1, <2>2 DEF NotOlder
<1>4. CASE db'[p].rows[t] # db[p].rows[t]
  <2> DEFINE old == db[p].rows[t]
             new == db'[p].rows[t]
  <2>1. old \in Row /\ old.ts = NullStamp /\ new = [old EXCEPT !.ts = BaselineStamp, !.by = p]
    BY <1>1, <1>2, <1>4 DEF Present
  <2>2. BaselineStamp \in Stamp /\ p \in Author
    BY BoundsAssumption, InstanceAssumption DEF Stamp, Author, BaselineStamp, PC
  <2>3. new \in Row /\ new.ts = BaselineStamp
    BY <2>1, <2>2 DEF Row
  <2>4. [ts |-> new.ts, by |-> new.by] \in KeysOf(db'[p], t)
    BY <2>3, AbsenceAssumption DEF KeysOf
  <2> SUFFICES ASSUME NEW k \in KeysOf(db[p], t)
               PROVE  \E j \in KeysOf(db'[p], t) : ~ KeyLT(j, k)
    BY DEF NotOlder
  <2>5. CASE k = [ts |-> old.ts, by |-> old.by]
    BY <2>1, <2>3, <2>4, <2>5 DEF KeyLT, NullStamp, BaselineStamp
  <2>6. CASE db[p].removed[t] # NoTomb /\ k = db[p].removed[t]
    <3>1. k \in KeysOf(db'[p], t)
      BY <1>2, <2>6 DEF KeysOf
    <3>2. k \in Tomb
      BY <1>1, <2>6 DEF State
    <3> QED BY <3>1, <3>2, BoundsAssumption DEF KeyLT, Tomb, Stamp, Author
  <2> QED BY <2>5, <2>6 DEF KeysOf
<1> QED BY <1>3, <1>4

LEMMA SyncSeedKeepsNewest ==
  ASSUME TypeOK, NEW p \in PC, NEW t \in Ticker, SyncSeed(p)
  PROVE  NotOlder(db[p], db'[p], t)
<1>1. db[p] \in State
  BY DEF TypeOK
<1>2. /\ db'[p].removed[t] = db[p].removed[t]
      /\ Present(p, t) => db'[p].rows[t] = db[p].rows[t]
  BY DEF SyncSeed, WithSeed, TypeOK, State
<1>3. KeysOf(db[p], t) \subseteq KeysOf(db'[p], t)
  BY <1>2 DEF KeysOf, Present
<1>4. NotOlder(db[p], db[p], t)
  BY <1>1, NotOlderReflexive
<1> QED BY <1>3, <1>4 DEF NotOlder

\* Whatever handlers commit between a sync's transactions, and wherever it
\* stops, no step of the sync leaves its PC with older knowledge of a ticker.
THEOREM SyncNeverForgets == Spec => SyncKeepsNewest
<1>1. TypeOK /\ [Next]_vars =>
        \A p \in PC, t \in Ticker : sync'[p] # sync[p] => NotOlder(db[p], db'[p], t)
  <2> SUFFICES ASSUME TypeOK, [Next]_vars, NEW p \in PC, NEW t \in Ticker,
                      sync'[p] # sync[p]
               PROVE  NotOlder(db[p], db'[p], t)
    OBVIOUS
  <2>1. SyncStep(p) \/ SyncFail(p) \/ Restart(p)
    <3>1. ASSUME NEW q \in PC, NEW k \in Thread, Handle(q, k) PROVE FALSE
      BY <3>1 DEF Handle, UpsertRead, UpsertWrite, SetGroup, KeepGroup, SetTheme, Restamp,
                  DeleteRead, DeleteWrite, MarkState
    <3>2. ASSUME NEW q \in PC, NEW r \in PC,
                 PageReadOff(q) \/ Resync(q) \/ Vanish(q) \/ Deliver(q, r) \/ Glitch(q, r)
          PROVE  FALSE
      BY <3>2 DEF PageReadOff, Resync, Vanish, Deliver, Glitch
    <3>3. ASSUME NEW q \in PC, q # p, SyncStep(q) \/ SyncFail(q) \/ Restart(q) PROVE FALSE
      BY <3>3 DEF TypeOK, SyncStep, SyncOpen, SyncDecide, SyncSeed, SyncMerge, SyncPublish,
                  SyncFail, Restart
    <3>4. ~ UNCHANGED vars
      BY DEF vars
    <3> QED BY <3>1, <3>2, <3>3, <3>4 DEF Next
  <2>2. CASE SyncDecide(p) \/ SyncPublish(p) \/ SyncFail(p) \/ Restart(p)
    <3>1. db'[p] = db[p] /\ db[p] \in State
      BY <2>2 DEF TypeOK, SyncDecide, SyncPublish, SyncFail, Restart
    <3> QED BY <3>1, NotOlderReflexive
  <2> QED BY <2>1, <2>2, SyncOpenKeepsNewest, SyncSeedKeepsNewest, SyncMergeKeepsNewest
          DEF SyncStep
<1> QED BY <1>1, TypeCorrect, PTL DEF Spec, SyncKeepsNewest

-----------------------------------------------------------------------------
(* What each step does to a PC's list.                                     *)

\* The steps that change a PC's tables or cleanup_pending are its own.
LEMMA ListSteps ==
  ASSUME TypeOK, [Next]_vars, NEW p \in PC
  PROVE  \/ db'[p] = db[p] /\ pending'[p] = pending[p]
         \/ \E k \in Thread :
              \/ UpsertWrite(p, k) \/ DeleteWrite(p, k)
              \/ \E t \in Ticker, m \in 0..MaxMeta, h \in 0..MaxTheme : Restamp(p, k, t, m, h)
         \/ SyncOpen(p) \/ SyncSeed(p) \/ SyncMerge(p) \/ PageReadOff(p) \/ Resync(p)
<1> DEFINE Same == db'[p] = db[p] /\ pending'[p] = pending[p]
           Edited == \E k \in Thread :
              \/ UpsertWrite(p, k) \/ DeleteWrite(p, k)
              \/ \E t \in Ticker, m \in 0..MaxMeta, h \in 0..MaxTheme : Restamp(p, k, t, m, h)
<1>1. ASSUME NEW q \in PC, NEW k \in Thread, Handle(q, k) PROVE Same \/ Edited
  <2>1. ASSUME NEW t \in Ticker, NEW m \in 0..MaxMeta, UpsertRead(q, k, t, m) PROVE Same
    BY <2>1 DEF UpsertRead
  <2>2. ASSUME NEW t \in Ticker, KeepGroup(q, k, t) \/ DeleteRead(q, k, t) PROVE Same
    BY <2>2 DEF KeepGroup, DeleteRead
  <2>3. CASE MarkState(q, k)
    BY <2>3 DEF MarkState
  <2>4. CASE UpsertWrite(q, k) \/ DeleteWrite(q, k)
    <3>1. q # p => Same
      BY <2>4 DEF UpsertWrite, DeleteWrite, SetRow, TypeOK
    <3> QED BY <2>4, <3>1
  <2>5. ASSUME NEW t \in Ticker, NEW m \in 0..MaxMeta, SetGroup(q, k, t, m)
        PROVE  Same \/ \E n \in 0..MaxMeta, h \in 0..MaxTheme : Restamp(p, k, t, n, h)
    <3>1. db[q].rows[t].theme \in 0..MaxTheme
      BY <2>5 DEF SetGroup, Present, TypeOK, State, Row
    <3>2. q # p => Same
      BY <2>5 DEF SetGroup, Restamp, SetRow, TypeOK
    <3> QED BY <2>5, <3>1, <3>2 DEF SetGroup
  <2>6. ASSUME NEW t \in Ticker, NEW h \in 0..MaxTheme, SetTheme(q, k, t, h)
        PROVE  Same \/ \E m \in 0..MaxMeta, n \in 0..MaxTheme : Restamp(p, k, t, m, n)
    <3>1. db[q].rows[t].meta \in 0..MaxMeta
      BY <2>6 DEF SetTheme, Present, TypeOK, State, Row
    <3>2. q # p => Same
      BY <2>6 DEF SetTheme, Restamp, SetRow, TypeOK
    <3> QED BY <2>6, <3>1, <3>2 DEF SetTheme
  <2> QED BY <1>1, <2>1, <2>2, <2>3, <2>4, <2>5, <2>6 DEF Handle
<1>2. ASSUME NEW q \in PC, SyncOpen(q) \/ SyncSeed(q) \/ SyncMerge(q) \/ PageReadOff(q) \/ Resync(q)
      PROVE  q = p \/ Same
  BY <1>2 DEF TypeOK, SyncOpen, SyncSeed, SyncMerge, PageReadOff, Resync, WithSeed
<1>3. ASSUME NEW q \in PC,
             SyncDecide(q) \/ SyncPublish(q) \/ SyncFail(q) \/ Restart(q) \/ Vanish(q)
      PROVE  Same
  BY <1>3 DEF SyncDecide, SyncPublish, SyncFail, Restart, Vanish
<1>4. ASSUME NEW q \in PC, NEW r \in PC, Deliver(q, r) \/ Glitch(q, r) PROVE Same
  BY <1>4 DEF Deliver, Glitch
<1>5. ASSUME UNCHANGED vars PROVE Same
  BY <1>5 DEF vars
<1> HIDE DEF Same, Edited
<1>6. \/ Same \/ Edited
      \/ SyncOpen(p) \/ SyncSeed(p) \/ SyncMerge(p) \/ PageReadOff(p) \/ Resync(p)
  BY <1>1, <1>2, <1>3, <1>4, <1>5 DEF Next, SyncStep
<1> QED BY <1>6 DEF Same, Edited

LEMMA UpsertWrites ==
  ASSUME TypeOK, NEW p \in PC, NEW k \in Thread, UpsertWrite(p, k)
  PROVE  LET t == req[p][k].ticker
             new == req[p][k].row
         IN  /\ t \in Ticker /\ new \in Row
             /\ db'[p].removed = db[p].removed
             /\ \A u \in Ticker : u # t => db'[p].rows[u] = db[p].rows[u]
             /\ db'[p].rows[t] \in Row
             /\ db'[p].rows[t].ts = new.ts /\ db'[p].rows[t].by = new.by
             /\ new = db[p].rows[t] => db'[p].rows[t] = new
             /\ pending'[p] = pending[p] \ {t}
<1> DEFINE t == req[p][k].ticker
           new == req[p][k].row
           theme == IF Present(p, t) THEN db[p].rows[t].theme ELSE 0
           row == [new EXCEPT !.theme = theme]
<1>1. t \in Ticker /\ new \in Row
  BY PreparedEdit DEF UpsertWrite
<1>2. theme \in 0..MaxTheme
  BY <1>1, BoundsAssumption DEF TypeOK, State, Row, Present
<1>3. row \in Row /\ row.ts = new.ts /\ row.by = new.by
  BY <1>1, <1>2 DEF Row
<1>4. new = db[p].rows[t] => row = new
  <2> SUFFICES ASSUME new = db[p].rows[t] PROVE row = new
    OBVIOUS
  <2>1. new # NoRow
    BY <1>1, AbsenceAssumption
  <2>2. theme = new.theme
    BY <2>1 DEF Present
  <2> QED BY <1>1, <2>2 DEF Row
<1>5. db' = [db EXCEPT ![p].rows[t] = row] /\ pending' = [pending EXCEPT ![p] = @ \ {t}]
  BY DEF UpsertWrite, SetRow
<1> HIDE DEF row, t, new
<1>6. /\ db'[p].removed = db[p].removed
      /\ db'[p].rows = [db[p].rows EXCEPT ![t] = row]
  BY <1>1, <1>5 DEF TypeOK, State
<1>7. db[p].rows \in [Ticker -> Row \cup {NoRow}]
  BY DEF TypeOK, State
<1>8. pending'[p] = pending[p] \ {t}
  BY <1>5 DEF TypeOK
<1> QED BY <1>1, <1>3, <1>4, <1>6, <1>7, <1>8 DEF t, new

LEMMA DeleteWrites ==
  ASSUME TypeOK, NEW p \in PC, NEW k \in Thread, DeleteWrite(p, k)
  PROVE  LET t == req[p][k].ticker
         IN  /\ t \in Ticker /\ req[p][k].row \in Row
             /\ \A u \in Ticker : u # t => /\ db'[p].rows[u] = db[p].rows[u]
                                           /\ db'[p].removed[u] = db[p].removed[u]
             /\ db'[p].rows[t] = NoRow
             /\ db'[p].removed[t] = IF enabled[p] THEN [ts |-> req[p][k].row.ts, by |-> p]
                                    ELSE db[p].removed[t]
             /\ pending'[p] = pending[p] \cup {t}
<1> DEFINE t == req[p][k].ticker
           d == IF enabled[p] THEN [ts |-> req[p][k].row.ts, by |-> p] ELSE db[p].removed[t]
<1>1. t \in Ticker /\ req[p][k].row \in Row
  BY PreparedEdit DEF DeleteWrite
<1>2. /\ db' = [db EXCEPT ![p].rows[t] = NoRow, ![p].removed[t] = d]
      /\ pending' = [pending EXCEPT ![p] = @ \cup {t}]
  BY DEF DeleteWrite
<1> HIDE DEF t, d
<1>3. db'[p] = [db[p] EXCEPT !.rows[t] = NoRow, !.removed[t] = d]
  BY <1>2 DEF TypeOK
<1>4. /\ db'[p].rows = [db[p].rows EXCEPT ![t] = NoRow]
      /\ db'[p].removed = [db[p].removed EXCEPT ![t] = d]
  BY <1>3 DEF TypeOK, State
<1>5. /\ db[p].rows \in [Ticker -> Row \cup {NoRow}]
      /\ db[p].removed \in [Ticker -> Tomb \cup {NoTomb}]
  BY DEF TypeOK, State
<1>6. pending'[p] = pending[p] \cup {t}
  BY <1>2 DEF TypeOK
<1> QED BY <1>1, <1>4, <1>5, <1>6 DEF t, d

LEMMA RestampWrites ==
  ASSUME TypeOK, NEW p \in PC, NEW k \in Thread, NEW t \in Ticker,
         NEW m \in 0..MaxMeta, NEW h \in 0..MaxTheme, Restamp(p, k, t, m, h)
  PROVE  /\ db'[p].removed = db[p].removed
         /\ \A u \in Ticker : u # t => db'[p].rows[u] = db[p].rows[u]
         /\ \E now \in ClockReading :
              db'[p].rows[t] = [ts |-> CausalStamp(p, t, now), by |-> p, meta |-> m, theme |-> h]
         /\ db'[p].rows[t] \in Row
         /\ pending'[p] = pending[p]
<1>1. PICK now \in ClockReading :
        db' = SetRow(p, t, [ts |-> CausalStamp(p, t, now), by |-> p, meta |-> m, theme |-> h])
  BY DEF Restamp
<1>2. CausalStamp(p, t, now) \in Stamp
  BY CausalStampType DEF Restamp
<1>3. PICK row \in Row :
        row = [ts |-> CausalStamp(p, t, now), by |-> p, meta |-> m, theme |-> h]
  <2>1. p \in Author
    BY InstanceAssumption, BoundsAssumption DEF PC, Author
  <2>2. [ts |-> CausalStamp(p, t, now), by |-> p, meta |-> m, theme |-> h] \in Row
    BY <1>2, <2>1 DEF Row
  <2> QED BY <2>2
<1>4. db' = [db EXCEPT ![p].rows[t] = row]
  BY <1>1, <1>3 DEF SetRow
<1>5. db'[p].rows = [db[p].rows EXCEPT ![t] = row] /\ db'[p].removed = db[p].removed
  BY <1>4 DEF TypeOK, State
<1>6. db[p].rows \in [Ticker -> Row \cup {NoRow}]
  BY DEF TypeOK, State
<1>7. db'[p].rows[t] = row /\ \A u \in Ticker : u # t => db'[p].rows[u] = db[p].rows[u]
  BY <1>5, <1>6
<1>8. pending'[p] = pending[p]
  BY DEF Restamp
<1> QED BY <1>3, <1>5, <1>7, <1>8

\* The bulk steps: what becomes of one ticker.
LEMMA SyncOpenWrites ==
  ASSUME TypeOK, NEW p \in PC, SyncOpen(p), NEW t \in Ticker
  PROVE  /\ db'[p].removed = db[p].removed
         /\ db'[p].rows[t] = IF Present(p, t) /\ db[p].rows[t].ts = NullStamp
                             THEN [db[p].rows[t] EXCEPT !.ts = BaselineStamp, !.by = p]
                             ELSE db[p].rows[t]
         /\ db'[p].rows[t] = NoRow <=> db[p].rows[t] = NoRow
         /\ pending'[p] = pending[p]
<1>1. /\ db'[p].removed = db[p].removed
      /\ db'[p].rows[t] = IF Present(p, t) /\ db[p].rows[t].ts = NullStamp
                          THEN [db[p].rows[t] EXCEPT !.ts = BaselineStamp, !.by = p]
                          ELSE db[p].rows[t]
      /\ pending'[p] = pending[p]
  BY DEF SyncOpen, TypeOK, State
<1>2. ASSUME NEW row \in Row PROVE [row EXCEPT !.ts = BaselineStamp, !.by = p] \in Row
  <2>1. BaselineStamp \in Stamp /\ p \in Author
    BY BoundsAssumption, InstanceAssumption DEF Stamp, Author, BaselineStamp, PC
  <2> QED BY <2>1 DEF Row
<1>3. db[p].rows[t] \in Row \cup {NoRow}
  BY DEF TypeOK, State
<1> QED BY <1>1, <1>2, <1>3, AbsenceAssumption DEF Present

LEMMA SeedWrites ==
  ASSUME TypeOK, NEW p \in PC, NEW t \in Ticker, db' = WithSeed(p)
  PROVE  /\ db'[p].removed = db[p].removed
         /\ db'[p].rows[t] = IF t \in SeedTicker /\ ~ Present(p, t)
                             THEN [ts |-> SeedStamp, by |-> p, meta |-> 0, theme |-> 0]
                             ELSE db[p].rows[t]
         /\ [ts |-> SeedStamp, by |-> p, meta |-> 0, theme |-> 0] # NoRow
<1>1. [ts |-> SeedStamp, by |-> p, meta |-> 0, theme |-> 0] \in Row
  BY BoundsAssumption, InstanceAssumption DEF Row, Stamp, Author, SeedStamp, PC
<1>2. /\ db'[p].removed = db[p].removed
      /\ db'[p].rows[t] = IF t \in SeedTicker /\ ~ Present(p, t)
                          THEN [ts |-> SeedStamp, by |-> p, meta |-> 0, theme |-> 0]
                          ELSE db[p].rows[t]
  BY DEF WithSeed, TypeOK, State
<1> QED BY <1>1, <1>2, AbsenceAssumption

LEMMA SyncMergeWrites ==
  ASSUME TypeOK, NEW p \in PC, SyncMerge(p), NEW t \in Ticker
  PROVE  LET merged == Merge({LocalState(p)} \cup sync[p].peers)
         IN  /\ merged \in State
             /\ db'[p].rows[t] = IF merged.rows[t] = AsRead(db[p].rows[t])
                                 THEN db[p].rows[t] ELSE merged.rows[t]
             /\ db'[p].rows[t] = NoRow <=> merged.rows[t] = NoRow
             /\ t \in pending'[p] <=>
                  \/ t \in pending[p] /\ (Present(p, t) \/ merged.rows[t] = NoRow)
                  \/ Present(p, t) /\ merged.rows[t] = NoRow
             /\ sync'[p] = [at |-> "publish", merged |-> merged]
<1> DEFINE merged == Merge({LocalState(p)} \cup sync[p].peers)
           left == {u \in Ticker : Present(p, u) /\ merged.rows[u] = NoRow}
           arrived == {u \in Ticker : ~ Present(p, u) /\ merged.rows[u] # NoRow}
<1>1. merged \in State
  BY MergedType DEF SyncMerge
<1>2. /\ db'[p] = Applied(p, merged)
      /\ pending'[p] = (pending[p] \cup left) \ arrived
      /\ sync'[p] = [at |-> "publish", merged |-> merged]
  BY DEF SyncMerge, TypeOK
<1>3. t \in left <=> Present(p, t) /\ merged.rows[t] = NoRow
  OBVIOUS
<1>4. t \in arrived <=> ~ Present(p, t) /\ merged.rows[t] # NoRow
  OBVIOUS
<1> HIDE DEF merged, left, arrived
<1>5. db'[p].rows[t] = IF merged.rows[t] = AsRead(db[p].rows[t])
                       THEN db[p].rows[t] ELSE merged.rows[t]
  BY <1>1, <1>2 DEF Applied, State
<1>6. AsRead(db[p].rows[t]) = NoRow <=> db[p].rows[t] = NoRow
  <2>1. db[p].rows[t] \in Row \cup {NoRow}
    BY DEF TypeOK, State
  <2>2. CASE db[p].rows[t] = NoRow
    BY <2>2 DEF AsRead
  <2>3. CASE db[p].rows[t] \in Row
    BY <2>3, AsReadType, AbsenceAssumption
  <2> QED BY <2>1, <2>2, <2>3
<1>7. /\ t \in pending'[p] <=>
           \/ t \in pending[p] /\ (Present(p, t) \/ merged.rows[t] = NoRow)
           \/ Present(p, t) /\ merged.rows[t] = NoRow
  BY <1>2, <1>3, <1>4
<1>8. db'[p].rows[t] = NoRow <=> merged.rows[t] = NoRow
  BY <1>5, <1>6
<1> QED BY <1>1, <1>2, <1>5, <1>7, <1>8 DEF merged

\* A request goes from its read to its write to its mark, or ends.
LEMMA RequestSteps ==
  ASSUME TypeOK, [Next]_vars, NEW p \in PC, NEW k \in Thread
  PROVE  \/ req'[p][k] = req[p][k]
         \/ req'[p][k] \in {IdleRequest, MarkRequest}
         \/ \E t \in Ticker : DeleteRead(p, k, t) \/ \E m \in 0..MaxMeta : UpsertRead(p, k, t, m)
<1> DEFINE Same == req'[p][k] = req[p][k] \/ req'[p][k] \in {IdleRequest, MarkRequest}
           Read == \E t \in Ticker : DeleteRead(p, k, t)
                                     \/ \E m \in 0..MaxMeta : UpsertRead(p, k, t, m)
<1>1. ASSUME NEW q \in PC, NEW l \in Thread, Handle(q, l) PROVE Same \/ Read
  <2>1. ASSUME UpsertWrite(q, l) \/ DeleteWrite(q, l) \/ MarkState(q, l) PROVE Same
    <3>1. PICK r \in {IdleRequest, MarkRequest} : req' = [req EXCEPT ![q][l] = r]
      BY <2>1 DEF UpsertWrite, DeleteWrite, MarkState
    <3> QED BY <3>1 DEF TypeOK
  <2>2. ASSUME NEW t \in Ticker, KeepGroup(q, l, t) PROVE Same
    BY <2>2 DEF KeepGroup, TypeOK
  <2>3. ASSUME NEW t \in Ticker, NEW m \in 0..MaxMeta, SetGroup(q, l, t, m) PROVE Same
    BY <2>3 DEF SetGroup, Restamp, TypeOK
  <2>4. ASSUME NEW t \in Ticker, NEW h \in 0..MaxTheme, SetTheme(q, l, t, h) PROVE Same
    BY <2>4 DEF SetTheme, Restamp, TypeOK
  <2>5. ASSUME NEW t \in Ticker, DeleteRead(q, l, t) PROVE Same \/ Read
    <3>1. ~ (q = p /\ l = k) => Same
      BY <2>5 DEF DeleteRead, TypeOK
    <3> QED BY <2>5, <3>1
  <2>6. ASSUME NEW t \in Ticker, NEW m \in 0..MaxMeta, UpsertRead(q, l, t, m) PROVE Same \/ Read
    <3>1. ~ (q = p /\ l = k) => Same
      BY <2>6 DEF UpsertRead, TypeOK
    <3> QED BY <2>6, <3>1
  <2> QED BY <1>1, <2>1, <2>2, <2>3, <2>4, <2>5, <2>6 DEF Handle
<1>2. ASSUME NEW q \in PC, Restart(q) PROVE Same
  BY <1>2 DEF Restart, TypeOK
<1>3. ASSUME NEW q \in PC,
             \/ SyncStep(q) \/ SyncFail(q) \/ PageReadOff(q) \/ Resync(q) \/ Vanish(q)
      PROVE  Same
  BY <1>3 DEF SyncStep, SyncOpen, SyncDecide, SyncSeed, SyncMerge, SyncPublish, SyncFail,
              PageReadOff, Resync, Vanish
<1>4. ASSUME NEW q \in PC, NEW r \in PC, Deliver(q, r) \/ Glitch(q, r) PROVE Same
  BY <1>4 DEF Deliver, Glitch
<1>5. ASSUME UNCHANGED vars PROVE Same
  BY <1>5 DEF vars
<1> HIDE DEF Same, Read
<1>6. Same \/ Read
  BY <1>1, <1>2, <1>3, <1>4, <1>5 DEF Next
<1> QED BY <1>6 DEF Same, Read

-----------------------------------------------------------------------------
(* cleanup_pending.  A ticker on the list is never pending, and one whose   *)
(* removal a handler has prepared is on the list or already pending, even   *)
(* if another writer removed it meanwhile.                                 *)

PendingInv ==
  /\ \A p \in PC, t \in Ticker : t \in pending[p] => ~ Present(p, t)
  /\ \A p \in PC, k \in Thread : req[p][k].at = "delete" =>
       Present(p, req[p][k].ticker) \/ req[p][k].ticker \in pending[p]


\* How cleanup_pending and the list change together, whatever the step.
LEMMA PendingStep ==
  ASSUME TypeOK, PendingInv, [Next]_vars, NEW p \in PC, NEW t \in Ticker
  PROVE  /\ t \in pending'[p] => db'[p].rows[t] = NoRow
         /\ Present(p, t) /\ db'[p].rows[t] = NoRow <=> t \in pending'[p] \ pending[p]
         /\ Present(p, t) \/ t \in pending[p] =>
              db'[p].rows[t] # NoRow \/ t \in pending'[p]
<1> DEFINE Follows ==
         /\ t \in pending'[p] => db'[p].rows[t] = NoRow
         /\ Present(p, t) /\ db'[p].rows[t] = NoRow <=> t \in pending'[p] \ pending[p]
         /\ Present(p, t) \/ t \in pending[p] =>
              db'[p].rows[t] # NoRow \/ t \in pending'[p]
<1>1. t \in pending[p] => db[p].rows[t] = NoRow
  BY DEF PendingInv, Present
<1>2. ASSUME db'[p].rows[t] = NoRow <=> db[p].rows[t] = NoRow, pending'[p] = pending[p]
      PROVE  Follows
  BY <1>1, <1>2 DEF Present
<1>3. ASSUME db'[p] = db[p], pending'[p] = pending[p] PROVE Follows
  BY <1>2, <1>3
<1>4. ASSUME NEW k \in Thread, UpsertWrite(p, k) PROVE Follows
  BY <1>1, <1>4, UpsertWrites, AbsenceAssumption DEF Present
<1>5. ASSUME NEW k \in Thread, DeleteWrite(p, k) PROVE Follows
  <2>1. Present(p, req[p][k].ticker) \/ req[p][k].ticker \in pending[p]
    BY <1>5 DEF PendingInv, DeleteWrite
  <2>2. PICK u \in Ticker : /\ u = req[p][k].ticker
                            /\ u # t => db'[p].rows[t] = db[p].rows[t]
                            /\ db'[p].rows[u] = NoRow /\ pending'[p] = pending[p] \cup {u}
    BY <1>5, DeleteWrites
  <2>3. Present(p, u) \/ u \in pending[p]
    BY <2>1, <2>2
  <2> QED BY <1>1, <2>2, <2>3 DEF Present
<1>6. ASSUME NEW k \in Thread, NEW u \in Ticker, NEW m \in 0..MaxMeta, NEW h \in 0..MaxTheme,
             Restamp(p, k, u, m, h)
      PROVE  Follows
  <2>1. Present(p, u)
    BY <1>6 DEF Restamp
  <2>2. /\ db'[p].rows[u] # NoRow /\ pending'[p] = pending[p]
        /\ u # t => db'[p].rows[t] = db[p].rows[t]
    BY <1>6, RestampWrites, AbsenceAssumption
  <2> QED BY <1>2, <2>1, <2>2 DEF Present
<1>7. ASSUME SyncOpen(p) PROVE Follows
  BY <1>2, <1>7, SyncOpenWrites
<1>8. ASSUME SyncSeed(p) \/ PageReadOff(p) PROVE Follows
  <2>1. /\ db' = WithSeed(p)
        /\ pending'[p] = pending[p] \ {u \in SeedTicker : ~ Present(p, u)}
    BY <1>8 DEF SyncSeed, PageReadOff, TypeOK
  <2> QED BY <1>1, <2>1, SeedWrites DEF Present
<1>9. ASSUME SyncMerge(p) PROVE Follows
  <2> DEFINE merged == Merge({LocalState(p)} \cup sync[p].peers)
  <2>1. /\ db'[p].rows[t] = NoRow <=> merged.rows[t] = NoRow
        /\ t \in pending'[p] <=>
             \/ t \in pending[p] /\ (Present(p, t) \/ merged.rows[t] = NoRow)
             \/ Present(p, t) /\ merged.rows[t] = NoRow
    BY <1>9, SyncMergeWrites
  <2> HIDE DEF merged
  <2> QED BY <1>1, <2>1 DEF Present
<1>10. ASSUME Resync(p) PROVE Follows
  <2>1. pending'[p] = (pending[p] \ SeedTicker) \cup {u \in Ticker \ SeedTicker : Present(p, u)}
    BY <1>10 DEF Resync, TypeOK
  <2> DEFINE row(u) == [ts |-> BaselineStamp, by |-> p, meta |-> 0,
                        theme |-> IF Present(p, u) THEN db[p].rows[u].theme ELSE 0]
  <2>2. db'[p].rows[t] = IF t \in SeedTicker THEN row(t) ELSE NoRow
    BY <1>10 DEF Resync, TypeOK, State
  <2>3. row(t) \in Row
    <3>1. BaselineStamp \in Stamp /\ p \in Author /\ 0 \in 0..MaxMeta
      BY BoundsAssumption, InstanceAssumption DEF Stamp, Author, BaselineStamp, PC
    <3>2. (IF Present(p, t) THEN db[p].rows[t].theme ELSE 0) \in 0..MaxTheme
      BY BoundsAssumption DEF Present, TypeOK, State, Row
    <3> QED BY <3>1, <3>2 DEF Row
  <2> HIDE DEF row
  <2> QED BY <1>1, <2>1, <2>2, <2>3, AbsenceAssumption DEF Present
<1> HIDE DEF Follows
<1>11. Follows
  BY <1>3, <1>4, <1>5, <1>6, <1>7, <1>8, <1>9, <1>10, ListSteps
<1> QED BY <1>11 DEF Follows

\* Whatever handlers, syncs, bootstraps and restarts do, in any interleaving, a
\* ticker becomes pending exactly when it leaves the list.
THEOREM PendingAlwaysFollows == Spec => PendingFollowsWatchlist
<1>1. Init => PendingInv
  BY DEF Init, PendingInv, IdleRequest
<1>2. TypeOK /\ PendingInv /\ [Next]_vars => PendingInv'
  <2> SUFFICES ASSUME TypeOK, PendingInv, [Next]_vars PROVE PendingInv'
    OBVIOUS
  <2>1. ASSUME NEW p \in PC, NEW t \in Ticker, t \in pending'[p] PROVE ~ Present(p, t)'
    BY <2>1, PendingStep DEF Present
  <2>2. ASSUME NEW p \in PC, NEW k \in Thread, req'[p][k].at = "delete"
        PROVE  Present(p, req[p][k].ticker)' \/ (req[p][k].ticker \in pending[p])'
    <3>1. CASE req'[p][k] = req[p][k]
      <4>1. /\ req[p][k].ticker \in Ticker
            /\ Present(p, req[p][k].ticker) \/ req[p][k].ticker \in pending[p]
        BY <2>2, <3>1, PreparedEdit DEF PendingInv
      <4> QED BY <3>1, <4>1, PendingStep DEF Present
    <3>2. ASSUME NEW t \in Ticker, DeleteRead(p, k, t)
          PROVE  Present(p, req[p][k].ticker)'
      <4>1. req'[p][k].ticker = t /\ db' = db /\ Present(p, t)
        BY <3>2 DEF DeleteRead, TypeOK
      <4> QED BY <4>1 DEF Present
    <3>3. ASSUME NEW t \in Ticker, NEW m \in 0..MaxMeta, UpsertRead(p, k, t, m) PROVE FALSE
      BY <2>2, <3>3 DEF UpsertRead, TypeOK
    <3> QED BY <2>2, <3>1, <3>2, <3>3, RequestSteps DEF IdleRequest, MarkRequest
  <2> QED BY <2>1, <2>2 DEF PendingInv
<1>3. TypeOK /\ PendingInv /\ [Next]_vars =>
        \A p \in PC, t \in Ticker :
          LET leaves == Present(p, t) /\ db'[p].rows[t] = NoRow
          IN  /\ t \in pending'[p] => db'[p].rows[t] = NoRow
              /\ leaves <=> t \in pending'[p] \ pending[p]
  BY PendingStep
<1> QED BY <1>1, <1>2, <1>3, TypeCorrect, PTL DEF Spec, PendingFollowsWatchlist
-----------------------------------------------------------------------------
(* Serial writers.  What follows is about ~ Overlap: no other writer of a   *)
(* PC runs between a handler's first read and its last commit.             *)

\* One request is being served at a time.
OneRequest ==
  \A p \in PC : \A k, l \in Thread :
    req[p][k] # IdleRequest /\ req[p][l] # IdleRequest => k = l

\* Runs belong to a process that syncs; one about to write the seed is on its
\* own with a PC nobody has managed.
RunsAllowed ==
  \A p \in PC :
    /\ sync[p] # IdleSync => enabled[p]
    /\ sync[p].at = "seed" =>
         ~ marked[p] /\ \A k \in Thread : req[p][k] = IdleRequest

\* What a handler is about to write is the stored row itself, or carries a
\* stamp above everything the PC has stored of the ticker.
Outdoes(p, t, ts) == ts > SeenStamp(p, t) /\ ts > BaselineStamp

EditPrepared(p, k) ==
  LET t == req[p][k].ticker
      new == req[p][k].row
  IN  /\ req[p][k].at = "upsert" =>
           new = db[p].rows[t] \/ (Outdoes(p, t, new.ts) /\ new.by = p)
      /\ req[p][k].at = "delete" => (enabled[p] => Outdoes(p, t, new.ts))

SerialInv ==
  /\ TypeOK /\ OneRequest /\ RunsAllowed
  /\ \A p \in PC, k \in Thread : EditPrepared(p, k)

\* Sync on everywhere: each copy of a stamped row, in whatever hands, is of a
\* change its author's PC still knows.
Copies(t) == {r \in RowsFor(States, t) : r.ts > BaselineStamp}

AuthorsKnow ==
  \A t \in Ticker : \A r \in Copies(t) : r.by \in PC /\ r.ts <= SeenStamp(r.by, t)

KeyInv ==
  /\ SerialInv /\ AuthorsKnow /\ KeyDeterminesContent
  /\ \A p \in PC : enabled[p]

-----------------------------------------------------------------------------
LEMMA CausalStampOutdoes ==
  ASSUME TypeOK, NEW p \in PC, NEW t \in Ticker, NEW now \in ClockReading
  PROVE  Outdoes(p, t, CausalStamp(p, t, now))
<1>1. SeenStamp(p, t) \in Nat /\ issued[p] \in Nat
  BY BoundsAssumption, AbsenceAssumption
     DEF TypeOK, SeenStamp, StampOf, Larger, State, Row, Tomb, Stamp, NullStamp
<1> HIDE DEF SeenStamp
<1>2. NextStamp(now, issued[p], SeenStamp(p, t)) > SeenStamp(p, t)
  BY <1>1, BoundsAssumption DEF NextStamp, Larger, ClockReading, NullStamp, BaselineStamp
<1>3. NextStamp(now, issued[p], SeenStamp(p, t)) > BaselineStamp
  BY <1>1, BoundsAssumption DEF NextStamp, Larger, ClockReading, NullStamp, BaselineStamp
<1> QED BY <1>2, <1>3 DEF Outdoes, CausalStamp

\* A request is opened where none is served, and goes on or ends where it is.
LEMMA RequestEffects ==
  ASSUME TypeOK, [Next]_vars
  PROVE  \/ req' = req
         \/ \E q \in PC : req' = [req EXCEPT ![q] = [k \in Thread |-> IdleRequest]]
         \/ \E q \in PC, l \in Thread :
              /\ req[q][l] # IdleRequest \/ Undisturbed(q)
              /\ \E r : req' = [req EXCEPT ![q][l] = r]
<1> DEFINE Moves(q, l) == /\ req[q][l] # IdleRequest \/ Undisturbed(q)
                          /\ \E r : req' = [req EXCEPT ![q][l] = r]
<1>1. ASSUME NEW q \in PC, NEW l \in Thread, Handle(q, l) PROVE Moves(q, l)
  <2>1. ASSUME UpsertWrite(q, l) \/ DeleteWrite(q, l) \/ MarkState(q, l) PROVE Moves(q, l)
    BY <2>1 DEF UpsertWrite, DeleteWrite, MarkState, IdleRequest, MarkRequest
  <2>2. ASSUME NEW t \in Ticker, KeepGroup(q, l, t) PROVE Moves(q, l)
    BY <2>2 DEF KeepGroup, MayEdit
  <2>3. ASSUME NEW t \in Ticker, NEW m \in 0..MaxMeta, SetGroup(q, l, t, m) PROVE Moves(q, l)
    BY <2>3 DEF SetGroup, Restamp, MayEdit
  <2>4. ASSUME NEW t \in Ticker, NEW h \in 0..MaxTheme, SetTheme(q, l, t, h) PROVE Moves(q, l)
    BY <2>4 DEF SetTheme, Restamp, MayEdit
  <2>5. ASSUME NEW t \in Ticker, DeleteRead(q, l, t) PROVE Moves(q, l)
    BY <2>5 DEF DeleteRead, MayEdit
  <2>6. ASSUME NEW t \in Ticker, NEW m \in 0..MaxMeta, UpsertRead(q, l, t, m) PROVE Moves(q, l)
    BY <2>6 DEF UpsertRead, MayEdit
  <2> HIDE DEF Moves
  <2> QED BY <1>1, <2>1, <2>2, <2>3, <2>4, <2>5, <2>6 DEF Handle
<1>2. ASSUME NEW q \in PC, Restart(q)
      PROVE  req' = [req EXCEPT ![q] = [k \in Thread |-> IdleRequest]]
  BY <1>2 DEF Restart
<1>3. ASSUME NEW q \in PC,
             \/ SyncStep(q) \/ SyncFail(q) \/ PageReadOff(q) \/ Resync(q) \/ Vanish(q)
      PROVE  req' = req
  BY <1>3 DEF SyncStep, SyncOpen, SyncDecide, SyncSeed, SyncMerge, SyncPublish, SyncFail,
              PageReadOff, Resync, Vanish
<1>4. ASSUME NEW q \in PC, NEW r \in PC, Deliver(q, r) \/ Glitch(q, r) PROVE req' = req
  BY <1>4 DEF Deliver, Glitch
<1>5. ASSUME UNCHANGED vars PROVE req' = req
  BY <1>5 DEF vars
<1> HIDE DEF Moves
<1>6. \/ req' = req
      \/ \E q \in PC : req' = [req EXCEPT ![q] = [k \in Thread |-> IdleRequest]]
      \/ \E q \in PC, l \in Thread : Moves(q, l)
  BY <1>1, <1>2, <1>3, <1>4, <1>5 DEF Next
<1> QED BY <1>6 DEF Moves

LEMMA OneRequestStep ==
  ASSUME Overlap = FALSE, TypeOK, OneRequest, [Next]_vars
  PROVE  OneRequest'
<1> SUFFICES ASSUME NEW p \in PC, NEW k \in Thread, NEW l \in Thread,
                    req'[p][k] # IdleRequest, req'[p][l] # IdleRequest
             PROVE  k = l
  BY DEF OneRequest
<1>1. CASE req' = req
  BY <1>1 DEF OneRequest
<1>2. CASE \E q \in PC : req' = [req EXCEPT ![q] = [i \in Thread |-> IdleRequest]]
  <2>1. req'[p][k] = req[p][k] /\ req'[p][l] = req[p][l]
    BY <1>2 DEF TypeOK
  <2> QED BY <2>1 DEF OneRequest
<1>3. ASSUME NEW q \in PC, NEW i \in Thread, NEW r,
             req[q][i] # IdleRequest \/ Undisturbed(q), req' = [req EXCEPT ![q][i] = r]
      PROVE  k = l
  <2>1. CASE q = p
    <3>1. \A h \in Thread : h # i => req'[p][h] = req[p][h]
      BY <1>3, <2>1 DEF TypeOK
    <3>2. \A h \in Thread : h # i => req[p][h] = IdleRequest
      BY <1>3, <2>1 DEF OneRequest, Undisturbed
    <3> QED BY <3>1, <3>2
  <2>2. CASE q # p
    <3>1. req'[p] = req[p]
      BY <1>3, <2>2 DEF TypeOK
    <3> QED BY <3>1 DEF OneRequest
  <2> QED BY <2>1, <2>2
<1> QED BY <1>1, <1>2, <1>3, RequestEffects

\* Between a handler's read and its write nothing else happens to its PC.
LEMMA NothingBetween ==
  ASSUME Overlap = FALSE, TypeOK, OneRequest, [Next]_vars, NEW p \in PC, NEW k \in Thread,
         req[p][k].at \in {"upsert", "delete"}, req'[p][k] = req[p][k]
  PROVE  db'[p] = db[p] /\ enabled'[p] = enabled[p]
<1>1. ~ Undisturbed(p) /\ req[p][k] # IdleRequest /\ req[p][k] # MarkRequest
  BY DEF Undisturbed, IdleRequest, MarkRequest
<1>2. db'[p] = db[p]
  <2>1. ASSUME NEW l \in Thread, UpsertWrite(p, l) \/ DeleteWrite(p, l) PROVE FALSE
    <3>1. req[p][l] # IdleRequest
      BY <2>1 DEF UpsertWrite, DeleteWrite, IdleRequest
    <3>2. l = k
      BY <1>1, <3>1 DEF OneRequest
    <3>3. req'[p][k] = MarkRequest
      BY <2>1, <3>2 DEF UpsertWrite, DeleteWrite, TypeOK
    <3> QED BY <1>1, <3>3
  <2>2. ASSUME NEW l \in Thread, NEW t \in Ticker, NEW m \in 0..MaxMeta,
               NEW h \in 0..MaxTheme, Restamp(p, l, t, m, h)
        PROVE  FALSE
    BY <1>1, <2>2 DEF Restamp, MayEdit
  <2>3. ~ (SyncOpen(p) \/ SyncSeed(p) \/ SyncMerge(p) \/ PageReadOff(p) \/ Resync(p))
    BY <1>1 DEF SyncOpen, SyncSeed, SyncMerge, PageReadOff, Resync
  <2> QED BY <2>1, <2>2, <2>3, ListSteps
<1>3. enabled'[p] = enabled[p]
  <2>1. ASSUME NEW q \in PC, Restart(q) PROVE enabled'[p] = enabled[p]
    <3>1. q # p
      BY <1>1, <2>1 DEF Restart, TypeOK
    <3> QED BY <2>1, <3>1 DEF Restart, TypeOK
  <2>2. ASSUME NEW q \in PC, NEW l \in Thread, Handle(q, l) PROVE enabled' = enabled
    BY <2>2 DEF Handle, UpsertRead, UpsertWrite, SetGroup, KeepGroup, SetTheme, Restamp,
                DeleteRead, DeleteWrite, MarkState
  <2>3. ASSUME NEW q \in PC,
               \/ SyncStep(q) \/ SyncFail(q) \/ PageReadOff(q) \/ Resync(q) \/ Vanish(q)
        PROVE  enabled' = enabled
    BY <2>3 DEF SyncStep, SyncOpen, SyncDecide, SyncSeed, SyncMerge, SyncPublish, SyncFail,
                PageReadOff, Resync, Vanish
  <2>4. ASSUME NEW q \in PC, NEW r \in PC, Deliver(q, r) \/ Glitch(q, r)
        PROVE  enabled' = enabled
    BY <2>4 DEF Deliver, Glitch
  <2>5. ASSUME UNCHANGED vars PROVE enabled' = enabled
    BY <2>5 DEF vars
  <2> QED BY <2>1, <2>2, <2>3, <2>4, <2>5 DEF Next
<1> QED BY <1>2, <1>3

LEMMA EditPreparedStep ==
  ASSUME Overlap = FALSE, TypeOK, OneRequest, [Next]_vars, NEW p \in PC, NEW k \in Thread,
         EditPrepared(p, k)
  PROVE  EditPrepared(p, k)'
<1>1. CASE req'[p][k] = req[p][k]
  <2>1. CASE req[p][k].at \notin {"upsert", "delete"}
    BY <1>1, <2>1 DEF EditPrepared
  <2>2. CASE req[p][k].at \in {"upsert", "delete"}
    BY <1>1, <2>2, NothingBetween DEF EditPrepared, Outdoes, SeenStamp
  <2> QED BY <2>1, <2>2
<1>2. CASE req'[p][k] \in {IdleRequest, MarkRequest}
  BY <1>2 DEF EditPrepared, IdleRequest, MarkRequest
<1>3. ASSUME NEW t \in Ticker, DeleteRead(p, k, t) PROVE EditPrepared(p, k)'
  <2>1. PICK now \in ClockReading :
          req' = [req EXCEPT ![p][k] =
                    [at |-> "delete", ticker |-> t,
                     row |-> [ts |-> IF enabled[p] THEN CausalStamp(p, t, now) ELSE NullStamp,
                              by |-> p, meta |-> 0, theme |-> 0]]]
    BY <1>3 DEF DeleteRead
  <2>2. /\ req'[p][k].at = "delete" /\ req'[p][k].ticker = t
        /\ enabled[p] => req'[p][k].row.ts = CausalStamp(p, t, now)
    BY <2>1 DEF TypeOK
  <2>3. db' = db /\ enabled' = enabled
    BY <1>3 DEF DeleteRead
  <2> QED BY <2>2, <2>3, CausalStampOutdoes DEF EditPrepared, Outdoes, SeenStamp
<1>4. ASSUME NEW t \in Ticker, NEW m \in 0..MaxMeta, UpsertRead(p, k, t, m)
      PROVE  EditPrepared(p, k)'
  <2>1. PICK now \in ClockReading :
          req' = [req EXCEPT ![p][k] =
                    [at |-> "upsert", ticker |-> t,
                     row |-> IF db[p].rows[t] = NoRow \/ db[p].rows[t].meta # m
                             THEN [ts |-> CausalStamp(p, t, now), by |-> p,
                                   meta |-> m, theme |-> 0]
                             ELSE db[p].rows[t]]]
    BY <1>4 DEF UpsertRead
  <2>2. /\ req'[p][k].at = "upsert" /\ req'[p][k].ticker = t
        /\ \/ req'[p][k].row = db[p].rows[t]
           \/ req'[p][k].row.ts = CausalStamp(p, t, now) /\ req'[p][k].row.by = p
    BY <2>1 DEF TypeOK
  <2>3. db' = db
    BY <1>4 DEF UpsertRead
  <2> QED BY <2>2, <2>3, CausalStampOutdoes DEF EditPrepared, Outdoes, SeenStamp
<1> QED BY <1>1, <1>2, <1>3, <1>4, RequestSteps

\* What becomes of a run: another step of it, its end, or nothing.
LEMMA RunSteps ==
  ASSUME TypeOK, [Next]_vars, NEW p \in PC
  PROVE  \/ sync'[p] = sync[p] /\ enabled'[p] = enabled[p]
         \/ sync'[p] = IdleSync
         \/ SyncOpen(p) \/ SyncDecide(p) \/ SyncSeed(p) \/ SyncMerge(p)
<1> DEFINE Same == sync'[p] = sync[p] /\ enabled'[p] = enabled[p]
           Ended == sync'[p] = IdleSync
<1>1. ASSUME NEW q \in PC, NEW k \in Thread, Handle(q, k) PROVE Same
  BY <1>1 DEF Handle, UpsertRead, UpsertWrite, SetGroup, KeepGroup, SetTheme, Restamp,
              DeleteRead, DeleteWrite, MarkState
<1>2. ASSUME NEW q \in PC, SyncOpen(q) \/ SyncDecide(q) \/ SyncSeed(q) \/ SyncMerge(q)
      PROVE  q = p \/ Same
  BY <1>2 DEF SyncOpen, SyncDecide, SyncSeed, SyncMerge, TypeOK
<1>3. ASSUME NEW q \in PC, SyncPublish(q) \/ SyncFail(q) \/ Restart(q) PROVE Same \/ Ended
  BY <1>3 DEF SyncPublish, SyncFail, Restart, TypeOK
<1>4. ASSUME NEW q \in PC, PageReadOff(q) \/ Resync(q) \/ Vanish(q) PROVE Same
  BY <1>4 DEF PageReadOff, Resync, Vanish
<1>5. ASSUME NEW q \in PC, NEW r \in PC, Deliver(q, r) \/ Glitch(q, r) PROVE Same
  BY <1>5 DEF Deliver, Glitch
<1>6. ASSUME UNCHANGED vars PROVE Same
  BY <1>6 DEF vars
<1> HIDE DEF Same, Ended
<1>7. Same \/ Ended \/ SyncOpen(p) \/ SyncDecide(p) \/ SyncSeed(p) \/ SyncMerge(p)
  BY <1>1, <1>2, <1>3, <1>4, <1>5, <1>6 DEF Next, SyncStep
<1> QED BY <1>7 DEF Same, Ended

\* While a run is about to write the seed, no request opens on its PC and
\* nobody marks it.
LEMMA SeedAlone ==
  ASSUME Overlap = FALSE, TypeOK, RunsAllowed, [Next]_vars, NEW p \in PC,
         sync[p].at = "seed", sync'[p] = sync[p]
  PROVE  marked'[p] = marked[p] /\ req'[p] = req[p]
<1> DEFINE Still == marked'[p] = marked[p] /\ req'[p] = req[p]
<1>1. enabled[p] /\ \A k \in Thread : req[p][k] = IdleRequest
  BY DEF RunsAllowed, IdleSync
<1>2. ASSUME NEW q \in PC, NEW k \in Thread, Handle(q, k) PROVE Still
  <2>1. CASE q = p
    <3>1. ~ UpsertWrite(p, k) /\ ~ DeleteWrite(p, k) /\ ~ MarkState(p, k)
      BY <1>1 DEF UpsertWrite, DeleteWrite, MarkState, IdleRequest, MarkRequest
    <3>2. \A t \in Ticker : ~ MayEdit(p, k, t)
      BY DEF MayEdit
    <3> QED BY <1>2, <2>1, <3>1, <3>2
            DEF Handle, UpsertRead, SetGroup, KeepGroup, SetTheme, Restamp, DeleteRead
  <2>2. CASE q # p
    <3>1. UpsertWrite(q, k) \/ DeleteWrite(q, k) \/ MarkState(q, k) => Still
      BY <2>2 DEF UpsertWrite, DeleteWrite, MarkState, TypeOK
    <3>2. ASSUME NEW t \in Ticker, KeepGroup(q, k, t) \/ DeleteRead(q, k, t) PROVE Still
      BY <2>2, <3>2 DEF KeepGroup, DeleteRead, TypeOK
    <3>3. ASSUME NEW t \in Ticker, NEW m \in 0..MaxMeta,
                 UpsertRead(q, k, t, m) \/ SetGroup(q, k, t, m)
          PROVE  Still
      BY <2>2, <3>3 DEF UpsertRead, SetGroup, Restamp, TypeOK
    <3>4. ASSUME NEW t \in Ticker, NEW h \in 0..MaxTheme, SetTheme(q, k, t, h) PROVE Still
      BY <2>2, <3>4 DEF SetTheme, Restamp, TypeOK
    <3> HIDE DEF Still
    <3> QED BY <1>2, <3>1, <3>2, <3>3, <3>4 DEF Handle
  <2> QED BY <2>1, <2>2
<1>3. ASSUME NEW q \in PC, SyncDecide(q) PROVE Still
  <2>1. q # p
    BY <1>3 DEF SyncDecide
  <2> QED BY <1>3, <2>1 DEF SyncDecide, TypeOK
<1>4. ASSUME NEW q \in PC, SyncSeed(q) PROVE Still
  <2>1. q # p
    BY <1>4, RunningSync DEF SyncSeed, TypeOK, ReadSync
  <2> QED BY <1>4, <2>1 DEF SyncSeed, TypeOK
<1>5. ASSUME NEW q \in PC, PageReadOff(q) \/ Resync(q) PROVE Still
  <2>1. q # p
    BY <1>1, <1>5 DEF PageReadOff, Resync
  <2> QED BY <1>5, <2>1 DEF PageReadOff, Resync, TypeOK
<1>6. ASSUME NEW q \in PC, Restart(q) PROVE Still
  BY <1>1, <1>6 DEF Restart, TypeOK
<1>7. ASSUME NEW q \in PC,
             SyncOpen(q) \/ SyncMerge(q) \/ SyncPublish(q) \/ SyncFail(q) \/ Vanish(q)
      PROVE  Still
  BY <1>7 DEF SyncOpen, SyncMerge, SyncPublish, SyncFail, Vanish
<1>8. ASSUME NEW q \in PC, NEW r \in PC, Deliver(q, r) \/ Glitch(q, r) PROVE Still
  BY <1>8 DEF Deliver, Glitch
<1>9. ASSUME UNCHANGED vars PROVE Still
  BY <1>9 DEF vars
<1> HIDE DEF Still
<1>10. Still
  BY <1>2, <1>3, <1>4, <1>5, <1>6, <1>7, <1>8, <1>9 DEF Next, SyncStep
<1> QED BY <1>10 DEF Still

LEMMA RunsAllowedStep ==
  ASSUME Overlap = FALSE, TypeOK, RunsAllowed, [Next]_vars
  PROVE  RunsAllowed'
<1> SUFFICES ASSUME NEW p \in PC
             PROVE  /\ sync'[p] # IdleSync => enabled'[p]
                    /\ sync'[p].at = "seed" =>
                         ~ marked'[p] /\ \A k \in Thread : req'[p][k] = IdleRequest
  BY DEF RunsAllowed
<1>1. CASE sync'[p] = sync[p] /\ enabled'[p] = enabled[p]
  BY <1>1, SeedAlone DEF RunsAllowed
<1>2. CASE sync'[p] = IdleSync
  BY <1>2 DEF IdleSync
<1>3. CASE SyncOpen(p)
  <2>1. enabled'[p] /\ sync'[p].at = "read"
    BY <1>3 DEF SyncOpen, TypeOK
  <2> QED BY <2>1
<1>4. CASE SyncSeed(p) \/ SyncMerge(p)
  <2>1. enabled'[p]
    BY <1>4 DEF SyncSeed, SyncMerge, RunsAllowed, IdleSync
  <2>2. sync'[p].at # "seed"
    BY <1>4, RunningSync DEF SyncSeed, SyncMerge, TypeOK, ReadSync
  <2> QED BY <2>1, <2>2
<1>5. CASE SyncDecide(p)
  <2> DEFINE fresh == WatchlistEmpty(p) /\ sync[p].peers = {} /\ ~ sync[p].skipped
             joining == WatchlistEmpty(p) /\ sync[p].peers # {}
             next == IF fresh /\ ~ marked[p] THEN "seed" ELSE "merge"
  <2>1. enabled'[p]
    BY <1>5 DEF SyncDecide, RunsAllowed, IdleSync
  <2>2. /\ sync' = [sync EXCEPT ![p].at = next]
        /\ marked' = [marked EXCEPT ![p] = @ \/ joining]
        /\ req' = req /\ \A k \in Thread : req[p][k] = IdleRequest
    BY <1>5 DEF SyncDecide, Undisturbed
  <2>3. sync'[p].at = next
    BY <1>5, <2>2, RunningSync DEF SyncDecide, TypeOK, ReadSync
  <2>4. marked'[p] = (marked[p] \/ joining)
    BY <2>2 DEF TypeOK
  <2>5. fresh => ~ joining
    OBVIOUS
  <2> HIDE DEF fresh, joining
  <2>6. sync'[p].at = "seed" => fresh /\ ~ marked[p]
    BY <2>3
  <2>7. fresh /\ ~ marked[p] => ~ marked'[p]
    <3> HIDE DEF next
    <3> QED BY <2>4, <2>5, Zenon
  <2>8. \A k \in Thread : req'[p][k] = IdleRequest
    BY <2>2
  <2> HIDE DEF next
  <2> QED BY <2>1, <2>6, <2>7, <2>8, Zenon
<1> QED BY <1>1, <1>2, <1>3, <1>4, <1>5, RunSteps

LEMMA SerialInit == Init => SerialInv
<1> SUFFICES ASSUME Init PROVE SerialInv
  OBVIOUS
<1>1. TypeOK
  BY InitType
<1>2. OneRequest /\ RunsAllowed
  BY DEF Init, OneRequest, RunsAllowed, IdleSync
<1>3. \A p \in PC, k \in Thread : EditPrepared(p, k)
  BY DEF Init, EditPrepared, IdleRequest
<1> QED BY <1>1, <1>2, <1>3 DEF SerialInv

LEMMA SerialStep ==
  ASSUME Overlap = FALSE, SerialInv, [Next]_vars
  PROVE  SerialInv'
BY StepType, OneRequestStep, RunsAllowedStep, EditPreparedStep DEF SerialInv

-----------------------------------------------------------------------------
(* What a user's change outranks.                                          *)

LEMMA StateKeys ==
  ASSUME NEW s \in State, NEW t \in Ticker, NEW seenStamp,
         seenStamp = Larger(StampOf(s.rows[t]), StampOf(s.removed[t]))
  PROVE  /\ seenStamp \in Nat
         /\ \A k \in KeysOf(s, t) : k.ts \in Nat /\ k.by \in Nat /\ k.ts <= seenStamp
         /\ seenStamp # NullStamp => \E k \in KeysOf(s, t) : k.ts = seenStamp
<1> DEFINE row == s.rows[t]
           tomb == s.removed[t]
<1>1. row \in Row \cup {NoRow} /\ tomb \in Tomb \cup {NoTomb}
  BY DEF State
<1>2. seenStamp = Larger(StampOf(row), StampOf(tomb))
  OBVIOUS
<1>3. \A k : k \in KeysOf(s, t) <=>
               \/ row # NoRow /\ k = [ts |-> row.ts, by |-> row.by]
               \/ tomb # NoTomb /\ k = tomb
  BY DEF KeysOf
<1>4. row # NoRow => row.ts \in Nat /\ row.by \in Nat /\ StampOf(row) = row.ts
  BY <1>1, BoundsAssumption, AbsenceAssumption DEF Row, Stamp, Author, StampOf
<1>5. tomb # NoTomb => tomb.ts \in Nat /\ tomb.by \in Nat /\ StampOf(tomb) = tomb.ts
  BY <1>1, BoundsAssumption, AbsenceAssumption DEF Tomb, Stamp, Author, StampOf
<1>6. /\ row = NoRow => StampOf(row) = 0
      /\ tomb = NoTomb => StampOf(tomb) = 0
  BY DEF StampOf, NullStamp
<1> HIDE DEF row, tomb
<1>7. /\ StampOf(row) \in Nat /\ StampOf(tomb) \in Nat
      /\ seenStamp \in {StampOf(row), StampOf(tomb)}
      /\ StampOf(row) <= seenStamp /\ StampOf(tomb) <= seenStamp
  BY <1>2, <1>4, <1>5, <1>6 DEF Larger
<1>8. ASSUME NEW k \in KeysOf(s, t)
      PROVE  k.ts \in Nat /\ k.by \in Nat /\ k.ts <= seenStamp
  BY <1>3, <1>4, <1>5, <1>7
<1>9. ASSUME seenStamp # 0 PROVE \E k \in KeysOf(s, t) : k.ts = seenStamp
  <2>1. CASE seenStamp = StampOf(row)
    <3>1. row # NoRow /\ [ts |-> row.ts, by |-> row.by].ts = seenStamp
      BY <1>4, <1>6, <1>9, <2>1
    <3> QED BY <1>3, <3>1
  <2>2. CASE seenStamp = StampOf(tomb)
    <3>1. tomb # NoTomb /\ tomb.ts = seenStamp
      BY <1>5, <1>6, <1>9, <2>2
    <3> QED BY <1>3, <3>1
  <2> QED BY <1>7, <2>1, <2>2
<1> QED BY <1>7, <1>8, <1>9 DEF NullStamp

LEMMA StoredKeys ==
  ASSUME TypeOK, NEW p \in PC, NEW t \in Ticker
  PROVE  /\ SeenStamp(p, t) \in Nat
         /\ \A k \in KeysOf(db[p], t) : k.ts \in Nat /\ k.by \in Nat /\ k.ts <= SeenStamp(p, t)
         /\ SeenStamp(p, t) # NullStamp => \E k \in KeysOf(db[p], t) : k.ts = SeenStamp(p, t)
<1>1. db[p] \in State
  BY DEF TypeOK
<1> QED BY <1>1, StateKeys DEF SeenStamp

LEMMA OutdoesAll ==
  ASSUME TypeOK, NEW p \in PC, NEW t \in Ticker, NEW j \in KeysOf(db'[p], t),
         j.ts \in Nat, Outdoes(p, t, j.ts)
  PROVE  Outranks(db[p], db'[p], t)
<1>1. \A k \in KeysOf(db[p], t) : k.ts < j.ts
  BY StoredKeys DEF Outdoes
<1> QED BY <1>1 DEF Outranks, KeyLT

LEMMA OutranksNotOlder ==
  ASSUME TypeOK, NEW p \in PC, NEW t \in Ticker, TypeOK', Outranks(db[p], db'[p], t)
  PROVE  NotOlder(db[p], db'[p], t)
<1>1. PICK j \in KeysOf(db'[p], t) : \A k \in KeysOf(db[p], t) : KeyLT(k, j)
  BY DEF Outranks
<1>2. j.ts \in Nat /\ j.by \in Nat
  BY BoundsAssumption DEF TypeOK, KeysOf, State, Row, Tomb, Stamp, Author
<1>3. \A k \in KeysOf(db[p], t) : ~ KeyLT(j, k)
  BY <1>1, <1>2, StoredKeys DEF KeyLT
<1> QED BY <1>3 DEF NotOlder

\* A committing handler leaves a ticker alone or outranks all there was of it.
LEMMA EditOutranks ==
  ASSUME SerialInv, [Next]_vars, NEW p \in PC, NEW k \in Thread, enabled[p],
         \/ UpsertWrite(p, k) \/ DeleteWrite(p, k)
         \/ \E u \in Ticker, m \in 0..MaxMeta, h \in 0..MaxTheme : Restamp(p, k, u, m, h),
         NEW t \in Ticker
  PROVE  \/ db'[p].rows[t] = db[p].rows[t] /\ db'[p].removed[t] = db[p].removed[t]
         \/ Outranks(db[p], db'[p], t)
<1> DEFINE Goal == \/ db'[p].rows[t] = db[p].rows[t] /\ db'[p].removed[t] = db[p].removed[t]
                   \/ Outranks(db[p], db'[p], t)
<1>1. TypeOK /\ EditPrepared(p, k)
  BY DEF SerialInv
<1>2. ASSUME db'[p].rows[t] \in Row, Outdoes(p, t, db'[p].rows[t].ts) PROVE Goal
  <2> DEFINE j == [ts |-> db'[p].rows[t].ts, by |-> db'[p].rows[t].by]
  <2>1. j \in KeysOf(db'[p], t)
    BY <1>2, AbsenceAssumption DEF KeysOf
  <2>2. j.ts \in Nat /\ Outdoes(p, t, j.ts)
    BY <1>2, BoundsAssumption DEF Row, Stamp
  <2> HIDE DEF j
  <2> QED BY <1>1, <2>1, <2>2, OutdoesAll
<1>3. ASSUME UpsertWrite(p, k) PROVE Goal
  <2> DEFINE u == req[p][k].ticker
             new == req[p][k].row
  <2>1. /\ u \in Ticker /\ new \in Row
        /\ db'[p].removed = db[p].removed
        /\ u # t => db'[p].rows[t] = db[p].rows[t]
        /\ db'[p].rows[u] \in Row /\ db'[p].rows[u].ts = new.ts
        /\ new = db[p].rows[u] => db'[p].rows[u] = new
    BY <1>1, <1>3, UpsertWrites
  <2>2. new = db[p].rows[u] \/ Outdoes(p, u, new.ts)
    BY <1>1, <1>3 DEF EditPrepared, UpsertWrite
  <2> HIDE DEF Goal, u, new
  <2>3. u # t \/ new = db[p].rows[u] => Goal
    BY <2>1 DEF Goal
  <2> QED BY <1>2, <2>1, <2>2, <2>3
<1>4. ASSUME DeleteWrite(p, k) PROVE Goal
  <2> DEFINE u == req[p][k].ticker
             ts == req[p][k].row.ts
  <2>1. /\ u \in Ticker /\ req[p][k].row \in Row
        /\ u # t => /\ db'[p].rows[t] = db[p].rows[t]
                    /\ db'[p].removed[t] = db[p].removed[t]
        /\ db'[p].removed[u] = [ts |-> ts, by |-> p]
    BY <1>1, <1>4, DeleteWrites
  <2>2. Outdoes(p, u, ts)
    BY <1>1, <1>4 DEF EditPrepared, DeleteWrite
  <2>3. ts \in Nat /\ [ts |-> ts, by |-> p] \in Tomb
    BY <2>1, BoundsAssumption, InstanceAssumption DEF Row, Tomb, Stamp, Author, PC
  <2> HIDE DEF u, ts
  <2>4. CASE u = t
    <3>1. [ts |-> ts, by |-> p] \in KeysOf(db'[p], t)
      BY <2>1, <2>3, <2>4, AbsenceAssumption DEF KeysOf
    <3> QED BY <1>1, <2>2, <2>3, <2>4, <3>1, OutdoesAll
  <2> QED BY <2>1, <2>4
<1>5. ASSUME NEW u \in Ticker, NEW m \in 0..MaxMeta, NEW h \in 0..MaxTheme, Restamp(p, k, u, m, h)
      PROVE  Goal
  <2>1. PICK now \in ClockReading :
          /\ db'[p].removed = db[p].removed
          /\ u # t => db'[p].rows[t] = db[p].rows[t]
          /\ db'[p].rows[u] = [ts |-> CausalStamp(p, u, now), by |-> p, meta |-> m, theme |-> h]
          /\ db'[p].rows[u] \in Row
    BY <1>1, <1>5, RestampWrites
  <2>2. db'[p].rows[u].ts = CausalStamp(p, u, now)
    BY <2>1
  <2>3. Outdoes(p, u, db'[p].rows[u].ts)
    BY <1>1, <2>2, CausalStampOutdoes
  <2> HIDE DEF Goal
  <2>4. u # t => Goal
    BY <2>1 DEF Goal
  <2> QED BY <1>2, <2>1, <2>3, <2>4
<1> HIDE DEF Goal
<1>6. Goal
  BY <1>3, <1>4, <1>5
<1> QED BY <1>6 DEF Goal

\* With writers one at a time, what a user commits outranks everything the PC
\* held of that ticker: causal_stamp looks at the row and at the tombstone, and
\* nothing comes between its look and the write.
THEOREM LocalChangesOutrank ==
  ASSUME Overlap = FALSE
  PROVE  Spec => LocalChangeOutranks
<1>1. SerialInv /\ [Next]_vars => SerialInv'
  BY SerialStep
<1>2. SerialInv /\ [Next]_vars =>
        \A p \in PC, k \in Thread, t \in Ticker :
          enabled[p] /\ Commits(p, k) /\ db'[p].rows[t] # db[p].rows[t]
            => Outranks(db[p], db'[p], t)
  <2> SUFFICES ASSUME SerialInv, [Next]_vars, NEW p \in PC, NEW k \in Thread, NEW t \in Ticker,
                      enabled[p], Commits(p, k), db'[p].rows[t] # db[p].rows[t]
               PROVE  Outranks(db[p], db'[p], t)
    OBVIOUS
  <2>1. TypeOK
    BY DEF SerialInv
  <2>2. ~ (SyncOpen(p) \/ SyncSeed(p) \/ SyncMerge(p) \/ PageReadOff(p) \/ Resync(p))
    BY DEF Commits, SyncOpen, SyncSeed, SyncMerge, PageReadOff, Resync
  <2>3. PICK l \in Thread :
          \/ UpsertWrite(p, l) \/ DeleteWrite(p, l)
          \/ \E u \in Ticker, m \in 0..MaxMeta, h \in 0..MaxTheme : Restamp(p, l, u, m, h)
    BY <2>1, <2>2, ListSteps
  <2> QED BY <2>3, EditOutranks
<1> QED BY <1>1, <1>2, SerialInit, PTL DEF Spec, LocalChangeOutranks

\* A step of a syncing PC leaves it knowing at least as recent a change.
LEMMA NothingOlder ==
  ASSUME Overlap = FALSE, SerialInv, [Next]_vars, NEW p \in PC, NEW t \in Ticker, enabled[p]
  PROVE  NotOlder(db[p], db'[p], t)
<1>1. TypeOK /\ TypeOK'
  BY StepType DEF SerialInv
<1>2. db[p] \in State
  BY <1>1 DEF TypeOK
<1>3. ASSUME db'[p].rows[t] = db[p].rows[t], db'[p].removed[t] = db[p].removed[t]
      PROVE  NotOlder(db[p], db'[p], t)
  <2>1. KeysOf(db'[p], t) = KeysOf(db[p], t)
    BY <1>3 DEF KeysOf
  <2> QED BY <1>2, <2>1, NotOlderReflexive DEF NotOlder
<1>4. ASSUME NEW k \in Thread,
             \/ UpsertWrite(p, k) \/ DeleteWrite(p, k)
             \/ \E u \in Ticker, m \in 0..MaxMeta, h \in 0..MaxTheme : Restamp(p, k, u, m, h)
      PROVE  NotOlder(db[p], db'[p], t)
  BY <1>1, <1>3, <1>4, EditOutranks, OutranksNotOlder
<1>5. ~ PageReadOff(p) /\ ~ Resync(p)
  BY DEF PageReadOff, Resync
<1> QED BY <1>1, <1>3, <1>4, <1>5, ListSteps, SyncOpenKeepsNewest, SyncSeedKeepsNewest,
           SyncMergeKeepsNewest

\* A PC that syncs forgets nothing while writers come one at a time: every
\* step, crash or merge leaves it knowing at least as recent a change.
THEOREM NothingForgotten ==
  ASSUME Overlap = FALSE
  PROVE  Spec => NeverForgets
<1>1. SerialInv /\ [Next]_vars => SerialInv'
  BY SerialStep
<1>2. SerialInv /\ [Next]_vars =>
        \A p \in PC, t \in Ticker : enabled[p] => NotOlder(db[p], db'[p], t)
  BY NothingOlder
<1> QED BY <1>1, <1>2, SerialInit, PTL DEF Spec, NeverForgets

\* Starter rows never come to a managed PC that syncs: the seed is written only
\* where nobody marked the PC since the run found it empty, and no handler puts
\* back a starter row it read before.
THEOREM NoReseeding ==
  ASSUME Overlap = FALSE
  PROVE  Spec => NeverReseeds
<1>1. SerialInv /\ [Next]_vars => SerialInv'
  BY SerialStep
<1>2. SerialInv /\ [Next]_vars =>
        \A p \in PC, t \in Ticker :
          enabled[p] /\ marked[p] /\ ~ Present(p, t) /\ db'[p].rows[t] # NoRow
            => sync[p].at = "merge" \/ db'[p].rows[t].ts # SeedStamp
  <2> SUFFICES ASSUME SerialInv, [Next]_vars, NEW p \in PC, NEW t \in Ticker,
                      enabled[p], marked[p], ~ Present(p, t), db'[p].rows[t] # NoRow
               PROVE  sync[p].at = "merge" \/ db'[p].rows[t].ts # SeedStamp
    OBVIOUS
  <2>1. TypeOK /\ db[p].rows[t] = NoRow
    BY DEF SerialInv, Present
  <2>2. ASSUME NEW k \in Thread, UpsertWrite(p, k) PROVE db'[p].rows[t].ts # SeedStamp
    <3>1. /\ req[p][k].row \in Row
          /\ req[p][k].ticker # t => db'[p].rows[t] = db[p].rows[t]
          /\ req[p][k].ticker = t => db'[p].rows[t].ts = req[p][k].row.ts
      BY <2>1, <2>2, UpsertWrites
    <3>2. req[p][k].ticker = t
      BY <2>1, <3>1
    <3>3. req[p][k].row # db[p].rows[t]
      BY <2>1, <3>1, AbsenceAssumption
    <3>4. req[p][k].row.ts > BaselineStamp
      BY <2>2, <3>2, <3>3 DEF SerialInv, EditPrepared, UpsertWrite, Outdoes
    <3> QED BY <3>1, <3>2, <3>4 DEF BaselineStamp, SeedStamp
  <2>3. ASSUME NEW k \in Thread PROVE ~ DeleteWrite(p, k)
    BY <2>1, DeleteWrites
  <2>4. ASSUME NEW k \in Thread, NEW u \in Ticker, NEW m \in 0..MaxMeta, NEW h \in 0..MaxTheme
        PROVE  ~ Restamp(p, k, u, m, h)
    <3> SUFFICES ASSUME Restamp(p, k, u, m, h) PROVE FALSE
      OBVIOUS
    <3>1. u # t
      BY DEF Restamp
    <3> QED BY <2>1, <3>1, RestampWrites
  <2>5. ~ SyncOpen(p)
    BY <2>1, SyncOpenWrites
  <2>6. ~ SyncSeed(p)
    BY DEF SyncSeed, SerialInv, RunsAllowed
  <2>7. SyncMerge(p) => sync[p].at = "merge"
    BY DEF SyncMerge
  <2>8. ~ PageReadOff(p) /\ ~ Resync(p)
    BY DEF PageReadOff, Resync
  <2>9. db'[p] # db[p]
    BY <2>1
  <2> QED BY <2>1, <2>2, <2>3, <2>4, <2>5, <2>6, <2>7, <2>8, <2>9, ListSteps
<1> QED BY <1>1, <1>2, SerialInit, PTL DEF Spec, NeverReseeds

-----------------------------------------------------------------------------
(* One key, one content.  Rows travel unchanged; only a handler makes a new  *)
(* one, under a stamp above all its PC has stored of the ticker; and a PC    *)
(* that forgets nothing has stored at least the stamp of each row it ever   *)
(* made, wherever the copies are.                                          *)

LEMMA StatesAre ==
  ASSUME NEW s
  PROVE  s \in States <=>
           \/ \E p \in PC : s = LocalState(p)
           \/ \E p \in PC : s = file[p] /\ s \notin {NoFile, Unreadable}
           \/ \E p \in PC, q \in PC : s = seen[p][q] /\ s \notin {NoFile, Unreadable}
           \/ \E p \in PC : sync[p].at \in {"read", "seed", "merge"} /\ s \in sync[p].peers
           \/ \E p \in PC : sync[p].at = "publish" /\ s = sync[p].merged
<1> DEFINE A == {LocalState(p) : p \in PC}
           B == ({file[p] : p \in PC} \cup {seen[p][q] : p, q \in PC}) \ {NoFile, Unreadable}
           C == UNION {sync[p].peers :
                         p \in {q \in PC : sync[q].at \in {"read", "seed", "merge"}}}
           D == {sync[p].merged : p \in {q \in PC : sync[q].at = "publish"}}
<1>1. s \in States <=> s \in A \/ s \in B \/ s \in C \/ s \in D
  BY DEF States
<1>2. s \in A <=> \E p \in PC : s = LocalState(p)
  OBVIOUS
<1>3. s \in B <=> \/ \E p \in PC : s = file[p] /\ s \notin {NoFile, Unreadable}
                  \/ \E p \in PC, q \in PC : s = seen[p][q] /\ s \notin {NoFile, Unreadable}
  OBVIOUS
<1>4. s \in C <=> \E p \in PC : sync[p].at \in {"read", "seed", "merge"} /\ s \in sync[p].peers
  OBVIOUS
<1>5. s \in D <=> \E p \in PC : sync[p].at = "publish" /\ s = sync[p].merged
  OBVIOUS
<1> HIDE DEF A, B, C, D
<1> QED BY <1>1, <1>2, <1>3, <1>4, <1>5

LEMMA StatesAfter ==
  ASSUME NEW s
  PROVE  s \in States' <=>
           \/ \E p \in PC : s = LocalState(p)'
           \/ \E p \in PC : s = file'[p] /\ s \notin {NoFile, Unreadable}
           \/ \E p \in PC, q \in PC : s = seen'[p][q] /\ s \notin {NoFile, Unreadable}
           \/ \E p \in PC : sync'[p].at \in {"read", "seed", "merge"} /\ s \in sync'[p].peers
           \/ \E p \in PC : sync'[p].at = "publish" /\ s = sync'[p].merged
<1> DEFINE A == {LocalState(p)' : p \in PC}
           B == ({file'[p] : p \in PC} \cup {seen'[p][q] : p, q \in PC}) \ {NoFile, Unreadable}
           C == UNION {sync'[p].peers :
                         p \in {q \in PC : sync'[q].at \in {"read", "seed", "merge"}}}
           D == {sync'[p].merged : p \in {q \in PC : sync'[q].at = "publish"}}
<1>1. s \in States' <=> s \in A \/ s \in B \/ s \in C \/ s \in D
  BY DEF States
<1>2. s \in A <=> \E p \in PC : s = LocalState(p)'
  OBVIOUS
<1>3. s \in B <=> \/ \E p \in PC : s = file'[p] /\ s \notin {NoFile, Unreadable}
                  \/ \E p \in PC, q \in PC : s = seen'[p][q] /\ s \notin {NoFile, Unreadable}
  OBVIOUS
<1>4. s \in C <=> \E p \in PC : sync'[p].at \in {"read", "seed", "merge"} /\ s \in sync'[p].peers
  OBVIOUS
<1>5. s \in D <=> \E p \in PC : sync'[p].at = "publish" /\ s = sync'[p].merged
  OBVIOUS
<1> HIDE DEF A, B, C, D
<1> QED BY <1>1, <1>2, <1>3, <1>4, <1>5

LEMMA StatesType ==
  ASSUME TypeOK
  PROVE  States \in SUBSET State
<1> SUFFICES ASSUME NEW s \in States PROVE s \in State
  OBVIOUS
<1>1. ASSUME NEW p \in PC, s = LocalState(p) PROVE s \in State
  BY <1>1, LocalStateType
<1>2. ASSUME NEW p \in PC, s = file[p], s \notin {NoFile, Unreadable} PROVE s \in State
  BY <1>2 DEF TypeOK
<1>3. ASSUME NEW p \in PC, NEW q \in PC, s = seen[p][q], s \notin {NoFile, Unreadable}
      PROVE  s \in State
  BY <1>3 DEF TypeOK, FolderEntry
<1>4. ASSUME NEW p \in PC, sync[p].at \in {"read", "seed", "merge"}, s \in sync[p].peers
      PROVE  s \in State
  BY <1>4, RunningSync
<1>5. ASSUME NEW p \in PC, sync[p].at = "publish", s = sync[p].merged PROVE s \in State
  BY <1>5, RunningSync
<1> QED BY <1>1, <1>2, <1>3, <1>4, <1>5, StatesAre

LEMMA StatesTypeAfter ==
  ASSUME TypeOK'
  PROVE  States' \in SUBSET State
<1> SUFFICES ASSUME NEW s \in States' PROVE s \in State
  OBVIOUS
<1>1. ASSUME NEW p \in PC, s = LocalState(p)' PROVE s \in State
  <2>1. db'[p] \in State
    BY DEF TypeOK
  <2>2. \A t \in Ticker : AsRead(db'[p].rows[t]) \in Row \cup {NoRow}
    <3> TAKE t \in Ticker
    <3>1. db'[p].rows[t] \in Row \cup {NoRow}
      BY <2>1 DEF State
    <3>2. CASE db'[p].rows[t] = NoRow
      BY <3>2 DEF AsRead
    <3> QED BY <3>1, <3>2, AsReadType
  <2> QED BY <1>1, <2>1, <2>2 DEF LocalState, State
<1>2. ASSUME NEW p \in PC, s = file'[p], s \notin {NoFile, Unreadable} PROVE s \in State
  BY <1>2 DEF TypeOK
<1>3. ASSUME NEW p \in PC, NEW q \in PC, s = seen'[p][q], s \notin {NoFile, Unreadable}
      PROVE  s \in State
  BY <1>3 DEF TypeOK, FolderEntry
<1>4. ASSUME NEW p \in PC, sync'[p].at \in {"read", "seed", "merge"}, s \in sync'[p].peers
      PROVE  s \in State
  <2>1. sync'[p] \in Sync
    BY DEF TypeOK
  <2> QED BY <1>4, <2>1 DEF Sync, ReadSync, MergedSync, IdleSync
<1>5. ASSUME NEW p \in PC, sync'[p].at = "publish", s = sync'[p].merged PROVE s \in State
  <2>1. sync'[p] \in Sync
    BY DEF TypeOK
  <2> QED BY <1>5, <2>1 DEF Sync, ReadSync, MergedSync, IdleSync
<1> QED BY <1>1, <1>2, <1>3, <1>4, <1>5, StatesAfter

\* A stamped row a PC stores is one of the copies, as are those of its merge.
LEMMA StoredIsCopy ==
  ASSUME TypeOK, NEW p \in PC, NEW t \in Ticker, db[p].rows[t] # NoRow,
         db[p].rows[t].ts > BaselineStamp
  PROVE  db[p].rows[t] \in Copies(t)
<1>1. db[p].rows[t].ts # NullStamp
  BY DEF BaselineStamp, NullStamp
<1>2. LocalState(p).rows[t] = db[p].rows[t]
  BY <1>1 DEF LocalState, AsRead, TypeOK, State
<1>3. LocalState(p) \in States
  BY StatesAre
<1> QED BY <1>2, <1>3 DEF Copies, RowsFor

LEMMA MergedIsCopy ==
  ASSUME TypeOK, NEW p \in PC, sync[p].at = "merge", NEW t \in Ticker
  PROVE  LET merged == Merge({LocalState(p)} \cup sync[p].peers)
         IN  merged.rows[t] # NoRow => merged.rows[t] \in RowsFor(States, t)
<1> DEFINE states == {LocalState(p)} \cup sync[p].peers
           merged == Merge(states)
<1> SUFFICES ASSUME merged.rows[t] # NoRow PROVE merged.rows[t] \in RowsFor(States, t)
  OBVIOUS
<1>1. states \in SUBSET State
  BY MergedType
<1>2. states \subseteq States
  BY StatesAre
<1> HIDE DEF states
<1>3. merged.rows[t] = BestRow(states, t) /\ BestRow(states, t) # NoRow
  BY DEF Merge
<1>4. BestRow(states, t) \in RowsFor(states, t)
  BY <1>1, <1>3, BestRowIs
<1>5. RowsFor(states, t) \subseteq RowsFor(States, t)
  BY <1>2 DEF RowsFor
<1> QED BY <1>3, <1>4, <1>5

\* A row some handler of its author is just writing.
Made(r, t) ==
  \E p \in PC : r = db'[p].rows[t] /\ r.by = p /\ r.ts > SeenStamp(p, t)

LEMMA StoredRowSource ==
  ASSUME SerialInv, [Next]_vars, NEW p \in PC, NEW t \in Ticker, enabled[p],
         db'[p].rows[t] # NoRow, db'[p].rows[t].ts > BaselineStamp
  PROVE  db'[p].rows[t] \in Copies(t) \/ Made(db'[p].rows[t], t)
<1> DEFINE r == db'[p].rows[t]
           Goal == r \in Copies(t) \/ Made(r, t)
<1>0. TypeOK /\ db[p].rows[t] \in Row \cup {NoRow}
  BY DEF SerialInv, TypeOK, State
<1>1. ASSUME r = db[p].rows[t] PROVE Goal
  BY <1>0, <1>1, StoredIsCopy
<1>2. ASSUME NEW k \in Thread, UpsertWrite(p, k) PROVE Goal
  <2> DEFINE u == req[p][k].ticker
             new == req[p][k].row
  <2>1. /\ u \in Ticker
        /\ u # t => r = db[p].rows[t]
        /\ u = t => r.ts = new.ts /\ r.by = new.by
        /\ new = db[p].rows[u] => db'[p].rows[u] = new
    BY <1>0, <1>2, UpsertWrites
  <2>2. new = db[p].rows[u] \/ (Outdoes(p, u, new.ts) /\ new.by = p)
    BY <1>2 DEF SerialInv, EditPrepared, UpsertWrite
  <2>3. CASE u # t \/ new = db[p].rows[u]
    BY <1>1, <2>1, <2>3
  <2>4. CASE u = t /\ Outdoes(p, u, new.ts) /\ new.by = p
    BY <2>1, <2>4 DEF Made, Outdoes
  <2> QED BY <2>2, <2>3, <2>4
<1>3. ASSUME NEW k \in Thread, DeleteWrite(p, k) PROVE Goal
  BY <1>0, <1>1, <1>3, DeleteWrites
<1>4. ASSUME NEW k \in Thread, NEW u \in Ticker, NEW m \in 0..MaxMeta, NEW h \in 0..MaxTheme,
             Restamp(p, k, u, m, h)
      PROVE  Goal
  <2>1. PICK now \in ClockReading :
          /\ u # t => r = db[p].rows[t]
          /\ u = t => r = [ts |-> CausalStamp(p, u, now), by |-> p, meta |-> m, theme |-> h]
    BY <1>0, <1>4, RestampWrites
  <2>2. CASE u = t
    <3>1. r.ts = CausalStamp(p, t, now) /\ r.by = p
      BY <2>1, <2>2
    <3> QED BY <1>0, <3>1, CausalStampOutdoes DEF Made, Outdoes
  <2> QED BY <1>1, <2>1, <2>2
<1>5. ASSUME SyncOpen(p) PROVE Goal
  <2>1. ASSUME db[p].rows[t] \in Row, r = [db[p].rows[t] EXCEPT !.ts = BaselineStamp, !.by = p]
        PROVE  FALSE
    <3>1. r.ts = BaselineStamp
      BY <2>1 DEF Row
    <3> QED BY <3>1 DEF BaselineStamp
  <2> QED BY <1>0, <1>1, <1>5, <2>1, SyncOpenWrites DEF Present
<1>6. ASSUME SyncSeed(p) PROVE Goal
  <2>1. \/ r = db[p].rows[t]
        \/ r = [ts |-> SeedStamp, by |-> p, meta |-> 0, theme |-> 0]
    BY <1>0, <1>6, SeedWrites DEF SyncSeed
  <2>2. r.ts # SeedStamp
    BY DEF SeedStamp, BaselineStamp
  <2> HIDE DEF Goal, r
  <2> QED BY <1>1, <2>1, <2>2
<1>7. ASSUME SyncMerge(p) PROVE Goal
  <2> DEFINE merged == Merge({LocalState(p)} \cup sync[p].peers)
  <2>1. r = db[p].rows[t] \/ r = merged.rows[t]
    BY <1>0, <1>7, SyncMergeWrites
  <2>2. merged.rows[t] # NoRow => merged.rows[t] \in RowsFor(States, t)
    BY <1>0, <1>7, MergedIsCopy DEF SyncMerge
  <2> HIDE DEF merged
  <2> QED BY <1>1, <2>1, <2>2 DEF Copies
<1>8. ~ PageReadOff(p) /\ ~ Resync(p)
  BY DEF PageReadOff, Resync
<1> HIDE DEF Goal, r
<1>9. db'[p] = db[p] => r = db[p].rows[t]
  BY DEF r
<1>10. Goal
  BY <1>0, <1>1, <1>2, <1>3, <1>4, <1>5, <1>6, <1>7, <1>8, <1>9, ListSteps
<1> QED BY <1>10 DEF Goal, r

\* What reaches a PC's replica of the folder.
LEMMA SeenFrame ==
  ASSUME TypeOK, [Next]_vars, NEW p \in PC, NEW q \in PC
  PROVE  seen'[p][q] \in {seen[p][q], file[q], file'[q], Unreadable}
<1> DEFINE Goal == seen'[p][q] \in {seen[p][q], file[q], file'[q], Unreadable}
<1>1. ASSUME NEW o \in PC, NEW k \in Thread, Handle(o, k) PROVE Goal
  BY <1>1 DEF Handle, UpsertRead, UpsertWrite, SetGroup, KeepGroup, SetTheme, Restamp,
              DeleteRead, DeleteWrite, MarkState
<1>2. ASSUME NEW o \in PC,
             \/ SyncOpen(o) \/ SyncDecide(o) \/ SyncSeed(o) \/ SyncMerge(o) \/ SyncFail(o)
             \/ PageReadOff(o) \/ Resync(o) \/ Restart(o) \/ Vanish(o)
      PROVE  Goal
  BY <1>2 DEF SyncOpen, SyncDecide, SyncSeed, SyncMerge, SyncFail, PageReadOff, Resync,
              Restart, Vanish
<1>3. ASSUME NEW o \in PC, SyncPublish(o) PROVE Goal
  BY <1>3 DEF SyncPublish, TypeOK
<1>4. ASSUME NEW o \in PC, NEW r \in PC, Deliver(o, r) \/ Glitch(o, r) PROVE Goal
  <2>1. PICK entry \in {file[r], Unreadable} : seen' = [seen EXCEPT ![o][r] = entry]
    BY <1>4 DEF Deliver, Glitch
  <2>2. CASE o = p /\ r = q
    BY <2>1, <2>2 DEF TypeOK
  <2>3. CASE ~ (o = p /\ r = q)
    BY <2>1, <2>3 DEF TypeOK
  <2> QED BY <2>2, <2>3
<1>5. ASSUME UNCHANGED vars PROVE Goal
  BY <1>5 DEF vars
<1> HIDE DEF Goal
<1>6. Goal
  BY <1>1, <1>2, <1>3, <1>4, <1>5 DEF Next, SyncStep
<1> QED BY <1>6 DEF Goal

\* Every copy after a step is one there was, or the row a handler just made.
LEMMA CopySource ==
  ASSUME SerialInv, [Next]_vars, \A p \in PC : enabled[p], NEW t \in Ticker,
         NEW r \in Copies(t)'
  PROVE  r \in Copies(t) \/ Made(r, t)
<1> DEFINE Old == r \in Copies(t)
<1>1. TypeOK /\ TypeOK'
  BY StepType DEF SerialInv
<1>2. PICK s \in States' : r = s.rows[t] /\ r # NoRow /\ r.ts > BaselineStamp
  BY DEF Copies, RowsFor
<1>3. ASSUME s \in States PROVE Old
  BY <1>2, <1>3 DEF Copies, RowsFor
<1>4. ASSUME NEW p \in PC, s = LocalState(p)' PROVE Old \/ Made(r, t)
  <2>1. db'[p] \in State /\ db'[p].rows[t] \in Row \cup {NoRow}
    BY <1>1 DEF TypeOK, State
  <2>0. s.rows[t] = AsRead(db'[p].rows[t])
    BY <1>4, <2>1 DEF LocalState, State
  <2>2. db'[p].rows[t] # NoRow
    BY <1>2, <2>0, <2>1 DEF AsRead
  <2>3. s.rows[t] = db'[p].rows[t]
    BY <1>2, <2>0, <2>1, <2>2, AsReadType DEF BaselineStamp
  <2> QED BY <1>2, <2>2, <2>3, StoredRowSource
<1>5. ASSUME NEW p \in PC, s = file'[p], s \notin {NoFile, Unreadable} PROVE s \in States
  BY <1>1, <1>5, FileFrame, StatesAre
<1>6. ASSUME NEW p \in PC, NEW q \in PC, s = seen'[p][q], s \notin {NoFile, Unreadable}
      PROVE  s \in States
  BY <1>1, <1>5, <1>6, SeenFrame, StatesAre
<1>7. ASSUME NEW p \in PC, sync'[p].at \in {"read", "seed", "merge"}, s \in sync'[p].peers
      PROVE  s \in States
  <2>1. CASE sync'[p] = sync[p]
    BY <1>7, <2>1, StatesAre
  <2>2. CASE SyncOpen(p)
    <3>1. sync'[p].peers = {seen[p][q] : q \in PC \ {p}} \ {NoFile, Unreadable}
      BY <1>1, <2>2 DEF SyncOpen, TypeOK
    <3> QED BY <1>7, <3>1, StatesAre
  <2>3. CASE SyncDecide(p) \/ SyncSeed(p)
    <3>1. sync[p].at \in {"read", "seed"} /\ sync'[p].peers = sync[p].peers
      BY <1>1, <2>3, RunningSync DEF SyncDecide, SyncSeed, TypeOK, ReadSync
    <3> QED BY <1>7, <3>1, StatesAre
  <2>4. CASE SyncMerge(p)
    BY <1>1, <1>7, <2>4 DEF SyncMerge, TypeOK
  <2> QED BY <1>1, <1>7, <2>1, <2>2, <2>3, <2>4, RunSteps DEF IdleSync
<1>8. ASSUME NEW p \in PC, sync'[p].at = "publish", s = sync'[p].merged PROVE Old
  <2>1. CASE SyncMerge(p)
    <3> DEFINE merged == Merge({LocalState(p)} \cup sync[p].peers)
    <3>1. s = merged
      BY <1>1, <1>8, <2>1 DEF SyncMerge, TypeOK
    <3>2. merged.rows[t] # NoRow => merged.rows[t] \in RowsFor(States, t)
      BY <1>1, <2>1, MergedIsCopy DEF SyncMerge
    <3> HIDE DEF merged
    <3> QED BY <1>2, <3>1, <3>2 DEF Copies
  <2>2. CASE ~ SyncMerge(p)
    <3>1. sync'[p] = sync[p]
      BY <1>1, <1>8, <2>2, PublishStateFrame
    <3> QED BY <1>3, <1>8, <3>1, StatesAre
  <2> QED BY <2>1, <2>2
<1>9. \/ \E p \in PC : s = LocalState(p)'
      \/ \E p \in PC : s = file'[p] /\ s \notin {NoFile, Unreadable}
      \/ \E p \in PC, q \in PC : s = seen'[p][q] /\ s \notin {NoFile, Unreadable}
      \/ \E p \in PC : sync'[p].at \in {"read", "seed", "merge"} /\ s \in sync'[p].peers
      \/ \E p \in PC : sync'[p].at = "publish" /\ s = sync'[p].merged
  BY StatesAfter
<1> QED BY <1>3, <1>4, <1>5, <1>6, <1>7, <1>8, <1>9

\* The stamps a syncing PC has stored of a ticker only rise.
LEMMA SeenRises ==
  ASSUME Overlap = FALSE, SerialInv, [Next]_vars, NEW p \in PC, NEW t \in Ticker, enabled[p]
  PROVE  SeenStamp(p, t) \in Nat /\ SeenStamp(p, t)' \in Nat
         /\ SeenStamp(p, t) <= SeenStamp(p, t)'
<1>1. TypeOK /\ db'[p] \in State
  BY StepType DEF SerialInv, TypeOK
<1>2. PICK after : after = Larger(StampOf(db'[p].rows[t]), StampOf(db'[p].removed[t]))
  OBVIOUS
<1>3. SeenStamp(p, t)' = after
  BY <1>2 DEF SeenStamp
<1>4. after \in Nat /\ \A k \in KeysOf(db'[p], t) : k.ts \in Nat /\ k.ts <= after
  BY <1>1, <1>2, StateKeys
<1>5. SeenStamp(p, t) \in Nat
  BY <1>1, StoredKeys
<1>6. CASE SeenStamp(p, t) = NullStamp
  BY <1>3, <1>4, <1>5, <1>6 DEF NullStamp
<1>7. CASE SeenStamp(p, t) # NullStamp
  <2>1. PICK k \in KeysOf(db[p], t) : k.ts = SeenStamp(p, t)
    BY <1>1, <1>7, StoredKeys
  <2>2. PICK j \in KeysOf(db'[p], t) : ~ KeyLT(j, k)
    BY NothingOlder DEF NotOlder
  <2>3. k.ts <= j.ts
    BY <1>4, <1>5, <2>1, <2>2 DEF KeyLT
  <2> QED BY <1>3, <1>4, <1>5, <2>1, <2>3
<1> QED BY <1>6, <1>7

LEMMA StaysEnabled ==
  ASSUME Switchable = FALSE, TypeOK, [Next]_vars, \A p \in PC : enabled[p], NEW p \in PC
  PROVE  enabled'[p]
<1>1. ASSUME NEW q \in PC, Restart(q) PROVE enabled'[p]
  BY <1>1 DEF Restart, TypeOK
<1>2. ASSUME NEW q \in PC, NEW k \in Thread, Handle(q, k) PROVE enabled' = enabled
  BY <1>2 DEF Handle, UpsertRead, UpsertWrite, SetGroup, KeepGroup, SetTheme, Restamp,
              DeleteRead, DeleteWrite, MarkState
<1>3. ASSUME NEW q \in PC,
             \/ SyncStep(q) \/ SyncFail(q) \/ PageReadOff(q) \/ Resync(q) \/ Vanish(q)
      PROVE  enabled' = enabled
  BY <1>3 DEF SyncStep, SyncOpen, SyncDecide, SyncSeed, SyncMerge, SyncPublish, SyncFail,
              PageReadOff, Resync, Vanish
<1>4. ASSUME NEW q \in PC, NEW r \in PC, Deliver(q, r) \/ Glitch(q, r) PROVE enabled' = enabled
  BY <1>4 DEF Deliver, Glitch
<1>5. ASSUME UNCHANGED vars PROVE enabled' = enabled
  BY <1>5 DEF vars
<1> QED BY <1>1, <1>2, <1>3, <1>4, <1>5 DEF Next

LEMMA KeyInit ==
  ASSUME Switchable = FALSE
  PROVE  Init => KeyInv
<1> SUFFICES ASSUME Init PROVE KeyInv
  OBVIOUS
<1>1. SerialInv /\ TypeOK
  BY SerialInit DEF SerialInv
<1>2. \A p \in PC : enabled[p]
  BY DEF Init
<1>3. ASSUME NEW t \in Ticker, NEW r \in Copies(t) PROVE FALSE
  <2>1. PICK s \in States : r = s.rows[t] /\ r # NoRow /\ r.ts > BaselineStamp
    BY DEF Copies, RowsFor
  <2>2. PICK p \in PC : s = LocalState(p)
    BY <2>1, StatesAre DEF Init, IdleSync
  <2>3. PICK row \in {NoRow} \cup {LegacyRow(m) : m \in LegacyMeta} : db[p].rows[t] = row
    BY DEF Init
  <2>4. s.rows[t] = AsRead(row)
    BY <1>1, <2>2, <2>3 DEF LocalState, TypeOK, State
  <2>5. row \in Row \cup {NoRow}
    BY <1>1, <2>3 DEF TypeOK, State
  <2>6. row # NoRow => row.ts = NullStamp
    BY <2>3 DEF LegacyRow
  <2>7. CASE row = NoRow
    BY <2>1, <2>4, <2>7 DEF AsRead
  <2>8. CASE row # NoRow
    <3>1. AsRead(row).ts \in {NullStamp, BaselineStamp}
      BY <2>5, <2>6, <2>8, AsReadType
    <3> QED BY <2>1, <2>4, <3>1 DEF NullStamp, BaselineStamp
  <2> QED BY <2>7, <2>8
<1>4. AuthorsKnow
  BY <1>3 DEF AuthorsKnow
<1>5. KeyDeterminesContent
  BY <1>3 DEF KeyDeterminesContent, Copies
<1> QED BY <1>1, <1>2, <1>4, <1>5 DEF KeyInv

LEMMA KeyStep ==
  ASSUME Overlap = FALSE, Switchable = FALSE, KeyInv, [Next]_vars
  PROVE  KeyInv'
<1>1. /\ SerialInv /\ SerialInv' /\ TypeOK /\ TypeOK'
      /\ \A p \in PC : enabled[p]
  BY SerialStep DEF KeyInv, SerialInv
<1>2. \A p \in PC : enabled'[p]
  BY <1>1, StaysEnabled
<1>3. ASSUME NEW p \in PC, NEW t \in Ticker
      PROVE  /\ SeenStamp(p, t) \in Nat /\ SeenStamp(p, t)' \in Nat
             /\ SeenStamp(p, t) <= SeenStamp(p, t)'
  BY <1>1, SeenRises
<1>4. ASSUME NEW t \in Ticker, NEW r \in Copies(t)
      PROVE  r.by \in PC /\ r.ts \in Nat /\ r.ts <= SeenStamp(r.by, t)
  <2>1. r \in Row
    BY <1>1, StatesType DEF Copies, RowsFor, State
  <2> QED BY <2>1, BoundsAssumption DEF KeyInv, AuthorsKnow, Row, Stamp
<1>5. ASSUME NEW t \in Ticker, NEW r \in Copies(t)' PROVE r \in Copies(t) \/ Made(r, t)
  BY <1>1, CopySource
<1>6. ASSUME NEW t \in Ticker, NEW r \in Copies(t)' PROVE r \in Row /\ r.ts \in Nat
  <2>1. PICK s \in States' : r = s.rows[t] /\ r # NoRow
    BY DEF Copies, RowsFor
  <2>2. s \in State
    BY <1>1, <2>1, StatesTypeAfter
  <2> QED BY <2>1, <2>2, BoundsAssumption DEF State, Row, Stamp
<1>7. ASSUME NEW t \in Ticker, NEW r \in Copies(t)', NEW p \in PC, r = db'[p].rows[t]
      PROVE  r.ts <= SeenStamp(p, t)'
  <2>1. db'[p] \in State /\ r \in Row
    BY <1>1, <1>6 DEF TypeOK
  <2>2. [ts |-> r.ts, by |-> r.by] \in KeysOf(db'[p], t)
    BY <1>7, <2>1, AbsenceAssumption DEF KeysOf
  <2>3. PICK after : after = Larger(StampOf(db'[p].rows[t]), StampOf(db'[p].removed[t]))
    OBVIOUS
  <2>4. [ts |-> r.ts, by |-> r.by].ts <= after
    BY <2>1, <2>2, <2>3, StateKeys
  <2> QED BY <2>3, <2>4 DEF SeenStamp
<1>8. AuthorsKnow'
  <2> SUFFICES ASSUME NEW t \in Ticker, NEW r \in Copies(t)'
               PROVE  r.by \in PC /\ r.ts <= SeenStamp(r.by, t)'
    BY DEF AuthorsKnow
  <2>1. CASE r \in Copies(t)
    <3>1. r.by \in PC /\ r.ts \in Nat /\ r.ts <= SeenStamp(r.by, t)
      BY <1>4, <2>1
    <3>2. /\ SeenStamp(r.by, t) \in Nat /\ SeenStamp(r.by, t)' \in Nat
          /\ SeenStamp(r.by, t) <= SeenStamp(r.by, t)'
      BY <1>3, <3>1
    <3> QED BY <3>1, <3>2
  <2>2. CASE Made(r, t)
    <3>1. PICK p \in PC : r = db'[p].rows[t] /\ r.by = p
      BY <2>2 DEF Made
    <3> QED BY <1>7, <3>1
  <2> QED BY <1>5, <2>1, <2>2
<1>9. KeyDeterminesContent'
  <2> SUFFICES ASSUME NEW t \in Ticker, NEW a \in Copies(t)', NEW b \in Copies(t)',
                      a.ts = b.ts, a.by = b.by
               PROVE  a = b
    BY DEF KeyDeterminesContent, Copies
  <2>1. ASSUME NEW c \in Copies(t), NEW d \in Copies(t)', Made(d, t), c.ts = d.ts, c.by = d.by
        PROVE  FALSE
    <3>1. PICK p \in PC : d.by = p /\ d.ts > SeenStamp(p, t)
      BY <2>1 DEF Made
    <3>2. c.by = p /\ c.ts <= SeenStamp(p, t) /\ c.ts \in Nat /\ SeenStamp(p, t) \in Nat
      BY <1>3, <1>4, <2>1, <3>1
    <3> QED BY <2>1, <3>1, <3>2
  <2>2. CASE a \in Copies(t) /\ b \in Copies(t)
    BY <2>2 DEF KeyInv, KeyDeterminesContent, Copies
  <2>3. CASE Made(a, t) /\ Made(b, t)
    BY <2>3 DEF Made
  <2> QED BY <1>5, <2>1, <2>2, <2>3
<1> QED BY <1>1, <1>2, <1>8, <1>9 DEF KeyInv

\* Wherever copies of a row are -- in a database, a file, a replica or a run
\* under way -- the same stamp and author mean the same content, for any number
\* of PCs, edits, crashes and lost or late files, while each PC's writers come
\* one at a time and sync stays on.
THEOREM KeysDetermineContent ==
  ASSUME Overlap = FALSE, Switchable = FALSE
  PROVE  Spec => []KeyDeterminesContent
<1>1. KeyInv /\ [Next]_vars => KeyInv'
  BY KeyStep
<1>2. KeyInv => KeyDeterminesContent
  BY DEF KeyInv
<1> QED BY <1>1, <1>2, KeyInit, PTL DEF Spec
=============================================================================
