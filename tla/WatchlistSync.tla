--------------------------- MODULE WatchlistSync ---------------------------
(***************************************************************************)
(* Watchlist peer sync: every PC keeps its watchlist in its own SQLite     *)
(* file and publishes it as one file in a shared folder that an external   *)
(* service replicates.  The module models, per PC,                         *)
(*   - the watchlist handlers of routes/portfolio.py, split where another  *)
(*     connection can commit: SQLite's legacy transactions begin at the    *)
(*     first write, so what a handler SELECTs before it is already stale;  *)
(*   - run_sync (watchlist_sync/service.py), one action per transaction or *)
(*     file access, held together by its process lock;                     *)
(*   - the sync-off paths of watchlist_seed.py;                            *)
(*   - process death and restart at any point, with the sync switch read   *)
(*     anew;                                                               *)
(*   - the folder: late, unreadable and vanished files.                    *)
(* A handler's closing run_sync("mutation") is SyncOpen, which any request *)
(* may start: it changes nothing a later sync would not change.            *)
(***************************************************************************)
EXTENDS PeerMerge, FiniteSets

CONSTANTS NumPC,         \* the PCs are 1..NumPC, also their author ids
          Thread,        \* request threads of one server process
          SeedTicker,    \* the tickers of the seed file
          LegacyMeta,    \* content of rows written before sync existed
          NoFile,        \* a PC without a published file
          Unreadable,    \* a folder entry that does not parse
          MaxEdits,      \* bound on user edits, all PCs together
          MaxFaults,     \* bound on glitches, vanished files, failed syncs
          MaxRestarts,   \* bound on restarts, all PCs together
          Switchable,    \* may a restart turn sync on or off?
          Overlap        \* may other writers run inside a handler?

ASSUME InstanceAssumption ==
  /\ NumPC \in Nat /\ NumPC > 0 /\ NumPC <= MaxAuthor
  /\ SeedTicker \subseteq Ticker
  /\ LegacyMeta \subseteq 0..MaxMeta
  /\ NoFile \notin State /\ Unreadable \notin State
  /\ MaxEdits \in Nat /\ MaxFaults \in Nat /\ MaxRestarts \in Nat
  /\ Switchable \in BOOLEAN /\ Overlap \in BOOLEAN

PC == 1..NumPC

VARIABLES
  db,        \* per PC: the watchlist and watchlist_removed tables
  marked,    \* per PC: dataset_metadata holds watchlist_state
  pending,   \* per PC: the tickers of cleanup_pending
  issued,    \* per PC: the process's last issued stamp (_last_issued)
  enabled,   \* per PC: MONEYVIEW_SYNC_DIR is set for this process
  req,       \* per PC and thread: the watchlist request being served
  sync,      \* per PC: the run_sync call that holds the lock
  file,      \* per PC: the file it published
  seen,      \* seen[p][q]: q's file in p's replica of the folder
  edits, faults, restarts

vars == <<db, marked, pending, issued, enabled, req, sync, file, seen,
          edits, faults, restarts>>

-----------------------------------------------------------------------------
(* Requests and syncs in flight.                                           *)

IdleRequest == [at |-> "idle"]
MarkRequest == [at |-> "mark"]   \* committed; mark_watchlist_state is next
EditRequest == [at : {"upsert", "delete"}, ticker : Ticker, row : Row]
Request == {IdleRequest, MarkRequest} \cup EditRequest

IdleSync == [at |-> "idle"]
ReadSync == [at : {"read", "seed", "merge"}, peers : SUBSET State,
             skipped : BOOLEAN]
MergedSync == [at : {"publish"}, merged : State]
Sync == {IdleSync} \cup ReadSync \cup MergedSync

FolderEntry == State \cup {NoFile, Unreadable}

TypeOK ==
  /\ db \in [PC -> State]
  /\ marked \in [PC -> BOOLEAN]
  /\ pending \in [PC -> SUBSET Ticker]
  /\ issued \in [PC -> Stamp]
  /\ enabled \in [PC -> BOOLEAN]
  /\ req \in [PC -> [Thread -> Request]]
  /\ sync \in [PC -> Sync]
  /\ file \in [PC -> State \cup {NoFile}]
  /\ seen \in [PC -> [PC -> FolderEntry]]
  /\ edits \in 0..MaxEdits
  /\ faults \in 0..MaxFaults
  /\ restarts \in 0..MaxRestarts

\* An empty new data directory, one whose owner removed everything, or one
\* filled before sync existed: its rows carry no stamp and no author.
LegacyRow(m) == [ts |-> NullStamp, by |-> 0, meta |-> m, theme |-> 0]

Init ==
  /\ db \in [PC -> {[rows |-> r, removed |-> EmptyState.removed] :
                      r \in [Ticker -> {NoRow} \cup {LegacyRow(m) : m \in LegacyMeta}]}]
  /\ marked \in [PC -> BOOLEAN]
  /\ pending = [p \in PC |-> {}]
  /\ issued = [p \in PC |-> BaselineStamp]
  /\ enabled \in [PC -> IF Switchable THEN BOOLEAN ELSE {TRUE}]
  /\ req = [p \in PC |-> [k \in Thread |-> IdleRequest]]
  /\ sync = [p \in PC |-> IdleSync]
  /\ file = [p \in PC |-> NoFile]
  /\ seen = [p \in PC |-> [q \in PC |-> NoFile]]
  /\ edits = 0 /\ faults = 0 /\ restarts = 0

-----------------------------------------------------------------------------
(* Helpers.                                                                *)

Present(p, t) == db[p].rows[t] # NoRow

WatchlistEmpty(p) == \A t \in Ticker : ~ Present(p, t)

StampOf(k) == IF k \in {NoRow, NoTomb} THEN NullStamp ELSE k.ts

\* Defect: a re-add does not look at the tombstone it replaces.
SeenStampOfRow(p, t) == StampOf(db[p].rows[t])

\* The largest stamp causal_stamp finds for t: the row's and the tombstone's.
SeenStamp(p, t) ==
  Larger(StampOf(db[p].rows[t]), StampOf(db[p].removed[t]))

\* causal_stamp at clock reading now.
CausalStamp(p, t, now) == NextStamp(now, issued[p], SeenStamp(p, t))

\* read_local_state: a NULL stamp reads as the baseline of nobody.
AsRead(row) ==
  IF row # NoRow /\ row.ts = NullStamp
  THEN [row EXCEPT !.ts = BaselineStamp, !.by = 0] ELSE row

LocalState(p) ==
  [db[p] EXCEPT !.rows = [t \in Ticker |-> AsRead(db[p].rows[t])]]

\* No handler of p is between its first read and its last commit, unless
\* writers may overlap in this instance.
Undisturbed(p) == Overlap \/ \A k \in Thread : req[p][k] = IdleRequest

\* A user starts an edit on thread k at a clock reading that leaves room for
\* the stamp.
MayEdit(p, k, t) ==
  /\ req[p][k] = IdleRequest
  /\ Undisturbed(p) /\ (Overlap \/ sync[p].at # "seed")
  /\ edits < MaxEdits
  /\ SeenStamp(p, t) < MaxStamp /\ issued[p] < MaxStamp

SetRow(p, t, row) == [db EXCEPT ![p].rows[t] = row]

-----------------------------------------------------------------------------
\* Defect: an upsert that changes the row keeps its old stamp.
UpsertReadUnstamped(p, k, t, m) ==
  /\ MayEdit(p, k, t)
  /\ edits' = edits + 1
  /\ \E now \in ClockReading :
       LET old == db[p].rows[t]
           stamp == CausalStamp(p, t, now)
           new == IF old = NoRow
                  THEN [ts |-> stamp, by |-> p, meta |-> m, theme |-> 0]
                  ELSE [old EXCEPT !.meta = m]
       IN  /\ issued' = [issued EXCEPT ![p] = IF old = NoRow THEN stamp ELSE @]
           /\ req' = [req EXCEPT ![p][k] =
                        [at |-> "upsert", ticker |-> t, row |-> new]]
  /\ UNCHANGED <<db, marked, pending, enabled, sync, file, seen, faults, restarts>>

(* POST /watchlist (upsert_watchlist_item).  It reads the row, decides     *)
(* whether meta changes and takes a stamp, outside any transaction.        *)
(* The existing row and the stamps are separate SELECTs; they are one step *)
(* here.                                                                   *)
UpsertRead(p, k, t, m) ==
  /\ MayEdit(p, k, t)
  /\ edits' = edits + 1
  /\ \E now \in ClockReading :
       LET old == db[p].rows[t]
           changed == old = NoRow \/ old.meta # m
           stamp == CausalStamp(p, t, now)
           new == IF changed
                  THEN [ts |-> stamp, by |-> p, meta |-> m, theme |-> 0]
                  ELSE old
       IN  /\ issued' = IF changed THEN [issued EXCEPT ![p] = stamp] ELSE issued
           /\ req' = [req EXCEPT ![p][k] =
                        [at |-> "upsert", ticker |-> t, row |-> new]]
  /\ UNCHANGED <<db, marked, pending, enabled, sync, file, seen, faults, restarts>>

\* The write transaction.  theme is not in the SET list: the stored one stays.
UpsertWrite(p, k) ==
  /\ req[p][k].at = "upsert"
  /\ LET t == req[p][k].ticker
         new == req[p][k].row
     IN  /\ db' = SetRow(p, t,
                    [new EXCEPT !.theme = IF Present(p, t)
                                          THEN db[p].rows[t].theme ELSE 0])
         /\ pending' = [pending EXCEPT ![p] = @ \ {t}]
  /\ req' = [req EXCEPT ![p][k] = MarkRequest]
  /\ UNCHANGED <<marked, issued, enabled, sync, file, seen, edits, faults, restarts>>

\* mark_watchlist_state("user_mutation"), a transaction of its own, after
\* which the request only syncs and answers.
MarkState(p, k) ==
  /\ req[p][k] = MarkRequest
  /\ marked' = [marked EXCEPT ![p] = TRUE]
  /\ req' = [req EXCEPT ![p][k] = IdleRequest]
  /\ UNCHANGED <<db, pending, issued, enabled, sync, file, seen, edits, faults, restarts>>

\* POST /watchlist/{ticker}/group and /theme: the UPDATE comes first and
\* begins the transaction, so the stamp is taken inside it.  The SELECT before
\* it is part of the same step here.
Restamp(p, k, t, meta, theme) ==
  /\ MayEdit(p, k, t)
  /\ Present(p, t)
  /\ edits' = edits + 1
  /\ \E now \in ClockReading :
       LET stamp == CausalStamp(p, t, now)
       IN  /\ issued' = [issued EXCEPT ![p] = stamp]
           /\ db' = SetRow(p, t, [ts |-> stamp, by |-> p,
                                  meta |-> meta, theme |-> theme])
  /\ req' = [req EXCEPT ![p][k] = MarkRequest]
  /\ UNCHANGED <<marked, pending, enabled, sync, file, seen, faults, restarts>>

SetGroup(p, k, t, m) ==
  /\ Present(p, t) /\ db[p].rows[t].meta # m
  /\ Restamp(p, k, t, m, db[p].rows[t].theme)

\* A group equal to the stored one leaves the row alone; an equal theme leaves
\* everything alone and is no step.
KeepGroup(p, k, t) ==
  /\ MayEdit(p, k, t)
  /\ Present(p, t)
  /\ edits' = edits + 1
  /\ req' = [req EXCEPT ![p][k] = MarkRequest]
  /\ UNCHANGED <<db, marked, pending, issued, enabled, sync, file, seen, faults, restarts>>

SetTheme(p, k, t, h) ==
  /\ Present(p, t) /\ db[p].rows[t].theme # h
  /\ Restamp(p, k, t, db[p].rows[t].meta, h)

\* DELETE /watchlist/{ticker}: 404 without a row.  record_removal's SELECTs
\* run before its INSERT begins the transaction.
DeleteRead(p, k, t) ==
  /\ MayEdit(p, k, t)
  /\ Present(p, t)
  /\ edits' = edits + 1
  /\ \E now \in ClockReading :
       LET stamp == IF enabled[p] THEN CausalStamp(p, t, now) ELSE NullStamp
       IN  /\ issued' = [issued EXCEPT ![p] = Larger(@, stamp)]
           /\ req' = [req EXCEPT ![p][k] =
                        [at |-> "delete", ticker |-> t,
                         row |-> [ts |-> stamp, by |-> p, meta |-> 0, theme |-> 0]]]
  /\ UNCHANGED <<db, marked, pending, enabled, sync, file, seen, faults, restarts>>

\* Defect: the row is deleted without a tombstone.
DeleteWriteNoTomb(p, k) ==
  /\ req[p][k].at = "delete"
  /\ db' = SetRow(p, req[p][k].ticker, NoRow)
  /\ pending' = [pending EXCEPT ![p] = @ \cup {req[p][k].ticker}]
  /\ req' = [req EXCEPT ![p][k] = MarkRequest]
  /\ UNCHANGED <<marked, issued, enabled, sync, file, seen, edits, faults, restarts>>

\* Tombstone (with sync on only), DELETE and record_pending, atomically.
DeleteWrite(p, k) ==
  /\ req[p][k].at = "delete"
  /\ LET t == req[p][k].ticker
         tomb == [ts |-> req[p][k].row.ts, by |-> p]
     IN  /\ db' = [db EXCEPT ![p].rows[t] = NoRow,
                             ![p].removed[t] = IF enabled[p] THEN tomb ELSE @]
         /\ pending' = [pending EXCEPT ![p] = @ \cup {t}]
  /\ req' = [req EXCEPT ![p][k] = MarkRequest]
  /\ UNCHANGED <<marked, issued, enabled, sync, file, seen, edits, faults, restarts>>

-----------------------------------------------------------------------------
(* run_sync.  IdleSync means the lock is free.                             *)

\* Defect: rows written before sync existed are not stamped.
SyncOpenUnstamped(p) ==
  /\ enabled[p] /\ sync[p] = IdleSync
  /\ Undisturbed(p)
  /\ sync' = [sync EXCEPT ![p] =
                [at      |-> "read",
                 peers   |-> {seen[p][q] : q \in PC \ {p}} \ {NoFile, Unreadable},
                 skipped |-> Unreadable \in {seen[p][q] : q \in PC}]]
  /\ UNCHANGED <<db, marked, pending, issued, enabled, req, file, seen, edits, faults, restarts>>

\* The first transaction gives every NULL row the baseline stamp of this PC;
\* then read_peer_files.  An entry that does not parse is skipped, the PC's own
\* file is never an input.  (Its own unreadable file does count as skipped.)
\* No other step of p touches what both touch, so they are one step here.
SyncOpen(p) ==
  /\ enabled[p] /\ sync[p] = IdleSync
  /\ Undisturbed(p)
  /\ db' = [db EXCEPT ![p].rows = [t \in Ticker |->
              IF Present(p, t) /\ db[p].rows[t].ts = NullStamp
              THEN [db[p].rows[t] EXCEPT !.ts = BaselineStamp, !.by = p]
              ELSE db[p].rows[t]]]
  /\ sync' = [sync EXCEPT ![p] =
                [at      |-> "read",
                 peers   |-> {seen[p][q] : q \in PC \ {p}} \ {NoFile, Unreadable},
                 skipped |-> Unreadable \in {seen[p][q] : q \in PC}]]
  /\ UNCHANGED <<marked, pending, issued, enabled, req, file, seen, edits, faults, restarts>>

\* Defect: the bootstrap does not ask whether this PC was managed before.
SyncDecideUnmarked(p) ==
  /\ sync[p].at = "read"
  /\ Undisturbed(p)
  /\ LET fresh == WatchlistEmpty(p) /\ sync[p].peers = {} /\ ~ sync[p].skipped
         joining == WatchlistEmpty(p) /\ sync[p].peers # {}
     IN  /\ sync' = [sync EXCEPT ![p].at = IF fresh THEN "seed" ELSE "merge"]
         /\ marked' = [marked EXCEPT ![p] = @ \/ joining]
  /\ UNCHANGED <<db, pending, issued, enabled, req, file, seen, edits, faults, restarts>>

\* The emptiness check.  No peer file at all: bootstrap_from_seed, which
\* checks again and goes on only if nothing marked this PC.  Peers: mark it.
SyncDecide(p) ==
  /\ sync[p].at = "read"
  /\ Undisturbed(p)
  /\ LET fresh == WatchlistEmpty(p) /\ sync[p].peers = {} /\ ~ sync[p].skipped
         joining == WatchlistEmpty(p) /\ sync[p].peers # {}
     IN  /\ sync' = [sync EXCEPT ![p].at =
                       IF fresh /\ ~ marked[p] THEN "seed" ELSE "merge"]
         /\ marked' = [marked EXCEPT ![p] = @ \/ joining]
  /\ UNCHANGED <<db, pending, issued, enabled, req, file, seen, edits, faults, restarts>>

\* INSERT OR IGNORE of the seed at SEED_TS, in effect on what is missing.
WithSeed(p) ==
  [db EXCEPT ![p].rows = [t \in Ticker |->
     IF t \in SeedTicker /\ ~ Present(p, t)
     THEN [ts |-> SeedStamp, by |-> p, meta |-> 0, theme |-> 0]
     ELSE db[p].rows[t]]]

\* The write transaction of bootstrap_from_seed.
SyncSeed(p) ==
  /\ sync[p].at = "seed"
  /\ Undisturbed(p)
  /\ db' = WithSeed(p)
  /\ pending' = [pending EXCEPT ![p] = @ \ {t \in SeedTicker : ~ Present(p, t)}]
  /\ marked' = [marked EXCEPT ![p] = TRUE]
  /\ sync' = [sync EXCEPT ![p].at = "merge"]
  /\ UNCHANGED <<issued, enabled, req, file, seen, edits, faults, restarts>>

\* Defect: apply_state upserts but does not delete what the merge removed.
AppliedUpsertsOnly(p, merged) ==
  [merged EXCEPT !.rows = [t \in Ticker |->
     IF merged.rows[t] \in {NoRow, AsRead(db[p].rows[t])} THEN db[p].rows[t]
     ELSE merged.rows[t]]]

\* apply_state: the tables become the merged state; rows that leave start
\* their grace period, rows that arrive end it.  A row equal to what was read
\* is not rewritten, so an unstamped one stays unstamped.
Applied(p, merged) ==
  [merged EXCEPT !.rows = [t \in Ticker |->
     IF merged.rows[t] = AsRead(db[p].rows[t]) THEN db[p].rows[t]
     ELSE merged.rows[t]]]

\* Defects: the merge does not touch cleanup_pending; or it does so only for
\* the tickers that arrive.
SyncMergeWith(p, ToPending(_, _, _)) ==
  /\ sync[p].at = "merge"
  /\ Undisturbed(p)
  /\ LET merged == Merge({LocalState(p)} \cup sync[p].peers)
         left == {t \in Ticker : Present(p, t) /\ merged.rows[t] = NoRow}
         arrived == {t \in Ticker : ~ Present(p, t) /\ merged.rows[t] # NoRow}
     IN  /\ db' = [db EXCEPT ![p] = Applied(p, merged)]
         /\ pending' = [pending EXCEPT ![p] = ToPending(@, left, arrived)]
         /\ sync' = [sync EXCEPT ![p] = [at |-> "publish", merged |-> merged]]
  /\ UNCHANGED <<marked, issued, enabled, req, file, seen, edits, faults, restarts>>

OnlyLeft(old, left, arrived) == old \cup left
OnlyArrived(old, left, arrived) == old \ arrived
SyncMergeKeepsPending(p) == SyncMergeWith(p, OnlyLeft)
SyncMergeNeverPending(p) == SyncMergeWith(p, OnlyArrived)

\* The BEGIN IMMEDIATE transaction: read, merge, apply.
SyncMerge(p) ==
  /\ sync[p].at = "merge"
  /\ Undisturbed(p)
  /\ LET merged == Merge({LocalState(p)} \cup sync[p].peers)
         left == {t \in Ticker : Present(p, t) /\ merged.rows[t] = NoRow}
         arrived == {t \in Ticker : ~ Present(p, t) /\ merged.rows[t] # NoRow}
     IN  /\ db' = [db EXCEPT ![p] = Applied(p, merged)]
         /\ pending' = [pending EXCEPT ![p] = (@ \cup left) \ arrived]
         /\ sync' = [sync EXCEPT ![p] = [at |-> "publish", merged |-> merged]]
  /\ UNCHANGED <<marked, issued, enabled, req, file, seen, edits, faults, restarts>>

\* write_own_file parses what it is about to publish, as a peer would: a row
\* without an author is refused and the sync ends with an error.
Publishable(state) ==
  \A t \in Ticker : /\ state.rows[t] # NoRow => state.rows[t].by # 0
                    /\ state.removed[t] # NoTomb => state.removed[t].by # 0

\* os.replace is atomic.  finished = next_stamp() also raises the process's
\* last issued stamp; leaving that out allows every stamp it allows.
SyncPublish(p) ==
  /\ sync[p].at = "publish"
  /\ file' = IF Publishable(sync[p].merged)
             THEN [file EXCEPT ![p] = sync[p].merged] ELSE file
  /\ seen' = [seen EXCEPT ![p][p] = file'[p]]
  /\ sync' = [sync EXCEPT ![p] = IdleSync]
  /\ UNCHANGED <<db, marked, pending, issued, enabled, req, edits, faults, restarts>>

\* The folder or the file cannot be read or written: the sync ends there.
SyncFail(p) ==
  /\ sync[p].at \in {"read", "publish"}
  /\ faults < MaxFaults
  /\ faults' = faults + 1
  /\ sync' = [sync EXCEPT ![p] = IdleSync]
  /\ UNCHANGED <<db, marked, pending, issued, enabled, req, file, seen, edits, restarts>>

-----------------------------------------------------------------------------
(* The sync-off paths.                                                     *)

\* GET /watchlist with sync off: bootstrap_from_seed, then
\* merge_missing_watchlist_items, which inserts every missing seed ticker.
PageReadOff(p) ==
  /\ ~ enabled[p]
  /\ Undisturbed(p)
  /\ db' = WithSeed(p)
  /\ pending' = [pending EXCEPT ![p] = @ \ {t \in SeedTicker : ~ Present(p, t)}]
  /\ marked' = [marked EXCEPT ![p] = @ \/ WatchlistEmpty(p)]
  /\ UNCHANGED <<issued, enabled, req, sync, file, seen, edits, faults, restarts>>

\* POST /watchlist/resync: refused while sync is on.  Replaces the table with
\* the seed at the baseline stamp; a surviving ticker keeps its theme.
Resync(p) ==
  /\ ~ enabled[p]
  /\ Undisturbed(p)
  /\ SeedTicker # {}
  /\ edits < MaxEdits
  /\ edits' = edits + 1
  /\ db' = [db EXCEPT ![p].rows = [t \in Ticker |->
              IF t \in SeedTicker
              THEN [ts |-> BaselineStamp, by |-> p, meta |-> 0,
                    theme |-> IF Present(p, t) THEN db[p].rows[t].theme ELSE 0]
              ELSE NoRow]]
  /\ pending' = [pending EXCEPT ![p] =
       (@ \ SeedTicker) \cup {t \in Ticker \ SeedTicker : Present(p, t)}]
  /\ marked' = [marked EXCEPT ![p] = TRUE]
  /\ UNCHANGED <<issued, enabled, req, sync, file, seen, faults, restarts>>

-----------------------------------------------------------------------------
(* The environment.                                                        *)

\* The folder service brings p's replica of q's entry up to date.
Deliver(p, q) ==
  /\ seen[p][q] # file[q]
  /\ seen' = [seen EXCEPT ![p][q] = file[q]]
  /\ UNCHANGED <<db, marked, pending, issued, enabled, req, sync, file, edits, faults, restarts>>

\* p's replica of q's file is half downloaded, a conflict copy or damaged.
Glitch(p, q) ==
  /\ seen[p][q] \notin {NoFile, Unreadable}
  /\ faults < MaxFaults
  /\ faults' = faults + 1
  /\ seen' = [seen EXCEPT ![p][q] = Unreadable]
  /\ UNCHANGED <<db, marked, pending, issued, enabled, req, sync, file, edits, restarts>>

\* q's file is removed from the folder.
Vanish(q) ==
  /\ file[q] # NoFile
  /\ faults < MaxFaults
  /\ faults' = faults + 1
  /\ file' = [file EXCEPT ![q] = NoFile]
  /\ UNCHANGED <<db, marked, pending, issued, enabled, req, sync, seen, edits, restarts>>

\* The server process dies, at any point, and starts again.  Threads and
\* _last_issued are gone; committed transactions and files are not.
Restart(p) ==
  /\ restarts < MaxRestarts
  /\ restarts' = restarts + 1
  /\ req' = [req EXCEPT ![p] = [k \in Thread |-> IdleRequest]]
  /\ sync' = [sync EXCEPT ![p] = IdleSync]
  /\ issued' = [issued EXCEPT ![p] = BaselineStamp]
  /\ \E on \in IF Switchable THEN BOOLEAN ELSE {enabled[p]} :
       enabled' = [enabled EXCEPT ![p] = on]
  /\ UNCHANGED <<db, marked, pending, file, seen, edits, faults>>

-----------------------------------------------------------------------------
Handle(p, k) ==
  \/ \E t \in Ticker, m \in 0..MaxMeta : UpsertRead(p, k, t, m)
  \/ UpsertWrite(p, k)
  \/ \E t \in Ticker, m \in 0..MaxMeta : SetGroup(p, k, t, m)
  \/ \E t \in Ticker : KeepGroup(p, k, t)
  \/ \E t \in Ticker, h \in 0..MaxTheme : SetTheme(p, k, t, h)
  \/ \E t \in Ticker : DeleteRead(p, k, t)
  \/ DeleteWrite(p, k)
  \/ MarkState(p, k)

SyncStep(p) ==
  \/ SyncOpen(p) \/ SyncDecide(p) \/ SyncSeed(p)
  \/ SyncMerge(p) \/ SyncPublish(p)

Next ==
  \/ \E p \in PC, k \in Thread : Handle(p, k)
  \/ \E p \in PC : SyncStep(p) \/ SyncFail(p) \/ PageReadOff(p) \/ Resync(p)
                   \/ Restart(p) \/ Vanish(p)
  \/ \E p, q \in PC : Deliver(p, q) \/ Glitch(p, q)

Spec == Init /\ [][Next]_vars

\* The open page keeps asking for the watchlist and every request syncs, a
\* started handler or sync runs to its end, and the folder service delivers.
Fairness ==
  /\ \A p \in PC : WF_vars(SyncStep(p))
  /\ \A p \in PC, k \in Thread :
       WF_vars(UpsertWrite(p, k) \/ DeleteWrite(p, k) \/ MarkState(p, k))
  /\ \A p, q \in PC : WF_vars(Deliver(p, q))

FairSpec == Spec /\ Fairness
-----------------------------------------------------------------------------
(* Properties.                                                             *)

\* Whatever a PC publishes is settled: no row beaten by a tombstone beside it
\* and no row or tombstone its peers would refuse to parse, also when the
\* local rows were unstamped or a handler raced the sync (write_own_file).
FilesSettled ==
  \A p \in PC : file[p] # NoFile => Settled(file[p]) /\ Publishable(file[p])

\* Step of thread k that commits a user's change.
Commits(p, k) == req[p][k] # MarkRequest /\ req'[p][k] = MarkRequest

\* With sync on, a committed user change outranks every version of that
\* ticker this PC held just before it, so no later merge can undo it in
\* favour of what the user replaced (causal_stamp, record_removal).
LocalChangeOutranks ==
  [][\A p \in PC, k \in Thread, t \in Ticker :
       enabled[p] /\ Commits(p, k) /\ db'[p].rows[t] # db[p].rows[t]
         => Outranks(db[p], db'[p], t)]_vars

\* While sync is on, nothing that happens on a PC -- edits, merges, the
\* bootstrap, crashes -- loses the most recent change it knows of a ticker.
NeverForgets ==
  [][\A p \in PC, t \in Ticker :
       enabled[p] => NotOlder(db[p], db'[p], t)]_vars

\* The same for the sync alone: it never replaces what a PC knows by
\* something older, also when a handler commits between any two of its
\* transactions (service.py, the BEGIN IMMEDIATE window, "I1").
SyncKeepsNewest ==
  [][\A p \in PC, t \in Ticker :
       sync'[p] # sync[p] => NotOlder(db[p], db'[p], t)]_vars

\* Every state that exists anywhere, in whatever hands.
States ==
  UNION {{LocalState(p) : p \in PC},
         ({file[p] : p \in PC} \cup {seen[p][q] : p, q \in PC})
           \ {NoFile, Unreadable},
         UNION {sync[p].peers :
                  p \in {q \in PC : sync[q].at \in {"read", "seed", "merge"}}},
         {sync[p].merged : p \in {q \in PC : sync[q].at = "publish"}}}

\* Two copies of a row with the same clock stamp and author have the same
\* content: "two edits ... would otherwise share a key while holding
\* different contents" (next_stamp) does not happen.
KeyDeterminesContent ==
  \A t \in Ticker :
    LET copies == {r \in RowsFor(States, t) : r.ts > BaselineStamp}
    IN  \A a, b \in copies : a.ts = b.ts /\ a.by = b.by => a = b

\* cleanup_pending follows the watchlist on every path: a ticker becomes
\* pending exactly when its row leaves, and is not pending while on the list.
PendingFollowsWatchlist ==
  [][\A p \in PC, t \in Ticker :
       LET leaves == Present(p, t) /\ db'[p].rows[t] = NoRow
       IN  /\ t \in pending'[p] => db'[p].rows[t] = NoRow
           /\ leaves <=> t \in pending'[p] \ pending[p]]_vars

\* Starter rows never appear on a PC whose watchlist was already managed --
\* a user who removed everything, or a PC that joined its peers -- whatever
\* becomes of the peer files (bootstrap_from_seed, service.py "I2").
NeverReseeds ==
  [][\A p \in PC, t \in Ticker :
       enabled[p] /\ marked[p] /\ ~ Present(p, t) /\ db'[p].rows[t] # NoRow
         => sync[p].at = "merge" \/ db'[p].rows[t].ts # SeedStamp]_vars

\* Every PC holds and publishes the same watchlist and tombstones.
Agreed == \A p, q \in PC : db[p] = db[q] /\ file[p] = db[p]

\* When edits, faults and restarts have stopped with sync on everywhere, all
\* PCs come to agree and stay so, in whatever order the files travelled and
\* whatever handlers and syncs overlapped.
Convergence == (<>[] \A p \in PC : enabled[p]) => <>[] Agreed
=============================================================================
