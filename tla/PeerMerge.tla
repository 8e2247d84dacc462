----------------------------- MODULE PeerMerge -----------------------------
(***************************************************************************)
(* The pure merge rules of watchlist peer sync                             *)
(* (apps/api/services/peer_sync/model.py): how changes are ordered, how    *)
(* fresh stamps are issued and how any set of states is merged.            *)
(*                                                                         *)
(* Timestamps are fixed-format strings that sort in time order, so a stamp *)
(* is a natural number here: NULL is 0, SEED_TS is 1, BASELINE_TS is 2 and *)
(* a clock reading is anything above.  Author '' is 0; a PC is a positive  *)
(* author.  The five content columns appear only through the order the     *)
(* code's tuple comparison gives them: `meta` stands for (name, sector,    *)
(* group_name, weight), `theme` for theme, with 0 for "".                  *)
(***************************************************************************)
EXTENDS Naturals

CONSTANTS Ticker,      \* the tickers
          NoRow,       \* a ticker without a row
          NoTomb,      \* a ticker without a tombstone
          MaxStamp,    \* bound on time
          MaxAuthor,   \* authors are 0..MaxAuthor
          MaxMeta,     \* bounds on the two content components
          MaxTheme

ASSUME BoundsAssumption ==
  /\ MaxStamp \in Nat /\ MaxStamp > 2
  /\ MaxAuthor \in Nat
  /\ MaxMeta \in Nat
  /\ MaxTheme \in Nat

NullStamp == 0
SeedStamp == 1
BaselineStamp == 2

Stamp == 0..MaxStamp
ClockReading == BaselineStamp + 1 .. MaxStamp
Author == 0..MaxAuthor

Row == [ts : Stamp, by : Author, meta : 0..MaxMeta, theme : 0..MaxTheme]
Tomb == [ts : Stamp, by : Author]

ASSUME AbsenceAssumption == NoRow \notin Row \cup Tomb /\ NoTomb \notin Row \cup Tomb

State == [rows : [Ticker -> Row \cup {NoRow}],
          removed : [Ticker -> Tomb \cup {NoTomb}]]

EmptyState == [rows    |-> [t \in Ticker |-> NoRow],
               removed |-> [t \in Ticker |-> NoTomb]]

-----------------------------------------------------------------------------
(* Orders.  Python compares the key tuples component by component.         *)

\* add_key and remove_key are both (timestamp, author).
KeyLT(a, b) ==
  \/ a.ts < b.ts
  \/ a.ts = b.ts /\ a.by < b.by

\* order_key: the content breaks an exact (timestamp, author) tie.
OrderLT(a, b) ==
  \/ KeyLT(a, b)
  \/ /\ a.ts = b.ts /\ a.by = b.by
     /\ \/ a.meta < b.meta
        \/ a.meta = b.meta /\ a.theme < b.theme

-----------------------------------------------------------------------------
Larger(m, n) == IF m < n THEN n ELSE m

\* Defect: next_stamp skips a stamp when the clock has not moved.
NextStampSkips(now, issued, after) ==
  LET floor == Larger(issued, IF after = NullStamp THEN BaselineStamp ELSE after)
  IN  IF now <= floor THEN floor + 2 ELSE now

\* next_stamp at clock reading `now`: strictly above what this process issued
\* and above `after`, the stamp of the version the change replaces.
NextStamp(now, issued, after) ==
  LET floor == Larger(issued, IF after = NullStamp THEN BaselineStamp ELSE after)
  IN  IF now <= floor THEN floor + 1 ELSE now

-----------------------------------------------------------------------------
(* merge_states, as what it returns for the SET of its arguments.  Module  *)
(* MergeLoop shows that the code's loop returns this in every order.       *)

\* Defect: the comparison is swapped and the oldest tombstone is kept.
OldestTomb(S) == CHOOSE d \in S : \A o \in S : ~ KeyLT(o, d)

NewestRow(S)  == CHOOSE r \in S : \A o \in S : ~ OrderLT(r, o)
NewestTomb(S) == CHOOSE d \in S : \A o \in S : ~ KeyLT(d, o)

RowsFor(states, t)  == {s.rows[t] : s \in states} \ {NoRow}
TombsFor(states, t) == {s.removed[t] : s \in states} \ {NoTomb}

BestRow(states, t) ==
  IF RowsFor(states, t) = {} THEN NoRow ELSE NewestRow(RowsFor(states, t))

BestTomb(states, t) ==
  IF TombsFor(states, t) = {} THEN NoTomb ELSE NewestTomb(TombsFor(states, t))

\* A tombstone removes a row only with a strictly larger key.
Removes(tomb, row) == tomb # NoTomb /\ row # NoRow /\ KeyLT(row, tomb)

\* Defect: a row is kept although the merged tombstone beats it.
MergeKeepsBeatenRows(states) ==
  [rows    |-> [t \in Ticker |-> BestRow(states, t)],
   removed |-> [t \in Ticker |-> BestTomb(states, t)]]

\* Defect: a tombstone is forgotten once it has removed its row.
MergeForgetsTombs(states) ==
  LET beaten(t) == Removes(BestTomb(states, t), BestRow(states, t))
  IN  [rows    |-> [t \in Ticker |->
                      IF beaten(t) THEN NoRow ELSE BestRow(states, t)],
       removed |-> [t \in Ticker |->
                      IF beaten(t) THEN NoTomb ELSE BestTomb(states, t)]]

\* Every tombstone is kept, also one a newer add has made ineffective.
Merge(states) ==
  [rows    |-> [t \in Ticker |->
                  IF Removes(BestTomb(states, t), BestRow(states, t))
                  THEN NoRow ELSE BestRow(states, t)],
   removed |-> [t \in Ticker |-> BestTomb(states, t)]]

-----------------------------------------------------------------------------
(* What the properties say about a state.                                  *)

\* The keys a state holds for t: of its row and of its tombstone.
KeysOf(state, t) ==
  {[ts |-> r.ts, by |-> r.by] : r \in {state.rows[t]} \ {NoRow}}
    \cup ({state.removed[t]} \ {NoTomb})

\* `new` knows at least as recent a change to t as `old` does.
NotOlder(old, new, t) ==
  \A k \in KeysOf(old, t) : \E j \in KeysOf(new, t) : ~ KeyLT(j, k)

\* `new` holds a change to t that outranks everything `old` holds.
Outranks(old, new, t) ==
  \E j \in KeysOf(new, t) : \A k \in KeysOf(old, t) : KeyLT(k, j)

\* No row of the state is beaten by the state's own tombstone.
Settled(state) ==
  \A t \in Ticker : ~ Removes(state.removed[t], state.rows[t])
=============================================================================
