-------------------------- MODULE AllocationEditor --------------------------
(***************************************************************************)
(* The allocation editor of the portfolio page (app/portfolio/page.tsx and *)
(* components/PortfolioAllocationEditor.tsx): weights the user types are   *)
(* drafts, an effect saves them some time after the last key stroke, one   *)
(* row after the other, while other requests of the page and the peer sync *)
(* change the same rows on the server.                                     *)
(*                                                                         *)
(* The browser runs one thread.  A step is what it does between two        *)
(* answers of the server, or one server-side transaction.  An effect that  *)
(* is due runs before anything else can render: hence ~ due in the guards  *)
(* of what the page does.  The total investment amount has an auto-save of *)
(* its own and is modelled in AmountEditor.                                *)
(***************************************************************************)
EXTENDS Integers, Sequences, FiniteSets, SequencesExt

CONSTANTS
  Stock,            \* tickers of the watchlist
  TypedPercent,     \* percentages the user types or drags to
  Unlisted,         \* those that may be off the list at first
  Group,            \* watchlist groups, "custom" is the followed one
  NoRow,            \* the ticker is not on the list
  NoDraft,          \* no draft for the ticker
  AllocMaxTyped,    \* bound: key strokes
  AllocMaxActs,     \* bound: other requests (follow, delete, add)
  AllocMaxFaults,   \* bound: failed requests of the save loop
  AllocMaxReads,    \* bound: watchlist reads no request asked for
  AllocPatient,     \* TRUE: the user waits for an answer before touching a
                    \* row it is about, and ticks "Apply To Snapshot" only
                    \* while no draft is on its way
  AllocSnapshots    \* TRUE: "Apply To Snapshot" may be ticked

ASSUME AllocAssumption ==
  /\ IsFiniteSet(Stock) /\ Stock # {}
  /\ Unlisted \subseteq Stock /\ TypedPercent \subseteq 0..100
  /\ Group = {"custom", "browser"}
  /\ AllocMaxTyped \in Nat /\ AllocMaxActs \in Nat
  /\ AllocMaxFaults \in Nat /\ AllocMaxReads \in Nat
  /\ AllocPatient \in BOOLEAN /\ AllocSnapshots \in BOOLEAN

VARIABLES
  row,      \* the server's watchlist
  list,     \* the page's copy of it: data of the query "portfolio-watchlist"
  read,     \* the watchlist read in flight
  draft,    \* weightDrafts
  settled,  \* debouncedWeightDraftsKey
  due,      \* the auto-save effect has a changed dependency to look at
  loop,     \* the save loop in flight: allocationAutoSaveInFlightRef and its rows
  apply,    \* applyAllocationToSnapshot
  acts,     \* follow, delete and add requests in flight
  typed,    \* history: the last percentage the user asked for
  used      \* bounds: how often each bounded thing has happened

allocVars == <<row, list, read, draft, settled, due, loop, apply, acts, typed, used>>

Percent == 0..100
Row == [weight : Percent, group : Group]
Rows == [Stock -> Row \cup {NoRow}]
Drafts == [Stock -> Percent \cup {NoDraft}]
Saved == [stock : Stock, weight : Percent, group : Group]
Act == [kind : {"follow", "delete", "add"}, stock : Stock, weight : Percent,
        group : Group, served : BOOLEAN]

Idle == [phase |-> "idle", rows |-> <<>>, all |-> {}, served |-> FALSE,
         normal |-> FALSE, snapshot |-> FALSE]
NoRead == [asked |-> FALSE, rows |-> <<>>]

OnList(rows) == {s \in Stock : rows[s] # NoRow}
NoDrafts == [s \in Stock |-> NoDraft]

\* Defect: "Synced" is shown as soon as the rows are sent.
ShownSavingEarly == loop.phase = "save" /\ ~ loop.served
\* savingAllocationTickers is not empty: "Auto-save status: Saving..."
ShownSaving == loop.phase # "idle"

\* What the row of a stock shows: its draft, or the weight of the page's list.
ShownPercent(s) ==
  IF draft[s] # NoDraft THEN draft[s]
  ELSE IF list[s] # NoRow THEN list[s].weight ELSE 0

\* Nothing the user did is still on its way.
Quiet ==
  ~ ShownSaving /\ acts = {} /\ ~ read.asked /\ draft = NoDrafts /\ settled = draft

Count(k) == used' = [used EXCEPT ![k] = @ + 1]

-----------------------------------------------------------------------------
(* The watchlist query.                                                    *)

\* Focus, staleness or another page reads the watchlist.
ReadList ==
  /\ ~ read.asked
  /\ used.reads < AllocMaxReads
  /\ AllocPatient => Quiet
  /\ read' = [asked |-> TRUE, rows |-> <<>>]
  /\ Count("reads")
  /\ UNCHANGED <<row, list, draft, settled, due, loop, apply, acts, typed>>

ReadServed ==
  /\ read.asked /\ read.rows = <<>>
  /\ read' = [read EXCEPT !.rows = <<row>>]
  /\ UNCHANGED <<row, list, draft, settled, due, loop, apply, acts, typed, used>>

\* The answer becomes the query's data; equal data keeps its identity and
\* wakes no effect.
ReadAnswered ==
  /\ ~ due /\ read.rows # <<>>
  /\ list' = read.rows[1]
  /\ due' = (due \/ list' # list)
  /\ read' = NoRead
  /\ UNCHANGED <<row, draft, settled, loop, apply, acts, typed, used>>

-----------------------------------------------------------------------------
(* Drafts.                                                                 *)

\* handleAllocationDraftChange: slider and number input, of a listed row.
TypeDraft(s, p) ==
  /\ ~ due /\ used.typed < AllocMaxTyped
  /\ list[s] # NoRow
  /\ AllocPatient => /\ ShownSaving => /\ ~ loop.normal /\ ~ loop.snapshot
                                       /\ draft[s] = NoDraft
                     /\ acts = {} /\ ~ read.asked
  /\ draft' = [draft EXCEPT ![s] = p]
  /\ typed' = [typed EXCEPT ![s] = p]
  /\ Count("typed")
  /\ UNCHANGED <<row, list, read, settled, due, loop, apply, acts>>

\* useDebounce: 450 ms after the last change the drafts reach the effect.
Settle ==
  /\ ~ due /\ settled # draft
  /\ settled' = draft
  /\ due' = TRUE
  /\ UNCHANGED <<row, list, read, draft, loop, apply, acts, typed, used>>

\* The check box "Apply To Snapshot".
ToggleApply ==
  /\ ~ due /\ AllocSnapshots /\ ~ apply
  /\ AllocPatient => ~ ShownSaving /\ settled = draft
  /\ apply' = TRUE
  /\ due' = TRUE
  /\ UNCHANGED <<row, list, read, draft, settled, loop, acts, typed, used>>

-----------------------------------------------------------------------------
(* The auto-save effect and its loop.                                      *)

Changed(drafts, s) ==
  list[s] # NoRow /\ drafts[s] # NoDraft /\ drafts[s] # list[s].weight

\* The stocks whose settled draft differs from the list by 0.05 or more.
Pending == {s \in Stock : Changed(settled, s)}

\* The whole row is captured here and sent later, name and group included.
Captured(stocks, weight) ==
  LET ordered == SetToSeq(stocks)
  IN [i \in DOMAIN ordered |->
        [stock |-> ordered[i], weight |-> weight[ordered[i]], group |-> list[ordered[i]].group]]

\* The effect runs once per change of its dependencies and returns at once
\* while a loop is in flight; nothing wakes it when the loop ends.
AutoSave ==
  /\ due
  /\ due' = FALSE
  /\ loop' = IF ShownSaving \/ Pending = {} THEN loop
             ELSE [phase |-> "save", rows |-> Captured(Pending, settled),
                   all |-> Pending, served |-> FALSE, normal |-> FALSE,
                   snapshot |-> apply]
  /\ UNCHANGED <<row, list, read, draft, settled, apply, acts, typed, used>>

Shares == {s \in OnList(list) : ShownPercent(s) > 0}
Total == FoldSet(LAMBDA s, acc : acc + ShownPercent(s), 0, Shares)
Share(s) == (100 * ShownPercent(s)) \div Total

\* "Normalize To 100%": disabled while rows are being saved and without a
\* saved weight.
Normalize ==
  /\ ~ due /\ ~ ShownSaving
  /\ used.acts < AllocMaxActs
  /\ AllocPatient => Quiet
  /\ \E s \in OnList(list) : list[s].weight > 0
  /\ Shares # {}
  /\ loop' = [phase |-> "save", rows |-> Captured(Shares, [s \in Shares |-> Share(s)]),
              all |-> Shares, served |-> FALSE, normal |-> TRUE,
              snapshot |-> FALSE]
  /\ typed' = [s \in Stock |-> IF s \in Shares THEN Share(s) ELSE typed[s]]
  /\ Count("acts")
  /\ UNCHANGED <<row, list, read, draft, settled, due, apply, acts>>

\* POST /portfolio/watchlist is an upsert of the whole row.
SaveServed ==
  /\ loop.phase = "save" /\ ~ loop.served
  /\ LET r == Head(loop.rows)
     IN row' = [row EXCEPT ![r.stock] = [weight |-> r.weight, group |-> r.group]]
  /\ loop' = [loop EXCEPT !.served = TRUE]
  /\ UNCHANGED <<list, read, draft, settled, due, apply, acts, typed, used>>

\* patchWatchlistCache
Patched ==
  LET r == Head(loop.rows)
  IN IF list[r.stock] = NoRow THEN list
     ELSE [list EXCEPT ![r.stock] = [weight |-> r.weight, group |-> r.group]]

\* After a loop the drafts of its rows go, whatever they are by then; after
\* a normalization all of them go.
DraftsLeft ==
  IF loop.normal THEN NoDrafts
  ELSE [s \in Stock |-> IF s \in loop.all THEN NoDraft ELSE draft[s]]

\* The answer to one row: the next is sent, or the loop ends.  The auto-save
\* stays in flight while it also saves a snapshot (if the box was ticked when
\* it began); a normalization does not.
SaveAnswered ==
  /\ ~ due /\ loop.phase = "save" /\ loop.served
  /\ list' = Patched
  /\ due' = (due \/ list' # list)
  /\ IF Len(loop.rows) > 1
     THEN /\ loop' = [loop EXCEPT !.rows = Tail(@), !.served = FALSE]
          /\ UNCHANGED draft
     ELSE /\ draft' = DraftsLeft
          /\ loop' = IF loop.snapshot
                     THEN [loop EXCEPT !.phase = "snapshot", !.rows = <<>>]
                     ELSE Idle
  /\ UNCHANGED <<row, read, settled, apply, acts, typed, used>>

\* The snapshot request of the loop ends, well or badly.
SnapshotAnswered ==
  /\ loop.phase = "snapshot"
  /\ loop' = Idle
  /\ UNCHANGED <<row, list, read, draft, settled, due, apply, acts, typed, used>>

\* A request of the loop fails, before or after the server has acted: the
\* rest of the loop is dropped, the drafts stay.
SaveFails ==
  /\ loop.phase = "save"
  /\ used.faults < AllocMaxFaults
  /\ loop' = Idle
  /\ Count("faults")
  /\ UNCHANGED <<row, list, read, draft, settled, due, apply, acts, typed>>

-----------------------------------------------------------------------------
(* The other requests of the page that write a row.                        *)

MayAct == ~ due /\ used.acts < AllocMaxActs /\ (AllocPatient => Quiet)

Ask(kind, s, w, g) ==
  /\ acts' = acts \cup {[kind |-> kind, stock |-> s, weight |-> w, group |-> g,
                         served |-> FALSE]}
  /\ Count("acts")
  /\ UNCHANGED <<row, list, read, draft, settled, due, loop, apply>>

\* toggleFollow: the group endpoint, never the upsert.
ToggleFollow(s) ==
  /\ MayAct /\ list[s] # NoRow
  /\ Ask("follow", s, 0, IF list[s].group = "custom" THEN "browser" ELSE "custom")
  /\ UNCHANGED typed

\* handleDeleteHolding
DeleteHolding(s) ==
  /\ MayAct /\ list[s] # NoRow
  /\ Ask("delete", s, 0, "custom")
  /\ typed' = [typed EXCEPT ![s] = NoDraft]

\* "Save Manual Ticker" (handleAddHolding): a row that is known keeps its
\* group and, with "Add to Watchlist only", its weight.
AddHolding(s, w, listOnly) ==
  /\ MayAct
  /\ LET known == list[s] # NoRow
         weight == IF ~ listOnly THEN w ELSE IF known THEN list[s].weight ELSE 0
     IN /\ Ask("add", s, weight, IF known THEN list[s].group ELSE "custom")
        /\ typed' = [typed EXCEPT ![s] = weight]

\* "+ Add" beside a search result (handleAddCandidate): only what is not listed.
AddCandidate(s) ==
  /\ MayAct /\ list[s] = NoRow
  /\ Ask("add", s, 0, "browser")
  /\ typed' = [typed EXCEPT ![s] = 0]

\* Defect: following through the upsert, whose weight defaults to 0.
ActOnRowUpsert(a) ==
  CASE a.kind = "follow" -> [weight |-> 0, group |-> a.group]
    [] a.kind = "delete" -> NoRow
    [] a.kind = "add" -> [weight |-> a.weight, group |-> a.group]
\* What the endpoint of the request does to the row.
ActOnRow(a) ==
  CASE a.kind = "follow" -> IF row[a.stock] = NoRow THEN NoRow
                            ELSE [row[a.stock] EXCEPT !.group = a.group]
    [] a.kind = "delete" -> NoRow
    [] a.kind = "add" -> [weight |-> a.weight, group |-> a.group]

ActServed(a) ==
  /\ ~ a.served
  /\ row' = [row EXCEPT ![a.stock] = ActOnRow(a)]
  /\ acts' = (acts \ {a}) \cup {[a EXCEPT !.served = TRUE]}
  /\ UNCHANGED <<list, read, draft, settled, due, loop, apply, typed, used>>

\* On success the watchlist is read again; a read in flight is cancelled.
ActAnswered(a) ==
  /\ a.served
  /\ acts' = acts \ {a}
  /\ read' = [asked |-> TRUE, rows |-> <<>>]
  /\ UNCHANGED <<row, list, draft, settled, due, loop, apply, typed, used>>

-----------------------------------------------------------------------------
AllocInit ==
  /\ \E absent \in {{}, Unlisted} :
       row = [s \in Stock |-> IF s \in absent THEN NoRow ELSE [weight |-> 0, group |-> "custom"]]
  /\ list = row
  /\ read = NoRead
  /\ draft = NoDrafts /\ settled = NoDrafts
  /\ due = FALSE
  /\ loop = Idle
  /\ apply = FALSE
  /\ acts = {}
  /\ typed = NoDrafts
  /\ used = [typed |-> 0, acts |-> 0, faults |-> 0, reads |-> 0]

AllocUser ==
  \/ \E s \in Stock, p \in TypedPercent : TypeDraft(s, p)
  \/ ToggleApply
  \/ Normalize
  \/ \E s \in Stock : ToggleFollow(s) \/ DeleteHolding(s)
  \/ \E s \in Stock, w \in TypedPercent, only \in BOOLEAN : AddHolding(s, w, only)
  \/ \E s \in Stock : AddCandidate(s)

AllocBrowser == Settle \/ AutoSave
AllocServer ==
  \/ ReadServed \/ ReadAnswered
  \/ SaveServed \/ SaveAnswered \/ SnapshotAnswered
  \/ \E a \in acts : ActServed(a) \/ ActAnswered(a)

AllocNext == AllocUser \/ AllocBrowser \/ AllocServer \/ ReadList \/ SaveFails

\* Timers fire, effects run and requests are answered; users owe nothing.
AllocFairness == WF_allocVars(AllocBrowser) /\ WF_allocVars(AllocServer)

AllocSpec == AllocInit /\ [][AllocNext]_allocVars /\ AllocFairness

-----------------------------------------------------------------------------
AllocTypeOK ==
  /\ row \in Rows /\ list \in Rows
  /\ read.asked \in BOOLEAN
  /\ draft \in Drafts /\ settled \in Drafts
  /\ due \in BOOLEAN /\ apply \in BOOLEAN
  /\ loop.phase \in {"idle", "save", "snapshot"}
  /\ loop.all \subseteq Stock
  /\ \A i \in DOMAIN loop.rows : loop.rows[i] \in Saved
  /\ acts \subseteq Act
  /\ typed \in Drafts

\* At rest, "Synced" tells the truth: no timer runs, no effect is due, no
\* rows are being saved, and no draft differs from what the list holds.  After
\* a failed save nothing retries, so the promise ends there.
SyncedIsSaved ==
  ~ ShownSaving /\ ~ due /\ settled = draft /\ used.faults = 0
    => \A s \in Stock : ~ Changed(draft, s)

\* "Allocation changes save automatically": in the end the server holds the
\* last percentage the user asked for, for every stock.
WeightsAreSaved ==
  \A s \in Stock : used.faults = 0 /\ typed[s] # NoDraft => row[s] # NoRow /\ row[s].weight = typed[s]

\* A request to follow a stock never touches a saved weight, nor brings back
\* a deleted row (the promise of the comment in toggleFollow).
FollowKeepsWeight ==
  [][\A a \in acts : ActServed(a) /\ a.kind = "follow" =>
       \/ row'[a.stock] = NoRow /\ row[a.stock] = NoRow
       \/ row'[a.stock].weight = row[a.stock].weight]_allocVars

\* The auto-save writes only rows the user still has on the list and leaves
\* their group as it stands.
SaveKeepsRest ==
  [][SaveServed => LET s == Head(loop.rows).stock
                   IN row[s] # NoRow /\ row'[s].group = row[s].group]_allocVars
=============================================================================
