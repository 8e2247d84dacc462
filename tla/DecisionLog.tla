---------------------------- MODULE DecisionLog ----------------------------
(***************************************************************************)
(* The decisions page (app/decisions): the form that records a decision,   *)
(* the cards that correct and delete one, the list they all read again     *)
(* when a write was answered, and the split of the list into what the      *)
(* scatter plots and what it only counts.  The service holds the rows; a   *)
(* row may be removed there by another computer (records sync).            *)
(*                                                                         *)
(* A memo stands for all that is typed: in the form, a ticker too.  A card *)
(* has one write under way at a time: deleting a row whose correction is   *)
(* under way is left out.                                                  *)
(***************************************************************************)
EXTENDS Integers, FiniteSets

CONSTANTS
  DlId,         \* the rows there can be
  DlFirst,      \* the rows when the page opens
  DlMemo,       \* memos
  DlFigures,    \* what is known of a row: "point", "no outcome", "no figures"
  NoDl,         \* nothing
  DlMaxEdits,   \* bound: memos typed, in the form and the cards
  DlMaxWrites,  \* bound: requests of the form and the cards
  DlMaxFaults   \* bound: requests that fail or whose answer is lost, rows removed elsewhere

ASSUME DlAssumption ==
  /\ DlId \subseteq Nat /\ IsFiniteSet(DlId) /\ DlMemo # {}
  /\ DlFirst \subseteq DlId /\ \E d \in DlFirst : \A x \in DlFirst : x <= d
  /\ DlFigures \in [DlId -> {"point", "no outcome", "no figures"}]
  /\ DlMaxEdits \in Nat /\ DlMaxWrites \in Nat /\ DlMaxFaults \in Nat

VARIABLES
  dlStore,   \* the service: row -> memo
  dlLast,    \* the last number the service gave
  dlList,    \* decisionsQuery: [data, asked, failed]; asked is the store when it was asked
  dlForm,    \* RecordDecisionForm: what is typed
  dlPost,    \* its mutation: [memo, phase]
  dlCard,    \* DecisionCard of a row: [mode, memo, error]
  dlWrite,   \* its mutations: [kind, memo, phase, mine]; not mine when the card was unmounted
  dlUnsure,  \* the service changed and no list read since shows it: no answer said so, or the first
             \* read, under way, stood for the one that was to follow
  dlUsed     \* bounds

dlVars == <<dlStore, dlLast, dlList, dlForm, dlPost, dlCard, dlWrite, dlUnsure, dlUsed>>

DlRows == UNION {[S -> DlMemo] : S \in SUBSET DlId}
Memos == DlMemo \cup {NoDl}
DlWriting == [kind : {"save", "remove"}, memo : Memos, mine : BOOLEAN,
              phase : {"sent", "served", "refused", "refreshing"}]
DlPosting == [memo : DlMemo, phase : {"sent", "served"}]
ASSUME DlNothing == NoDl \notin DlRows /\ NoDl \notin DlPosting /\ NoDl \notin DlWriting

CardClosed == [mode |-> "view", memo |-> NoDl, error |-> FALSE]

DlTypeOK ==
  /\ dlStore \in DlRows /\ dlLast \in DlId
  /\ dlList \in [data : DlRows \cup {NoDl}, asked : DlRows \cup {NoDl}, failed : BOOLEAN]
  /\ dlForm \in Memos
  /\ dlPost \in {NoDl} \cup DlPosting
  /\ dlCard \in [DlId -> [mode : {"view", "edit", "confirmDelete"}, memo : Memos, error : BOOLEAN]]
  /\ dlWrite \in [DlId -> {NoDl} \cup DlWriting]
  /\ dlUnsure \in BOOLEAN
  /\ dlUsed \in [edits : 0..DlMaxEdits, writes : 0..DlMaxWrites, faults : 0..DlMaxFaults]

DlInit ==
  /\ dlStore \in [DlFirst -> {CHOOSE m \in DlMemo : TRUE}]
  /\ dlLast = CHOOSE d \in DlFirst : \A x \in DlFirst : x <= d
  /\ dlList = [data |-> NoDl, asked |-> dlStore, failed |-> FALSE]
  /\ dlForm = NoDl /\ dlPost = NoDl
  /\ dlCard = [d \in DlId |-> CardClosed] /\ dlWrite = [d \in DlId |-> NoDl]
  /\ dlUnsure = FALSE
  /\ dlUsed = [edits |-> 0, writes |-> 0, faults |-> 0]

-----------------------------------------------------------------------------
DlEdits == dlUsed.edits < DlMaxEdits /\ dlUsed' = [dlUsed EXCEPT !.edits = @ + 1]
DlWrites == dlUsed.writes < DlMaxWrites /\ dlUsed' = [dlUsed EXCEPT !.writes = @ + 1]
DlFault == dlUsed.faults < DlMaxFaults /\ dlUsed' = [dlUsed EXCEPT !.faults = @ + 1]

\* The list and the scatter are on the page once the list is read, and not beside an error.
ListShown == dlList.data # NoDl /\ ~ dlList.failed
CardShown(d) == ListShown /\ d \in DOMAIN dlList.data

\* The writes that wait for the list to be read again end, as it was read or not: a card that
\* saved goes back to its text.
Waits(d) == dlWrite[d] # NoDl /\ dlWrite[d].phase = "refreshing"
Ended(write) == [d \in DlId |-> IF Waits(d) THEN NoDl ELSE write[d]]
Closed(card) == [d \in DlId |-> IF Waits(d) /\ dlWrite[d].kind = "save" /\ dlWrite[d].mine
                                THEN CardClosed ELSE card[d]]

\* The cards of rows that are not shown are unmounted; their requests go on.
CardsMounted(card, rows) == [d \in DlId |-> IF d \in rows THEN card[d] ELSE CardClosed]
Owned(write, rows) == [d \in DlId |-> IF write[d] = NoDl \/ d \in rows THEN write[d]
                                      ELSE [write[d] EXCEPT !.mine = FALSE]]

\* invalidateQueries: a read under way is given up for a new one, and who waits for it waits for the
\* new one.  The first read is not given up: its answer may be of before.
LogInvalidated ==
  LET joins == dlList.data = NoDl /\ dlList.asked # NoDl
  IN  /\ dlList' = [dlList EXCEPT !.asked = IF joins THEN @ ELSE dlStore]
      /\ dlUnsure' = (dlUnsure \/ (joins /\ dlList.asked # dlStore))

-----------------------------------------------------------------------------
\* The rows are those of some moment since the list was asked for.
LogAnswered(rows) ==
  /\ dlList.asked # NoDl /\ rows \in {dlList.asked, dlStore}
  /\ dlList' = [data |-> rows, asked |-> NoDl, failed |-> FALSE]
  /\ dlCard' = CardsMounted(Closed(dlCard), DOMAIN rows)
  /\ dlWrite' = Owned(Ended(dlWrite), DOMAIN rows)
  /\ dlUnsure' = (dlUnsure /\ rows # dlStore)
  /\ UNCHANGED <<dlStore, dlLast, dlForm, dlPost, dlUsed>>

\* The list goes, its cards with it.
LogFailed ==
  /\ dlList.asked # NoDl
  /\ dlList' = [dlList EXCEPT !.asked = NoDl, !.failed = TRUE]
  /\ dlCard' = CardsMounted(dlCard, {}) /\ dlWrite' = Owned(Ended(dlWrite), {})
  /\ DlFault
  /\ UNCHANGED <<dlStore, dlLast, dlForm, dlPost, dlUnsure>>

TypeMemo(memo) ==
  /\ memo # dlForm /\ dlForm' = memo
  /\ DlEdits
  /\ UNCHANGED <<dlStore, dlLast, dlList, dlPost, dlCard, dlWrite, dlUnsure>>

\* A row without ticker or memo is refused on the page.
DlSubmit ==
  /\ dlPost = NoDl /\ dlForm # NoDl
  /\ dlPost' = [memo |-> dlForm, phase |-> "sent"]
  /\ DlWrites
  /\ UNCHANGED <<dlStore, dlLast, dlList, dlForm, dlCard, dlWrite, dlUnsure>>

\* The service gives the row its figures and a number no row had.
Recorded ==
  /\ dlPost # NoDl /\ dlPost.phase = "sent" /\ dlLast + 1 \in DlId
  /\ dlLast' = dlLast + 1
  /\ dlStore' = [x \in DOMAIN dlStore \cup {dlLast + 1} |-> IF x = dlLast + 1 THEN dlPost.memo ELSE dlStore[x]]
  /\ dlPost' = [dlPost EXCEPT !.phase = "served"]
  /\ UNCHANGED <<dlList, dlForm, dlCard, dlWrite, dlUnsure, dlUsed>>

\* The form is emptied, of what was typed meanwhile too.
RecordAnswered ==
  /\ dlPost # NoDl /\ dlPost.phase = "served"
  /\ dlPost' = NoDl /\ dlForm' = NoDl
  /\ LogInvalidated
  /\ UNCHANGED <<dlStore, dlLast, dlCard, dlWrite, dlUsed>>

\* The request or its answer is lost: what was typed stays, beside an error.
RecordFailed ==
  /\ dlPost # NoDl
  /\ dlPost' = NoDl
  /\ dlUnsure' = (dlUnsure \/ dlPost.phase = "served")
  /\ DlFault
  /\ UNCHANGED <<dlStore, dlLast, dlList, dlForm, dlCard, dlWrite>>

-----------------------------------------------------------------------------
StartEdit(d) ==
  /\ CardShown(d) /\ dlCard[d].mode = "view"
  /\ dlCard' = [dlCard EXCEPT ![d] = [mode |-> "edit", memo |-> dlList.data[d], error |-> FALSE]]
  /\ UNCHANGED <<dlStore, dlLast, dlList, dlForm, dlPost, dlWrite, dlUnsure, dlUsed>>

AskDelete(d) ==
  /\ CardShown(d) /\ dlCard[d].mode = "view"
  /\ dlCard' = [dlCard EXCEPT ![d].mode = "confirmDelete", ![d].error = FALSE]
  /\ UNCHANGED <<dlStore, dlLast, dlList, dlForm, dlPost, dlWrite, dlUnsure, dlUsed>>

CancelCard(d) ==
  /\ dlCard[d].mode # "view" /\ dlCard' = [dlCard EXCEPT ![d] = CardClosed]
  /\ UNCHANGED <<dlStore, dlLast, dlList, dlForm, dlPost, dlWrite, dlUnsure, dlUsed>>

Correct(d, memo) ==
  /\ dlCard[d].mode = "edit" /\ dlCard[d].memo # memo
  /\ dlCard' = [dlCard EXCEPT ![d].memo = memo]
  /\ DlEdits
  /\ UNCHANGED <<dlStore, dlLast, dlList, dlForm, dlPost, dlWrite, dlUnsure>>

\* Save, or the second click of Delete.
Send(d) ==
  /\ dlCard[d].mode # "view" /\ dlWrite[d] = NoDl
  /\ dlWrite' = [dlWrite EXCEPT ![d] =
                   [kind |-> IF dlCard[d].mode = "edit" THEN "save" ELSE "remove",
                    memo |-> dlCard[d].memo, phase |-> "sent", mine |-> TRUE]]
  /\ DlWrites
  /\ UNCHANGED <<dlStore, dlLast, dlList, dlForm, dlPost, dlCard, dlUnsure>>

\* A row that is not there any more is refused.
WriteServed(d) ==
  /\ dlWrite[d] # NoDl /\ dlWrite[d].phase = "sent"
  /\ dlWrite' = [dlWrite EXCEPT ![d].phase = IF d \in DOMAIN dlStore THEN "served" ELSE "refused"]
  /\ dlStore' = IF dlWrite[d].kind = "remove" THEN [x \in DOMAIN dlStore \ {d} |-> dlStore[x]]
                ELSE IF d \in DOMAIN dlStore THEN [dlStore EXCEPT ![d] = dlWrite[d].memo] ELSE dlStore
  /\ UNCHANGED <<dlLast, dlList, dlForm, dlPost, dlCard, dlUnsure, dlUsed>>

\* onSuccess waits for the list.
WriteAnswered(d) ==
  /\ dlWrite[d] # NoDl /\ dlWrite[d].phase = "served"
  /\ LogInvalidated
  /\ dlWrite' = [dlWrite EXCEPT ![d].phase = "refreshing"]
  /\ UNCHANGED <<dlStore, dlLast, dlForm, dlPost, dlCard, dlUsed>>

\* The refusal, the request or the answer is an error in the card, which stays as it is.
WriteFailed(d) ==
  /\ dlWrite[d] # NoDl /\ dlWrite[d].phase # "refreshing"
  /\ dlWrite' = [dlWrite EXCEPT ![d] = NoDl]
  /\ dlCard' = IF dlWrite[d].mine THEN [dlCard EXCEPT ![d].error = TRUE] ELSE dlCard
  /\ dlUnsure' = (dlUnsure \/ dlWrite[d].phase = "served")
  /\ IF dlWrite[d].phase = "refused" THEN UNCHANGED dlUsed ELSE DlFault
  /\ UNCHANGED <<dlStore, dlLast, dlList, dlForm, dlPost>>

\* Records sync takes a row away.
RemovedElsewhere(d) ==
  /\ d \in DOMAIN dlStore
  /\ dlStore' = [x \in DOMAIN dlStore \ {d} |-> dlStore[x]]
  /\ dlUnsure' = TRUE
  /\ DlFault
  /\ UNCHANGED <<dlLast, dlList, dlForm, dlPost, dlCard, dlWrite>>

DlNext ==
  \/ \E rows \in {dlList.asked, dlStore} : LogAnswered(rows)
  \/ LogFailed \/ DlSubmit \/ Recorded \/ RecordAnswered \/ RecordFailed
  \/ \E memo \in DlMemo : TypeMemo(memo)
  \/ \E d \in DlId : \/ StartEdit(d) \/ AskDelete(d) \/ CancelCard(d) \/ Send(d)
                     \/ WriteServed(d) \/ WriteAnswered(d) \/ WriteFailed(d) \/ RemovedElsewhere(d)
                     \/ \E memo \in DlMemo : Correct(d, memo)

DlSpec == DlInit /\ [][DlNext]_dlVars

-----------------------------------------------------------------------------
(* The scatter: partitionDecisions and its caption.                        *)
Partition(rows) ==
  LET of(figures) == {d \in DOMAIN rows : DlFigures[d] = figures}
  IN  [points |-> of("point"), total |-> Cardinality(DOMAIN rows),
       outcomeUnavailable |-> Cardinality(of("no outcome")),
       figuresUnavailable |-> Cardinality(of("no figures"))]

-----------------------------------------------------------------------------
\* Once every write was answered and the list read after it, the list is what the service has:
\* but for the first, no read that set out before a write stands for it.
ListIsServed ==
  /\ ListShown /\ dlList.asked = NoDl /\ dlPost = NoDl /\ ~ dlUnsure
  /\ \A d \in DlId : dlWrite[d] = NoDl
  => dlList.data = dlStore

\* A write that waits for the list has a read to wait for, and what it wrote will be in it,
\* unless the row was removed since.
WaitsEnd ==
  \A d \in DlId : Waits(d) =>
    /\ dlList.asked # NoDl
    /\ dlWrite[d].kind = "save" /\ d \in DOMAIN dlList.asked => dlList.asked[d] = dlWrite[d].memo
    /\ dlWrite[d].kind = "remove" => d \notin DOMAIN dlList.asked

\* What is typed is in a card that is on the page, and an error is said there; no
\* decision goes uncounted in the caption of the scatter.
LogHolds ==
  /\ ListIsServed /\ WaitsEnd
  /\ \A d \in DlId : dlCard[d] # CardClosed => CardShown(d)
  /\ \A d \in DlId : dlWrite[d] # NoDl /\ ~ dlWrite[d].mine => dlUsed.faults > 0 \/ dlWrite[d].kind = "remove"
  /\ ListShown => LET p == Partition(dlList.data)
                  IN  Cardinality(p.points) + p.outcomeUnavailable + p.figuresUnavailable = p.total
=============================================================================
