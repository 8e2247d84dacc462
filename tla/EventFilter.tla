---------------------------- MODULE EventFilter ----------------------------
(***************************************************************************)
(* Market events and their categories (lib/useMarketEvents.ts,             *)
(* lib/useEventMutations.ts, the chart filter and the events page).  The   *)
(* two lists are cached for good and re-read only when a write of this tab *)
(* says so.  A click in the filter is shown at once, sends one PATCH per   *)
(* category it changes, and re-reads the categories when its promise       *)
(* settles: at the last answer, or at the first failure.                   *)
(*                                                                         *)
(* The server is external: it applies a write when it serves it, and an    *)
(* answer may be lost after that.                                          *)
(***************************************************************************)
EXTENDS Integers

CONSTANTS
  EfCategory, EfOwn,   \* categories, and those the user added
  EfEvent,             \* the user's own events
  NoEf,                \* no list
  EfMaxActs,           \* bound: changes of the filter and writes of the events page
  EfMaxFaults          \* bound: requests that fail, answers that are lost

ASSUME EfAssumption ==
  /\ EfOwn \subseteq EfCategory
  /\ EfMaxActs \in Nat /\ EfMaxFaults \in Nat

VARIABLES
  efServer,   \* the saved lists
  efData,     \* the cached lists
  efErr,      \* isError of the two queries
  efRead,     \* the reads in flight
  efBatch,    \* useSetCategoriesVisible: one record per click
  efWrite,    \* the write of the events page in flight
  efEditing,  \* the event in the form, "new" for none
  efCut,      \* a write was saved that no read will follow: its click had settled before,
              \* or its answer was lost
  efUsed      \* bounds

efVars == <<efServer, efData, efErr, efRead, efBatch, efWrite, efEditing, efCut, efUsed>>

List == {"categories", "events"}
Visibility == {"gone", "hidden", "shown"}
CategoryList == [EfCategory -> Visibility]
EventList == [EfEvent -> EfCategory \cup {"none"}]
ListValue == CategoryList \cup EventList
NoBatch == [to |-> "shown", asked |-> {}, failed |-> {}, open |-> FALSE]
EfClick == 1..EfMaxActs
NoWrite == [op |-> "none", event |-> NoEf, category |-> NoEf, phase |-> "none"]
EfOp == {"create", "update", "deleteEvent", "deleteCategory"}

EfTypeOK ==
  /\ efServer \in [List -> ListValue] /\ efServer["categories"] \in CategoryList
  /\ \A q \in List : efData[q] \in ListValue \cup {NoEf}
  /\ efErr \in [List -> BOOLEAN]
  /\ \A q \in List : efRead[q].phase \in {"none", "asked", "served", "failed"}
  /\ \A k \in EfClick : /\ efBatch[k].to \in {"hidden", "shown"} /\ efBatch[k].open \in BOOLEAN
                      /\ efBatch[k].asked \subseteq EfCategory /\ efBatch[k].failed \subseteq EfCategory
  /\ efWrite.op \in EfOp \cup {"none"} /\ efWrite.phase \in {"none", "asked", "ok", "failed"}
  /\ efEditing \in EfEvent \cup {"new"}
  /\ efCut \in [List -> BOOLEAN]
  /\ efUsed \in [acts : 0..EfMaxActs, faults : 0..EfMaxFaults]

EfIdle == [phase |-> "none", value |-> NoEf]
Asked == [phase |-> "asked", value |-> NoEf]

\* EfStart: the page opens on two lists; both queries ask for theirs.
EfInit ==
  /\ efServer = [q \in List |-> IF q = "categories" THEN [c \in EfCategory |-> "shown"]
                                ELSE [e \in EfEvent |-> CHOOSE c \in EfOwn : TRUE]]
  /\ efData = [q \in List |-> NoEf]
  /\ efErr = [q \in List |-> FALSE]
  /\ efRead = [q \in List |-> Asked]
  /\ efBatch = [k \in EfClick |-> NoBatch]
  /\ efWrite = NoWrite /\ efEditing = "new"
  /\ efCut = [q \in List |-> FALSE]
  /\ efUsed = [acts |-> 0, faults |-> 0]

Status ==
  IF \E q \in List : efErr[q] THEN "unavailable"
  ELSE IF \E q \in List : efData[q] = NoEf THEN "loading" ELSE "ready"

\* buildEventLines: the events a chart draws.
EfLines ==
  IF Status # "ready" THEN {}
  ELSE {e \in EfEvent : LET c == efData["events"][e] IN
                          c \in EfCategory /\ efData["categories"][c] = "shown"}

EfFault == efUsed.faults < EfMaxFaults /\ efUsed' = [efUsed EXCEPT !.faults = @ + 1]

\* GET /market/event-categories and GET /market/events.
EfReadServed(q) ==
  /\ efRead[q].phase = "asked"
  /\ \/ efRead' = [efRead EXCEPT ![q] = [phase |-> "served", value |-> efServer[q]]] /\ UNCHANGED efUsed
     \/ efRead' = [efRead EXCEPT ![q] = [phase |-> "failed", value |-> NoEf]] /\ EfFault
  /\ UNCHANGED <<efServer, efData, efErr, efBatch, efWrite, efEditing, efCut>>

\* The answer, or the failure of the second attempt: old data stays beside an error.
EfReadAnswered(q) ==
  /\ efRead[q].phase \in {"served", "failed"}
  /\ efErr' = [efErr EXCEPT ![q] = efRead[q].phase = "failed"]
  /\ efData' = [efData EXCEPT ![q] = IF efRead[q].phase = "served" THEN efRead[q].value ELSE @]
  /\ efRead' = [efRead EXCEPT ![q] = EfIdle]
  /\ UNCHANGED <<efServer, efBatch, efWrite, efEditing, efCut, efUsed>>

\* Retry, of the filter or of the page: refetch.
EfRetry ==
  /\ Status = "unavailable" /\ \E q \in List : efRead[q].phase = "none"
  /\ efRead' = [q \in List |-> Asked] /\ efCut' = [q \in List |-> FALSE]
  /\ UNCHANGED <<efServer, efData, efErr, efBatch, efWrite, efEditing, efUsed>>

\* cancelQueries of mutate: reverts the query, and its error with it.
ReadsAfterClick == [efRead EXCEPT !["categories"] = EfIdle]

\* The checkbox of a category, All or None: the cache is written, one PATCH each.
ClickFilter(changed, to) ==
  /\ Status = "ready" /\ efUsed.acts < EfMaxActs /\ changed # {}
  /\ \A c \in changed : efData["categories"][c] \in {"hidden", "shown"} \ {to}
  /\ efRead' = ReadsAfterClick
  /\ efData' = [efData EXCEPT !["categories"] =
                  [c \in EfCategory |-> IF c \in changed THEN to ELSE @[c]]]
  /\ efUsed' = [efUsed EXCEPT !.acts = @ + 1]
  /\ efBatch' = [efBatch EXCEPT ![efUsed.acts + 1] =
                   [to |-> to, asked |-> changed, failed |-> {}, open |-> TRUE]]
  /\ UNCHANGED <<efServer, efErr, efWrite, efEditing, efCut>>
ToggleCategory(c) == \E to \in {"hidden", "shown"} : ClickFilter({c}, to)
ShowAll == ClickFilter({c \in EfCategory : efData["categories"][c] = "hidden"}, "shown")
ShowNone == ClickFilter({c \in EfCategory : efData["categories"][c] = "shown"}, "hidden")

\* PATCH of one category: saved; refused because the category is gone; not served; or saved with
\* its answer lost.
PatchServed(k, c) ==
  /\ c \in efBatch[k].asked
  /\ \/ /\ efServer["categories"][c] # "gone"
        /\ efServer' = [efServer EXCEPT !["categories"] = [@ EXCEPT ![c] = efBatch[k].to]]
        /\ \/ efBatch' = [efBatch EXCEPT ![k].asked = @ \ {c}] /\ UNCHANGED efUsed
           \/ efBatch' = [efBatch EXCEPT ![k].asked = @ \ {c}, ![k].failed = @ \cup {c}] /\ EfFault
     \/ /\ efBatch' = [efBatch EXCEPT ![k].asked = @ \ {c}, ![k].failed = @ \cup {c}]
        /\ UNCHANGED efServer
        /\ IF efServer["categories"][c] = "gone" THEN UNCHANGED efUsed ELSE EfFault
  /\ efCut' = [efCut EXCEPT !["categories"] = @ \/ ~ efBatch[k].open]
  /\ UNCHANGED <<efData, efErr, efRead, efWrite, efEditing>>

\* Promise.all settles: every PATCH answered, or one failed.  The categories are read again.
ClickSettles(k) ==
  /\ efBatch[k].open /\ (efBatch[k].asked = {} \/ efBatch[k].failed # {})
  /\ efBatch' = [efBatch EXCEPT ![k].open = FALSE]
  /\ efRead' = [efRead EXCEPT !["categories"] = Asked]
  /\ efCut' = [efCut EXCEPT !["categories"] = FALSE]
  /\ UNCHANGED <<efServer, efData, efErr, efWrite, efEditing, efUsed>>

\* The events page is shown when both lists are there.
Write(op, e, c) ==
  /\ Status = "ready" /\ efWrite = NoWrite /\ efUsed.acts < EfMaxActs
  /\ efWrite' = [op |-> op, event |-> e, category |-> c, phase |-> "asked"]
  /\ efUsed' = [efUsed EXCEPT !.acts = @ + 1]
  /\ UNCHANGED <<efServer, efData, efErr, efRead, efBatch, efEditing, efCut>>
Offered(c) == efData["categories"][c] # "gone"

\* The form: a new event, or the one being edited.  Its options are the categories.
SubmitForm(e, c) ==
  /\ Status = "ready" /\ Offered(c)
  /\ IF efEditing = "new" THEN efServer["events"][e] = "none" /\ Write("create", e, c)
     ELSE e = efEditing /\ Write("update", e, c)
\* The table: Edit puts an event in the form, Delete asks twice and sends the DELETE.
EditEvent(e) ==
  /\ Status = "ready" /\ efData["events"][e] # "none" /\ efEditing' = e
  /\ UNCHANGED <<efServer, efData, efErr, efRead, efBatch, efWrite, efCut, efUsed>>
CancelEdit ==
  /\ Status = "ready" /\ efEditing # "new" /\ efEditing' = "new"
  /\ UNCHANGED <<efServer, efData, efErr, efRead, efBatch, efWrite, efCut, efUsed>>
DeleteEvent(e) == Status = "ready" /\ efData["events"][e] # "none" /\ Write("deleteEvent", e, NoEf)
\* A category of the user's that no listed event of theirs uses may be deleted.
DeleteCategory(c) ==
  /\ Status = "ready" /\ c \in EfOwn /\ Offered(c)
  /\ \A e \in EfEvent : efData["events"][e] # c
  /\ Write("deleteCategory", NoEf, c)

\* The server checks a write against what is saved by then.
Accepted ==
  LET E == efServer["events"]  C == efServer["categories"] IN
  CASE efWrite.op = "create" -> C[efWrite.category] # "gone"
    [] efWrite.op = "update" -> C[efWrite.category] # "gone" /\ E[efWrite.event] # "none"
    [] efWrite.op = "deleteEvent" -> E[efWrite.event] # "none"
    [] efWrite.op = "deleteCategory" -> \A e \in EfEvent : E[e] # efWrite.category
Written ==
  IF ~ Accepted THEN efServer
  ELSE CASE efWrite.op \in {"create", "update"} ->
              [efServer EXCEPT !["events"] = [@ EXCEPT ![efWrite.event] = efWrite.category]]
         [] efWrite.op = "deleteEvent" ->
              [efServer EXCEPT !["events"] = [@ EXCEPT ![efWrite.event] = "none"]]
         [] efWrite.op = "deleteCategory" ->
              [efServer EXCEPT !["categories"] = [@ EXCEPT ![efWrite.category] = "gone"]]
EfWriteServed ==
  /\ efWrite.phase = "asked"
  /\ \/ /\ efServer' = Written
        /\ efWrite' = [efWrite EXCEPT !.phase = IF Accepted THEN "ok" ELSE "failed"]
        /\ UNCHANGED <<efCut, efUsed>>
     \/ /\ efWrite' = [efWrite EXCEPT !.phase = "failed"] /\ EfFault
        /\ \/ UNCHANGED <<efServer, efCut>>
           \/ efServer' = Written /\ efCut' = [q \in List |-> TRUE]
  /\ UNCHANGED <<efData, efErr, efRead, efBatch, efEditing>>

\* Defect: a write re-reads the list it wrote to only.
OneList == IF efWrite.op = "deleteCategory" THEN {"categories"} ELSE {"events"}
\* onSuccess of useEventsWrite: both lists are read again.
ListsReRead == List

\* The answer of a write: a form that saved an edit is empty again.
EfWriteAnswered ==
  /\ efWrite.phase \in {"ok", "failed"}
  /\ efWrite' = NoWrite
  /\ efRead' = IF efWrite.phase = "ok"
               THEN [q \in List |-> IF q \in ListsReRead THEN Asked ELSE efRead[q]] ELSE efRead
  /\ efEditing' = IF efWrite.op = "update" /\ efWrite.phase = "ok" THEN "new" ELSE efEditing
  /\ efCut' = IF efWrite.phase = "ok" THEN [q \in List |-> FALSE] ELSE efCut
  /\ UNCHANGED <<efServer, efData, efErr, efBatch, efUsed>>

EfNext ==
  \/ \E q \in List : EfReadServed(q) \/ EfReadAnswered(q)
  \/ EfRetry \/ ShowAll \/ ShowNone \/ CancelEdit
  \/ \E c \in EfCategory : ToggleCategory(c) \/ DeleteCategory(c)
  \/ \E k \in EfClick : ClickSettles(k) \/ \E c \in EfCategory : PatchServed(k, c)
  \/ \E e \in EfEvent : EditEvent(e) \/ DeleteEvent(e) \/ \E c \in EfCategory : SubmitForm(e, c)
  \/ EfWriteServed \/ EfWriteAnswered

EfSpec == EfInit /\ [][EfNext]_efVars

-----------------------------------------------------------------------------
EfQuiet ==
  /\ \A q \in List : efRead[q] = EfIdle
  /\ \A k \in EfClick : ~ efBatch[k].open /\ efBatch[k].asked = {}
  /\ efWrite = NoWrite

\* Once every request is answered the filter, the charts and the events page show the categories
\* and events that are saved, whatever clicks, writes and failures were in flight together; a
\* PATCH saved after its click settled and a write whose answer was lost are the exceptions, until
\* the next read.
FilterShowsSaved ==
  EfQuiet /\ Status = "ready" =>
    \A q \in List : ~ efCut[q] => efData[q] = efServer[q]
=============================================================================
