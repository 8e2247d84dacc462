------------------------------ MODULE CaseFork ------------------------------
(***************************************************************************)
(* The list of valuation cases and the form that forks one of them         *)
(* (app/cases/page.tsx, components/ForkSection.tsx, changeRows.ts): rows   *)
(* of changed inputs, what is wrong with each, the request made of them,   *)
(* the server's refusal, and the list that is read again.                  *)
(*                                                                         *)
(* The server (apps/api/services/case_fork.py) keeps names unique and      *)
(* stores the parent with the changes.  A form is mounted anew each time   *)
(* its page is opened; its request outlives it.                            *)
(***************************************************************************)
EXTENDS Integers, Sequences, FiniteSets, TLC

CONSTANTS
  CfTarget,    \* the inputs a row can name: [scope, field, narrated, integer]
  CfRoot,      \* the stored case: its value of each, in tenths
  CfTyped,     \* values a user can type, in tenths
  NoCf,        \* nothing chosen, typed, stored or read
  CfMaxRows,   \* bound: rows of a form
  CfMaxLate,   \* bound: edits after a request was sent
  CfMaxSends,  \* bound: requests
  CfMaxVisits, \* bound: links followed
  CfMaxFaults  \* bound: requests and answers that are lost

ASSUME CfAssumption ==
  /\ CfTarget \subseteq [scope : STRING, field : STRING, narrated : BOOLEAN, integer : BOOLEAN]
  /\ CfRoot \in [CfTarget -> Int] /\ CfTyped \subseteq Int
  /\ CfMaxRows \in Nat /\ CfMaxLate \in Nat /\ CfMaxSends \in Nat
  /\ CfMaxVisits \in Nat /\ CfMaxFaults \in Nat
  /\ \A listed \in SUBSET {"root", "fork"} : listed # NoCf

VARIABLES
  cfHere,     \* the page: "list", "root" or "fork"
  cfVisit,    \* how many pages were opened: tells one form from a later one
  cfRows,     \* rows of the form
  cfNextId,   \* nextId
  cfNamed,    \* the form has a name
  cfSaid,     \* submitted, refusal and failed
  cfPosts,    \* requests whose answer has not arrived
  cfFork,     \* the fork that is stored, if one is
  cfList,     \* the query of the list
  cfUnsure,   \* an answer was lost, or the list answered late after it was invalidated
  cfUsed      \* bounds

cfVars == <<cfHere, cfVisit, cfRows, cfNextId, cfNamed, cfSaid, cfPosts, cfFork, cfList,
            cfUnsure, cfUsed>>
cfForm == <<cfRows, cfNextId, cfNamed>>

\* What the picker of a row offers.
Pickable == CfTarget \cup {NoCf}
CfRow == [id : Nat \ {0}, key : Pickable, value : CfTyped \cup {NoCf}, claim : BOOLEAN]
CfField == {t.field : t \in CfTarget}
NoRefusal == [name |-> FALSE, rows |-> {}, before |-> 0]
NothingSaid == [submitted |-> FALSE, refusal |-> NoRefusal, failed |-> FALSE]
CfStored == {"root"} \cup IF cfFork = NoCf THEN {} ELSE {"fork"}
ValuesOf(case) == IF case = "root" THEN CfRoot ELSE cfFork.values

CfTypeOK ==
  /\ cfHere \in {"list"} \cup CfStored /\ cfVisit \in 0..(CfMaxVisits + CfMaxSends)
  /\ Len(cfRows) <= CfMaxRows /\ \A i \in DOMAIN cfRows : cfRows[i] \in CfRow
  /\ cfNextId \in Nat /\ cfNamed \in BOOLEAN
  /\ cfSaid.submitted \in BOOLEAN /\ cfSaid.failed \in BOOLEAN
  /\ cfSaid.refusal \in [name : BOOLEAN, rows : SUBSET Nat, before : Nat]
  /\ \A p \in cfPosts : p.phase \in {"sent", "served", "refused"} /\ p.parent \in CfStored
  /\ cfFork = NoCf \/ DOMAIN cfFork.values = CfTarget
  /\ cfList \in [data : SUBSET {"root", "fork"}, asked : {NoCf} \cup SUBSET {"root", "fork"},
                 stale : BOOLEAN]
  /\ cfUnsure \in BOOLEAN
  /\ cfUsed \in [late : 0..CfMaxLate, sends : 0..CfMaxSends, links : 0..CfMaxVisits, faults : 0..CfMaxFaults]

\* The form of the stored case, opened from the list.
CfInit ==
  /\ cfHere = "root" /\ cfVisit = 0
  /\ cfRows = <<>> /\ cfNextId = 1 /\ cfNamed = FALSE /\ cfSaid = NothingSaid
  /\ cfPosts = {} /\ cfFork = NoCf
  /\ cfList = [data |-> {"root"}, asked |-> NoCf, stale |-> FALSE]
  /\ cfUnsure = FALSE
  /\ cfUsed = [late |-> 0, sends |-> 0, links |-> 0, faults |-> 0]

-----------------------------------------------------------------------------
(* buildForkRequest: what a form says.                                     *)

\* The first row of a field counts; the later ones are refused.
FirstOfKey(i) == \A j \in 1..(i - 1) : cfRows[j].key # cfRows[i].key
Parses(row) == row.value # NoCf /\ (row.key.integer => row.value % 10 = 0)
\* The row is for a field, the first for it, and has a value.
Readable(i) == cfRows[i].key # NoCf /\ FirstOfKey(i) /\ Parses(cfRows[i])
Unchanged(i) == Readable(i) /\ cfRows[i].value = ValuesOf(cfHere)[cfRows[i].key]
\* Counted whether or not its claim is missing.
RowChanged(i) == Readable(i) /\ ~ Unchanged(i)
LacksClaim(i) == RowChanged(i) /\ cfRows[i].key.narrated /\ ~ cfRows[i].claim

Problems == {cfRows[i].id : i \in {j \in DOMAIN cfRows : ~ Readable(j) \/ LacksClaim(j)}}
ChangedCount == Cardinality({i \in DOMAIN cfRows : RowChanged(i)})

\* place: a segment's overrides are joined by one more.
Place(overrides, target, leaf) ==
  (target.scope :> ((target.field :> leaf)
      @@ (IF target.scope \in DOMAIN overrides THEN overrides[target.scope] ELSE <<>>))) @@ overrides

\* request.overrides, row after row.
OverridesTo[n \in 0..CfMaxRows] ==
  IF n = 0 THEN <<>>
  ELSE IF n \in DOMAIN cfRows /\ RowChanged(n) /\ ~ LacksClaim(n)
       THEN Place(OverridesTo[n - 1], cfRows[n].key,
                  [value |-> cfRows[n].value, claim |-> cfRows[n].key.narrated])
       ELSE OverridesTo[n - 1]
ForkRequest == OverridesTo[CfMaxRows]

\* What the user sees being asked for: the changed rows.
AskedOnScreen == {<<cfRows[i].key, cfRows[i].value>> : i \in {j \in DOMAIN cfRows : RowChanged(j)}}

\* rowsNamedIn: rows for a field of that name, of any segment.
RowsNamed(field) ==
  {cfRows[i].id : i \in {j \in DOMAIN cfRows : cfRows[j].key # NoCf /\ cfRows[j].key.field = field}}

-----------------------------------------------------------------------------
(* The user at the form.                                                   *)

\* Edits after a request was sent are bounded.
CfEdit ==
  /\ cfHere # "list"
  /\ (cfUsed.sends > 0 => cfUsed.late < CfMaxLate)
  /\ cfUsed' = IF cfUsed.sends > 0 THEN [cfUsed EXCEPT !.late = @ + 1] ELSE cfUsed
  /\ UNCHANGED <<cfHere, cfVisit, cfSaid, cfPosts, cfFork, cfList, cfUnsure>>

AddRow ==
  /\ Len(cfRows) < CfMaxRows /\ cfNextId <= CfMaxRows + 1
  /\ cfRows' = Append(cfRows, [id |-> cfNextId, key |-> NoCf, value |-> NoCf, claim |-> FALSE])
  /\ cfNextId' = cfNextId + 1
  /\ CfEdit /\ UNCHANGED cfNamed

RemoveRow(id) ==
  /\ \E i \in DOMAIN cfRows : cfRows[i].id = id
  /\ cfRows' = SelectSeq(cfRows, LAMBDA r : r.id # id)
  /\ CfEdit /\ UNCHANGED <<cfNextId, cfNamed>>

\* update: every row of that id.
UpdateRow(id, key, value, claim) ==
  /\ \E i \in DOMAIN cfRows :
       /\ cfRows[i].id = id
       /\ Cardinality({x \in {"key", "value", "claim"} :
            cfRows[i][x] # [key |-> key, value |-> value, claim |-> claim][x]}) = 1
       /\ (claim # cfRows[i].claim => key # NoCf /\ key.narrated)
  /\ cfRows' = [i \in DOMAIN cfRows |->
                  IF cfRows[i].id = id
                  THEN [cfRows[i] EXCEPT !.key = key, !.value = value, !.claim = claim]
                  ELSE cfRows[i]]
  /\ CfEdit /\ UNCHANGED <<cfNextId, cfNamed>>

NameFork ==
  /\ cfNamed' = ~ cfNamed
  /\ CfEdit /\ UNCHANGED <<cfRows, cfNextId>>

\* mutation.isPending: of this form alone.
CfPending == \E p \in cfPosts : p.form = cfVisit

\* submit: what it said before is cleared even when nothing is sent.
CfSubmit ==
  /\ cfHere # "list" /\ ~ CfPending
  /\ cfSaid' = [NothingSaid EXCEPT !.submitted = TRUE]
  /\ LET sends == cfNamed /\ ChangedCount > 0 /\ Problems = {} IN
     /\ (sends => cfUsed.sends < CfMaxSends)
     /\ cfPosts' = IF sends
                   THEN cfPosts \cup {[form |-> cfVisit, parent |-> cfHere, overrides |-> ForkRequest,
                                       asked |-> AskedOnScreen, count |-> ChangedCount,
                                       phase |-> "sent", why |-> NoCf]}
                   ELSE cfPosts
     /\ cfUsed' = IF sends THEN [cfUsed EXCEPT !.sends = @ + 1] ELSE cfUsed
  /\ UNCHANGED <<cfHere, cfVisit, cfForm, cfFork, cfList, cfUnsure>>

-----------------------------------------------------------------------------
(* The server.                                                             *)

Overridden(overrides) ==
  {t \in CfTarget : t.scope \in DOMAIN overrides /\ t.field \in DOMAIN overrides[t.scope]}

Becomes(p, phase, why) == cfPosts' = (cfPosts \ {p}) \cup {[p EXCEPT !.phase = phase, !.why = why]}

\* fork_case: the parent's values, and its claims, but for what is overridden.
ForkServed(p) ==
  /\ p \in cfPosts /\ p.phase = "sent" /\ cfFork = NoCf
  /\ cfFork' = [parent |-> p.parent,
                values |-> [t \in CfTarget |-> IF t \in Overridden(p.overrides)
                                               THEN p.overrides[t.scope][t.field].value
                                               ELSE ValuesOf(p.parent)[t]],
                claimed |-> {t \in Overridden(p.overrides) : p.overrides[t.scope][t.field].claim},
                asked |-> p.asked, count |-> p.count]
  /\ Becomes(p, "served", NoCf)
  /\ UNCHANGED <<cfHere, cfVisit, cfForm, cfSaid, cfList, cfUnsure, cfUsed>>

\* An answer of the server that refuses: content, not a failure.
IsRefusal(p) == p.phase = "refused"

\* The name is taken, or the engine cannot run the case and names one of its inputs.
ForkRefused(p, why) ==
  /\ p \in cfPosts /\ p.phase = "sent"
  /\ IF cfFork # NoCf THEN why = "name" ELSE why \in {t.field : t \in Overridden(p.overrides)}
  /\ Becomes(p, "refused", why)
  /\ UNCHANGED <<cfHere, cfVisit, cfForm, cfSaid, cfFork, cfList, cfUnsure, cfUsed>>

-----------------------------------------------------------------------------
(* The answers.                                                            *)

\* A page is opened with a form of its own; the list is read if it is not fresh.
FormOpened(page, list, old) ==
  /\ cfHere' = page /\ cfVisit' = cfVisit + 1
  /\ cfRows' = <<>> /\ cfNextId' = 1 /\ cfNamed' = FALSE /\ cfSaid' = NothingSaid
  /\ cfList' = IF page = "list" /\ list.asked = NoCf /\ (list.stale \/ old)
               THEN [list EXCEPT !.asked = CfStored] ELSE list

\* invalidateQueries: the list that is on screen is read anew, another is marked; a read of
\* it that is still under way will clear the mark.
ListInvalidated ==
  IF cfHere = "list" THEN [cfList EXCEPT !.asked = CfStored, !.stale = TRUE]
  ELSE [cfList EXCEPT !.stale = TRUE]

\* onSuccess, of a form that may be gone: the new case is opened.
ForkAnswered(p) ==
  /\ p \in cfPosts /\ p.phase = "served"
  /\ cfPosts' = cfPosts \ {p}
  /\ FormOpened("fork", ListInvalidated, FALSE)
  /\ cfUnsure' = (cfUnsure \/ (cfHere # "list" /\ cfList.asked # NoCf))
  /\ UNCHANGED <<cfFork, cfUsed>>

\* onError: a refusal names rows of the form as it is now.
RefusalAnswered(p) ==
  /\ p \in cfPosts /\ IsRefusal(p)
  /\ cfPosts' = cfPosts \ {p}
  /\ cfSaid' = IF p.form # cfVisit THEN cfSaid
               ELSE [cfSaid EXCEPT !.refusal = [name |-> p.why = "name", rows |-> RowsNamed(p.why),
                                                before |-> cfNextId]]
  /\ UNCHANGED <<cfHere, cfVisit, cfForm, cfFork, cfList, cfUnsure, cfUsed>>

\* The request or its answer is lost.
ForkFailed(p) ==
  /\ p \in cfPosts /\ cfUsed.faults < CfMaxFaults
  /\ cfPosts' = cfPosts \ {p}
  /\ cfSaid' = IF p.form # cfVisit THEN cfSaid ELSE [cfSaid EXCEPT !.failed = TRUE]
  /\ cfUnsure' = (cfUnsure \/ p.phase = "served")
  /\ cfUsed' = [cfUsed EXCEPT !.faults = @ + 1]
  /\ UNCHANGED <<cfHere, cfVisit, cfForm, cfFork, cfList>>

\* The list: as it was when it was asked for, or as it is now.
CaseListRead(now) ==
  /\ cfList.asked # NoCf
  /\ now \in {cfList.asked, CfStored}
  /\ cfList' = [data |-> now, asked |-> NoCf, stale |-> FALSE]
  /\ UNCHANGED <<cfHere, cfVisit, cfForm, cfSaid, cfPosts, cfFork, cfUnsure, cfUsed>>

\* A link: to the list, to a row of it, to the parent.
OpenCasePage(to, old) ==
  /\ cfUsed.links < CfMaxVisits
  /\ \/ to = "list"
     \/ cfHere = "list" /\ to \in cfList.data
     \/ cfHere = "fork" /\ to = cfFork.parent
  /\ to # cfHere
  /\ FormOpened(to, cfList, old)
  /\ cfUsed' = [cfUsed EXCEPT !.links = @ + 1]
  /\ UNCHANGED <<cfPosts, cfFork, cfUnsure>>

CfNext ==
  \/ AddRow \/ NameFork \/ CfSubmit
  \/ \E id \in 1..cfNextId : RemoveRow(id)
  \/ \E id \in 1..cfNextId, key \in Pickable, value \in CfTyped \cup {NoCf}, claim \in BOOLEAN :
       UpdateRow(id, key, value, claim)
  \/ \E p \in cfPosts :
       \/ ForkServed(p) \/ ForkAnswered(p) \/ RefusalAnswered(p) \/ ForkFailed(p)
       \/ \E why \in CfField \cup {"name"} : ForkRefused(p, why)
  \/ \E now \in SUBSET {"root", "fork"} : CaseListRead(now)
  \/ \E to \in {"list"} \cup CfStored, old \in BOOLEAN : OpenCasePage(to, old)

CfSpec == CfInit /\ [][CfNext]_cfVars

-----------------------------------------------------------------------------
\* A stored fork is its parent with the changes that were on screen, no more and no fewer,
\* as many as the counter said, and every changed figure that needs a claim has its own.
ForkIsAsked ==
  cfFork # NoCf =>
    /\ {t \in CfTarget : cfFork.values[t] # ValuesOf(cfFork.parent)[t]} = {a[1] : a \in cfFork.asked}
    /\ \A a \in cfFork.asked : cfFork.values[a[1]] = a[2]
    /\ Cardinality(cfFork.asked) = cfFork.count
    /\ cfFork.claimed = {a[1] : a \in {b \in cfFork.asked : b[1].narrated}}

\* A row has a number of its own, and one that was added after a refusal is not marked by it.
RowsAreOwn ==
  /\ \A i, j \in DOMAIN cfRows : cfRows[i].id = cfRows[j].id => i = j
  /\ \A id \in cfSaid.refusal.rows : id < cfSaid.refusal.before

\* The list that is on screen and not being read shows every case, once a fork is answered
\* (its own answer lost, or a read of the list that outlives its page, leave it behind).
ListIsWhole ==
  cfHere = "list" /\ cfList.asked = NoCf /\ cfPosts = {} /\ ~ cfUnsure => cfList.data = CfStored

\* The form of a fork holds together.
FormHolds == ForkIsAsked /\ RowsAreOwn
=============================================================================
