---------------------------- MODULE RecordsPage ----------------------------
(***************************************************************************)
(* The page of signal records (app/alerts/[[...slug]]/page.tsx): a table   *)
(* of three lists under filters, and the report of the record that the     *)
(* address names.  The filters are state and are also in the address; both *)
(* write the other (lib/recordsAddress.ts).                                *)
(*                                                                         *)
(* External is the router: it has one navigation under way, which a later  *)
(* one discards, writes the history when a navigation lands, and mounts    *)
(* the page anew when the path of the address changes, not when only its   *)
(* query does.  A render and what it sets are one step.                    *)
(***************************************************************************)
EXTENDS Integers, Sequences, FiniteSets

CONSTANTS
  RdSource,     \* the kinds of records: one list each
  RdRows,       \* the records there are: [kind, id, date, shown], shown for a surge
  RdStrange,    \* a record that is none of them, well-formed in an address
  RdDay,        \* days a filter can name
  RdNewest,     \* the length of a list (HISTORY_LIMIT)
  RdPageSize,   \* rows added by "more" (PAGE_SIZE)
  RdMaxActs,    \* bound: filters, rows, "more", links, back and forward
  RdMaxFaults   \* bound: reads that fail

NoDay == 0
NoRd == [kind |-> "none", id |-> 0, date |-> NoDay, shown |-> FALSE]
IllFormed == [kind |-> "weather", id |-> 0, date |-> NoDay, shown |-> FALSE]

ASSUME RdAssumption ==
  /\ RdDay \subseteq Nat \ {NoDay} /\ "surge" \in RdSource /\ RdSource \subseteq {"risk", "surge", "movers"}
  /\ \A r \in RdRows : r.kind \in RdSource /\ r.date \in Nat \ {NoDay}
  /\ RdStrange.kind \in RdSource /\ RdStrange \notin RdRows
  /\ RdNewest \in Nat \ {0} /\ RdPageSize \in Nat \ {0}
  /\ RdMaxActs \in Nat /\ RdMaxFaults \in Nat

VARIABLES
  rdHistory,   \* the browser's entries, each an address: [row, query]
  rdAt,        \* which of them the page is on
  rdNav,       \* the router's navigation under way
  rdFilters,   \* filters
  rdPending,   \* pending: queries written that the address has not reached
  rdSeen,      \* seenAddress
  rdPages,     \* page.limit, in pages
  rdList,      \* the three queries
  rdDetail,    \* the queries of the reports
  rdOvertaken, \* a move from outside discarded a write of this page
  rdUsed       \* bounds

rdVars == <<rdHistory, rdAt, rdNav, rdFilters, rdPending, rdSeen, rdPages, rdList,
            rdDetail, rdOvertaken, rdUsed>>

RdFilter == [kind : RdSource \cup {"all"}, from : RdDay \cup {NoDay}, to : RdDay \cup {NoDay},
             shown : BOOLEAN]
AllRecords == [kind |-> "all", from |-> NoDay, to |-> NoDay, shown |-> FALSE]

\* A query typed by hand may say what no filter does: a kind that is none, a day that
\* is in no calendar, "shown" without "surge".
TypedByHand == [kind |-> "weather", from |-> -1, to |-> NoDay, shown |-> TRUE]
RdQuery == RdFilter \cup {TypedByHand}
RdAddress == [row : RdRows \cup {NoRd, RdStrange, IllFormed}, query : RdQuery]

\* parseFilters
Parse(q) ==
  LET kind == IF q.kind \in RdSource THEN q.kind ELSE "all"
      day(d) == IF d \in RdDay THEN d ELSE NoDay
  IN  [kind |-> kind, from |-> day(q.from), to |-> day(q.to),
       shown |-> kind = "surge" /\ q.shown]

Here == rdHistory[rdAt]
HereQuery == Parse(Here.query)

NoNav == [how |-> "none", own |-> FALSE, to |-> [row |-> NoRd, query |-> AllRecords]]

RdTypeOK ==
  /\ rdHistory \in Seq(RdAddress) /\ rdAt \in DOMAIN rdHistory
  /\ rdNav \in [how : {"none", "push", "replace"}, own : BOOLEAN, to : RdAddress]
  /\ rdFilters \in RdFilter /\ rdPending \in Seq(RdFilter) /\ rdSeen \in RdFilter
  /\ rdPages \in 1..(RdMaxActs + 1)
  /\ rdList \in [RdSource -> [data : BOOLEAN, asked : BOOLEAN, error : BOOLEAN]]
  /\ rdDetail \in [RdRows -> {"unread", "read", "failed"}]
  /\ rdOvertaken \in BOOLEAN
  /\ rdUsed \in [acts : 0..RdMaxActs, faults : 0..RdMaxFaults]

\* The page is opened at some address, with nothing read yet.
RdInit ==
  /\ \E row \in RdRows \cup {NoRd, RdStrange, IllFormed}, q \in {AllRecords, TypedByHand} :
       rdHistory = <<[row |-> row, query |-> q]>>
  /\ rdAt = 1 /\ rdNav = NoNav
  /\ rdFilters = Parse(rdHistory[1].query) /\ rdPending = <<>>
  /\ rdSeen = Parse(rdHistory[1].query) /\ rdPages = 1
  /\ rdList = [s \in RdSource |-> [data |-> FALSE, asked |-> TRUE, error |-> FALSE]]
  /\ rdDetail = [r \in RdRows |-> "unread"]
  /\ rdOvertaken = FALSE
  /\ rdUsed = [acts |-> 0, faults |-> 0]

-----------------------------------------------------------------------------
(* syncAddress: one render's step.                                         *)

\* The first of the pending writes that is this query, 0 if none is.
FirstAt(pending, q) ==
  LET at == {i \in DOMAIN pending : pending[i] = q}
  IN  IF at = {} THEN 0 ELSE CHOOSE i \in at : \A j \in at : i <= j

\* An address that is a pending write is this page's own; another came from outside
\* and the filters follow it.
Sync(pending, seen, address, current) ==
  LET at == FirstAt(pending, address)
      left == IF seen = address THEN pending
              ELSE IF at > 0 THEN SubSeq(pending, at + 1, Len(pending)) ELSE <<>>
      caughtUp == left # <<>> /\ left[Len(left)] = address /\ address = current
  IN  [pending |-> IF caughtUp THEN <<>> ELSE left,
       follow |-> seen # address /\ at = 0 /\ address # current]

\* The render after filters or address changed.
RdRendered(filters, pending, address) ==
  LET sync == Sync(pending, rdSeen, address, filters)
      now == IF sync.follow THEN address ELSE filters
  IN  /\ rdSeen' = address
      /\ rdPending' = sync.pending
      /\ rdFilters' = now
      /\ rdPages' = IF now = rdFilters THEN rdPages ELSE 1

\* The page at another path is mounted: it begins with the filters of its address.
Mounted(query) ==
  /\ rdFilters' = query /\ rdSeen' = query
  /\ rdPending' = <<>> /\ rdPages' = 1

\* The page is moved to an address.
Arrive(address) ==
  LET query == Parse(address.query) IN
  IF address.row = Here.row THEN RdRendered(rdFilters, rdPending, query) ELSE Mounted(query)

-----------------------------------------------------------------------------
(* The table.                                                              *)

Newer(a, b) == a.date > b.date \/ (a.date = b.date /\ a.id > b.id)
\* A list holds the newest of its kind; that of the movers holds all.
InList(s) ==
  {r \in RdRows : r.kind = s
     /\ (s # "movers" => Cardinality({o \in RdRows : o.kind = s /\ Newer(o, r)}) < RdNewest)}
DataOf(s) == IF rdList[s].data THEN InList(s) ELSE {}

\* settled, failedKinds, allFailed, ready
Settled == \A s \in RdSource : rdList[s].data \/ rdList[s].error
FailedKinds == {s \in RdSource : rdList[s].error}
AllFailed == FailedKinds = RdSource
Ready == \A s \in RdSource : rdList[s].data

\* recordRows: newest first, the larger id of a kind before.  Rows of one day and of two
\* kinds keep the order of the lists.
PlaceOf(kind) == CASE kind = "risk" -> 1 [] kind = "surge" -> 2 [] OTHER -> 3
Before(a, b) ==
  \/ a.date > b.date
  \/ /\ a.date = b.date
     /\ IF a.kind = b.kind THEN a.id > b.id ELSE PlaceOf(a.kind) < PlaceOf(b.kind)
Ordered(rows) ==
  CHOOSE q \in [1..Cardinality(rows) -> rows] :
    \A i, j \in 1..Cardinality(rows) : i < j => Before(q[i], q[j])
TableRows ==
  IF Settled /\ ~ AllFailed THEN Ordered(UNION {DataOf(s) : s \in RdSource}) ELSE <<>>

\* matches
RdMatches(r, f) ==
  /\ f.kind \in {"all", r.kind}
  /\ f.from # NoDay => r.date >= f.from
  /\ f.to # NoDay => r.date <= f.to
  /\ (f.shown /\ r.kind = "surge") => r.shown
ShownRows == SelectSeq(TableRows, LAMBDA r : RdMatches(r, rdFilters))

\* visibleRows, moreCount
VisibleRows ==
  SubSeq(ShownRows, 1, IF Len(ShownRows) < rdPages * RdPageSize THEN Len(ShownRows)
                       ELSE rdPages * RdPageSize)
MoreCount ==
  LET rest == Len(ShownRows) - Len(VisibleRows)
  IN  IF rest < RdPageSize THEN rest ELSE RdPageSize

\* What stands where the table is, and the line above it.
RdTable ==
  CASE AllFailed -> "error"
    [] ~ AllFailed /\ ~ Settled -> "loading"
    [] ~ AllFailed /\ Settled /\ FailedKinds # {} -> "partial"
    [] OTHER -> "table"

\* download: the rows and the days its name says.
CsvOffered == Ready /\ ShownRows # <<>>
CsvNamed ==
  [from |-> IF rdFilters.from # NoDay THEN rdFilters.from ELSE ShownRows[Len(ShownRows)].date,
   to |-> IF rdFilters.to # NoDay THEN rdFilters.to ELSE ShownRows[1].date]

-----------------------------------------------------------------------------
(* The report.                                                             *)

\* selected: the record the address names, in its own list, whatever the filters are.
RdSelected == IF \E s \in RdSource : Here.row \in DataOf(s) THEN Here.row ELSE NoRd
NotFound ==
  \/ Here.row = IllFormed
  \/ Here.row.kind \in RdSource /\ rdList[Here.row.kind].data /\ RdSelected = NoRd

\* The report of a record: it waits for its detail, which a movers day has not.
ReportOf(r) == IF r.kind = "movers" THEN "read" ELSE rdDetail[r]

\* What stands on the right: a report waits for its own list alone.
RdReport ==
  CASE NotFound -> "notFound"
    [] ~ NotFound /\ Here.row = NoRd -> "pick"
    [] ~ NotFound /\ Here.row # NoRd /\ rdList[Here.row.kind].error -> "error"
    [] ~ NotFound /\ Here.row # NoRd /\ ~ rdList[Here.row.kind].error /\ RdSelected = NoRd -> "loading"
    [] OTHER -> ReportOf(RdSelected)

\* The detail of a report that is on screen is read; its time changes nothing.
DetailAnswered(ok) ==
  /\ RdSelected # NoRd /\ RdReport = "unread"
  /\ ok \/ rdUsed.faults < RdMaxFaults
  /\ rdDetail' = [rdDetail EXCEPT ![RdSelected] = IF ok THEN "read" ELSE "failed"]
  /\ rdUsed' = IF ok THEN rdUsed ELSE [rdUsed EXCEPT !.faults = @ + 1]
  /\ UNCHANGED <<rdHistory, rdAt, rdNav, rdFilters, rdPending, rdSeen, rdPages, rdList,
                 rdOvertaken>>

\* The retry of a report's detail.
RetryDetail ==
  /\ RdReport = "failed" /\ rdUsed.acts < RdMaxActs
  /\ rdDetail' = [rdDetail EXCEPT ![RdSelected] = "unread"]
  /\ rdUsed' = [rdUsed EXCEPT !.acts = @ + 1]
  /\ UNCHANGED <<rdHistory, rdAt, rdNav, rdFilters, rdPending, rdSeen, rdPages, rdList,
                 rdOvertaken>>

-----------------------------------------------------------------------------
(* The lists.                                                              *)

RdListRead(s, ok) ==
  /\ rdList[s].asked
  /\ ok \/ rdUsed.faults < RdMaxFaults
  /\ rdList' = [rdList EXCEPT ![s] = [data |-> rdList[s].data \/ ok, asked |-> FALSE, error |-> ~ ok]]
  /\ rdUsed' = IF ok THEN rdUsed ELSE [rdUsed EXCEPT !.faults = @ + 1]
  /\ UNCHANGED <<rdHistory, rdAt, rdNav, rdFilters, rdPending, rdSeen, rdPages, rdDetail,
                 rdOvertaken>>

\* retryFailed, of the table or of the line above it: a list without data is loading
\* again, and with it the table.
RetryFailed ==
  /\ RdTable \in {"error", "partial"} /\ rdUsed.acts < RdMaxActs
  /\ rdList' = [s \in RdSource |->
                  IF rdList[s].error
                  THEN [rdList[s] EXCEPT !.asked = TRUE, !.error = rdList[s].data]
                  ELSE rdList[s]]
  /\ rdUsed' = [rdUsed EXCEPT !.acts = @ + 1]
  /\ UNCHANGED <<rdHistory, rdAt, rdNav, rdFilters, rdPending, rdSeen, rdPages, rdDetail,
                 rdOvertaken>>

\* A list that is a minute old is read again when the window gets the focus.
FocusReads ==
  /\ rdUsed.acts < RdMaxActs
  /\ \E s \in RdSource : rdList[s].data /\ ~ rdList[s].asked
  /\ rdList' = [s \in RdSource |-> [rdList[s] EXCEPT !.asked = @ \/ rdList[s].data]]
  /\ rdUsed' = [rdUsed EXCEPT !.acts = @ + 1]
  /\ UNCHANGED <<rdHistory, rdAt, rdNav, rdFilters, rdPending, rdSeen, rdPages, rdDetail,
                 rdOvertaken>>

-----------------------------------------------------------------------------
(* The user and the router.                                                *)

RdAct == rdUsed.acts < RdMaxActs /\ rdUsed' = [rdUsed EXCEPT !.acts = @ + 1]

\* setFilters: state first, then the address, at the path that is shown.
SetFilters(next) ==
  /\ RdAct
  /\ \E field \in {"kind", "from", "to", "shown"} :
       next # rdFilters /\ next = [rdFilters EXCEPT ![field] = next[field]]
  /\ next.shown => rdFilters.kind = "surge"
  /\ LET updated == [next EXCEPT !.shown = next.kind = "surge" /\ next.shown] IN
     /\ rdNav' = [how |-> "replace", own |-> TRUE, to |-> [row |-> Here.row, query |-> updated]]
     /\ RdRendered(updated, Append(rdPending, updated), HereQuery)
  /\ UNCHANGED <<rdHistory, rdAt, rdList, rdDetail, rdOvertaken>>

\* A row is clicked: its address carries the filters as they are.
SelectRow(r) ==
  /\ RdAct
  /\ \E i \in DOMAIN VisibleRows : VisibleRows[i] = r
  /\ rdNav' = [how |-> "push", own |-> TRUE, to |-> [row |-> r, query |-> rdFilters]]
  /\ UNCHANGED <<rdHistory, rdAt, rdFilters, rdPending, rdSeen, rdPages, rdList, rdDetail,
                 rdOvertaken>>

ShowMore ==
  /\ RdAct
  /\ MoreCount > 0
  /\ rdPages' = rdPages + 1
  /\ UNCHANGED <<rdHistory, rdAt, rdNav, rdFilters, rdPending, rdSeen, rdList, rdDetail,
                 rdOvertaken>>

\* A link of the navigation bar; what was under way is discarded.
FollowLink ==
  /\ RdAct
  /\ rdNav' = [how |-> "push", own |-> FALSE, to |-> [row |-> NoRd, query |-> AllRecords]]
  /\ rdOvertaken' = (rdOvertaken \/ rdNav.own)
  /\ UNCHANGED <<rdHistory, rdAt, rdFilters, rdPending, rdSeen, rdPages, rdList, rdDetail>>

\* A detail whose read failed is read again when its report is mounted.
DetailsAt(row) ==
  rdDetail' = [r \in RdRows |-> IF r = row /\ rdDetail[r] = "failed" THEN "unread" ELSE rdDetail[r]]

\* Back or forward.
Traverse(at) ==
  /\ RdAct
  /\ at \in DOMAIN rdHistory /\ at \in {rdAt - 1, rdAt + 1}
  /\ rdAt' = at
  /\ rdNav' = NoNav
  /\ rdOvertaken' = (rdOvertaken \/ rdNav.own)
  /\ Arrive(rdHistory[at])
  /\ DetailsAt(rdHistory[at].row)
  /\ UNCHANGED <<rdHistory, rdList>>

\* The navigation lands: a push after the entry that is shown, a replace in its place.
Lands ==
  /\ rdNav.how # "none"
  /\ rdHistory' = IF rdNav.how = "push" THEN Append(SubSeq(rdHistory, 1, rdAt), rdNav.to)
                  ELSE [rdHistory EXCEPT ![rdAt] = rdNav.to]
  /\ rdAt' = IF rdNav.how = "push" THEN rdAt + 1 ELSE rdAt
  /\ rdNav' = NoNav
  /\ Arrive(rdNav.to)
  /\ DetailsAt(rdNav.to.row)
  /\ UNCHANGED <<rdList, rdOvertaken, rdUsed>>

RdNext ==
  \/ \E s \in RdSource, ok \in BOOLEAN : RdListRead(s, ok)
  \/ \E ok \in BOOLEAN : DetailAnswered(ok)
  \/ RetryFailed \/ RetryDetail \/ FocusReads
  \/ \E next \in RdFilter : SetFilters(next)
  \/ \E r \in RdRows : SelectRow(r)
  \/ ShowMore \/ FollowLink
  \/ \E at \in {rdAt - 1, rdAt + 1} : Traverse(at)
  \/ Lands

RdSpec == RdInit /\ [][RdNext]_rdVars

-----------------------------------------------------------------------------
(* summaryOf, and the rule of the server it follows.                       *)

\* The first stint of each theme.
FirstStints(stints) ==
  {i \in DOMAIN stints : \A j \in 1..(i - 1) : stints[j].theme # stints[i].theme}
\* A fall is known or pending; five percent or more count.
Known(stints) == {i \in FirstStints(stints) : stints[i].fall # "pending"}
SummaryOf(stints) ==
  [n |-> Cardinality(Known(stints)),
   k |-> Cardinality({i \in Known(stints) : stints[i].fall = "beyond"})]

\* _useful: the same, over the themes that triggered the alert.
Useful(stints, trigger) ==
  LET firsts == {i \in FirstStints(stints) : stints[i].theme \in trigger} IN
  CASE \E i \in firsts : stints[i].fall = "beyond" -> "yes"
    [] (\A i \in firsts : stints[i].fall # "beyond") /\ (\E i \in firsts : stints[i].fall = "pending") -> "pending"
    [] OTHER -> "no"

-----------------------------------------------------------------------------
\* When nothing is under way the filters are those of the address, and no write is owed:
\* whatever was typed, clicked and traversed, in whatever order the navigations landed.
\* (A link or Back that overtakes a write may be taken for that write.)
FiltersFollowAddress ==
  rdNav.how = "none" /\ ~ rdOvertaken => rdFilters = HereQuery /\ rdPending = <<>>

\* What is being written is what is shown: the user's last filter is never undone by an
\* earlier write that lands.
WritesShowFilters == rdNav.own /\ ~ rdOvertaken => rdNav.to.query = rdFilters

\* A table that lacks the rows of a kind says so; a file never lacks any, and its name
\* spans its rows.
TableIsWhole ==
  /\ RdTable \in {"table", "partial"} => \A s \in RdSource : rdList[s].data \/ s \in FailedKinds
  /\ RdTable = "table" => Ready
  /\ CsvOffered =>
       /\ \A r \in UNION {InList(s) : s \in RdSource} :
            RdMatches(r, rdFilters) => \E i \in DOMAIN ShownRows : ShownRows[i] = r
       /\ \A i \in DOMAIN ShownRows : ShownRows[i].date \in CsvNamed.from..CsvNamed.to

\* A record is said not to exist only if its address is none, or its list does not hold it;
\* a list that failed never hides the report of another list's record.
ReportStandsAlone ==
  /\ RdReport = "notFound" => \A s \in RdSource : Here.row \notin InList(s)
  /\ \A s \in RdSource : Here.row \in InList(s) /\ rdList[s].data /\ ~ rdList[s].error =>
       RdReport \in {"unread", "read", "failed"}

\* An alert the server calls useful is never summed up as one without a fall beyond five
\* percent.
SummaryAgrees ==
  \A n \in 0..3 : \A stints \in [1..n -> [theme : {1, 2}, fall : {"beyond", "less", "pending"}]] :
    /\ Useful(stints, {1}) = "yes" => SummaryOf(stints).k > 0
    /\ SummaryOf(stints).k <= SummaryOf(stints).n /\ SummaryOf(stints).n <= 2

\* The page shows what its address asks for.
AddressHolds == FiltersFollowAddress /\ WritesShowFilters /\ ReportStandsAlone

\* The lists of records, the table of them and its file say the same.
RecordsHold == TableIsWhole /\ SummaryAgrees
=============================================================================
