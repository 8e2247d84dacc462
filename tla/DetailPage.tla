----------------------------- MODULE DetailPage -----------------------------
(***************************************************************************)
(* The detail screen of one stock (app/detail/[ticker], components/detail, *)
(* lib/detail): a chart that marks days of big moves, a card that explains *)
(* the day selected, the news around it, and the search that fetches news  *)
(* the card says is missing.                                               *)
(*                                                                         *)
(* The card and the news column read queries of their own, each fresh for  *)
(* five minutes or until a search of this tab says otherwise.  A search    *)
(* belongs to the card that sent it: a card that is closed and opened      *)
(* again knows nothing of it.  The server is external.                     *)
(***************************************************************************)
EXTENDS Integers, FiniteSets

CONSTANTS
  DtDate,         \* days the chart marks, two days apart at most
  NoDt,           \* no day, no data
  DtMaxSelects,   \* bounds: days selected
  DtMaxSearches,  \* searches sent
  DtMaxFaults     \* failed requests

ASSUME DtAssumption ==
  /\ NoDt \notin DtDate /\ NoDt \notin [stored : BOOLEAN, searched : BOOLEAN]
  /\ DtMaxSelects \in Nat /\ DtMaxSearches \in Nat /\ DtMaxFaults \in Nat

VARIABLES
  dtServer,     \* days around which articles are stored, days that were searched
  dtQuery,      \* the queries: one for the card of each day, one for the news around it
  dtDate,       \* the day selected, NoDt for none
  dtSearch,     \* the searches sent
  dtHere,       \* the page is open
  dtCut,        \* queries that a search changed and that no read will follow: its answer was lost,
                \* or the first answer to a card, or to one closed since, came after it
  dtDone,       \* days whose search was answered as done, on the card that sent it
  dtUsed        \* bounds

dtVars == <<dtServer, dtQuery, dtDate, dtSearch, dtHere,
            dtCut, dtDone, dtUsed>>

DtQueries == {<<"move", d>> : d \in DtDate} \cup {<<"news", d>> : d \in DtDate \cup {NoDt}}
DtSearch == 1..DtMaxSearches
DtStatus == {"done", "limited", "lost"}
DtNoQuery == [data |-> NoDt, err |-> FALSE, phase |-> "none", value |-> NoDt, stale |-> TRUE]
DtNoSearch == [phase |-> "none", date |-> NoDt, status |-> "done", mine |-> FALSE, waits |-> {}]

DtTypeOK ==
  /\ dtServer.stored \subseteq DtDate /\ dtServer.searched \subseteq DtDate
  /\ \A q \in DtQueries : /\ dtQuery[q].phase \in {"none", "asked", "served", "failed"}
                      /\ dtQuery[q].err \in BOOLEAN /\ dtQuery[q].stale \in BOOLEAN
  /\ dtDate \in DtDate \cup {NoDt} /\ dtHere \in BOOLEAN
  /\ \A k \in DtSearch : /\ dtSearch[k].phase \in {"none", "asked", "served", "refetch", "settled"}
                         /\ dtSearch[k].date \in DtDate \cup {NoDt} /\ dtSearch[k].waits \subseteq DtQueries
                         /\ dtSearch[k].status \in DtStatus /\ dtSearch[k].mine \in BOOLEAN
  /\ dtCut \subseteq DtQueries /\ dtDone \subseteq DtDate
  /\ dtUsed \in [selects : 0..DtMaxSelects, faults : 0..DtMaxFaults]

DtInit ==
  /\ dtServer = [stored |-> {}, searched |-> {}]
  /\ dtQuery = [q \in DtQueries |-> DtNoQuery] /\ dtDate = NoDt
  /\ dtSearch = [k \in DtSearch |-> DtNoSearch]
  /\ dtHere = FALSE /\ dtCut = {} /\ dtDone = {}
  /\ dtUsed = [selects |-> 0, faults |-> 0]

-----------------------------------------------------------------------------
(* Queries.                                                                *)

\* What the server answers: the articles around a day, and whether that day was searched.
DtAnswer(q) ==
  IF q[1] = "move" THEN [stored |-> q[2] \in dtServer.stored, searched |-> q[2] \in dtServer.searched]
  ELSE [stored |-> IF q[2] = NoDt THEN dtServer.stored # {} ELSE q[2] \in dtServer.stored,
        searched |-> FALSE]

\* The queries on screen: the card of the day and the news around it, or the latest news.
OnViewWith(here, d) ==
  IF ~ here THEN {} ELSE {<<"news", d>>} \cup (IF d = NoDt THEN {} ELSE {<<"move", d>>})
OnView == OnViewWith(dtHere, dtDate)
AskAgain(query) == [query EXCEPT !.phase = "asked", !.value = NoDt]
\* A query that comes on screen is asked for, unless what is cached is fresh or it is being asked.
CameOn(active) ==
  [q \in DtQueries |-> IF q \in active /\ dtQuery[q].stale /\ dtQuery[q].phase = "none"
                   THEN AskAgain(dtQuery[q]) ELSE dtQuery[q]]

DtFault == dtUsed.faults < DtMaxFaults /\ dtUsed' = [dtUsed EXCEPT !.faults = @ + 1]

DtReadServed(q) ==
  /\ dtQuery[q].phase = "asked"
  /\ \/ /\ dtQuery' = [dtQuery EXCEPT ![q].phase = "served", ![q].value = DtAnswer(q)]
        /\ dtCut' = dtCut \ {q} /\ UNCHANGED dtUsed
     \/ dtQuery' = [dtQuery EXCEPT ![q].phase = "failed"] /\ DtFault /\ UNCHANGED dtCut
  /\ UNCHANGED <<dtServer, dtDate, dtSearch, dtHere, dtDone>>

\* The answer makes the query fresh, though a search may have called it stale meanwhile.
DtReadAnswered(q) ==
  /\ dtQuery[q].phase \in {"served", "failed"}
  /\ dtQuery' = [dtQuery EXCEPT ![q] =
       IF dtQuery[q].phase = "served"
       THEN [data |-> @.value, err |-> FALSE, phase |-> "none", value |-> NoDt, stale |-> FALSE]
       ELSE [@ EXCEPT !.err = TRUE, !.phase = "none", !.stale = TRUE]]
  /\ dtSearch' = [k \in DtSearch |-> [dtSearch[k] EXCEPT !.waits = @ \ {q}]]
  /\ UNCHANGED <<dtServer, dtDate, dtHere, dtCut, dtDone, dtUsed>>

-----------------------------------------------------------------------------
(* The card and its search.                                                *)

\* The search of the card on screen, 0 for none.
OwnSearch == {k \in DtSearch : dtSearch[k].mine}
SearchPending(k) == dtSearch[k].phase \in {"asked", "served", "refetch"}
CardQuery == dtQuery[<<"move", dtDate>>]
\* MoveCard: what it says of the news.
CardShows ==
  IF ~ dtHere \/ dtDate = NoDt THEN "closed"
  ELSE IF CardQuery.err THEN "error"
  ELSE IF CardQuery.data = NoDt THEN "loading"
  ELSE IF CardQuery.data.stored THEN "stored"
  ELSE IF CardQuery.data.searched THEN "none found"
  ELSE IF \E k \in OwnSearch : SearchPending(k) THEN "pending" ELSE "button"

\* useFindNews: one POST.
FindNews ==
  /\ CardShows = "button"
  /\ \E k \in DtSearch :
       /\ dtSearch[k] = DtNoSearch /\ \A j \in DtSearch : j < k => dtSearch[j] # DtNoSearch
       /\ dtSearch' = [j \in DtSearch |->
            IF j = k THEN [DtNoSearch EXCEPT !.phase = "asked", !.date = dtDate, !.mine = TRUE]
            ELSE [dtSearch[j] EXCEPT !.mine = FALSE]]
  /\ UNCHANGED <<dtServer, dtQuery, dtDate, dtHere, dtCut,
                 dtDone, dtUsed>>

\* The archive: a search that is done marks the day; one that was blocked, limited or failed may have
\* stored what its first request found.  A request may fail before that, or its answer be lost.
SearchServed(k) ==
  /\ dtSearch[k].phase = "asked"
  /\ \E status \in DtStatus, found \in SUBSET DtDate :
       /\ dtServer' = [stored |-> dtServer.stored \cup found,
                       searched |-> IF status = "limited" THEN dtServer.searched
                                    ELSE dtServer.searched \cup {dtSearch[k].date}]
       /\ dtSearch' = [dtSearch EXCEPT ![k].phase = "served", ![k].status = status]
       /\ IF status = "lost" THEN DtFault /\ dtCut' = DtQueries ELSE UNCHANGED <<dtCut, dtUsed>>
  /\ UNCHANGED <<dtQuery, dtDate, dtHere, dtDone>>

\* invalidateQueries: what is on screen is read again, and a read under way is dropped for the new
\* one.  A first read is not: whoever asks meanwhile joins it.
AfterRefresh(q) ==
  LET stale == [dtQuery[q] EXCEPT !.stale = TRUE]
      joins == stale.data = NoDt /\ stale.phase # "none"
  IN IF q \in OnView /\ ~ joins THEN AskAgain(stale) ELSE stale

\* onSuccess: every query of the stock is stale, those on screen are asked again, and the search
\* is pending until they are answered.  Another search that waits for a read that is dropped waits
\* for the new one.  A request that failed refreshes nothing.
SearchAnswered(k) ==
  /\ dtSearch[k].phase = "served"
  /\ IF dtSearch[k].status = "lost"
     THEN /\ dtSearch' = [dtSearch EXCEPT ![k].phase = "settled"]
          /\ UNCHANGED <<dtQuery, dtCut>>
     ELSE /\ dtQuery' = [q \in DtQueries |-> AfterRefresh(q)]
          /\ dtSearch' = [dtSearch EXCEPT ![k].phase = "refetch", ![k].waits = OnView]
          /\ dtCut' = {q \in DtQueries : AfterRefresh(q).phase = "served" /\ AfterRefresh(q).value # DtAnswer(q)}
  /\ UNCHANGED <<dtServer, dtDate, dtHere, dtDone, dtUsed>>

\* The promise onSuccess returns.
Refetched(k) == dtSearch[k].phase = "refetch" /\ dtSearch[k].waits = {}
SearchSettles(k) ==
  /\ Refetched(k)
  /\ dtSearch' = [dtSearch EXCEPT ![k].phase = "settled"]
  /\ dtDone' = IF dtSearch[k].mine /\ dtSearch[k].status = "done"
               THEN dtDone \cup {dtSearch[k].date} ELSE dtDone
  /\ UNCHANGED <<dtServer, dtQuery, dtDate, dtHere, dtCut, dtUsed>>

-----------------------------------------------------------------------------
(* Moving about.                                                           *)

\* Another card, or none: its search state is its own.
ShowDay(here, d) ==
  /\ dtHere' = here /\ dtDate' = d
  /\ dtQuery' = CameOn(OnViewWith(here, d))
  /\ dtSearch' = [k \in DtSearch |-> [dtSearch[k] EXCEPT !.mine = FALSE]]
  /\ UNCHANGED <<dtServer, dtCut, dtDone>>
DtSelects == dtUsed.selects < DtMaxSelects /\ dtUsed' = [dtUsed EXCEPT !.selects = @ + 1]
\* A mark or its entry in the list: selects the day, or none when it is selected.
ToggleDay(d) == dtHere /\ DtSelects /\ ShowDay(TRUE, IF d = dtDate THEN NoDt ELSE d)
\* The cross of the card, or Escape.
CloseCard == dtHere /\ dtDate # NoDt /\ ShowDay(TRUE, NoDt) /\ UNCHANGED dtUsed
\* The page starts with no day selected.
OpenDetail == ~ dtHere /\ ShowDay(TRUE, NoDt) /\ UNCHANGED dtUsed
\* Another stock, by a peer or a mover, or another page.
CloseDetail == dtHere /\ DtSelects /\ ShowDay(FALSE, NoDt)

DtNext ==
  \/ \E q \in DtQueries : DtReadServed(q) \/ DtReadAnswered(q)
  \/ \E k \in DtSearch : SearchServed(k) \/ SearchAnswered(k) \/ SearchSettles(k)
  \/ FindNews \/ CloseCard \/ OpenDetail \/ CloseDetail
  \/ \E d \in DtDate : ToggleDay(d)

DtSpec == DtInit /\ [][DtNext]_dtVars

-----------------------------------------------------------------------------
DtQuiet ==
  /\ \A q \in OnView : dtQuery[q].phase = "none"
  /\ \A k \in DtSearch : dtSearch[k].phase \in {"none", "settled"}

\* Once its requests are answered the card and the news column show what is stored around the day,
\* whichever card a search was sent from and whatever was open when it was answered; a search whose
\* answer was lost, and a late answer to a card that is closed or still loads, are the exceptions.  A day whose search was
\* answered as done is not offered for a search again: the button does not come back with the counts
\* of before.
CardIsCurrent ==
  /\ DtQuiet => \A q \in OnView \ dtCut : ~ dtQuery[q].err => dtQuery[q].data = DtAnswer(q)
  /\ dtDate \in dtDone => CardShows # "button"
=============================================================================
