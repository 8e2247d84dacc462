--------------------------- MODULE RequestProfile ---------------------------
(***************************************************************************)
(* The performance page of the developer monitor                           *)
(* (app/dev/performance/page.tsx, SpanWaterfall.tsx): a list of requests,  *)
(* and panels about the one that is selected, each a query of its own,     *)
(* with an answer per request.  The server keeps a limited number of       *)
(* events, so that requests disappear from it; the table of tickers only   *)
(* looks at the last five minutes.                                         *)
(*                                                                         *)
(* An answer is known by what it says of its request: still running, done, *)
(* or nothing.  Nothing is read again by itself.                           *)
(***************************************************************************)
EXTENDS Integers

CONSTANTS
  RpRequest,      \* requests the server has measured
  NoRp,    \* none selected: the panels are about all events
  RpMaxChanges, \* bound: steps of the server
  RpMaxClicks   \* bound: selections and refreshes

ASSUME RpAssumption ==
  NoRp \notin RpRequest /\ RpMaxChanges \in Nat /\ RpMaxClicks \in Nat

VARIABLES
  rpServer,   \* each request: running, done, older than five minutes, gone
  rpList,     \* requestsQuery
  rpSelected, \* selectedRequestId
  rpCache,    \* the answers of the panels' queries
  rpOut,      \* their reads in flight
  rpUsed      \* bounds

rpVars == <<rpServer, rpList, rpSelected, rpCache, rpOut, rpUsed>>

\* The breakdown by scope is read like the tickers, without their five minutes.
PanelQuery == {"waterfall", "tickers"}
Subject == RpRequest \cup {NoRp}
NoAnswer == [of |-> NoRp, says |-> "unread"]
RpKey == PanelQuery \X Subject

RpTypeOK ==
  /\ rpServer \in [RpRequest -> {"running", "done", "old", "gone"}]
  /\ rpList \in [asked : BOOLEAN, read : BOOLEAN, error : {"none", "missing", "other"},
                 rows : SUBSET RpRequest]
  /\ rpSelected \in Subject
  /\ rpCache \in [RpKey -> [of : Subject, says : {"unread", "running", "done", "empty", "all"}]]
  /\ rpOut \subseteq RpKey
  /\ rpUsed \in [changes : 0..RpMaxChanges, clicks : 0..RpMaxClicks]

\* queryKey of a panel
PanelKey(query, subject) == <<query, subject>>

\* The queries of a selection that have no answer yet are read; the waterfall is
\* about one request only.
ReadsOf(subject) ==
  {k \in {<<q, subject>> : q \in PanelQuery} :
     /\ k[1] = "waterfall" => subject # NoRp
     /\ rpCache[PanelKey(k[1], subject)] = NoAnswer}

\* The page as it opens; the panels about all events have been read.
RpInit ==
  /\ rpServer = [r \in RpRequest |-> "running"]
  /\ rpList = [asked |-> TRUE, read |-> FALSE, error |-> "none", rows |-> {}]
  /\ rpSelected = NoRp
  /\ rpCache = [k \in RpKey |-> IF k[2] = NoRp /\ k[1] # "waterfall"
                                THEN [of |-> NoRp, says |-> "all"] ELSE NoAnswer]
  /\ rpOut = {}
  /\ rpUsed = [changes |-> 0, clicks |-> 0]

\* Which screen the page is on.
RpScreen ==
  CASE rpList.asked /\ ~ rpList.read -> "loading"
    [] rpList.error = "missing" -> "disabled"
    [] rpList.error = "other" -> "error"
    [] OTHER -> "page"

PanelShown(query) == rpCache[PanelKey(query, rpSelected)]

-----------------------------------------------------------------------------
(* The server (routes/dev_monitor.py), external to the page.               *)

\* A request ends, grows old, and its events are overwritten.
ServerMoves(r) ==
  /\ rpUsed.changes < RpMaxChanges /\ rpServer[r] # "gone"
  /\ rpServer' = [rpServer EXCEPT ![r] = CASE @ = "running" -> "done" [] @ = "done" -> "old"
                                           [] OTHER -> "gone"]
  /\ rpUsed' = [rpUsed EXCEPT !.changes = @ + 1]
  /\ UNCHANGED <<rpList, rpSelected, rpCache, rpOut>>

\* What a read of a panel says; a waterfall of no request is a 404.
Says(query, subject) ==
  IF subject = NoRp THEN IF query = "waterfall" THEN "missing" ELSE "all"
  ELSE CASE rpServer[subject] \in {"running", "done"} -> rpServer[subject]
         [] rpServer[subject] = "old" -> IF query = "tickers" THEN "empty" ELSE "done"
         [] OTHER -> IF query = "waterfall" THEN "missing" ELSE "empty"

-----------------------------------------------------------------------------
(* The page.                                                               *)

\* A failed read of a panel shows in no way: what it had stays.
PanelRead(k, ok) ==
  LET says == Says(k[1], k[2]) IN
  /\ k \in rpOut
  /\ rpOut' = rpOut \ {k}
  /\ rpCache' = IF ok /\ says # "missing"
                THEN [rpCache EXCEPT ![PanelKey(k[1], k[2])] = [of |-> k[2], says |-> says]]
                ELSE rpCache
  /\ UNCHANGED <<rpServer, rpList, rpSelected, rpUsed>>

RequestsAnswered(outcome) ==
  /\ rpList.asked
  /\ rpList' = IF outcome = "none"
               THEN [asked |-> FALSE, read |-> TRUE, error |-> "none",
                     rows |-> {r \in RpRequest : rpServer[r] # "gone"}]
               ELSE [rpList EXCEPT !.asked = FALSE, !.error = outcome]
  /\ UNCHANGED <<rpServer, rpSelected, rpCache, rpOut, rpUsed>>

RpClick == rpUsed.clicks < RpMaxClicks /\ rpUsed' = [rpUsed EXCEPT !.clicks = @ + 1]

\* A row is clicked; there is no way back to all events.
SelectRequest(r) ==
  /\ RpClick /\ RpScreen = "page" /\ r \in rpList.rows /\ r # rpSelected
  /\ rpSelected' = r
  /\ rpOut' = rpOut \cup ReadsOf(r)
  /\ UNCHANGED <<rpServer, rpList, rpCache>>

\* refreshAll: also the waterfall of no request.  The reads about all events say
\* what they said and are not followed.
RefreshAll ==
  /\ RpClick /\ RpScreen = "page"
  /\ rpList' = [rpList EXCEPT !.asked = TRUE]
  /\ rpOut' = rpOut \cup {<<q, rpSelected>> : q \in {p \in PanelQuery : rpSelected # NoRp}}
  /\ UNCHANGED <<rpServer, rpSelected, rpCache>>

\* The error screen's button reads the list alone.
RetryList ==
  /\ RpClick /\ RpScreen = "error" /\ ~ rpList.asked
  /\ rpList' = [rpList EXCEPT !.asked = TRUE, !.error = IF rpList.read THEN @ ELSE "none"]
  /\ UNCHANGED <<rpServer, rpSelected, rpCache, rpOut>>

RpNext ==
  \/ \E r \in RpRequest : ServerMoves(r) \/ SelectRequest(r)
  \/ \E k \in RpKey, ok \in BOOLEAN : PanelRead(k, ok)
  \/ \E outcome \in {"none", "missing", "other"} : RequestsAnswered(outcome)
  \/ RefreshAll \/ RetryList

RpSpec == RpInit /\ [][RpNext]_rpVars

-----------------------------------------------------------------------------
(* SpanWaterfall: a span's bar, in thousandths of its track.               *)

Clamp(low, x, high) == IF x < low THEN low ELSE IF x > high THEN high ELSE x

SpanBar(offset, total, root) ==
  LET left == IF root = 0 THEN 0 ELSE Clamp(0, (1000 * offset) \div root, 1000)
      raw == IF root = 0 THEN 0 ELSE Clamp(5, (1000 * total) \div root, 1000 * (total + 1))
  IN  [left |-> left, width |-> Clamp(0, raw, 1000 - left)]

-----------------------------------------------------------------------------
\* Every panel is about the request that is selected, however the answers of earlier
\* selections arrive, and is read or being read unless its read failed.
PanelsTellSelected ==
  \A q \in PanelQuery : PanelShown(q) # NoAnswer => PanelShown(q).of = rpSelected

\* The table of tickers says that a request did nothing only once its events are old or
\* overwritten, and a waterfall never does: it keeps the last one read.
EmptyMeansGone ==
  \A k \in RpKey : rpCache[k].says = "empty" =>
    k[1] = "tickers" /\ rpServer[rpCache[k].of] \in {"old", "gone"}

\* A child may outlast its parent; its bar stays within the track.
BarsStayInTrack ==
  \A offset \in -1..4, total, root \in 0..3 :
    LET bar == SpanBar(offset, total, root) IN
    bar.left \in 0..1000 /\ bar.width \in 0..(1000 - bar.left)

\* The panels tell of the selected request.
ProfileHolds == PanelsTellSelected /\ EmptyMeansGone /\ BarsStayInTrack
=============================================================================
