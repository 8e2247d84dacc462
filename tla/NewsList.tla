------------------------------ MODULE NewsList ------------------------------
(***************************************************************************)
(* A list of news that grows as it is read (app/news/page.tsx, its         *)
(* NewsFeedList, and the news of StockDetailModal.tsx).  Pages are read by *)
(* offset from what is stored, the newest first; the card of a stock first *)
(* has the server look for more when a page comes back short.              *)
(*                                                                         *)
(* An article is the number it has in order of age, the newest the         *)
(* highest.  Articles arrive at the new end; a search adds some at the old *)
(* end as well.  The server is external.                                   *)
(***************************************************************************)
EXTENDS Integers, Sequences

CONSTANTS
  NlPage,         \* newsPageSize, pageSize
  NlOldest, NlNewest,   \* bounds of what is ever stored
  NlStored,       \* what is stored at first: the oldest article and the newest one
  NoNl,
  NlMaxVisits, NlMaxFaults   \* bounds

ASSUME NlAssumption ==
  /\ NlPage \in Nat \ {0} /\ {NlOldest, NlNewest, NlMaxVisits, NlMaxFaults} \subseteq Nat
  /\ NlStored \subseteq {stored \in (NlOldest..NlNewest + 1) \X (NlOldest - 1..NlNewest) :
                            stored[1] <= stored[2] + 1}

VARIABLES
  nlScreen,     \* the news page, or the card of a stock
  nlOld, nlNew, \* the oldest and the newest article stored
  nlPages,      \* the pages of the query
  nlErr,        \* its last fetch failed
  nlFetch,      \* its fetch
  nlOn,         \* the list is on screen
  nlStale,      \* what is kept has been kept too long
  nlUsed        \* bounds

nlVars == <<nlScreen, nlOld, nlNew, nlPages, nlErr, nlFetch, nlOn, nlStale, nlUsed>>

NlFetches ==
  [kind : {"first", "next"}, got : Seq(Seq(Nat)), offset : Nat, stage : {"feed", "crawl", "again"},
   existing : Seq(Nat)]
ASSUME NlNothing == NoNl \notin Nat \cup Seq(Seq(Nat)) \cup NlFetches

NlTypeOK ==
  /\ nlScreen \in {"page", "card"} /\ {nlErr, nlOn, nlStale} \subseteq BOOLEAN
  /\ nlOld \in NlOldest..NlNewest + 1 /\ nlNew \in nlOld - 1..NlNewest
  /\ nlPages = NoNl \/ \A i \in DOMAIN nlPages : Len(nlPages[i]) \in 0..NlPage
  /\ nlFetch = NoNl \/ nlFetch.stage \in {"feed", "crawl", "again"}

\* GET /news/feed: a page of what is stored, from an offset on.
Feed(offset) ==
  LET left == nlNew - nlOld + 1 - offset
  IN  [i \in 1..(IF left < 0 THEN 0 ELSE IF left > NlPage THEN NlPage ELSE left) |->
         nlNew - offset - i + 1]

\* getNextPageParam: what follows a full page, NoNl after a short one.
NextOffset(pages) == IF Len(pages[Len(pages)]) = NlPage THEN Len(pages) * NlPage ELSE NoNl
HasNext == nlPages # NoNl /\ NextOffset(nlPages) # NoNl

Fetching(kind, pages, offset) ==
  [kind |-> kind, got |-> pages, offset |-> offset, stage |-> "feed", existing |-> <<>>]
FetchingNextPage == nlFetch # NoNl /\ nlFetch.kind = "next"

\* The articles of the pages, each with its place: pages follow one another, and all before the last
\* are full.
ShownNews ==
  IF nlPages = NoNl THEN {}
  ELSE UNION {{<<(i - 1) * NlPage + j, nlPages[i][j]>> : j \in DOMAIN nlPages[i]} : i \in DOMAIN nlPages}

\* What is on screen: a failure takes the place of the whole page, on a card only of no news.
NewsState ==
  CASE nlPages = NoNl /\ ~ nlErr -> "loading"
    [] nlErr /\ (nlScreen = "page" \/ nlPages = NoNl) -> "failed"
    [] ShownNews = {} -> IF nlErr THEN "failed" ELSE "empty"
    [] OTHER -> "list"

NlInit ==
  /\ nlScreen \in {"page", "card"}
  /\ \E stored \in NlStored : nlOld = stored[1] /\ nlNew = stored[2]
  /\ nlPages = NoNl /\ nlErr = FALSE /\ nlOn = TRUE /\ nlStale = FALSE
  /\ nlFetch = Fetching("first", <<>>, 0)
  /\ nlUsed = [visits |-> 0, faults |-> 0]

-----------------------------------------------------------------------------
(* Scrolling and visits.                                                   *)

\* The end of the list comes in sight, or the button is pressed.  It takes the place of a
\* fetch of all pages.
LoadMore ==
  /\ nlOn /\ NewsState = "list" /\ HasNext /\ ~ FetchingNextPage
  /\ nlFetch' = Fetching("next", nlPages, NextOffset(nlPages))
  /\ UNCHANGED <<nlScreen, nlOld, nlNew, nlPages, nlErr, nlOn, nlStale, nlUsed>>

LeaveNews ==
  /\ nlOn /\ nlUsed.visits < NlMaxVisits
  /\ nlOn' = FALSE /\ nlUsed' = [nlUsed EXCEPT !.visits = @ + 1]
  /\ UNCHANGED <<nlScreen, nlOld, nlNew, nlPages, nlErr, nlFetch, nlStale>>

\* staleTime.
NewsAges ==
  /\ nlPages # NoNl /\ ~ nlStale /\ nlStale' = TRUE
  /\ UNCHANGED <<nlScreen, nlOld, nlNew, nlPages, nlErr, nlFetch, nlOn, nlUsed>>

\* A list that is stale, or was never read, is read from the start, page by page.
ReturnToNews ==
  /\ ~ nlOn /\ nlOn' = TRUE
  /\ nlFetch' = IF nlFetch = NoNl /\ (nlStale \/ nlPages = NoNl)
                THEN Fetching("first", <<>>, 0) ELSE nlFetch
  /\ UNCHANGED <<nlScreen, nlOld, nlNew, nlPages, nlErr, nlStale, nlUsed>>

-----------------------------------------------------------------------------
(* A fetch.                                                                *)

\* A page is here.  A fetch from the start goes on for as many pages as were shown.
PageHere(page) ==
  LET got == Append(nlFetch.got, page)
      more == /\ nlFetch.kind = "first" /\ nlPages # NoNl
              /\ Len(got) < Len(nlPages) /\ NextOffset(got) # NoNl
  IN  IF more
      THEN /\ nlFetch' = Fetching("first", got, NextOffset(got))
           /\ UNCHANGED <<nlPages, nlErr, nlStale>>
      ELSE /\ nlPages' = got /\ nlFetch' = NoNl /\ nlErr' = FALSE /\ nlStale' = FALSE

FeedAnswered ==
  /\ nlFetch # NoNl /\ nlFetch.stage = "feed"
  /\ LET existing == Feed(nlFetch.offset)
     IN  IF nlScreen = "page" \/ Len(existing) >= NlPage THEN PageHere(existing)
         ELSE /\ nlFetch' = [nlFetch EXCEPT !.stage = "crawl", !.existing = existing]
              /\ UNCHANGED <<nlPages, nlErr, nlStale>>
  /\ UNCHANGED <<nlScreen, nlOld, nlNew, nlOn, nlUsed>>

\* POST /news/crawl/stock finds nothing, or news of either age.
CrawlAnswered ==
  /\ nlFetch # NoNl /\ nlFetch.stage = "crawl"
  /\ nlFetch' = [nlFetch EXCEPT !.stage = "again"]
  /\ nlOld' \in NlOldest..nlOld /\ nlNew' \in nlNew..NlNewest
  /\ UNCHANGED <<nlScreen, nlPages, nlErr, nlOn, nlStale, nlUsed>>

\* The page as it is after the search, or what was there if it is empty now.
Refreshed(refreshed, existing) == IF refreshed # <<>> THEN refreshed ELSE existing

FeedAnsweredAgain ==
  /\ nlFetch # NoNl /\ nlFetch.stage = "again"
  /\ PageHere(Refreshed(Feed(nlFetch.offset), nlFetch.existing))
  /\ UNCHANGED <<nlScreen, nlOld, nlNew, nlOn, nlUsed>>

\* Any request of the fetch fails for good: the pages shown stay.
FetchFailed ==
  /\ nlFetch # NoNl /\ nlUsed.faults < NlMaxFaults
  /\ nlUsed' = [nlUsed EXCEPT !.faults = @ + 1]
  /\ nlFetch' = NoNl /\ nlErr' = TRUE
  /\ UNCHANGED <<nlScreen, nlOld, nlNew, nlPages, nlOn, nlStale>>

\* The server stores news on its own.
NewsArrives ==
  /\ nlNew < NlNewest /\ nlNew' = nlNew + 1
  /\ UNCHANGED <<nlScreen, nlOld, nlPages, nlErr, nlFetch, nlOn, nlStale, nlUsed>>

NlNext ==
  \/ LoadMore \/ LeaveNews \/ NewsAges \/ ReturnToNews
  \/ FeedAnswered \/ CrawlAnswered \/ FeedAnsweredAgain \/ FetchFailed
  \/ NewsArrives

NlSpec == NlInit /\ [][NlNext]_nlVars
-----------------------------------------------------------------------------
(* Properties.                                                             *)

\* A list that starts with the newest article has every article once, in order, down to the
\* last one shown, however its pages were read, and if it says it has ended it has them all.
NewsIsWhole ==
  <<1, nlNew>> \in ShownNews =>
    /\ \A i \in 1..(Len(nlPages) - 1) : Len(nlPages[i]) = NlPage
    /\ \A shown \in ShownNews : shown[2] = nlNew - shown[1] + 1 /\ shown[2] >= nlOld
    /\ nlFetch = NoNl /\ ~ nlErr /\ ~ HasNext => \E shown \in ShownNews : shown[2] = nlOld
=============================================================================
