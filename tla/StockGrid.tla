----------------------------- MODULE StockGrid -----------------------------
(***************************************************************************)
(* The tiles of the portfolio page (app/portfolio/page.tsx,                *)
(* components/StockTileGrid.tsx, StockTile.tsx, lib/portfolioNews.ts): the *)
(* watchlist cut down to a group and a search, the news of what is on      *)
(* screen, the follow control of a tile, and the refresh that has the      *)
(* server look for news in batches, one after another.                     *)
(*                                                                         *)
(* A search is the set of stocks it matches.  The news is read by the set  *)
(* of tickers it is about; a set read before is kept, another shows what   *)
(* was on screen until its own answer comes.  The server is external.      *)
(***************************************************************************)
EXTENDS Integers, FiniteSets, SequencesExt

CONSTANTS
  SgStock,        \* the watchlist, of which an empty one has no grid
  SgSearch,       \* the searches typed, each the set of stocks it matches
  NoSg,
  SgFollows,      \* the stocks followed when the page is opened; the others are those of the program
  SgMaxNews,      \* the newest state of a ticker's news: 0 never checked, 1 checked and nothing
  SgOutcome,      \* what the server makes of a ticker it is asked to look for news of
  SgMaxActs,      \* bounds: what the user does
  SgMaxRefreshes, SgMaxFaults

ASSUME SgAssumption ==
  /\ SgStock # {} /\ IsFiniteSet(SgStock)
  /\ SgStock \in SgSearch /\ SgSearch \subseteq SUBSET SgStock
  /\ SgFollows \subseteq SgStock /\ SgMaxNews \in Nat \ {0, 1}
  /\ SgOutcome \subseteq {"acquired", "fresh", "empty", "failed", "unknown"}
  /\ {SgMaxActs, SgMaxRefreshes, SgMaxFaults} \subseteq Nat

VARIABLES
  sgGroup,      \* the group of each stock, as saved
  sgList,       \* the group of each stock, as the page knows it
  sgListRead,   \* the watchlist is being read again
  sgFollow,     \* requests to move a stock to a group
  sgFilter, sgTyped,   \* the filter and the search on screen
  sgSettled,    \* the search that was left alone for 400 ms
  sgStore,      \* the news stored of each ticker
  sgNews,       \* the news queries, by the tickers they are about
  sgLast,       \* the query whose data was on screen last
  sgRefresh,    \* the refresh under way
  sgSummary,    \* the line that tells of the last refresh
  sgCut,        \* queries whose news changed and that nothing will read again
  sgUsed        \* bounds

sgVars == <<sgGroup, sgList, sgListRead, sgFollow, sgFilter, sgTyped, sgSettled,
            sgStore, sgNews, sgLast, sgRefresh, sgSummary, sgCut, sgUsed>>

\* The order of availableGroups: the followed ones first, the others by name.
SgOrder == <<"custom", "built_in", "total">>
Followed == "custom"
Unfollowed == "total"
SgGroups == {SgOrder[i] : i \in DOMAIN SgOrder}
SgKeys == (SUBSET SgStock) \ {{}}
SgRefreshes ==
  [asked : SUBSET SgStock, todo : SUBSET SgStock, filter : SgGroups \cup {"all"}, search : SgSearch,
   moved : BOOLEAN, result : UNION {[served -> SgOutcome] : served \in SUBSET SgStock}]
ASSUME SgNothing == NoSg \notin SgRefreshes \cup UNION {[k -> 0..SgMaxNews] : k \in SgKeys}
SgNoQuery == [data |-> NoSg, err |-> FALSE, asked |-> NoSg, late |-> FALSE, stale |-> TRUE]

SgTypeOK ==
  /\ sgGroup \in [SgStock -> SgGroups] /\ sgList \in [SgStock -> SgGroups]
  /\ sgListRead \in BOOLEAN
  /\ sgFollow \subseteq [stock : SgStock, to : {Followed, Unfollowed}]
  /\ sgFilter \in SgGroups \cup {"all"} /\ sgTyped \in SgSearch /\ sgSettled \in SgSearch
  /\ sgStore \in [SgStock -> 0..SgMaxNews]
  /\ \A k \in SgKeys : /\ sgNews[k].data = NoSg \/ sgNews[k].data \in [k -> 0..SgMaxNews]
                       /\ sgNews[k].asked = NoSg \/ sgNews[k].asked \in [k -> 0..SgMaxNews]
                       /\ sgNews[k].stale \in BOOLEAN /\ sgNews[k].late \in BOOLEAN
  /\ sgLast \in SgKeys \cup {NoSg} /\ sgCut \subseteq SgKeys
  /\ sgRefresh = NoSg \/ sgRefresh.todo \subseteq sgRefresh.asked

-----------------------------------------------------------------------------
(* What the grid shows.                                                    *)

\* availableGroups: of the stocks on the list.
AvailableGroups(list) == {g \in SgGroups : \E s \in SgStock : list[s] = g}

\* resolveGroupFilter, resolveFromGroups: a group without stocks gives way to the first one.
Resolved(list, filter) ==
  LET places == {i \in DOMAIN SgOrder : SgOrder[i] \in AvailableGroups(list)}
  IN  IF filter = "all" \/ filter \in AvailableGroups(list) THEN filter
      ELSE IF places = {} THEN "all"
      ELSE SgOrder[CHOOSE i \in places : \A j \in places : i <= j]

\* selectVisibleStocks.
Selected(list, filter, search) ==
  {s \in search : filter = "all" \/ list[s] = filter}
\* The tickers on screen, and those the news is read for.
VisibleTickers == Selected(sgList, Resolved(sgList, sgFilter), sgTyped)
NewsTickers(list, filter, search) == Selected(list, Resolved(list, filter), search)
NewsKey == NewsTickers(sgList, sgFilter, sgSettled)

\* The options of the filter, and the three figures under it.
FilterOptions == AvailableGroups(sgList) \cup {"all"}
GroupLabel(g) == CASE g = Followed -> "Followed" [] g = Unfollowed -> "Not followed" [] OTHER -> g
GridCount == [shown |-> Cardinality(VisibleTickers), all |-> Cardinality(SgStock),
              followed |-> Cardinality({s \in SgStock : sgList[s] = Followed})]

\* The query's data, or what was on screen before while it has none and has not failed.
NewsShown ==
  IF NewsKey = {} THEN NoSg
  ELSE IF sgNews[NewsKey].data # NoSg THEN sgNews[NewsKey].data
  ELSE IF sgNews[NewsKey].err \/ sgLast = NoSg THEN NoSg ELSE sgNews[sgLast].data

\* StockTile, emptyNewsSummary: a ticker nobody has answered for is not one never checked.
Tile(s) ==
  [followed |-> sgList[s] = Followed,
   news |-> IF NewsShown = NoSg THEN "not loaded"
            ELSE IF s \notin DOMAIN NewsShown THEN "not loaded"
            ELSE IF NewsShown[s] = 0 THEN "never checked"
            ELSE IF NewsShown[s] = 1 THEN "none" ELSE "articles",
   known |-> IF NewsShown = NoSg THEN NoSg
             ELSE IF s \in DOMAIN NewsShown THEN NewsShown[s] ELSE NoSg]

\* What the server would answer now about these tickers.
StoredOf(k) == [s \in k |-> sgStore[s]]

SgInit ==
  /\ sgGroup = [s \in SgStock |-> IF s \in SgFollows THEN Followed ELSE "built_in"]
  /\ sgList = sgGroup /\ sgListRead = FALSE
  /\ sgFollow = {}
  /\ sgFilter = Followed /\ sgTyped = SgStock /\ sgSettled = SgStock
  /\ sgStore = [s \in SgStock |-> 0]
  /\ sgNews = [k \in SgKeys |->
       IF k = NewsTickers(sgList, Followed, SgStock) THEN [SgNoQuery EXCEPT !.asked = StoredOf(k)]
       ELSE SgNoQuery]
  /\ sgLast = NoSg
  /\ sgRefresh = NoSg /\ sgSummary = NoSg /\ sgCut = {}
  /\ sgUsed = [acts |-> 0, refreshes |-> 0, faults |-> 0]

-----------------------------------------------------------------------------
(* The news of what is on screen.                                          *)

\* A set of tickers that comes on screen is asked for, unless what is kept of it is fresh.
NewsCameOn(k) ==
  /\ sgNews' = IF k = {} \/ k = NewsKey THEN sgNews
               ELSE [sgNews EXCEPT ![k].asked = IF sgNews[k].stale /\ @ = NoSg THEN StoredOf(k) ELSE @]
  /\ sgLast' = IF k = {} THEN sgLast ELSE IF sgNews[k].data # NoSg THEN k ELSE sgLast

SgFault == sgUsed.faults < SgMaxFaults /\ sgUsed' = [sgUsed EXCEPT !.faults = @ + 1]

\* GET /news/feed/bulk, in parallel batches that fail together: the answer is what was stored
\* when it was asked or what is stored when it comes.  One that is late, under way when the news was
\* invalidated, passes for fresh all the same.
NewsAnswered(k) ==
  /\ sgNews[k].asked # NoSg
  /\ \/ \E value \in {sgNews[k].asked, StoredOf(k)} :
          /\ sgNews' = [sgNews EXCEPT ![k] = [SgNoQuery EXCEPT !.data = value, !.stale = FALSE]]
          /\ sgLast' = IF k = NewsKey THEN k ELSE sgLast
          /\ sgCut' = IF value = StoredOf(k) THEN sgCut \ {k}
                      ELSE IF sgNews[k].late THEN sgCut \cup {k} ELSE sgCut
          /\ UNCHANGED sgUsed
     \/ /\ sgNews' = [sgNews EXCEPT ![k] = [SgNoQuery EXCEPT !.data = sgNews[k].data, !.err = TRUE]]
        /\ SgFault /\ UNCHANGED <<sgLast, sgCut>>
  /\ UNCHANGED <<sgGroup, sgList, sgListRead, sgFollow, sgFilter, sgTyped, sgSettled,
                 sgStore, sgRefresh, sgSummary>>

-----------------------------------------------------------------------------
(* The controls.                                                           *)

SgAct == sgUsed.acts < SgMaxActs /\ sgUsed' = [sgUsed EXCEPT !.acts = @ + 1]

\* The effect that retires a summary when the filter or the search moves.
SummaryRetired == sgSummary' = NoSg

ChooseFilter(g) ==
  /\ g \in FilterOptions /\ g # Resolved(sgList, sgFilter) /\ SgAct
  /\ sgFilter' = g /\ SummaryRetired
  /\ NewsCameOn(NewsTickers(sgList, g, sgSettled))
  /\ UNCHANGED <<sgGroup, sgList, sgListRead, sgFollow, sgTyped, sgSettled,
                 sgStore, sgRefresh, sgCut>>

TypeSearch(q) ==
  /\ q # sgTyped /\ SgAct
  /\ sgTyped' = q /\ SummaryRetired
  /\ UNCHANGED <<sgGroup, sgList, sgListRead, sgFollow, sgFilter, sgSettled,
                 sgStore, sgNews, sgLast, sgRefresh, sgCut>>

\* useDebounce.
GridSearchSettles ==
  /\ sgSettled # sgTyped
  /\ sgSettled' = sgTyped /\ NewsCameOn(NewsTickers(sgList, sgFilter, sgTyped))
  /\ UNCHANGED <<sgGroup, sgList, sgListRead, sgFollow, sgFilter, sgTyped,
                 sgStore, sgRefresh, sgSummary, sgCut, sgUsed>>

\* toggleFollow: the group is the one the page knows the stock by.
FollowPressed(s) ==
  /\ s \in VisibleTickers /\ SgAct
  /\ sgFollow' = sgFollow \cup
       {[stock |-> s, to |-> IF sgList[s] = Followed THEN Unfollowed ELSE Followed]}
  /\ UNCHANGED <<sgGroup, sgList, sgListRead, sgFilter, sgTyped, sgSettled,
                 sgStore, sgNews, sgLast, sgRefresh, sgSummary, sgCut>>

FollowAnswered(f) ==
  /\ f \in sgFollow /\ sgFollow' = sgFollow \ {f}
  /\ \/ /\ sgGroup' = [sgGroup EXCEPT ![f.stock] = f.to]
        /\ sgListRead' = TRUE /\ UNCHANGED sgUsed
     \/ /\ SgFault /\ UNCHANGED sgListRead
        /\ sgGroup' \in {sgGroup, [sgGroup EXCEPT ![f.stock] = f.to]}
  /\ UNCHANGED <<sgList, sgFilter, sgTyped, sgSettled,
                 sgStore, sgNews, sgLast, sgRefresh, sgSummary, sgCut>>

\* The watchlist as it is now; a read that fails leaves the list on screen.
ListAnswered ==
  /\ sgListRead /\ sgListRead' = FALSE
  /\ \/ /\ sgList' = sgGroup /\ UNCHANGED sgUsed
        /\ NewsCameOn(NewsTickers(sgGroup, sgFilter, sgSettled))
        /\ sgRefresh' = IF sgRefresh = NoSg THEN NoSg
                        ELSE [sgRefresh EXCEPT !.moved = @ \/ sgGroup # sgList]
        /\ sgSummary' = IF sgSummary = NoSg THEN NoSg
                        ELSE [sgSummary EXCEPT !.moved = @ \/ sgGroup # sgList]
     \/ SgFault /\ UNCHANGED <<sgList, sgNews, sgLast, sgRefresh, sgSummary>>
  /\ UNCHANGED <<sgGroup, sgFollow, sgFilter, sgTyped, sgSettled, sgStore, sgCut>>

-----------------------------------------------------------------------------
(* refreshNews.                                                            *)

\* What is visible now, and the controls it is visible under; no second one meanwhile.
PressRefresh ==
  /\ sgRefresh = NoSg /\ sgUsed.refreshes < SgMaxRefreshes
  /\ sgUsed' = [sgUsed EXCEPT !.refreshes = @ + 1]
  /\ sgRefresh' = [asked |-> VisibleTickers, todo |-> VisibleTickers,
                   filter |-> sgFilter, search |-> sgTyped, moved |-> FALSE,
                   result |-> [s \in {} |-> "fresh"]]
  /\ SummaryRetired
  /\ UNCHANGED <<sgGroup, sgList, sgListRead, sgFollow, sgFilter, sgTyped, sgSettled,
                 sgStore, sgNews, sgLast, sgCut>>

\* acquireNewsBatch: the server looks for the news of the next batch, a stock of which stands
\* for the hundred it may hold.
BatchServed(s, outcome) ==
  /\ sgRefresh # NoSg /\ s \in sgRefresh.todo
  /\ outcome = "acquired" => sgStore[s] < SgMaxNews
  /\ outcome = "fresh" => sgStore[s] > 0
  /\ sgRefresh' = [sgRefresh EXCEPT
       !.todo = @ \ {s},
       !.result = [x \in {s} \cup DOMAIN sgRefresh.result |-> IF x = s THEN outcome ELSE sgRefresh.result[x]]]
  /\ sgStore' = [sgStore EXCEPT ![s] =
       IF outcome = "acquired" THEN IF @ < 2 THEN 2 ELSE @ + 1
       ELSE IF outcome = "empty" /\ @ = 0 THEN 1 ELSE @]
  /\ UNCHANGED <<sgGroup, sgList, sgListRead, sgFollow, sgFilter, sgTyped, sgSettled,
                 sgNews, sgLast, sgSummary, sgCut, sgUsed>>

\* qualifyRefreshSummary.
QualifiedFor(refresh) == refresh.filter # sgFilter \/ refresh.search # sgTyped

\* summarizeAcquisition.
Counts(result) ==
  LET with(outcomes) == {s \in DOMAIN result : result[s] \in outcomes}
  IN  [acquired |-> Cardinality(with({"acquired"})),
       current |-> Cardinality(with({"fresh", "empty"})),
       failed |-> with({"failed"}), skipped |-> with({"unknown"})]

Summary(error) ==
  [filter |-> sgRefresh.filter, search |-> sgRefresh.search, asked |-> sgRefresh.asked,
   moved |-> sgRefresh.moved, qualified |-> QualifiedFor(sgRefresh), error |-> error,
   counts |-> Counts(sgRefresh.result)]

\* invalidateQueries ["portfolio-news"]: what is on screen is read again at once, but for a first
\* read of it under way.
NewsInvalidated ==
  LET goesOn(k) == sgNews[k].asked # NoSg /\ (k # NewsKey \/ sgNews[k].data = NoSg)
  IN  sgNews' = [k \in SgKeys |->
        [sgNews[k] EXCEPT !.stale = TRUE, !.late = goesOn(k),
                          !.asked = IF k = NewsKey /\ ~ goesOn(k) THEN StoredOf(k) ELSE @]]

RefreshAnswered ==
  /\ sgRefresh # NoSg /\ sgRefresh.todo = {} /\ sgRefresh.asked # {}
  /\ sgSummary' = Summary(FALSE) /\ sgRefresh' = NoSg
  /\ NewsInvalidated
  /\ UNCHANGED <<sgGroup, sgList, sgListRead, sgFollow, sgFilter, sgTyped, sgSettled,
                 sgStore, sgLast, sgCut, sgUsed>>

\* A batch that fails, or a refresh of nothing, which the server turns down, ends it all with a
\* message.  What the batches before it found is not read.
RefreshFailed ==
  /\ sgRefresh # NoSg
  /\ IF sgRefresh.asked = {} THEN UNCHANGED sgUsed ELSE SgFault
  /\ sgSummary' = Summary(TRUE) /\ sgRefresh' = NoSg
  /\ sgCut' = sgCut \cup {k \in SgKeys : k \cap DOMAIN sgRefresh.result # {}}
  /\ UNCHANGED <<sgGroup, sgList, sgListRead, sgFollow, sgFilter, sgTyped, sgSettled,
                 sgStore, sgNews, sgLast>>

SgNext ==
  \/ \E k \in SgKeys : NewsAnswered(k)
  \/ \E g \in SgGroups \cup {"all"} : ChooseFilter(g)
  \/ \E q \in SgSearch : TypeSearch(q)
  \/ GridSearchSettles
  \/ \E s \in SgStock : FollowPressed(s) \/ \E outcome \in SgOutcome : BatchServed(s, outcome)
  \/ \E f \in sgFollow : FollowAnswered(f)
  \/ ListAnswered
  \/ PressRefresh \/ RefreshAnswered \/ RefreshFailed

SgSpec == SgInit /\ [][SgNext]_sgVars
-----------------------------------------------------------------------------
(* Properties.                                                             *)

\* A grid that nobody searches shows some stock, whatever group was stored or emptied by
\* unfollowing (StockTileGrid.tsx:29-36).
GridIsNeverBlank == sgTyped = SgStock => VisibleTickers # {}

\* When nothing is on its way, every tile shows the news that is stored of its ticker: through
\* refreshes, filters and searches typed meanwhile, and sets read before.
TilesAreCurrent ==
  sgSettled = sgTyped /\ sgRefresh = NoSg =>
    \A s \in VisibleTickers :
      NewsKey \notin sgCut /\ sgNews[NewsKey].asked = NoSg /\ ~ sgNews[NewsKey].err
        => Tile(s).known = sgStore[s]

\* A summary not qualified is about the tiles on screen, as long as the watchlist itself stays,
\* and accounts for each of them.
SummaryFits ==
  sgSummary # NoSg =>
    /\ ~ sgSummary.qualified /\ ~ sgSummary.moved => sgSummary.asked = VisibleTickers
    /\ ~ sgSummary.error =>
         sgSummary.counts.acquired + sgSummary.counts.current
           + Cardinality(sgSummary.counts.failed) + Cardinality(sgSummary.counts.skipped)
         = Cardinality(sgSummary.asked)

GridHolds == GridIsNeverBlank /\ TilesAreCurrent /\ SummaryFits
=============================================================================
