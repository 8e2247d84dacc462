----------------------------- MODULE MarketPage -----------------------------
(***************************************************************************)
(* The market page (components/market/MarketOverviewClient.tsx): two tabs, *)
(* a dialog for one index, and the signal panel of components/risk, which  *)
(* opens by itself once for each new alert and surge.  What was seen is    *)
(* kept in localStorage, the open tab in sessionStorage; everything else   *)
(* is lost when the page is left.                                          *)
(*                                                                         *)
(* The risk engine is external: an alert opens and closes, a surge begins  *)
(* and ends, between any two polls.                                        *)
(***************************************************************************)
EXTENDS Integers

CONSTANTS
  MsAlert, MsSurge,   \* ids of alerts, start days of surge banners
  NoMs,               \* null
  MsSent, MsCards,    \* cards the API sends at most; the numbers of cards alerts have
  MsMaxNews,          \* bound: changes at the risk engine
  MsMaxVisits,        \* bound: times the page is opened
  MsMaxFaults         \* bound: failed requests

ASSUME MsAssumption ==
  /\ MsAlert \cap MsSurge = {} /\ NoMs \notin MsAlert \cup MsSurge
  /\ MsSent \in Nat \ {0} /\ MsCards \subseteq Nat
  /\ MsMaxNews \in Nat /\ MsMaxVisits \in Nat /\ MsMaxFaults \in Nat

VARIABLES
  msServer,   \* GET /risk/latest
  msData, msErr, msRead,   \* the query: data, isError, the request in flight
  msRecord,   \* the query of each closed alert's record
  msSeen,     \* mv.risk.seen.* in localStorage
  msBlocked,  \* storage cannot be read or written
  msStored,   \* the page tab in sessionStorage
  msScreen,   \* the state of the page, NoScreen when another page is open; waits: the keys an
              \* opening that waits is for
  msTimes,    \* how often a key has opened the panel
  msCut,      \* keys whose opening waited when the page was left
  msChosen,   \* the page tab the user chose last
  msUsed      \* bounds

msVars == <<msServer, msData, msErr, msRead, msRecord, msSeen, msBlocked, msStored,
            msScreen, msTimes, msCut, msChosen, msUsed>>

MsKey == MsAlert \cup MsSurge
Latest == [alert : MsAlert \cup {NoMs}, last : MsAlert \cup {NoMs}, surge : MsSurge \cup {NoMs},
           cards : MsCards \cup {0}, ready : BOOLEAN]
NoScreen == [here |-> FALSE, panel |-> FALSE, pending |-> FALSE, index |-> FALSE, tab |-> "crash",
             card |-> 0, dragged |-> FALSE, pageTab |-> "instruments", waits |-> {}]
Request(phase, value) == [phase |-> phase, value |-> value]
ASSUME MsNothing == NoMs \notin Latest
NotReady == [alert |-> NoMs, last |-> NoMs, surge |-> NoMs, cards |-> 0, ready |-> FALSE]

MsTypeOK ==
  /\ msServer \in Latest /\ msData \in Latest \cup {NoMs} /\ msErr \in BOOLEAN
  /\ msRead.phase \in {"none", "asked", "served", "failed"} /\ msRead.value \in Latest \cup {NoMs}
  /\ msRecord \in [MsAlert -> {"none", "asked", "got", "failed"}]
  /\ msSeen \subseteq MsKey /\ msCut \subseteq MsKey /\ msBlocked \in BOOLEAN
  /\ msStored \in {"none", "instruments", "spreads"} /\ msChosen \in {"instruments", "spreads"}
  /\ msTimes \in [MsKey -> 0..2]
  /\ msScreen.tab \in {"crash", "surge"} /\ msScreen.card \in 0..MsSent
  /\ msUsed \in [news : 0..MsMaxNews, visits : 0..MsMaxVisits, faults : 0..MsMaxFaults]

MsInit ==
  /\ msServer = NotReady /\ msData = NoMs /\ msErr = FALSE /\ msRead = Request("none", NoMs)
  /\ msRecord = [a \in MsAlert |-> "none"]
  /\ msSeen = {} /\ msBlocked \in BOOLEAN /\ msStored = "none" /\ msScreen = NoScreen
  /\ msTimes = [k \in MsKey |-> 0] /\ msCut = {} /\ msChosen = "instruments"
  /\ msUsed = [news |-> 0, visits |-> 0, faults |-> 0]

-----------------------------------------------------------------------------
(* What is on the screen.                                                  *)

StripState ==
  IF msErr THEN "error"
  ELSE IF msData = NoMs THEN "loading"
  ELSE IF ~ msData.ready THEN "pending"
  ELSE IF msData.alert # NoMs THEN "risk"
  ELSE IF msData.surge # NoMs THEN "surge" ELSE "neutral"

\* initialTab, of the data there is when the panel opens.
InitialTab(d) == IF d # NoMs /\ d.alert = NoMs /\ d.surge # NoMs THEN "surge" ELSE "crash"

\* PanelBody: what the left side of the panel shows of screen s and data d.
Record(d, records) ==
  IF d.alert # NoMs THEN d.alert
  ELSE IF d.last # NoMs /\ records[d.last] = "got" THEN d.last ELSE NoMs
RecordCards(d) == IF d.alert # NoMs THEN d.cards ELSE 1
ShownBy(s, d, err, records) ==
  IF ~ s.panel THEN "closed"
  ELSE IF err THEN "error"
  ELSE IF d = NoMs THEN "loading"
  ELSE IF s.tab = "surge" THEN IF d.surge = NoMs THEN "empty" ELSE "deck"
  ELSE IF d.alert = NoMs /\ d.last # NoMs /\ records[d.last] # "got"
       THEN IF records[d.last] = "failed" THEN "error" ELSE "loading"
  ELSE IF Record(d, records) = NoMs \/ RecordCards(d) = 0 THEN "empty" ELSE "deck"
\* The key of the deck: another deck starts at its first card.
DeckOf(s, d, err, records) ==
  IF ShownBy(s, d, err, records) # "deck" THEN <<>>
  ELSE IF s.tab = "surge" THEN <<"surge">> ELSE <<"crash", Record(d, records)>>
PanelShows == ShownBy(msScreen, msData, msErr, msRecord)

\* CardDeck: the cards sent, and one that links to the rest.
Cards == IF msScreen.tab = "surge" THEN 1 ELSE RecordCards(msData)
Slots == IF Cards > MsSent THEN MsSent + 1 ELSE Cards
FrontCard == IF msScreen.card < Slots THEN msScreen.card ELSE Slots - 1

-----------------------------------------------------------------------------
(* The screen after a step, before the deck and the effects see it.        *)

OpenPanel(s, d) == [s EXCEPT !.panel = TRUE, !.tab = IF s.panel THEN @ ELSE InitialTab(d)]

Keys(d) == IF d = NoMs THEN {} ELSE {d.alert, d.surge} \ {NoMs}
Fresh(d) == IF msBlocked THEN Keys(d) ELSE Keys(d) \ msSeen
AutoOpen(s, d) ==
  IF Fresh(d) = {} THEN s
  ELSE IF s.index THEN [s EXCEPT !.pending = TRUE, !.waits = @ \cup Fresh(d)] ELSE OpenPanel(s, d)
Counted(keys) == [k \in MsKey |-> IF k \in keys /\ msTimes[k] < 2 THEN msTimes[k] + 1 ELSE msTimes[k]]
\* useSignalAutoOpen: runs when the page is opened and when the alert or the surge is another.
AutoOpenEffect(s, d) ==
  /\ msScreen' = AutoOpen(s, d)
  /\ msSeen' = IF msBlocked THEN msSeen ELSE msSeen \cup Keys(d)
  /\ msTimes' = IF s.index THEN msTimes ELSE Counted(Fresh(d))

ResetDeck(s) == [s EXCEPT !.card = 0, !.dragged = FALSE]
\* The record of the last alert is asked for when the panel shows it.
AsksRecord(s, d) ==
  msRecord' = IF s.panel /\ d # NoMs /\ d.alert = NoMs /\ d.last # NoMs /\ msRecord[d.last] = "none"
              THEN [msRecord EXCEPT ![d.last] = "asked"] ELSE msRecord

-----------------------------------------------------------------------------
MsFault == msUsed.faults < MsMaxFaults /\ msUsed' = [msUsed EXCEPT !.faults = @ + 1]

\* The risk engine: an evaluation ends, an alert opens or closes, a surge begins or ends.
EngineMoves(next) ==
  /\ msUsed.news < MsMaxNews /\ msUsed' = [msUsed EXCEPT !.news = @ + 1]
  /\ next # msServer /\ next.ready
  /\ next.last = IF msServer.alert # NoMs /\ next.alert # msServer.alert THEN msServer.alert
                 ELSE msServer.last
  /\ next.alert # NoMs => next.alert # next.last
  /\ IF next.alert = NoMs THEN next.cards = 0 ELSE next.cards \in MsCards
  /\ msServer' = next
  /\ UNCHANGED <<msData, msErr, msRead, msRecord, msSeen, msBlocked, msStored, msScreen, msTimes,
                 msCut, msChosen>>

\* useRiskLatest: when the page opens without data or with data over a minute old, every five
\* minutes, and on Retry.
Poll ==
  /\ msScreen.here /\ msRead.phase = "none" /\ msRead' = Request("asked", NoMs)
  /\ UNCHANGED <<msServer, msData, msErr, msRecord, msSeen, msBlocked, msStored, msScreen, msTimes,
                 msCut, msChosen, msUsed>>
PollServed ==
  /\ msRead.phase = "asked"
  /\ \/ msRead' = Request("served", msServer) /\ UNCHANGED msUsed
     \/ msRead' = Request("failed", NoMs) /\ MsFault
  /\ UNCHANGED <<msServer, msData, msErr, msRecord, msSeen, msBlocked, msStored, msScreen, msTimes,
                 msCut, msChosen>>
PollAnswered ==
  /\ msRead.phase \in {"served", "failed"} /\ msRead' = Request("none", NoMs)
  /\ msErr' = (msRead.phase = "failed")
  /\ LET d == IF msRead.phase = "failed" THEN msData ELSE msRead.value
         same == DeckOf(msScreen, d, msErr', msRecord) = DeckOf(msScreen, msData, msErr, msRecord)
         s == IF same THEN msScreen ELSE ResetDeck(msScreen)
     IN /\ msData' = d
        /\ IF msScreen.here /\ Keys(d) # Keys(msData) THEN AutoOpenEffect(s, d)
           ELSE msScreen' = s /\ UNCHANGED <<msSeen, msTimes>>
        /\ AsksRecord(msScreen', d)
  /\ UNCHANGED <<msServer, msBlocked, msStored, msCut, msChosen, msUsed>>

\* useRiskAlert of a closed alert, and its Retry.
RecordServed(a) ==
  /\ msRecord[a] = "asked"
  /\ \/ msRecord' = [msRecord EXCEPT ![a] = "got"] /\ UNCHANGED msUsed
     \/ msRecord' = [msRecord EXCEPT ![a] = "failed"] /\ MsFault
  /\ UNCHANGED <<msServer, msData, msErr, msRead, msSeen, msBlocked, msStored, msScreen, msTimes,
                 msCut, msChosen>>
RetryRecord(a) ==
  /\ PanelShows = "error" /\ ~ msErr /\ a = msData.last
  /\ msRecord' = [msRecord EXCEPT ![a] = "asked"]
  /\ UNCHANGED <<msServer, msData, msErr, msRead, msSeen, msBlocked, msStored, msScreen, msTimes,
                 msCut, msChosen, msUsed>>

\* The page is opened: the tab is restored, and the effect runs on what is cached.  After a reload
\* of the browser nothing is.
Restored == IF msBlocked \/ msStored = "none" THEN "instruments" ELSE msStored
Visit(reloaded) ==
  /\ ~ msScreen.here /\ msUsed.visits < MsMaxVisits
  /\ msUsed' = [msUsed EXCEPT !.visits = @ + 1]
  /\ LET d == IF reloaded THEN NoMs ELSE msData
     IN /\ AutoOpenEffect([NoScreen EXCEPT !.here = TRUE, !.pageTab = Restored], d)
        /\ msData' = d /\ msErr' = (msErr /\ ~ reloaded)
        /\ \/ msRead' = Request("asked", NoMs)
           \/ msRead' = msRead /\ (d # NoMs \/ msRead.phase # "none") /\ ~ reloaded
        /\ IF reloaded THEN msRecord' = [a \in MsAlert |-> "none"] ELSE AsksRecord(msScreen', d)
  /\ msStored' = IF msBlocked THEN msStored ELSE Restored
  /\ msChosen' = IF msBlocked THEN "instruments" ELSE msChosen
  /\ UNCHANGED <<msServer, msBlocked, msCut>>
\* Another page: a card, a link of the panel or of the index dialog, the navigation bar.
LeaveMarket ==
  /\ msScreen.here /\ msScreen' = NoScreen
  /\ msCut' = msCut \cup msScreen.waits
  /\ UNCHANGED <<msServer, msData, msErr, msRead, msRecord, msSeen, msBlocked, msStored, msTimes,
                 msChosen, msUsed>>

OnScreen(s) ==
  /\ msScreen.here /\ msScreen' = s /\ AsksRecord(s, msData)
  /\ UNCHANGED <<msServer, msData, msErr, msRead, msSeen, msBlocked, msTimes, msCut, msUsed>>
Dialog == msScreen.panel \/ msScreen.index

ClickStrip == ~ Dialog /\ OnScreen(OpenPanel(msScreen, msData)) /\ UNCHANGED <<msStored, msChosen>>
ClosePanel ==
  /\ msScreen.panel /\ OnScreen(ResetDeck([msScreen EXCEPT !.panel = FALSE]))
  /\ UNCHANGED <<msStored, msChosen>>
\* The page tabs: a click, or the arrow keys, which wrap.
SelectPageTab(tab) ==
  /\ ~ Dialog /\ OnScreen([msScreen EXCEPT !.pageTab = tab])
  /\ msChosen' = tab /\ msStored' = IF msBlocked THEN msStored ELSE tab
OpenIndex ==
  /\ ~ Dialog /\ msScreen.pageTab = "instruments" /\ OnScreen([msScreen EXCEPT !.index = TRUE])
  /\ UNCHANGED <<msStored, msChosen>>

\* closeDetail.
DetailClosed ==
  LET s == [msScreen EXCEPT !.index = FALSE, !.pending = FALSE, !.waits = {}]
  IN IF msScreen.pending THEN OpenPanel(s, msData) ELSE s
CloseIndex ==
  /\ msScreen.index /\ msScreen.here /\ msScreen' = DetailClosed /\ AsksRecord(msScreen', msData)
  /\ msTimes' = IF msScreen'.panel THEN Counted(msScreen.waits) ELSE msTimes
  /\ UNCHANGED <<msServer, msData, msErr, msRead, msSeen, msBlocked, msStored, msCut, msChosen, msUsed>>

\* The tabs of the panel, and its deck: arrow keys, buttons and a drag move one card.
SelectTab(tab) ==
  /\ PanelShows \notin {"closed"} /\ ~ msErr /\ msData # NoMs /\ tab # msScreen.tab
  /\ OnScreen(ResetDeck([msScreen EXCEPT !.tab = tab])) /\ UNCHANGED <<msStored, msChosen>>
Moved(step) ==
  LET to == FrontCard + step IN IF to < 0 THEN 0 ELSE IF to >= Slots THEN Slots - 1 ELSE to
MoveCard(step) ==
  /\ PanelShows = "deck" /\ OnScreen([msScreen EXCEPT !.card = Moved(step)])
  /\ UNCHANGED <<msStored, msChosen>>
\* A drag is not a click on the card it began on; that card is gone when another came to the front,
\* and the click with it.
DragCard(step) ==
  /\ PanelShows = "deck"
  /\ OnScreen([msScreen EXCEPT !.card = Moved(step), !.dragged = Moved(step) # FrontCard])
  /\ UNCHANGED <<msStored, msChosen>>
\* Enter on the link to the rest, which a drag before it swallows.
EnterMore ==
  /\ PanelShows = "deck" /\ FrontCard = MsSent
  /\ IF msScreen.dragged THEN OnScreen([msScreen EXCEPT !.dragged = FALSE]) /\ UNCHANGED <<msStored, msChosen>>
     ELSE LeaveMarket

MsNext ==
  \/ \E next \in Latest : EngineMoves(next)
  \/ Poll \/ PollServed \/ PollAnswered
  \/ \E a \in MsAlert : RecordServed(a) \/ RetryRecord(a)
  \/ \E reloaded \in BOOLEAN : Visit(reloaded)
  \/ LeaveMarket \/ ClickStrip \/ ClosePanel \/ OpenIndex \/ CloseIndex \/ EnterMore
  \/ \E tab \in {"instruments", "spreads"} : SelectPageTab(tab)
  \/ \E tab \in {"crash", "surge"} : SelectTab(tab)
  \/ \E step \in {1, -1} : MoveCard(step) \/ DragCard(step)

MsSpec == MsInit /\ [][MsNext]_msVars

-----------------------------------------------------------------------------
\* An alert or surge marked as seen has opened the panel, once, or waits behind the index dialog;
\* two dialogs never stack.  A waiting opening is lost when the page is left.  The strip and the
\* panel agree on what cannot be shown, the deck stands on a card it has, and the page comes back
\* on the tab the user chose.
SignalsAreTold ==
  /\ ~ (msScreen.panel /\ msScreen.index)
  /\ \A k \in msSeen : msTimes[k] = 1 \/ (msScreen.pending /\ msScreen.index) \/ k \in msCut
  /\ msScreen.panel /\ StripState \in {"loading", "error"} => PanelShows = StripState
  /\ PanelShows = "deck" => FrontCard \in 0..(Slots - 1)
  /\ msScreen.here => msScreen.pageTab = msChosen
=============================================================================
