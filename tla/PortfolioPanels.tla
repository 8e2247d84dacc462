-------------------------- MODULE PortfolioPanels --------------------------
(***************************************************************************)
(* What is open on the portfolio page and where the keyboard's focus is:   *)
(* the panels of the rail (PortfolioShell, SidePanel), the modals over     *)
(* them (ModalShell: the card of a stock, the history of snapshots) and    *)
(* the weight asked for in the allocation panel (page.tsx).                *)
(*                                                                         *)
(* Effects run in the commit that opens or closes something; what a frame  *)
(* is asked for runs before the next act of the user.                      *)
(***************************************************************************)
EXTENDS Integers, Sequences, FiniteSets

CONSTANTS
  PpTicker,           \* stocks
  PpRow,              \* those on the watchlist at first
  NoPp,
  PpMaxActs, PpMaxChanges   \* bounds

ASSUME PpAssumption == PpRow \subseteq PpTicker /\ {PpMaxActs, PpMaxChanges} \subseteq Nat

VARIABLES
  ppPanel,      \* openPanel
  ppModal,      \* selectedStock and snapshotHistoryOpen: the modal over the page
  ppEditing,    \* editingAllocationTicker
  ppFrame,      \* the weight a frame was asked to focus
  ppFocus,      \* document.activeElement
  ppBack,       \* previouslyFocusedRef of the panel and of the modal
  ppHears,      \* keydown listeners of the document, in the order they were added
  ppKey,        \* those that have not heard yet of the Escape being dispatched
  ppListed,     \* the watchlist
  ppLost,       \* a stock was taken off the watchlist by others
  ppEscaped,    \* the last act was an Escape
  ppUsed        \* bounds

ppVars == <<ppPanel, ppModal, ppEditing, ppFrame, ppFocus, ppBack, ppHears, ppKey, ppListed,
            ppLost, ppEscaped, ppUsed>>

PpPanel == {"snapshot", "holdings", "allocation"}
Of(place, ticker) == [place |-> place, ticker |-> ticker]
At(place) == Of(place, NoPp)
PpPlace == {At(p) : p \in {"body", "rail", "panel", "history", "add", "modal"}} \cup
           [place : {"tile", "row", "percent", "weight", "company"}, ticker : PpTicker]

\* The modals there are.
PpModals == {At("history")} \cup {Of("card", t) : t \in PpTicker}
ASSUME PpNothing == NoPp \notin PpTicker /\ NoPp \notin PpPanel /\ NoPp \notin PpModals

PpTypeOK ==
  /\ ppPanel \in PpPanel \cup {NoPp} /\ ppEditing \in PpTicker \cup {NoPp}
  /\ ppModal \in {NoPp} \cup PpModals
  /\ ppFrame \in PpTicker \cup {NoPp} /\ ppFocus \in PpPlace
  /\ ppBack \in [{"panel", "modal"} -> PpPlace]
  /\ \A heard \in {ppHears, ppKey} : \A i \in DOMAIN heard : heard[i].of \in {"panel", "modal"}
  /\ ppListed \subseteq PpTicker /\ {ppLost, ppEscaped} \subseteq BOOLEAN

-----------------------------------------------------------------------------
(* The page.                                                               *)

\* The panel a control belongs to.
PlaceIn == [history |-> "snapshot", add |-> "holdings", row |-> "holdings",
            company |-> "allocation", weight |-> "allocation", percent |-> "allocation"]

\* What is rendered, by the panel that is open, the modal and the weight being edited: of a stock's
\* weight it is the input or the figure.
Rendered(place, panel, modal, editing, listed) ==
  /\ place.place \in DOMAIN PlaceIn => panel = PlaceIn[place.place]
  /\ place.place = "panel" => panel # NoPp
  /\ place.place = "modal" => modal # NoPp
  /\ place.place \in {"tile", "row", "weight", "percent"} => place.ticker \in listed
  /\ place.place = "weight" => editing = place.ticker
  /\ place.place = "percent" => editing # place.ticker

\* The handlers are registered by an effect that depends on them: closePanel is memoised, and the
\* modal reads the newest onClose from a ref.
Stable == {"panel", "modal"}

\* A commit ends an effect and starts it again by what is open before and after.
Goes(kind, was, is) == was # NoPp /\ (is = NoPp \/ kind \notin Stable)
Comes(kind, was, is) == is # NoPp /\ (was = NoPp \/ kind \notin Stable)

\* The listeners of the kinds that are not taken off.
Without(heards, kinds) ==
  LET stay[n \in 0..Len(heards)] ==
        IF n = 0 THEN <<>>
        ELSE IF heards[n].of \in kinds THEN stay[n - 1] ELSE Append(stay[n - 1], heards[n])
  IN  stay[Len(heards)]

\* Which of the listeners stay, and who is added to them.
Registered(was, is) ==
  LET gone == {kind \in {"panel", "modal"} : Goes(kind, was[kind], is[kind])}
      run(kind) == IF \E i \in DOMAIN ppHears : ppHears[i] = [of |-> kind, run |-> 0] THEN 1 ELSE 0
      New(kind) == IF Comes(kind, was[kind], is[kind]) THEN <<[of |-> kind, run |-> run(kind)]>> ELSE <<>>
  IN  Without(ppHears, gone) \o New("panel") \o New("modal")

\* What a commit does to the focus: it is lost with what had it.  A panel or modal that goes gives
\* it back to what had it before; one that comes notes who has it and takes it.
Commit(panel, modal, editing, listed, focus) ==
  LET was == [panel |-> ppPanel, modal |-> ppModal]
      is == [panel |-> panel, modal |-> modal]
      seen(place) == Rendered(place, panel, modal, editing, listed)
      left == IF seen(focus) THEN focus ELSE At("body")
      Back(kind, had) == IF Goes(kind, was[kind], is[kind]) /\ seen(ppBack[kind]) THEN ppBack[kind] ELSE had
      Taken(kind, had) == IF Comes(kind, was[kind], is[kind]) THEN At(kind) ELSE had
      free == Back("modal", Back("panel", left))
      Noted(kind, has) == IF Comes(kind, was[kind], is[kind]) THEN has ELSE ppBack[kind]
  IN  /\ ppPanel' = panel /\ ppModal' = modal /\ ppEditing' = editing /\ ppListed' = listed
      /\ ppFocus' = Taken("modal", Taken("panel", free))
      /\ ppBack' = [panel |-> Noted("panel", free), modal |-> Noted("modal", Taken("panel", free))]
      /\ ppHears' = Registered(was, is)

PpInit ==
  /\ ppPanel = NoPp /\ ppModal = NoPp /\ ppEditing = NoPp /\ ppFrame = NoPp
  /\ ppFocus = At("body") /\ ppBack = [kind \in {"panel", "modal"} |-> At("body")]
  /\ ppHears = <<>> /\ ppKey = <<>> /\ ppListed = PpRow /\ ppLost = FALSE /\ ppEscaped = FALSE
  /\ ppUsed = [acts |-> 0, changes |-> 0]

\* The user acts when no frame is due and no key is being dispatched.
PpAct ==
  /\ ppFrame = NoPp /\ ppKey = <<>>
  /\ ppUsed.acts < PpMaxActs /\ ppUsed' = [ppUsed EXCEPT !.acts = @ + 1]
  /\ ppEscaped' = FALSE

\* A press takes the focus first, and the weight being edited ends with the blur.
Blurred(place) == IF ppEditing # NoPp /\ ppFocus = Of("weight", ppEditing)
                     /\ place # ppFocus THEN NoPp ELSE ppEditing
Seen(place) == ppModal = NoPp /\ Rendered(place, ppPanel, ppModal, ppEditing, ppListed)

-----------------------------------------------------------------------------
(* What the user does.                                                     *)

\* A button of the rail opens its panel, closes it or puts it in the place of another.
PressRail(panel) ==
  /\ Seen(At("rail")) /\ PpAct
  /\ Commit(IF ppPanel = panel THEN NoPp ELSE panel, NoPp, Blurred(At("rail")), ppListed, At("rail"))
  /\ UNCHANGED <<ppFrame, ppKey, ppLost>>

\* The button in the panel's header.
PressClose ==
  /\ ppPanel # NoPp /\ ppModal = NoPp /\ PpAct
  /\ Commit(NoPp, NoPp, Blurred(At("panel")), ppListed, At("panel"))
  /\ UNCHANGED <<ppFrame, ppKey, ppLost>>

\* The card of a stock, from its tile, its row or the browser of companies.
OpenCard(place) ==
  /\ Seen(place) /\ place.place \in {"tile", "row", "company"} /\ PpAct
  /\ Commit(ppPanel, Of("card", place.ticker), Blurred(place), ppListed, place)
  /\ UNCHANGED <<ppFrame, ppKey, ppLost>>

OpenHistory ==
  /\ Seen(At("history")) /\ PpAct
  /\ Commit(ppPanel, At("history"), ppEditing, ppListed, At("history"))
  /\ UNCHANGED <<ppFrame, ppKey, ppLost>>

\* Its close button, or the backdrop, which cannot have the focus.
CloseModal(focus) ==
  /\ ppModal # NoPp /\ PpAct
  /\ Commit(ppPanel, NoPp, ppEditing, ppListed, focus)
  /\ UNCHANGED <<ppFrame, ppKey, ppLost>>

\* requestAllocationFocus: whatever was over it closes, the panel opens, and once it is there a
\* frame focuses the weight.  The request replaces the one before.
RequestAllocationFocus(ticker, focus) ==
  /\ Commit("allocation", NoPp, IF ticker # NoPp THEN ticker ELSE Blurred(focus), ppListed, focus)
  /\ ppFrame' = ticker

\* handleFocusAllocationForStock: a stock without a row is prepared in the form below.
AddToPortfolio ==
  /\ ppModal # NoPp /\ ppModal # At("history") /\ PpAct
  /\ RequestAllocationFocus(IF ppModal.ticker \in ppListed THEN ppModal.ticker ELSE NoPp, At("modal"))
  /\ UNCHANGED <<ppKey, ppLost>>

PressAdd ==
  /\ Seen(At("add")) /\ PpAct
  /\ RequestAllocationFocus(NoPp, At("add"))
  /\ UNCHANGED <<ppKey, ppLost>>

\* handleAllocationValueDoubleClick: the percentage becomes an input, which a frame focuses.
EditWeight(ticker) ==
  /\ Seen(Of("percent", ticker)) /\ PpAct
  /\ Commit(ppPanel, ppModal, ticker, ppListed, Of("percent", ticker))
  /\ ppFrame' = ticker
  /\ UNCHANGED <<ppKey, ppLost>>

FrameRuns ==
  /\ ppFrame # NoPp /\ ppFrame' = NoPp
  /\ ppFocus' = IF Rendered(Of("weight", ppFrame), ppPanel, ppModal, ppEditing, ppListed)
                THEN Of("weight", ppFrame) ELSE ppFocus
  /\ UNCHANGED <<ppPanel, ppModal, ppEditing, ppBack, ppHears, ppKey, ppListed, ppLost,
                 ppEscaped, ppUsed>>

\* handleAllocationInputKeyDown: the input gives the focus up.
EnterWeight ==
  /\ ppEditing # NoPp /\ ppFocus = Of("weight", ppEditing) /\ PpAct
  /\ Commit(ppPanel, ppModal, NoPp, ppListed, At("body"))
  /\ UNCHANGED <<ppFrame, ppKey, ppLost>>

\* Escape: the input hears it first, then the listeners of the document there were.
PressEscape ==
  /\ ppFrame = NoPp /\ ppKey = <<>>
  /\ ppUsed.acts < PpMaxActs /\ ppUsed' = [ppUsed EXCEPT !.acts = @ + 1]
  /\ ppHears # <<>> /\ ppKey' = ppHears /\ ppEscaped' = TRUE
  /\ LET editing == IF ppFocus = Of("weight", ppEditing) THEN NoPp ELSE ppEditing
     IN  Commit(ppPanel, ppModal, editing, ppListed, IF editing = ppEditing THEN ppFocus ELSE At("body"))
  /\ UNCHANGED <<ppFrame, ppLost>>

\* The next of them, unless it was taken off meanwhile; what it closes is closed before the next.
ListenerRuns ==
  /\ ppKey # <<>> /\ ppKey' = Tail(ppKey)
  /\ LET heard == Head(ppKey)
         runs == \E i \in DOMAIN ppHears : ppHears[i] = heard
     IN  Commit(IF runs /\ heard.of = "panel" THEN NoPp ELSE ppPanel,
                IF runs /\ heard.of = "modal" THEN NoPp ELSE ppModal,
                ppEditing, ppListed, ppFocus)
  /\ UNCHANGED <<ppFrame, ppLost, ppEscaped, ppUsed>>

\* The page is rendered again: the watchlist was read, with a stock less or more.
WatchlistChanges(ticker) ==
  /\ ppKey = <<>>
  /\ ppUsed.changes < PpMaxChanges /\ ppUsed' = [ppUsed EXCEPT !.changes = @ + 1]
  /\ LET listed == IF ticker \in ppListed THEN ppListed \ {ticker} ELSE ppListed \cup {ticker}
     IN  /\ Commit(ppPanel, ppModal, ppEditing, listed, ppFocus)
         /\ ppLost' = (ppLost \/ ticker \in ppListed)
  /\ UNCHANGED <<ppFrame, ppKey, ppEscaped>>

PpNext ==
  \/ \E panel \in PpPanel : PressRail(panel)
  \/ \E place \in [place : {"tile", "row", "company"}, ticker : PpTicker] : OpenCard(place)
  \/ \E focus \in {At("modal"), At("body")} : CloseModal(focus)
  \/ \E t \in PpTicker : EditWeight(t) \/ WatchlistChanges(t)
  \/ PressClose \/ OpenHistory \/ AddToPortfolio \/ PressAdd \/ FrameRuns \/ EnterWeight
  \/ PressEscape \/ ListenerRuns

PpSpec == PpInit /\ [][PpNext]_ppVars
-----------------------------------------------------------------------------
(* Properties.                                                             *)

\* With no frame due and no key on its way: the focus is in the modal that is open, else in the
\* weight being edited; one Escape has closed all there was; and when all is closed the focus is
\* back on the page, unless the stock it was on is gone.
PanelsHold ==
  ppFrame = NoPp /\ ppKey = <<>> =>
    /\ ppModal # NoPp => ppFocus = At("modal")
    /\ ppModal = NoPp /\ ppEditing # NoPp /\ ~ ppLost => ppFocus = Of("weight", ppEditing)
    /\ ppEscaped => ppPanel = NoPp /\ ppModal = NoPp
    /\ ppPanel = NoPp /\ ppModal = NoPp /\ ppUsed.acts > 0 /\ ~ ppLost => ppFocus # At("body")
=============================================================================
