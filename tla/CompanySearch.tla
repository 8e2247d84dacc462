--------------------------- MODULE CompanySearch ---------------------------
(***************************************************************************)
(* The ticker search (components/ui/TickerSearch.tsx) where it is used:    *)
(* in the header of the corporate page, with the form that adds a company  *)
(* which is not listed, and in the ticker picker of the valuation page.    *)
(* The list of suggestions may not have been read yet, its list box closes *)
(* by a timer that starts when the field is left, and an added company is  *)
(* put into the list and selected when its request is answered.            *)
(*                                                                         *)
(* A text is what can be typed: CsMatches are the tickers it would match   *)
(* if they were listed, CsSymbol the ticker it is when taken as typed.     *)
(* The limit of eight suggestions, and a second company added before the   *)
(* first was answered, are left out.                                      *)
(***************************************************************************)
EXTENDS Integers, FiniteSets

CONSTANTS
  CsTicker,      \* tickers
  CsFirst,       \* those the service lists at first
  CsText,        \* what can be typed
  CsSymbol,      \* text -> ticker
  CsMatches,     \* text -> set of tickers
  NoCs,          \* nothing
  CsMaxActs,     \* bound: acts of the user
  CsMaxFaults    \* bound: requests that fail

ASSUME CsAssumption ==
  /\ CsFirst \subseteq CsTicker /\ CsFirst # {} /\ NoCs \notin CsTicker \cup CsText
  /\ CsSymbol \in [CsText -> CsTicker] /\ CsMatches \in [CsText -> SUBSET CsTicker]
  /\ \A x \in CsText : CsSymbol[x] \in CsMatches[x]
  /\ CsMaxActs \in Nat /\ CsMaxFaults \in Nat

VARIABLES
  csPlace,   \* "header" or "picker"
  csStore,   \* the service: listed ticker -> whose name it has, its own or one typed here
  csList,    \* companiesQuery, watchlistQuery: [data, asked, whole]
  csText,    \* value of the search
  csBox,     \* [open, focused, timers, pressed]: the list box, its field and timers, a button held down
  csDraft,   \* the add form: [name, symbol], or nothing
  csPost,    \* its request: [ticker, phase, mine, overtaken]; not mine when the page was left
  csTicker,  \* the ticker of the page
  csWant,    \* history: the ticker asked for last, and whether a list read since may lack an added one
  csUsed     \* bounds

csVars == <<csPlace, csStore, csList, csText, csBox, csDraft, csPost, csTicker, csWant, csUsed>>

Listings == UNION {[S -> {"own", "typed"}] : S \in SUBSET CsTicker}
CsText0 == CsText \cup {NoCs}
BoxClosed == [open |-> FALSE, focused |-> FALSE, timers |-> 0, pressed |-> NoCs]

CsListing == [data : Listings \cup {NoCs}, asked : Listings \cup {NoCs}, whole : BOOLEAN]
CsBoxes == [open : BOOLEAN, focused : BOOLEAN, timers : 0..CsMaxActs, pressed : CsTicker \cup {NoCs, "add"}]
CsDrafting == [name : BOOLEAN, symbol : CsTicker, error : BOOLEAN]
CsPosting == [ticker : CsTicker, phase : {"sent", "served"}, mine : BOOLEAN, overtaken : BOOLEAN]
ASSUME CsNothing == NoCs \notin Listings /\ NoCs \notin CsDrafting /\ NoCs \notin CsPosting

CsTypeOK ==
  /\ csPlace \in {"header", "picker"} /\ csStore \in Listings
  /\ csList \in CsListing
  /\ csText \in CsText0 \cup CsTicker
  /\ csBox \in CsBoxes /\ csDraft \in {NoCs} \cup CsDrafting /\ csPost \in {NoCs} \cup CsPosting
  /\ csTicker \in CsTicker /\ csWant \in [ticker : CsTicker, overtaken : BOOLEAN, late : BOOLEAN]
  /\ csUsed \in [acts : 0..CsMaxActs, faults : 0..CsMaxFaults]

CsInit ==
  /\ csPlace \in {"header", "picker"}
  /\ csStore = [x \in CsFirst |-> "own"]
  /\ csList = [data |-> NoCs, asked |-> csStore, whole |-> TRUE]
  /\ csText = NoCs /\ csBox = BoxClosed /\ csDraft = NoCs /\ csPost = NoCs
  /\ csTicker = CHOOSE x \in CsFirst : TRUE
  /\ csWant = [ticker |-> csTicker, overtaken |-> FALSE, late |-> FALSE]
  /\ csUsed = [acts |-> 0, faults |-> 0]

-----------------------------------------------------------------------------
CsActs == csUsed.acts < CsMaxActs /\ csUsed' = [csUsed EXCEPT !.acts = @ + 1]
CsFault == csUsed.faults < CsMaxFaults /\ csUsed' = [csUsed EXCEPT !.faults = @ + 1]

\* What is suggested for the text of the field: nothing before the list was read.
KnownCompanies == IF csList.data = NoCs THEN {} ELSE DOMAIN csList.data
Suggested == IF csText \in CsText THEN CsMatches[csText] \cap KnownCompanies
             ELSE IF csText \in CsTicker THEN {csText} \cap KnownCompanies ELSE {}
Typed == IF csText \in CsText THEN CsSymbol[csText] ELSE csText
OffersAdd == csPlace = "header" /\ csText # NoCs /\ Suggested = {}
BoxShown == csBox.open /\ (Suggested # {} \/ OffersAdd)

\* commit: the ticker is selected; the header empties the search and closes the form, the picker
\* keeps the ticker in the field.
TakeTicker(x) ==
  /\ csTicker' = x /\ csWant' = [csWant EXCEPT !.ticker = x, !.overtaken = FALSE]
  /\ csText' = IF csPlace = "header" THEN NoCs ELSE x
  /\ csDraft' = NoCs
  /\ csPost' = IF csPost = NoCs THEN NoCs ELSE [csPost EXCEPT !.overtaken = TRUE]

\* noMatchAction: the form opens on what was typed.
OpenForm ==
  /\ csDraft' = [name |-> FALSE, symbol |-> Typed, error |-> FALSE]
  /\ UNCHANGED <<csText, csPost, csTicker, csWant>>

-----------------------------------------------------------------------------
\* The field.
TypeText(text) ==
  /\ csBox.pressed = NoCs /\ text # csText
  /\ csText' = text /\ csBox' = [csBox EXCEPT !.open = TRUE, !.focused = TRUE]
  /\ CsActs /\ UNCHANGED <<csPlace, csStore, csList, csDraft, csPost, csTicker, csWant>>

FocusSearch ==
  /\ ~ csBox.focused /\ csBox.pressed = NoCs
  /\ csBox' = [csBox EXCEPT !.focused = TRUE, !.open = TRUE]
  /\ CsActs /\ UNCHANGED <<csPlace, csStore, csList, csText, csDraft, csPost, csTicker, csWant>>

\* Leaving the field closes the list box 120 ms later, whatever happens meanwhile.
LeaveField ==
  /\ csBox.focused
  /\ csBox' = [csBox EXCEPT !.focused = FALSE, !.timers = @ + 1]
  /\ CsActs /\ UNCHANGED <<csPlace, csStore, csList, csText, csDraft, csPost, csTicker, csWant>>

TimerCloses ==
  /\ csBox.timers > 0
  /\ csBox' = [csBox EXCEPT !.timers = @ - 1, !.open = FALSE]
  /\ UNCHANGED <<csPlace, csStore, csList, csText, csDraft, csPost, csTicker, csWant, csUsed>>

\* A button of the list box is pressed: the field loses the focus first.
PressOption(x) ==
  /\ BoxShown /\ csBox.focused /\ (x \in Suggested \/ (OffersAdd /\ x = "add"))
  /\ csBox' = [csBox EXCEPT !.focused = FALSE, !.timers = @ + 1, !.pressed = x]
  /\ CsActs /\ UNCHANGED <<csPlace, csStore, csList, csText, csDraft, csPost, csTicker, csWant>>

\* The click lands if the button is still there: the timer or a list that was read may have taken
\* it away.
ReleaseOption ==
  /\ csBox.pressed # NoCs
  /\ LET lands == BoxShown /\ IF csBox.pressed = "add" THEN OffersAdd ELSE csBox.pressed \in Suggested
     IN  /\ csBox' = [csBox EXCEPT !.pressed = NoCs, !.open = @ /\ ~ lands]
         /\ IF ~ lands THEN UNCHANGED <<csText, csDraft, csPost, csTicker, csWant>>
            ELSE IF csBox.pressed = "add" THEN OpenForm ELSE TakeTicker(csBox.pressed)
  /\ UNCHANGED <<csPlace, csStore, csList, csUsed>>

\* EnterText takes the one suggestion there is, or else the text as it is typed.
EnterText ==
  /\ csBox.focused /\ csText # NoCs
  /\ csBox' = [csBox EXCEPT !.open = FALSE]
  /\ IF OffersAdd THEN OpenForm
     ELSE TakeTicker(IF Cardinality(Suggested) = 1 THEN CHOOSE x \in Suggested : TRUE ELSE Typed)
  /\ CsActs /\ UNCHANGED <<csPlace, csStore, csList>>

EscapeSearch ==
  /\ csBox.focused /\ csBox.open /\ csBox' = [csBox EXCEPT !.open = FALSE]
  /\ CsActs /\ UNCHANGED <<csPlace, csStore, csList, csText, csDraft, csPost, csTicker, csWant>>

\* The button of the picker takes the text as it is typed.
ShowTyped ==
  /\ csPlace = "picker" /\ csText # NoCs /\ csBox.pressed = NoCs
  /\ csTicker' = Typed /\ csWant' = [csWant EXCEPT !.ticker = Typed]
  /\ csBox' = IF csBox.focused THEN [csBox EXCEPT !.focused = FALSE, !.timers = @ + 1] ELSE csBox
  /\ CsActs /\ UNCHANGED <<csPlace, csStore, csList, csText, csDraft, csPost>>

-----------------------------------------------------------------------------
\* The list.  Its rows are those of some moment since it was asked for; they replace what the page
\* had put in.
SuggestionsRead(rows) ==
  /\ csList.asked # NoCs /\ rows \in {csList.asked, csStore}
  /\ csList' = [data |-> rows, asked |-> NoCs, whole |-> TRUE]
  /\ csWant' = [csWant EXCEPT !.late = rows # csStore]
  /\ UNCHANGED <<csPlace, csStore, csText, csBox, csDraft, csPost, csTicker, csUsed>>

SuggestionsFail ==
  /\ csList.asked # NoCs /\ csList' = [csList EXCEPT !.asked = NoCs]
  /\ CsFault /\ UNCHANGED <<csPlace, csStore, csText, csBox, csDraft, csPost, csTicker, csWant>>

-----------------------------------------------------------------------------
\* The form.
EditDraft(name, symbol) ==
  /\ csDraft # NoCs
  /\ csDraft' = [csDraft EXCEPT !.name = name, !.symbol = symbol] /\ csDraft' # csDraft
  /\ CsActs /\ UNCHANGED <<csPlace, csStore, csList, csText, csBox, csPost, csTicker, csWant>>

CancelForm ==
  /\ csDraft # NoCs /\ csDraft' = NoCs
  /\ CsActs /\ UNCHANGED <<csPlace, csStore, csList, csText, csBox, csPost, csTicker, csWant>>

SubmitCompany ==
  /\ csDraft # NoCs /\ csDraft.name /\ csPost = NoCs
  /\ csPost' = [ticker |-> csDraft.symbol, phase |-> "sent", mine |-> TRUE, overtaken |-> FALSE]
  /\ csDraft' = [csDraft EXCEPT !.error = FALSE]
  /\ CsActs /\ UNCHANGED <<csPlace, csStore, csList, csText, csBox, csTicker, csWant>>

\* add_company replaces the row of a ticker that is there.
CompanySaved ==
  /\ csPost # NoCs /\ csPost.phase = "sent"
  /\ csStore' = [x \in DOMAIN csStore \cup {csPost.ticker} |-> IF x = csPost.ticker THEN "typed" ELSE csStore[x]]
  /\ csPost' = [csPost EXCEPT !.phase = "served"]
  /\ UNCHANGED <<csPlace, csList, csText, csBox, csDraft, csTicker, csWant, csUsed>>

\* addCompany: the company is put into the list, were it not read, and selected; the form and the
\* search are emptied, whatever is in them by now.
CompanyAdded ==
  /\ csPost # NoCs /\ csPost.phase = "served"
  /\ csList' = [csList EXCEPT !.data = [x \in KnownCompanies \cup {csPost.ticker} |->
                                          IF x = csPost.ticker THEN "typed" ELSE csList.data[x]],
                              !.whole = @ /\ csList.data # NoCs]
  /\ csTicker' = csPost.ticker
  /\ csWant' = [csWant EXCEPT !.overtaken = csPost.overtaken,
                              !.ticker = IF csPost.overtaken THEN @ ELSE csPost.ticker]
  /\ IF csPost.mine THEN csDraft' = NoCs /\ csText' = NoCs ELSE UNCHANGED <<csDraft, csText>>
  /\ csPost' = NoCs
  /\ UNCHANGED <<csPlace, csStore, csBox, csUsed>>

AddingFails ==
  /\ csPost # NoCs /\ csPost' = NoCs
  /\ csDraft' = IF csDraft = NoCs \/ ~ csPost.mine THEN csDraft ELSE [csDraft EXCEPT !.error = TRUE]
  /\ CsFault /\ UNCHANGED <<csPlace, csStore, csList, csText, csBox, csTicker, csWant>>

\* The page is left and opened again; a list that was not read or is older than a minute is asked
\* for again.
VisitAgain(again) ==
  /\ csText' = NoCs /\ csBox' = BoxClosed /\ csDraft' = NoCs
  /\ csPost' = IF csPost = NoCs THEN NoCs ELSE [csPost EXCEPT !.mine = FALSE]
  /\ csList' = [csList EXCEPT !.asked = IF @ = NoCs /\ (again \/ csList.data = NoCs) THEN csStore ELSE @]
  /\ CsActs /\ UNCHANGED <<csPlace, csStore, csTicker, csWant>>

CsNext ==
  \/ \E text \in CsText0 : TypeText(text)
  \/ FocusSearch \/ LeaveField \/ TimerCloses \/ ReleaseOption \/ EnterText \/ EscapeSearch \/ ShowTyped
  \/ \E x \in CsTicker \cup {"add"} : PressOption(x)
  \/ \E rows \in {csList.asked, csStore} : SuggestionsRead(rows)
  \/ SuggestionsFail \/ CancelForm \/ SubmitCompany \/ CompanySaved \/ CompanyAdded \/ AddingFails
  \/ \E name \in BOOLEAN, symbol \in CsTicker : EditDraft(name, symbol)
  \/ \E again \in BOOLEAN : VisitAgain(again)

CsSpec == CsInit /\ [][CsNext]_csVars

-----------------------------------------------------------------------------
\* The page is on the ticker that was asked for last: only an added company answered after a
\* later choice overtakes it.
ChoiceIsKept == csTicker = csWant.ticker \/ csWant.overtaken

\* A list the service gave, read whole, is what the service lists: a company that was added is
\* missing only from a list asked for before it was saved.
ListIsTheServices ==
  csList.data # NoCs /\ csList.asked = NoCs /\ csPost = NoCs /\ csList.whole /\ ~ csWant.late /\ csUsed.faults = 0
  => csList.data = csStore

\* An open list box has the focus or a timer that closes it; a company is renamed only by a form;
\* the picker has no form.
SearchHolds ==
  /\ ChoiceIsKept /\ ListIsTheServices
  /\ csBox.open => csBox.focused \/ csBox.timers > 0
  /\ csPlace = "picker" => csDraft = NoCs /\ csPost = NoCs /\ \A x \in DOMAIN csStore : csStore[x] = "own"
  /\ csBox.pressed # NoCs => ~ csBox.focused
=============================================================================
