---------------------------- MODULE StockEditor ----------------------------
(***************************************************************************)
(* The sector and the theme of a stock, edited in its card                 *)
(* (components/StockDetailModal.tsx with the handlers it is given by       *)
(* app/portfolio/page.tsx): drafts that follow the row on screen, a sector *)
(* saved with the whole row or, for a stock off the watchlist, with the    *)
(* company, a theme saved alone and read back, and the removal.            *)
(*                                                                         *)
(* One stock.  Weights and groups are those of AllocationEditor.  The      *)
(* server is external.                                                     *)
(***************************************************************************)
EXTENDS Integers, FiniteSets

CONSTANTS
  SeSector,       \* sectors, as trimmed
  SeTheme,        \* the themes offered
  SeOther,        \* a theme stored by a newer program, which the list does not know
  NoTheme,
  NoSe,
  SeMaxActs, SeMaxVisits, SeMaxTrouble   \* bounds

ASSUME SeAssumption ==
  /\ SeSector # {} /\ NoTheme \in SeTheme /\ SeOther \notin SeTheme
  /\ {SeMaxActs, SeMaxVisits, SeMaxTrouble} \subseteq Nat

VARIABLES
  seRow,        \* the watchlist row, as saved
  seCompany,    \* the sector of the company, as saved
  seKnown,      \* the row as the page knows it
  seListed,     \* the company as the page knows it
  seRead,       \* the watchlist is being read: the row when it was asked for
  seContext,    \* selectedStockContext: the card is open, on this row when there is no other
  seDraft,      \* sectorDraft and themeDraft
  seSaves,      \* saves and removals under way
  seMessage,    \* the message of each field
  seMissed,     \* the row may have changed behind what will be read
  seUsed        \* bounds

seVars == <<seRow, seCompany, seKnown, seListed, seRead, seContext, seDraft, seSaves,
            seMessage, seMissed, seUsed>>

SeFields == [sector : SeSector, theme : SeTheme \cup {SeOther}]
SeStock == [sector : SeSector, theme : SeTheme \cup {SeOther}, id : BOOLEAN]
Fields(stock) == [sector |-> stock.sector, theme |-> stock.theme]
ASSUME SeNothing == NoSe \notin SeFields \cup SeStock
SeSave == [kind : {"sector", "company", "theme", "remove"}, to : SeFields,
           stage : {"sent", "served", "patched"}, mine : BOOLEAN]

SeTypeOK ==
  /\ {seRow, seKnown} \subseteq SeFields \cup {NoSe} /\ {seCompany, seListed} \subseteq SeSector
  /\ seContext \in SeStock \cup {NoSe} /\ seDraft \in SeFields
  /\ seSaves \subseteq SeSave /\ seMissed \in BOOLEAN
  /\ seMessage \in [{"sector", "theme"} -> {"none", "same", "saved", "failed"}]

-----------------------------------------------------------------------------
(* The card.                                                               *)

\* selectedWatchlistStock ?? fallbackStock.  A row has an id, a company has none.
WithId(row) == [sector |-> row.sector, theme |-> row.theme, id |-> TRUE]
Stocked(known, context) ==
  IF known # NoSe /\ context # NoSe THEN WithId(known) ELSE context
SelectedStock == Stocked(seKnown, seContext)
InWatchlist == seContext # NoSe /\ seKnown # NoSe

SavingField(kinds) == \E save \in seSaves : save.mine /\ save.kind \in kinds

\* The theme is offered of a stock that has, or had when the card was opened, a row; one the list
\* does not know is shown as Other and cannot be chosen.
ThemeEditorShown == seContext # NoSe /\ SelectedStock.id
ThemeOptions ==
  SeTheme \cup (IF SelectedStock.theme \notin SeTheme THEN {SelectedStock.theme} ELSE {})

\* The effect on the row shown: whatever of it changed, both drafts follow.
DraftsFollow ==
  LET stock == Stocked(seKnown', seContext')
  IN  seDraft' = IF stock = NoSe THEN seDraft
                  ELSE IF Fields(stock) = Fields(SelectedStock) THEN seDraft ELSE Fields(stock)

NoMessages == [f \in {"sector", "theme"} |-> "none"]

\* buildBrowserPortfolioStock: a company that is not on the watchlist has no theme.
BrowserStock ==
  IF seKnown # NoSe THEN WithId(seKnown)
  ELSE [sector |-> seListed, theme |-> NoTheme, id |-> FALSE]

SeInit ==
  /\ seCompany = CHOOSE s \in SeSector : TRUE
  /\ seRow \in {NoSe} \cup [sector : {seCompany}, theme : {NoTheme, SeOther}]
  /\ seKnown = seRow /\ seListed = seCompany
  /\ seRead = [asked |-> FALSE, row |-> NoSe]
  /\ seContext = NoSe
  /\ seDraft = [sector |-> seCompany, theme |-> NoTheme]
  /\ seSaves = {} /\ seMessage = NoMessages /\ seMissed = FALSE
  /\ seUsed = [acts |-> 0, visits |-> 0, trouble |-> 0]

\* openStockDetail from a tile, handleOpenCompanyDetail from the browser of companies.
OpenStock ==
  /\ seContext = NoSe /\ seUsed.visits < SeMaxVisits
  /\ seUsed' = [seUsed EXCEPT !.visits = @ + 1]
  /\ seContext' = BrowserStock /\ seDraft' = Fields(BrowserStock) /\ seMessage' = NoMessages
  /\ UNCHANGED <<seRow, seCompany, seKnown, seListed, seRead, seSaves, seMissed>>

\* What is under way goes on, and its end is told to nobody.
LeftBehind(saves) == {[save EXCEPT !.mine = FALSE] : save \in saves}
CloseStock ==
  /\ seContext # NoSe /\ seContext' = NoSe
  /\ seSaves' = LeftBehind(seSaves)
  /\ UNCHANGED <<seRow, seCompany, seKnown, seListed, seRead, seDraft, seMessage, seMissed, seUsed>>

SeTrouble == seUsed.trouble < SeMaxTrouble /\ seUsed' = [seUsed EXCEPT !.trouble = @ + 1]
SeAct == seUsed.acts < SeMaxActs /\ seUsed' = [seUsed EXCEPT !.acts = @ + 1]

TypeSector(s) ==
  /\ seContext # NoSe /\ s # seDraft.sector /\ SeAct
  /\ seDraft' = [seDraft EXCEPT !.sector = s]
  /\ UNCHANGED <<seRow, seCompany, seKnown, seListed, seRead, seContext, seSaves, seMessage, seMissed>>

PickTheme(t) ==
  /\ ThemeEditorShown /\ t \in ThemeOptions \cap SeTheme /\ t # seDraft.theme /\ SeAct
  /\ seDraft' = [seDraft EXCEPT !.theme = t]
  /\ UNCHANGED <<seRow, seCompany, seKnown, seListed, seRead, seContext, seSaves, seMessage, seMissed>>

\* A save of a field whose draft is the stored value only says so.
Press(field, kind, to) ==
  IF to[field] = SelectedStock[field]
  THEN /\ seMessage' = [seMessage EXCEPT ![field] = "same"] /\ UNCHANGED <<seSaves, seMissed>>
  ELSE /\ seMessage' = [seMessage EXCEPT ![field] = "none"]
       /\ seSaves' = seSaves \cup {[kind |-> kind, to |-> to, stage |-> "sent", mine |-> TRUE]}
       /\ seMissed' = (seMissed \/ \E save \in seSaves : ~ save.mine)

\* handleSaveSector, handleUpdateStockSector: the row goes with what the card knew of it, the
\* theme stays out of it.
SaveSector ==
  /\ seContext # NoSe /\ ~ SavingField({"sector", "company"})
  /\ Press("sector", IF InWatchlist THEN "sector" ELSE "company", seDraft)
  /\ UNCHANGED <<seRow, seCompany, seKnown, seListed, seRead, seContext, seDraft, seUsed>>

\* handleSaveTheme, handleUpdateStockTheme.
SaveTheme ==
  /\ ThemeEditorShown /\ ~ SavingField({"theme"})
  /\ Press("theme", "theme", seDraft)
  /\ UNCHANGED <<seRow, seCompany, seKnown, seListed, seRead, seContext, seDraft, seUsed>>

\* Removed, and the card is closed at once.
RemoveStock ==
  /\ InWatchlist /\ SeAct
  /\ seMissed' = (seMissed \/ seSaves # {})
  /\ seSaves' = LeftBehind(seSaves) \cup
       {[kind |-> "remove", to |-> seDraft, stage |-> "sent", mine |-> FALSE]}
  /\ seContext' = NoSe
  /\ UNCHANGED <<seRow, seCompany, seKnown, seListed, seRead, seDraft, seMessage>>

-----------------------------------------------------------------------------
(* The server.                                                             *)

\* An upsert keeps the theme of a row and gives a new one none.
Upserted(row, to) ==
  IF row = NoSe THEN [sector |-> to.sector, theme |-> NoTheme] ELSE [row EXCEPT !.sector = to.sector]

Serve(save) ==
  /\ seRow' = CASE save.kind = "sector" -> Upserted(seRow, save.to)
                [] save.kind = "theme" /\ seRow # NoSe -> [seRow EXCEPT !.theme = save.to.theme]
                [] save.kind = "remove" -> NoSe
                [] OTHER -> seRow
  /\ seCompany' = IF save.kind = "company" THEN save.to.sector ELSE seCompany

EditServed(save) ==
  /\ save \in seSaves /\ save.stage = "sent"
  /\ save.kind = "theme" => seRow # NoSe
  /\ Serve(save)
  /\ seSaves' = (seSaves \ {save}) \cup {[save EXCEPT !.stage = "served"]}
  /\ UNCHANGED <<seKnown, seListed, seRead, seContext, seDraft, seMessage, seMissed, seUsed>>

\* A request fails, or its answer is lost: the page learns nothing of what was done.
FieldOf(kind) == IF kind = "theme" THEN "theme" ELSE "sector"
EditFailed(save) ==
  /\ save \in seSaves /\ save.stage # "patched" /\ SeTrouble
  /\ seSaves' = seSaves \ {save}
  /\ seMessage' = IF save.mine THEN [seMessage EXCEPT ![FieldOf(save.kind)] = "failed"] ELSE seMessage
  /\ seMissed' = (seMissed \/ save.stage = "served")
  /\ UNCHANGED <<seRow, seCompany, seKnown, seListed, seRead, seContext, seDraft>>

\* A theme asked of a row that is gone is refused.
ThemeRefused(save) ==
  /\ save \in seSaves /\ save.stage = "sent" /\ save.kind = "theme" /\ seRow = NoSe
  /\ seSaves' = seSaves \ {save}
  /\ seMessage' = IF save.mine THEN [seMessage EXCEPT !["theme"] = "failed"] ELSE seMessage
  /\ UNCHANGED <<seRow, seCompany, seKnown, seListed, seRead, seContext, seDraft, seMissed, seUsed>>

-----------------------------------------------------------------------------
(* What the page makes of an answer.                                       *)

\* patchWatchlistCache: the row in the list takes the answer's fields.
WithSector(known, to) == IF known = NoSe THEN NoSe ELSE [known EXCEPT !.sector = to.sector]

\* A theme and a removal have the list read again; a sector is patched in.  A read asked before
\* will still put the older row in its place.
EditAnswered(save) ==
  /\ save \in seSaves /\ save.stage = "served"
  /\ IF save.kind \in {"theme", "remove"}
     THEN seRead' = [asked |-> TRUE, row |-> seRow] /\ UNCHANGED <<seKnown, seMissed>>
     ELSE /\ seKnown' = IF save.kind = "sector" THEN WithSector(seKnown, save.to) ELSE seKnown
          /\ seMissed' = (seMissed \/ seRead.asked \/ (save.kind = "sector" /\ seKnown = NoSe))
          /\ UNCHANGED seRead
  /\ seSaves' = IF save.kind = "remove" THEN seSaves \ {save}
                ELSE (seSaves \ {save}) \cup {[save EXCEPT !.stage = "patched"]}
  /\ UNCHANGED <<seRow, seCompany, seListed, seContext, seMessage, seUsed>>
  /\ DraftsFollow

\* The companies are read again, then the row behind the card is set, whichever card is open by
\* then, and the message.
CompaniesRead(save) ==
  /\ save \in seSaves /\ save.stage = "patched" /\ save.kind \in {"sector", "company"}
  /\ seListed' = seCompany
  /\ seContext' = IF seContext = NoSe THEN NoSe ELSE [seContext EXCEPT !.sector = save.to.sector]
  /\ seSaves' = seSaves \ {save}
  /\ seMessage' = IF save.mine THEN [seMessage EXCEPT !["sector"] = "saved"] ELSE seMessage
  /\ seMissed' = (seMissed \/ (save.kind = "company" /\ ~ save.mine))
  /\ UNCHANGED <<seRow, seCompany, seKnown, seRead, seUsed>>
  /\ DraftsFollow

\* A read of the list nobody here asked for: the peer sync, a focus, another mutation.
ListReadAgain ==
  /\ SeTrouble
  /\ seRead' = [asked |-> TRUE, row |-> seRow]
  /\ UNCHANGED <<seRow, seCompany, seKnown, seListed, seContext, seDraft, seSaves, seMessage, seMissed>>

\* The list, as it was when it was asked for or as it is: it ends every wait for it.
ListRead ==
  /\ seRead.asked /\ seRead' = [asked |-> FALSE, row |-> NoSe]
  /\ seKnown' \in {seRead.row, seRow}
  /\ seSaves' = {save \in seSaves : ~ (save.kind = "theme" /\ save.stage = "patched")}
  /\ seMessage' =
       IF \E save \in seSaves \ seSaves' : save.mine THEN [seMessage EXCEPT !["theme"] = "saved"]
       ELSE seMessage
  /\ UNCHANGED <<seRow, seCompany, seListed, seContext, seMissed, seUsed>>
  /\ DraftsFollow

SeNext ==
  \/ OpenStock \/ CloseStock \/ SaveSector \/ SaveTheme \/ RemoveStock
  \/ \E s \in SeSector : TypeSector(s)
  \/ \E t \in SeTheme : PickTheme(t)
  \/ \E save \in seSaves : \/ EditServed(save) \/ EditFailed(save) \/ ThemeRefused(save)
                           \/ EditAnswered(save) \/ CompaniesRead(save)
  \/ ListReadAgain \/ ListRead

SeSpec == SeInit /\ [][SeNext]_seVars
-----------------------------------------------------------------------------
(* Properties.                                                             *)

\* When nothing is on its way, the card shows the row that is saved, or the sector saved of a
\* company off the watchlist; unless an answer was lost, two cards of the stock saved at once or an
\* older read of the list came in after the save.
CardShowsSaved ==
  seContext # NoSe /\ seSaves = {} /\ ~ seRead.asked /\ ~ seMissed =>
    /\ seKnown = seRow
    /\ seRow = NoSe /\ seMessage.sector = "saved" => SelectedStock.sector = seCompany
=============================================================================
