---------------------------- MODULE HoldingsView ----------------------------
(***************************************************************************)
(* The holdings panel of the portfolio page (app/portfolio/page.tsx): the  *)
(* watchlist by sector, as cards or tables, under a filter and collapsed   *)
(* by sector; and the import of the watchlist file, which is armed,        *)
(* confirmed and not offered while the list is synced with other PCs.      *)
(*                                                                         *)
(* The server is external.                                                 *)
(***************************************************************************)
EXTENDS Integers, FiniteSets, FiniteSetsExt

CONSTANTS
  HvTicker,
  HvSector,         \* sectors, NoHv the blank one
  HvFile,           \* the holdings of the file: ticker to sector
  NoHv,
  HvMaxActs, HvMaxReads, HvMaxImports, HvMaxTrouble   \* bounds

HvRows == UNION {[held -> HvSector] : held \in SUBSET HvTicker}

ASSUME HvAssumption ==
  /\ HvFile \in HvRows /\ NoHv \in HvSector
  /\ {HvMaxActs, HvMaxReads, HvMaxImports, HvMaxTrouble} \subseteq Nat
ASSUME HvNothing == NoHv \notin HvRows

VARIABLES
  hvStored,     \* the watchlist, as saved
  hvSync,       \* peer sync is on, by the settings the backend was started with
  hvList,       \* watchlistQuery: the list known, and whether its last read failed
  hvRead,       \* the read under way: what was there when it was asked
  hvPeer,       \* peerSyncQuery of the present list: asked, or how it ended
  hvStatus,     \* the status last read, which stands in for the next
  hvView,       \* holdingsView and the width of the window
  hvFilter,     \* sectorFilter
  hvCollapsed,  \* collapsedSectors
  hvImport,     \* the import: armed, and under way
  hvMissed,     \* the list may have changed with no read after it
  hvUsed        \* bounds

hvVars == <<hvStored, hvSync, hvList, hvRead, hvPeer, hvStatus, hvView, hvFilter, hvCollapsed,
            hvImport, hvMissed, hvUsed>>

\* sectorLabel.
SectorOf(sector) == IF sector = NoHv THEN "Unclassified" ELSE sector
HvLabel == {SectorOf(s) : s \in HvSector}

HvTypeOK ==
  /\ hvStored \in HvRows /\ {hvSync, hvMissed} \subseteq BOOLEAN
  /\ hvList.rows \in HvRows \cup {NoHv} /\ hvList.failed \in BOOLEAN
  /\ hvRead \in HvRows \cup {NoHv} /\ hvPeer \in {"none", "asked", "known", "failed"}
  /\ hvStatus \in BOOLEAN \cup {NoHv}
  /\ hvView \in [as : {"chart", "table"}, narrow : BOOLEAN]
  /\ hvFilter \in HvLabel \cup {"All Sectors"} /\ hvCollapsed \subseteq HvLabel
  /\ hvImport \in [armed : BOOLEAN, state : {"idle", "sent", "served", "reading"}]

-----------------------------------------------------------------------------
(* What is on screen.                                                      *)

Holdings == IF hvList.rows = NoHv THEN <<>> ELSE hvList.rows
AvailableSectors == {SectorOf(Holdings[t]) : t \in DOMAIN Holdings}

\* A filter on a sector that has no holding any more is no filter.
ActiveSectorFilter == IF hvFilter \in AvailableSectors THEN hvFilter ELSE "All Sectors"
SectorGroups ==
  {s \in AvailableSectors : ActiveSectorFilter \in {"All Sectors", s}}
InGroup(sector) == {t \in DOMAIN Holdings : SectorOf(Holdings[t]) = sector}

\* portfolioWatchlistViewState.
Body ==
  CASE hvRead # NoHv /\ hvList.rows = NoHv /\ ~ hvList.failed -> "skeleton"
    [] DOMAIN Holdings # {} -> IF hvView.as = "chart" THEN "cards" ELSE "tables"
    [] hvList.failed -> "error"
    [] OTHER -> "empty"

\* A card is there for every holding, a table only of a sector that is not collapsed.
HoldingCards == IF Body = "cards" THEN UNION {InGroup(s) : s \in SectorGroups} ELSE {}
HoldingRows == IF Body = "tables" THEN UNION {InGroup(s) : s \in SectorGroups \ hvCollapsed} ELSE {}

\* keepPreviousData: until the status of this list is known, the last one; not after a failure.
PeerStatus == IF hvPeer = "failed" THEN NoHv ELSE hvStatus
ImportOffered == PeerStatus # TRUE

HvInit ==
  /\ hvStored \in {HvFile, [t \in HvTicker |-> NoHv]} /\ hvSync \in BOOLEAN
  /\ hvList = [rows |-> NoHv, failed |-> FALSE] /\ hvRead = hvStored
  /\ hvPeer = "none" /\ hvStatus = NoHv
  /\ hvView = [as |-> "chart", narrow |-> FALSE]
  /\ hvFilter = "All Sectors" /\ hvCollapsed = {}
  /\ hvImport = [armed |-> FALSE, state |-> "idle"] /\ hvMissed = FALSE
  /\ hvUsed = [acts |-> 0, reads |-> 0, imports |-> 0, trouble |-> 0]

HvAct == hvUsed.acts < HvMaxActs /\ hvUsed' = [hvUsed EXCEPT !.acts = @ + 1]
HvTrouble == hvUsed.trouble < HvMaxTrouble /\ hvUsed' = [hvUsed EXCEPT !.trouble = @ + 1]

-----------------------------------------------------------------------------
(* The panel.                                                              *)

ShowAs(view) ==
  /\ view # hvView.as /\ HvAct /\ hvView' = [hvView EXCEPT !.as = view]
  /\ UNCHANGED <<hvStored, hvSync, hvList, hvRead, hvPeer, hvStatus, hvFilter, hvCollapsed,
                 hvImport, hvMissed>>

\* A window that is narrow, or becomes so, shows tables.
ResizeWindow ==
  /\ HvAct /\ \E narrow \in BOOLEAN :
       hvView' = [as |-> IF narrow THEN "table" ELSE hvView.as, narrow |-> narrow]
  /\ UNCHANGED <<hvStored, hvSync, hvList, hvRead, hvPeer, hvStatus, hvFilter, hvCollapsed,
                 hvImport, hvMissed>>

\* The filter offers what there is and "All Sectors".
FilterSector(label) ==
  /\ DOMAIN Holdings # {} /\ label \in AvailableSectors \cup {"All Sectors"} /\ label # hvFilter
  /\ HvAct /\ hvFilter' = label
  /\ UNCHANGED <<hvStored, hvSync, hvList, hvRead, hvPeer, hvStatus, hvView, hvCollapsed,
                 hvImport, hvMissed>>

CollapseSector(label) ==
  /\ Body = "tables" /\ label \in SectorGroups
  /\ HvAct /\ hvCollapsed' = SymDiff(hvCollapsed, {label})
  /\ UNCHANGED <<hvStored, hvSync, hvList, hvRead, hvPeer, hvStatus, hvView, hvFilter,
                 hvImport, hvMissed>>

\* The button stays off until the box under it is ticked.
ArmImport ==
  /\ ImportOffered /\ hvImport.state = "idle" /\ ~ hvImport.armed
  /\ HvAct /\ hvImport' = [hvImport EXCEPT !.armed = TRUE]
  /\ UNCHANGED <<hvStored, hvSync, hvList, hvRead, hvPeer, hvStatus, hvView, hvFilter,
                 hvCollapsed, hvMissed>>

\* handleImportJson, confirmed.
ImportJson ==
  /\ ImportOffered /\ hvImport = [armed |-> TRUE, state |-> "idle"]
  /\ hvUsed.imports < HvMaxImports /\ hvUsed' = [hvUsed EXCEPT !.imports = @ + 1]
  /\ hvImport' = [hvImport EXCEPT !.state = "sent"]
  /\ UNCHANGED <<hvStored, hvSync, hvList, hvRead, hvPeer, hvStatus, hvView, hvFilter,
                 hvCollapsed, hvMissed>>

-----------------------------------------------------------------------------
(* The server.                                                             *)

\* POST /portfolio/watchlist/resync: the file takes the list's place.
ImportServed ==
  /\ hvImport.state = "sent" /\ ~ hvSync
  /\ hvStored' = HvFile /\ hvImport' = [hvImport EXCEPT !.state = "served"]
  /\ UNCHANGED <<hvSync, hvList, hvRead, hvPeer, hvStatus, hvView, hvFilter, hvCollapsed,
                 hvMissed, hvUsed>>

\* While the list is synced the import is refused.
ImportRefused ==
  /\ hvImport.state = "sent" /\ hvSync
  /\ hvImport' = [hvImport EXCEPT !.state = "idle"]
  /\ UNCHANGED <<hvStored, hvSync, hvList, hvRead, hvPeer, hvStatus, hvView, hvFilter,
                 hvCollapsed, hvMissed, hvUsed>>

\* It fails, or its answer is lost.  It stays armed.
ImportFailed ==
  /\ hvImport.state \in {"sent", "served"} /\ HvTrouble
  /\ hvImport' = [hvImport EXCEPT !.state = "idle"]
  /\ hvMissed' = (hvMissed \/ hvImport.state = "served")
  /\ UNCHANGED <<hvStored, hvSync, hvList, hvRead, hvPeer, hvStatus, hvView, hvFilter, hvCollapsed>>

\* refreshPortfolioQueries: the list is read anew, whatever read was under way.
ImportAnswered ==
  /\ hvImport.state = "served"
  /\ hvImport' = [hvImport EXCEPT !.state = "reading"] /\ hvRead' = hvStored
  /\ UNCHANGED <<hvStored, hvSync, hvList, hvPeer, hvStatus, hvView, hvFilter, hvCollapsed,
                 hvMissed, hvUsed>>

\* A holding comes, goes or changes its sector by other means; the page may read the list then.
OthersChange(rows) ==
  /\ rows # hvStored /\ HvTrouble
  /\ hvStored' = rows /\ hvMissed' = (hvRead = NoHv)
  /\ UNCHANGED <<hvSync, hvList, hvRead, hvPeer, hvStatus, hvView, hvFilter, hvCollapsed, hvImport>>

\* The backend is started again with sync switched on or off.
SyncSwitched ==
  /\ HvTrouble /\ hvSync' = ~ hvSync
  /\ UNCHANGED <<hvStored, hvList, hvRead, hvPeer, hvStatus, hvView, hvFilter, hvCollapsed,
                 hvImport, hvMissed>>

-----------------------------------------------------------------------------
(* What is read.                                                           *)

ReadWatchlist ==
  /\ hvRead = NoHv /\ hvUsed.reads < HvMaxReads /\ hvUsed' = [hvUsed EXCEPT !.reads = @ + 1]
  /\ hvRead' = hvStored /\ hvMissed' = FALSE
  /\ UNCHANGED <<hvStored, hvSync, hvList, hvPeer, hvStatus, hvView, hvFilter, hvCollapsed, hvImport>>

\* The end of a read ends the import that waits for it, and it is disarmed.
ImportDone == hvImport' = IF hvImport.state = "reading" THEN [armed |-> FALSE, state |-> "idle"] ELSE hvImport

\* A list that is read has its own status asked for.
WatchlistRead ==
  /\ hvRead # NoHv /\ hvRead' = NoHv
  /\ \E rows \in {hvRead, hvStored} :
       /\ hvList' = [rows |-> rows, failed |-> FALSE]
       /\ hvMissed' = (hvMissed \/ rows # hvStored)
  /\ hvPeer' = "asked" /\ ImportDone
  /\ UNCHANGED <<hvStored, hvSync, hvStatus, hvView, hvFilter, hvCollapsed, hvUsed>>

WatchlistFailed ==
  /\ hvRead # NoHv /\ HvTrouble /\ hvRead' = NoHv
  /\ hvList' = [hvList EXCEPT !.failed = TRUE] /\ hvMissed' = TRUE /\ ImportDone
  /\ UNCHANGED <<hvStored, hvSync, hvPeer, hvStatus, hvView, hvFilter, hvCollapsed>>

PeerStatusRead ==
  /\ hvPeer = "asked" /\ hvPeer' = "known" /\ hvStatus' = hvSync
  /\ UNCHANGED <<hvStored, hvSync, hvList, hvRead, hvView, hvFilter, hvCollapsed, hvImport,
                 hvMissed, hvUsed>>

PeerStatusFailed ==
  /\ hvPeer = "asked" /\ HvTrouble /\ hvPeer' = "failed"
  /\ UNCHANGED <<hvStored, hvSync, hvList, hvRead, hvStatus, hvView, hvFilter, hvCollapsed,
                 hvImport, hvMissed>>

HvNext ==
  \/ \E view \in {"chart", "table"} : ShowAs(view)
  \/ \E label \in HvLabel \cup {"All Sectors"} : FilterSector(label) \/ CollapseSector(label)
  \/ ResizeWindow \/ ArmImport \/ ImportJson \/ ImportServed \/ ImportRefused \/ ImportFailed
  \/ ImportAnswered \/ \E rows \in HvRows : OthersChange(rows)
  \/ SyncSwitched \/ ReadWatchlist \/ WatchlistRead \/ WatchlistFailed
  \/ PeerStatusRead \/ PeerStatusFailed

HvSpec == HvInit /\ [][HvNext]_hvVars
-----------------------------------------------------------------------------
(* Properties.                                                             *)

\* A list with holdings is never shown as none of them by a filter.  A status that said the list is
\* synced keeps the import away while the next is read.  When all is read, the list shown is the
\* one saved, the file's after an import.
HoldingsHold ==
  /\ Body \in {"cards", "tables"} => HoldingCards \cup HoldingRows # {} \/ SectorGroups \cap hvCollapsed # {}
  /\ hvStatus = TRUE /\ hvPeer # "failed" => ~ ImportOffered
  /\ hvRead = NoHv /\ hvImport.state = "idle" /\ ~ hvMissed => hvList.rows = hvStored
=============================================================================
