---------------------------- MODULE PriceLookup ----------------------------
(***************************************************************************)
(* The price lookup of the Simulation Lab's valuation tab                  *)
(* (app/monte-carlo/page.tsx, runStockPriceLookup).  Leaving the ticker    *)
(* field asks the server for the price; the server may answer "fetching"   *)
(* and is asked again, six times at most.  The user types on meanwhile.    *)
(*                                                                         *)
(* Starting a lookup aborts the one before, so there is at most one.  The  *)
(* price in the field is known by who wrote it: the user, or the quote of  *)
(* a ticker.  The server is external.                                      *)
(***************************************************************************)
EXTENDS Integers

CONSTANTS
  LookupTicker,     \* tickers the user types
  NoTicker,         \* the empty field
  PlMaxAttempts,    \* STOCK_PRICE_LOOKUP_MAX_ATTEMPTS
  PlMaxEdits,       \* bound: edits of the two fields
  PlMaxLookups      \* bound: lookups started

ASSUME PlAssumption ==
  /\ NoTicker \notin LookupTicker
  /\ PlMaxAttempts \in Nat \ {0} /\ PlMaxEdits \in Nat /\ PlMaxLookups \in Nat

VARIABLES
  plTicker,     \* valuationInput.ticker, and priceLookupTickerRef
  plPrice,      \* valuationInput.currentPrice: who wrote it
  plStatus,     \* valuationPriceLookupStatus
  plMessage,    \* valuationPriceLookupMessage
  plEdits,      \* priceLookupManualEditSeqRef
  plLookup,     \* the lookup in flight
  plUsed        \* bounds

plVars == <<plTicker, plPrice, plStatus, plMessage, plEdits, plLookup, plUsed>>

Field == LookupTicker \cup {NoTicker}
PriceSource == {"user"} \cup LookupTicker
LookupStatus == {"idle", "loading", "fetching", "success", "not_found", "error"}
Message == {"none", "loading", "fetching", "loaded", "notFound", "failed",
            "timedOut", "manualOverride"}
NoLookup == [phase |-> "none", ticker |-> NoTicker, edits |-> 0, attempt |-> 0]
Lookup == [phase : {"asked", "waiting"}, ticker : LookupTicker,
           edits : 0..PlMaxEdits, attempt : 1..PlMaxAttempts]
\* How the price route answers: 200, 202 or "fetching", 404, anything else.
Reply == {"ok", "fetching", "not_found", "failed"}

PlTypeOK ==
  /\ plTicker \in Field /\ plPrice \in PriceSource
  /\ plStatus \in LookupStatus /\ plMessage \in Message
  /\ plEdits \in 0..PlMaxEdits
  /\ plLookup \in Lookup \cup {NoLookup}
  /\ plUsed \in [edits : 0..PlMaxEdits, lookups : 0..PlMaxLookups]

PlInit ==
  /\ plTicker = CHOOSE t \in LookupTicker : TRUE
  /\ plPrice = "user"
  /\ plStatus = "idle" /\ plMessage = "none"
  /\ plEdits = 0 /\ plLookup = NoLookup
  /\ plUsed = [edits |-> 0, lookups |-> 0]

Edit == plUsed.edits < PlMaxEdits /\ plUsed' = [plUsed EXCEPT !.edits = @ + 1]

\* updateValuation("ticker", ...)
TypeTicker(t) ==
  /\ t # plTicker /\ Edit
  /\ plTicker' = t
  /\ plStatus' = "idle" /\ plMessage' = "none"
  /\ UNCHANGED <<plPrice, plEdits, plLookup>>

\* updateValuation("currentPrice", ...)
TypePrice ==
  /\ Edit
  /\ plPrice' = "user" /\ plEdits' = plEdits + 1
  /\ plMessage' = IF plStatus = "success" THEN "manualOverride" ELSE plMessage
  /\ UNCHANGED <<plTicker, plStatus, plLookup>>

\* The ticker field is left: runStockPriceLookup.
LeaveTicker ==
  \/ /\ plTicker = NoTicker
     /\ plStatus' = "idle" /\ plMessage' = "none"
     /\ UNCHANGED <<plTicker, plPrice, plEdits, plLookup, plUsed>>
  \/ /\ plTicker # NoTicker /\ plUsed.lookups < PlMaxLookups
     /\ plLookup' = [phase |-> "asked", ticker |-> plTicker, edits |-> plEdits,
                     attempt |-> 1]
     /\ plStatus' = "loading" /\ plMessage' = "loading"
     /\ plUsed' = [plUsed EXCEPT !.lookups = @ + 1]
     /\ UNCHANGED <<plTicker, plPrice, plEdits>>

\* Defect: the answer is used whatever ticker the field has by now.
WantedAnyway == TRUE
\* tickerUnchanged
StillWanted == plLookup.ticker = plTicker

\* The last step of a lookup.
Ends(status, message) ==
  /\ plLookup' = NoLookup
  /\ plStatus' = status /\ plMessage' = message

\* One answer of the price route, to its last await.
LookupAnswered(reply) ==
  /\ plLookup.phase = "asked"
  /\ IF ~ StillWanted THEN plLookup' = NoLookup /\ UNCHANGED <<plStatus, plMessage, plPrice>>
     ELSE
       \/ /\ reply = "fetching"
          /\ plLookup' = [plLookup EXCEPT !.phase = "waiting"]
          /\ plStatus' = "fetching" /\ plMessage' = "fetching"
          /\ UNCHANGED plPrice
       \/ /\ reply = "ok" /\ Ends("success", "loaded")
          /\ plPrice' = IF plLookup.edits = plEdits /\ plTicker = plLookup.ticker
                        THEN plLookup.ticker ELSE plPrice
       \/ reply = "not_found" /\ Ends("not_found", "notFound") /\ UNCHANGED plPrice
       \/ reply = "failed" /\ Ends("error", "failed") /\ UNCHANGED plPrice
  /\ UNCHANGED <<plTicker, plEdits, plUsed>>

\* retry_after_seconds have passed: the next attempt, or the end of the loop.
RetryDue ==
  /\ plLookup.phase = "waiting"
  /\ \/ /\ plLookup.attempt < PlMaxAttempts
        /\ plLookup' = [plLookup EXCEPT !.phase = "asked", !.attempt = @ + 1]
        /\ UNCHANGED <<plStatus, plMessage>>
     \/ /\ plLookup.attempt = PlMaxAttempts
        /\ IF StillWanted THEN Ends("error", "timedOut")
           ELSE plLookup' = NoLookup /\ UNCHANGED <<plStatus, plMessage>>
  /\ UNCHANGED <<plTicker, plPrice, plEdits, plUsed>>

PlNext ==
  \/ \E t \in Field : TypeTicker(t)
  \/ TypePrice \/ LeaveTicker \/ RetryDue
  \/ \E reply \in Reply : LookupAnswered(reply)

PlSpec == PlInit /\ [][PlNext]_plVars

-----------------------------------------------------------------------------
\* "Loaded" is said of the ticker in the field, and the price in the field is then
\* that ticker's quote, unless the user typed a price after asking; a price the
\* user typed is never replaced by an answer asked for before it.
LoadedIsShown ==
  [][/\ (plMessage' = "loaded" /\ plMessage # "loaded") =>
          \/ plPrice' = plTicker
          \/ plEdits # plLookup.edits /\ plPrice' = "user"
     /\ (plPrice = "user" /\ plPrice' # "user") => plLookup.edits = plEdits]_plVars
=============================================================================
