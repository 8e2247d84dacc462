---------------------------- MODULE AmountEditor ----------------------------
(***************************************************************************)
(* The total investment amount of the portfolio page: an input, its        *)
(* debounced value, an effect that keeps the input in step with the saved  *)
(* preference and an effect that saves what was typed.  The page may be    *)
(* left and opened again: the query cache survives, the input does not.    *)
(***************************************************************************)
EXTENDS Integers

CONSTANTS
  DefaultAmount,     \* DEFAULT_TOTAL_INVESTMENT_AMOUNT
  TypedAmount,       \* amounts the user types
  Blank,             \* an emptied input
  NoAmount,          \* the preferences query has no data
  AmountMaxTyped,    \* bound: changes of the input
  AmountMaxVisits,   \* bound: how often the page is opened
  AmountMaxReads,    \* bound: reads of the preferences after the first
  AmountMaxFaults    \* bound: failed saves

ASSUME AmountAssumption ==
  /\ DefaultAmount \in Nat /\ TypedAmount \subseteq Nat
  /\ Blank \notin Nat /\ NoAmount \notin Nat
  /\ AmountMaxTyped \in Nat /\ AmountMaxVisits \in Nat \ {0}
  /\ AmountMaxReads \in Nat /\ AmountMaxFaults \in Nat

VARIABLES
  amount,      \* the server's total_investment_amount
  preference,  \* data of the query "portfolio-preferences"
  prefRead,    \* its read in flight: "none", "asked" or "served"
  prefSeen,    \* the amount the served read has seen
  input,       \* totalInvestmentInput
  inputSettled,\* debouncedTotalInvestmentInput
  saveDue,     \* the save effect has a changed dependency to look at
  put,         \* totalInvestmentAutoSaveInFlightRef: the amount being saved
  putServed,   \* the server has acted on it
  wanted,      \* history: what the user typed last, or NoAmount
  amountUsed   \* bounds

amountVars == <<amount, preference, prefRead, prefSeen, input, inputSettled, saveDue,
                put, putServed, wanted, amountUsed>>

AmountInputs == Nat \cup {Blank}
CountAmount(k) == amountUsed' = [amountUsed EXCEPT ![k] = @ + 1]

\* Number("") is 0.
ParsedAmount(v) == IF v = Blank THEN 0 ELSE v
\* What the page works with until the query has data.
ShownPreference(p) == IF p = NoAmount THEN DefaultAmount ELSE p

\* The input-sync effect: an input that was emptied or already agrees is
\* reformatted, any other is left as it is.
InputAfter(v, p) == IF v = Blank THEN ShownPreference(p) ELSE v

-----------------------------------------------------------------------------
\* Another visit of the page: a fresh input with the default amount; a save
\* of the earlier visit is still answered, but its flag is gone.
OpenAmountPage ==
  /\ amountUsed.visits < AmountMaxVisits
  /\ put = NoAmount /\ ~ saveDue
  /\ input' = InputAfter(DefaultAmount, preference)
  /\ inputSettled' = DefaultAmount
  /\ saveDue' = TRUE
  /\ CountAmount("visits")
  /\ UNCHANGED <<amount, preference, prefRead, prefSeen, put, putServed, wanted>>

ReadPreference ==
  /\ prefRead = "none" /\ ~ saveDue
  /\ preference # NoAmount => amountUsed.reads < AmountMaxReads
  /\ prefRead' = "asked"
  /\ IF preference = NoAmount THEN UNCHANGED amountUsed ELSE CountAmount("reads")
  /\ UNCHANGED <<amount, preference, prefSeen, input, inputSettled, saveDue, put,
                 putServed, wanted>>

PreferenceServed ==
  /\ prefRead = "asked"
  /\ prefRead' = "served"
  /\ prefSeen' = amount
  /\ UNCHANGED <<amount, preference, input, inputSettled, saveDue, put, putServed,
                 wanted, amountUsed>>

\* The value may be older than what a save has brought in the meantime.
PreferenceAnswered ==
  /\ prefRead = "served" /\ ~ saveDue
  /\ preference' = prefSeen
  /\ prefRead' = "none"
  /\ saveDue' = (preference' # preference)
  /\ input' = IF preference' # preference /\ put = NoAmount
              THEN InputAfter(input, preference') ELSE input
  /\ UNCHANGED <<amount, prefSeen, inputSettled, put, putServed, wanted, amountUsed>>

TypeAmount(v) ==
  /\ amountUsed.typed < AmountMaxTyped
  /\ ~ saveDue
  /\ input' = v
  /\ wanted' = v
  /\ CountAmount("typed")
  /\ UNCHANGED <<amount, preference, prefRead, prefSeen, inputSettled, saveDue,
                 put, putServed>>

\* useDebounce, 500 ms
SettleAmount ==
  /\ inputSettled # input /\ ~ saveDue
  /\ inputSettled' = input
  /\ saveDue' = TRUE
  /\ UNCHANGED <<amount, preference, prefRead, prefSeen, input, put, putServed,
                 wanted, amountUsed>>

\* The save effect.
SaveAmount ==
  /\ saveDue
  /\ saveDue' = FALSE
  /\ IF /\ preference # NoAmount /\ put = NoAmount
        /\ ParsedAmount(inputSettled) # preference
     THEN put' = ParsedAmount(inputSettled) /\ putServed' = FALSE
     ELSE UNCHANGED <<put, putServed>>
  /\ UNCHANGED <<amount, preference, prefRead, prefSeen, input, inputSettled,
                 wanted, amountUsed>>

PutServed ==
  /\ put # NoAmount /\ ~ putServed
  /\ amount' = put
  /\ putServed' = TRUE
  /\ UNCHANGED <<preference, prefRead, prefSeen, input, inputSettled, saveDue, put, wanted,
                 amountUsed>>

\* setQueryData with the answer.
PreferenceSaved == put

\* The answer becomes the query's data and the flag is cleared before the
\* page renders again; both effects then see the change.
PutAnswered ==
  /\ put # NoAmount /\ putServed /\ ~ saveDue
  /\ preference' = PreferenceSaved
  /\ input' = InputAfter(input, preference')
  /\ saveDue' = (preference' # preference)
  /\ put' = NoAmount /\ putServed' = FALSE
  /\ UNCHANGED <<amount, prefRead, prefSeen, inputSettled, wanted, amountUsed>>

PutFails ==
  /\ put # NoAmount /\ amountUsed.faults < AmountMaxFaults
  /\ put' = NoAmount /\ putServed' = FALSE
  /\ input' = InputAfter(input, preference)
  /\ CountAmount("faults")
  /\ UNCHANGED <<amount, preference, prefRead, prefSeen, inputSettled, saveDue, wanted>>

-----------------------------------------------------------------------------
\* The program has just been installed, or has saved an amount before.
AmountInit ==
  /\ amount \in {DefaultAmount} \cup TypedAmount
  /\ preference = NoAmount
  /\ prefRead = "none" /\ prefSeen = DefaultAmount
  /\ input = DefaultAmount /\ inputSettled = DefaultAmount
  /\ saveDue = FALSE
  /\ put = NoAmount /\ putServed = FALSE
  /\ wanted = NoAmount
  /\ amountUsed = [typed |-> 0, visits |-> 1, reads |-> 0, faults |-> 0]

AmountPage == SettleAmount \/ SaveAmount \/ PutServed \/ PutAnswered
              \/ PreferenceServed \/ PreferenceAnswered
AmountNext ==
  \/ OpenAmountPage \/ ReadPreference
  \/ \E v \in TypedAmount \cup {Blank} : TypeAmount(v)
  \/ AmountPage \/ PutFails

AmountSpec ==
  AmountInit /\ [][AmountNext]_amountVars
    /\ WF_amountVars(AmountPage) /\ WF_amountVars(ReadPreference /\ preference = NoAmount)

-----------------------------------------------------------------------------
AmountTypeOK ==
  /\ amount \in Nat /\ preference \in Nat \cup {NoAmount}
  /\ prefRead \in {"none", "asked", "served"} /\ prefSeen \in Nat
  /\ input \in AmountInputs /\ inputSettled \in AmountInputs
  /\ saveDue \in BOOLEAN
  /\ put \in Nat \cup {NoAmount} /\ putServed \in BOOLEAN
  /\ wanted \in AmountInputs \cup {NoAmount}

\* A saved amount changes only to what the user typed: "Total investment
\* amount behaves like a portfolio-level preference and persists".
AmountPersists ==
  [][amount' # amount => wanted # NoAmount /\ amount' = ParsedAmount(wanted)]_amountVars

\* "Saved automatically": within a visit, what the user typed last is what
\* the server holds in the end, also when it was typed during a save.  Not so
\* after a failed save, which nothing repeats, nor when a second read of the
\* preferences answers during a save: the change it brings is looked at while
\* the flag is set, and the save's answer then changes nothing.
AmountIsSaved ==
  /\ wanted \in Nat
  /\ amountUsed.visits = 1 /\ amountUsed.reads = 0 /\ amountUsed.faults = 0
  => amount = wanted
=============================================================================
