--------------------------- MODULE NewsTurnstile ---------------------------
(***************************************************************************)
(* What the gate in front of Google News promises the outside             *)
(* (news_feed/pacer.py): fetches go through one at a time, at rest from    *)
(* each other, no more than a day's allowance, and none after a refusal    *)
(* until the day is over.  Threads, kinds of request, stores and restarts  *)
(* are how it is done and do not appear.                                   *)
(***************************************************************************)
EXTENDS Naturals

CONSTANTS Allowance,     \* fetches a day
          ShortestRest,  \* between two fetches
          LongestRest,   \* beyond which rests are alike
          Never          \* no fetch yet

VARIABLES passing,   \* a fetch is under way
          passed,    \* fetches begun today
          rest,      \* since the last fetch ended
          barred     \* a fetch was refused today

turnstileVars == <<passing, passed, rest, barred>>

Init == ~ passing /\ passed = 0 /\ rest = Never /\ ~ barred

Enter ==
  /\ ~ passing /\ ~ barred
  /\ passed < Allowance
  /\ rest # Never => rest >= ShortestRest
  /\ passing' = TRUE /\ passed' = passed + 1
  /\ UNCHANGED <<rest, barred>>

Leave ==
  /\ passing
  /\ passing' = FALSE /\ rest' = 0
  /\ barred' \in {barred, TRUE}
  /\ UNCHANGED passed

\* Time passes, and perhaps the day is over.
Rest ==
  /\ rest' = IF rest = Never \/ rest = LongestRest THEN rest ELSE rest + 1
  /\ \/ UNCHANGED <<passed, barred>>
     \/ passed' = 0 /\ barred' = FALSE
  /\ UNCHANGED passing

Spec == Init /\ [][Enter \/ Leave \/ Rest]_turnstileVars
=============================================================================
