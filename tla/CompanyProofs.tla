---------------------------- MODULE CompanyProofs ----------------------------
(***************************************************************************)
(* The pages about companies and markets, for any values of their          *)
(* constants: the corporate page, the ticker search, valuations, cases and *)
(* decisions, charts with their events, and the market page.  As in        *)
(* PortfolioProofs, each has an inductive invariant that says what the     *)
(* page may still owe.                                                     *)
(***************************************************************************)
EXTENDS CorporateQueries, CorporateDcf, CorporateAssumptions, CompanySearch,
        ValuationPage, CaseSimulation, DecisionLog, EventChart, MarketPage,
        EventFilter, DetailPage, RecordsPage, NewsList, CaseFork,
        FiniteSetTheorems, WellFoundedInduction, TLAPS

-----------------------------------------------------------------------------
(* The source data and the comparison of the corporate page.               *)

\* What was asked, what was answered and what is filed go together, but for a request on its way
\* or one that was cut.
QueryAgrees(d) ==
  /\ cqQuery[d].status = "idle" => cqQuery[d].data = NoCq
  /\ cqQuery[d].status = "idle" /\ cqOpen => cqAsked[d] = cqCopy[d].request
  /\ cqQuery[d].status = "done" => cqQuery[d].data = cqAsked[d]
  /\ cqQuery[d].status \in {"asked", "done"} => cqAsked[d] # NoCq
  /\ cqQuery[d].status = "failed" => d \in cqCut
  /\ d \notin cqCut => cqCopy[d].request = cqCopy[d].result
  /\ d \notin cqCut /\ cqQuery[d].status # "asked" => cqSession[d].request = cqSession[d].result

\* Reports, and a batch, are of the rows on screen as long as those stayed.
BatchAgrees ==
  /\ ~ cqOpen => cqBatch = NoCq /\ cqReports = NoCq /\ \A d \in Demand : cqQuery[d].status = "idle"
  /\ ~ cqLate => {cqBatch, cqReports} \subseteq {NoCq, CqRaw("comparison")}

QueriesInv == CqTypeOK /\ (\A d \in Demand : QueryAgrees(d)) /\ BatchAgrees

QueryState == [status : {"idle", "asked", "done", "failed"}, data : CqInput \cup {NoCq}]
CqFiling == [request : CqInput \cup {NoCq}, result : CqInput \cup {NoCq}]

\* What a render of another state of one query leaves behind.
LEMMA RenderAgrees ==
  ASSUME QueriesInv, NEW d \in Demand, NEW query \in QueryState, NEW asked \in CqInput \cup {NoCq},
         CqRender(d, query, asked), UNCHANGED <<cqOpen, cqInput, cqCopy, cqBatch>>, cqOpen,
         cqCut \subseteq cqCut', cqCut' \subseteq Demand,
         query.status # "idle" /\ (query.status = "failed" => d \in cqCut'),
         query.status = "done" => query.data = asked,
         query.status \in {"asked", "done"} => asked # NoCq
  PROVE  QueriesInv'
<1> USE DEF QueryState, CqFiling
<1>1. cqQuery' \in [Demand -> QueryState] /\ cqQuery'[d] = query /\ \A e \in Demand \ {d} : cqQuery'[e] = cqQuery[e]
  BY DEF QueriesInv, CqTypeOK, CqRender
<1>2. cqAsked' \in [Demand -> CqInput \cup {NoCq}] /\ cqAsked'[d] = asked /\ \A e \in Demand \ {d} : cqAsked'[e] = cqAsked[e]
  BY DEF QueriesInv, CqTypeOK, CqRender
<1>3. /\ cqSession' \in [Demand -> CqFiling]
      /\ cqSession'[d] = IF CqData(query) # NoCq /\ asked # NoCq
                            THEN [request |-> asked, result |-> query.data] ELSE cqSession[d]
      /\ \A e \in Demand \ {d} : cqSession'[e] = cqSession[e]
  <2>1. cqSession' = [cqSession EXCEPT ![d] = CqFiled(d, query, asked, cqSession[d])]
    BY DEF CqRender
  <2>2. CqFiled(d, query, asked, cqSession[d]) \in CqFiling
    BY DEF CqFiled, QueriesInv, CqTypeOK
  <2>3. CqFiled(d, query, asked, cqSession[d]) = IF CqData(query) # NoCq /\ asked # NoCq
                            THEN [request |-> asked, result |-> query.data] ELSE cqSession[d]
    BY DEF CqFiled
  <2> QED BY <2>1, <2>2, <2>3 DEF QueriesInv, CqTypeOK
<1>4. PICK rows : rows = IF CqData(query) # NoCq THEN CqData(query) ELSE cqCopy[d].result
  OBVIOUS
<1>5. PICK turned \in BOOLEAN : turned = (d = "comparison" /\ rows # CqRaw(d))
  OBVIOUS
<1>6. cqReports' = (IF turned THEN NoCq ELSE cqReports) /\ cqLate' = (cqLate \/ (turned /\ cqBatch # NoCq))
  BY <1>4, <1>5 DEF CqRender
<1>7. CqRaw("comparison")' = IF d = "comparison" THEN rows ELSE CqRaw("comparison")
  BY <1>1, <1>4 DEF CqRaw, Demand
<1>8. cqReports' \in CqInput \cup {NoCq}
  BY <1>6 DEF QueriesInv, CqTypeOK
<1>9. cqLate' \in BOOLEAN
  BY <1>6 DEF QueriesInv, CqTypeOK
<1>10. BatchAgrees'
  BY <1>5, <1>6, <1>7 DEF QueriesInv, BatchAgrees
<1>11. CqTypeOK'
  <2>1. cqOpen' \in BOOLEAN
    BY DEF QueriesInv, CqTypeOK
  <2>2. cqInput' \in [Demand -> CqInput] /\ cqCopy' \in [Demand -> CqFiling] /\ cqBatch' \in CqInput \cup {NoCq}
    BY DEF QueriesInv, CqTypeOK
  <2> QED BY <1>1, <1>2, <1>3, <1>8, <1>9, <2>1, <2>2 DEF CqTypeOK
<1>12. QueryAgrees(d)'
  BY <1>1, <1>2, <1>3 DEF QueriesInv, CqTypeOK, QueryAgrees, CqData
<1>13. ASSUME NEW e \in Demand \ {d} PROVE QueryAgrees(e)'
  BY <1>1, <1>2, <1>3 DEF QueriesInv, CqTypeOK, QueryAgrees
<1> QED BY <1>10, <1>11, <1>12, <1>13 DEF QueriesInv

LEMMA QueriesStep == QueriesInv /\ [CqNext]_cqVars => QueriesInv'
<1> SUFFICES ASSUME QueriesInv, [CqNext]_cqVars PROVE QueriesInv'
  OBVIOUS
<1> USE CqAssumption
<1>1. CASE OpenQueries
  <2>1. CqTypeOK'
    BY <1>1 DEF OpenQueries, QueriesInv, CqTypeOK
  <2>2. \A d \in Demand : QueryAgrees(d)'
    BY <1>1 DEF OpenQueries, QueriesInv, CqTypeOK, QueryAgrees, BatchAgrees
  <2>3. BatchAgrees'
    BY <1>1 DEF OpenQueries, QueriesInv, BatchAgrees
  <2> QED BY <2>1, <2>2, <2>3 DEF QueriesInv
<1>2. CASE LeaveQueries
  <2> USE DEF LeaveQueries, CqIdle, CqNothing
  <2>1. CqTypeOK'
    BY <1>2 DEF QueriesInv, CqTypeOK
  <2>2. \A d \in Demand : QueryAgrees(d)'
    BY <1>2 DEF QueriesInv, CqTypeOK, QueryAgrees
  <2>3. BatchAgrees'
    BY <1>2 DEF BatchAgrees
  <2> QED BY <2>1, <2>2, <2>3 DEF QueriesInv
<1>3. ASSUME NEW d \in Demand, ChangeDemand(d) PROVE QueriesInv'
  <2>1. CqTypeOK'
    BY <1>3 DEF ChangeDemand, QueriesInv, CqTypeOK
  <2> QED BY <1>3, <2>1 DEF ChangeDemand, QueriesInv, QueryAgrees, BatchAgrees, CqRaw
<1>4. ASSUME NEW d \in Demand, RefreshDemand(d) PROVE QueriesInv'
  <2> DEFINE query == [status |-> "asked", data |-> CqData(cqQuery[d])]
  <2>1. /\ cqOpen /\ UNCHANGED <<cqOpen, cqInput, cqCopy, cqBatch>>
        /\ CqRender(d, query, cqInput[d]) /\ cqInput[d] \in CqInput
        /\ cqCut' = IF cqQuery[d].status = "asked" THEN cqCut \cup {d} ELSE cqCut
    BY <1>4 DEF RefreshDemand, QueriesInv, CqTypeOK
  <2>2. query \in QueryState
    BY DEF QueriesInv, CqTypeOK, CqData, QueryState
  <2> HIDE DEF query
  <2>3. query.status = "asked"
    BY DEF query
  <2> QED BY <2>1, <2>2, <2>3, RenderAgrees DEF QueriesInv, CqTypeOK
<1>5. ASSUME NEW d \in Demand, AnswerDemand(d) PROVE QueriesInv'
  <2> DEFINE query == [status |-> "done", data |-> cqAsked[d]]
  <2>1. /\ cqOpen /\ UNCHANGED <<cqOpen, cqInput, cqCopy, cqBatch>>
        /\ CqRender(d, query, cqAsked[d]) /\ cqAsked[d] \in CqInput /\ cqAsked[d] # NoCq
        /\ cqCut' = cqCut
    BY <1>5 DEF AnswerDemand, QueriesInv, CqTypeOK, BatchAgrees, QueryAgrees
  <2>2. query \in QueryState
    BY <2>1 DEF QueryState
  <2>3. query.status = "done" /\ query.data = cqAsked[d] /\ CqData(query) = cqAsked[d]
    BY DEF CqData
  <2> HIDE DEF query
  <2> QED BY <2>1, <2>2, <2>3, RenderAgrees DEF QueriesInv, CqTypeOK
<1>6. ASSUME NEW d \in Demand, FailDemand(d) PROVE QueriesInv'
  <2> DEFINE query == [cqQuery[d] EXCEPT !.status = "failed"]
  <2>1. /\ cqOpen /\ UNCHANGED <<cqOpen, cqInput, cqCopy, cqBatch>>
        /\ CqRender(d, query, cqAsked[d]) /\ cqAsked[d] \in CqInput \cup {NoCq}
        /\ cqCut' = cqCut \cup {d}
    BY <1>6 DEF FailDemand, QueriesInv, CqTypeOK, BatchAgrees
  <2>2. query \in QueryState
    BY DEF QueriesInv, CqTypeOK, QueryState
  <2>3. query.status = "failed"
    BY DEF QueriesInv, CqTypeOK
  <2> HIDE DEF query
  <2> QED BY <2>1, <2>2, <2>3, RenderAgrees DEF QueriesInv, CqTypeOK
<1>7. CASE CalculateAll
  <2>1. CqRaw("comparison") \in CqInput \cup {NoCq}
    BY DEF QueriesInv, CqTypeOK, CqRaw, CqData, Demand
  <2> QED BY <1>7, <2>1 DEF CalculateAll, QueriesInv, CqTypeOK, QueryAgrees, BatchAgrees, CqRaw
<1>8. CASE BatchAnswered
  BY <1>8 DEF BatchAnswered, QueriesInv, CqTypeOK, QueryAgrees, BatchAgrees, CqRaw
<1>9. CASE BatchFails
  BY <1>9 DEF BatchFails, QueriesInv, CqTypeOK, QueryAgrees, BatchAgrees, CqRaw
<1>10. CASE UNCHANGED cqVars
  BY <1>10 DEF cqVars, QueriesInv, CqTypeOK, QueryAgrees, BatchAgrees, CqRaw
<1> QED
  BY <1>1, <1>2, <1>3, <1>4, <1>5, <1>6, <1>7, <1>8, <1>9, <1>10 DEF CqNext

\* Source data and comparisons shown on the corporate page answer what its controls asked for, and the
\* reports are those of their rows unless the rows changed meanwhile (the queries of corporate/page.tsx).
THEOREM QueriesAlwaysHold == CqSpec => []QueriesHold
<1>1. CqInit => QueriesInv
  <2> SUFFICES ASSUME CqInit PROVE QueriesInv
    OBVIOUS
  <2> USE CqAssumption DEF CqInit, CqIdle, CqNothing
  <2>1. (CHOOSE i \in CqInput : TRUE) \in CqInput
    OBVIOUS
  <2>2. cqOpen \in BOOLEAN /\ cqLate \in BOOLEAN
    OBVIOUS
  <2>3. CqTypeOK
    BY <2>1, <2>2 DEF CqTypeOK
  <2>4. \A d \in Demand : QueryAgrees(d)
    BY DEF QueryAgrees
  <2>5. BatchAgrees
    BY DEF BatchAgrees
  <2> QED BY <2>3, <2>4, <2>5 DEF QueriesInv
<1>2. QueriesInv => QueriesHold
  <2> SUFFICES ASSUME QueriesInv PROVE QueriesHold
    OBVIOUS
  <2>1. DataAnswerTheControls
    BY DEF QueriesInv, CqTypeOK, QueryAgrees, DataAnswerTheControls, CqShown, CqMarked, CqClaims, CqRaw, CqData, Demand
  <2>2. ReportsMatchRows
    BY DEF QueriesInv, BatchAgrees, ReportsMatchRows
  <2> QED BY <2>1, <2>2 DEF QueriesHold
<1> QED BY <1>1, <1>2, QueriesStep, PTL DEF CqSpec

-----------------------------------------------------------------------------
(* The discounted cash flow of the corporate page.                         *)

\* What a stream that runs or has ended has left, and what a page that asked for nothing restored.
DcfInv ==
  /\ CdTypeOK
  /\ ~ cdOpen => cdStatus = "idle"
  /\ cdStatus = "idle" => cdResult = NoDcf /\ (cdAsked # NoDcf => cdAsked = cdCopy)
  /\ cdStatus \in {"streaming", "complete"} => cdAsked # NoDcf
  /\ cdStatus = "streaming" => cdPhase \in 0..2 /\ (cdPhase > 0 => cdAsked.figure \notin CdRefused)
  /\ cdStatus = "complete" \/ (cdStatus = "streaming" /\ cdPhase > 0) =>
       cdRefusal # NoDcf \/ (cdResult = cdAsked /\ cdAsked.figure \notin CdRefused)

LEMMA DcfStep == DcfInv /\ [CdNext]_cdVars => DcfInv'
<1> SUFFICES ASSUME DcfInv, [CdNext]_cdVars PROVE DcfInv'
  OBVIOUS
<1> USE CdAssumption DEF DcfInv, CdTypeOK
<1>0. ASSUME NEW v \in DcfInputs \cup {NoDcf}, NEW i \in DcfInputs
      PROVE  OfTicker(v, i) \in DcfInputs \cup {NoDcf} /\ (OfTicker(v, i) # NoDcf => OfTicker(v, i) = v)
  BY DEF OfTicker
<1>1. CASE OpenDcf
  BY <1>0, <1>1 DEF OpenDcf
<1>2. CASE LeaveDcf
  <2>1. cdReporting' \subseteq [of : DcfInputs, page : BOOLEAN]
    BY <1>2 DEF LeaveDcf
  <2>2. /\ cdOpen' = FALSE /\ cdAsked' = NoDcf /\ cdStatus' = "idle" /\ cdPhase' = 0
        /\ cdResult' = NoDcf /\ cdCopy' = NoDcf /\ cdRefusal' = NoDcf /\ cdReport' = NoDcf
        /\ UNCHANGED <<cdInput, cdSession>>
    BY <1>2 DEF LeaveDcf
  <2>3. cdOpen' \in BOOLEAN
    BY <2>2
  <2> QED BY <2>1, <2>2, <2>3
<1>3. CASE ChangeInputs
  BY <1>3 DEF ChangeInputs
<1>4. CASE RefreshDcf
  BY <1>4 DEF RefreshDcf
<1>5. CASE StreamEvent
  BY <1>5 DEF StreamEvent
<1>6. CASE StreamRefused
  BY <1>6 DEF StreamRefused, Refuse
<1>7. CASE StreamFails
  BY <1>7 DEF StreamFails
<1>8. CASE LoadReport
  <2>1. cdReporting' \subseteq [of : DcfInputs, page : BOOLEAN]
    <3>1. PICK own \in DcfInputs \cup {NoDcf} : own = OfTicker(cdAsked, cdInput)
      BY <1>0
    <3>2. cdReporting' = cdReporting \cup {[of |-> IF own # NoDcf THEN own ELSE cdInput, page |-> TRUE]}
      BY <1>8, <3>1 DEF LoadReport
    <3>3. (IF own # NoDcf THEN own ELSE cdInput) \in DcfInputs
      OBVIOUS
    <3>4. [of |-> IF own # NoDcf THEN own ELSE cdInput, page |-> TRUE] \in [of : DcfInputs, page : BOOLEAN]
      BY <3>3
    <3> QED BY <3>2, <3>4
  <2> QED BY <1>8, <2>1 DEF LoadReport
<1>9. ASSUME NEW r \in cdReporting, ReportAnswered(r) PROVE DcfInv'
  BY <1>9 DEF ReportAnswered
<1>10. ASSUME NEW r \in cdReporting, ReportFails(r) PROVE DcfInv'
  BY <1>10 DEF ReportFails
<1>11. CASE UNCHANGED cdVars
  BY <1>11 DEF cdVars
<1> QED
  BY <1>1, <1>2, <1>3, <1>4, <1>5, <1>6, <1>7, <1>8, <1>9, <1>10, <1>11 DEF CdNext

\* The DCF and the report on the corporate page are those of the ticker and the inputs on screen, also
\* after a stream was cut, refused or restored from the session (runDcf and the effects of the page), for
\* any inputs and figures.
THEOREM DcfAlwaysHolds == CdSpec => []DcfHolds
<1>1. CdInit => DcfInv
  <2> SUFFICES ASSUME CdInit PROVE DcfInv
    OBVIOUS
  <2> USE CdAssumption DEF CdInit
  <2>1. cdInput \in DcfInputs
    OBVIOUS
  <2>2. cdOpen \in BOOLEAN
    OBVIOUS
  <2> QED BY <2>1, <2>2 DEF DcfInv, CdTypeOK
<1>2. DcfInv => DcfHolds
  BY CdAssumption DEF DcfInv, CdTypeOK, DcfHolds, FreshDcfIsCurrent, ShownIsOwn, DcfShown, DcfStale, ReportShown, OfTicker
<1> QED BY <1>1, <1>2, DcfStep, PTL DEF CdSpec

-----------------------------------------------------------------------------
(* The assumptions of the corporate page.                                  *)

CaLimit == CaMaxEdits + CaMaxPicks + 1

\* There is a number left for a read: fewer are under way than there are numbers.
ReadsAreFew ==
  /\ caUsed \in [edits : 0..CaMaxEdits, picks : 0..CaMaxPicks, visits : 0..CaMaxVisits, faults : 0..CaMaxFaults]
  /\ IsFiniteSet(caReads) /\ Cardinality(caReads) <= caUsed.edits + caUsed.picks + 1
  /\ ~ caOpen => caReads = {}

\* The page has the metrics of its ticker, or waits for a read of them.
MetricsAwaited ==
  /\ caOpen => caHydrating \in {NoCa, caShown.ticker}
  /\ caOpen /\ caUsed.faults = 0 /\ ~ caReselected =>
       \/ caLoaded = caShown.ticker
       \/ caHydrating = caShown.ticker /\ \E r \in caReads : r.ticker = caShown.ticker

MetricsInv == CaTypeOK /\ caReselected \in BOOLEAN /\ ReadsAreFew /\ MetricsAwaited

LEMMA NumberLeft ==
  ASSUME NEW n \in Nat, NEW reads, IsFiniteSet(reads), Cardinality(reads) < n
  PROVE  \E i \in 1..n : \A r \in reads : r.n # i
<1> SUFFICES ASSUME \A i \in 1..n : \E r \in reads : r.n = i PROVE FALSE
  OBVIOUS
<1> DEFINE numbers == {r.n : r \in reads}
           f == [r \in reads |-> r.n]
<1>1. f \in Surjection(reads, numbers)
  BY DEF Surjection
<1>2. IsFiniteSet(numbers) /\ Cardinality(numbers) <= Cardinality(reads)
  BY <1>1, FS_Surjection
<1>3. 1..n \in SUBSET numbers
  OBVIOUS
<1> HIDE DEF numbers
<1>4. Cardinality(1..n) <= Cardinality(numbers)
  BY <1>2, <1>3, FS_Subset
<1>5. Cardinality(1..n) = n
  BY FS_Interval
<1>6. Cardinality(reads) \in Nat /\ Cardinality(numbers) \in Nat
  BY <1>2, FS_CardinalityType
<1> QED BY <1>2, <1>4, <1>5, <1>6

LEMMA HydrateReads ==
  ASSUME ReadsAreFew, CaTypeOK, NEW t \in CaTicker, Hydrate(t),
         caUsed' \in [edits : 0..CaMaxEdits, picks : 0..CaMaxPicks, visits : 0..CaMaxVisits, faults : 0..CaMaxFaults],
         \/ ~ caOpen /\ caUsed'.edits = caUsed.edits /\ caUsed'.picks = caUsed.picks
         \/ caUsed'.edits + caUsed'.picks = caUsed.edits + caUsed.picks + 1,
         caOpen'
  PROVE  /\ ReadsAreFew' /\ caReads' \subseteq ReadOf
         /\ caHydrating' = t /\ \E r \in caReads' : r.ticker = t
<1> USE CaAssumption
<1> DEFINE n == CHOOSE i \in 1..CaLimit : \A r \in caReads : r.n # i
           read == [ticker |-> t, seen |-> NoCa, n |-> n]
<1>1. Cardinality(caReads) \in Nat /\ Cardinality(caReads) < CaLimit
  <2>1. CASE ~ caOpen
    BY <2>1, FS_EmptySet DEF ReadsAreFew, CaLimit
  <2>2. CASE caUsed'.edits + caUsed'.picks = caUsed.edits + caUsed.picks + 1
    <3>1. Cardinality(caReads) \in Nat
      BY FS_CardinalityType DEF ReadsAreFew
    <3> QED BY <2>2, <3>1 DEF ReadsAreFew, CaLimit
  <2> QED BY <2>1, <2>2
<1>2. CaLimit \in Nat
  BY DEF CaLimit
<1>3. n \in 1..CaLimit
  BY <1>1, <1>2, NumberLeft DEF ReadsAreFew
<1>4. caReads' = caReads \cup {read} /\ caHydrating' = t
  BY DEF Hydrate, CaLimit
<1> HIDE DEF n
<1>5. read \in ReadOf /\ read.ticker = t
  BY <1>2, <1>3 DEF ReadOf
<1> HIDE DEF read
<1>6. caReads' \subseteq ReadOf
  BY <1>4, <1>5 DEF CaTypeOK
<1>7. IsFiniteSet(caReads') /\ Cardinality(caReads') <= Cardinality(caReads) + 1
  <2>1. /\ IsFiniteSet(caReads \cup {read})
        /\ Cardinality(caReads \cup {read}) = IF read \in caReads THEN Cardinality(caReads) ELSE Cardinality(caReads) + 1
    BY FS_AddElement DEF ReadsAreFew
  <2> QED BY <1>1, <1>4, <2>1
<1>8. Cardinality(caReads') <= caUsed'.edits + caUsed'.picks + 1
  <2>1. Cardinality(caReads') \in Nat
    BY <1>7, FS_CardinalityType
  <2>2. CASE ~ caOpen
    <3>1. Cardinality(caReads) = 0
      BY <2>2, FS_EmptySet DEF ReadsAreFew
    <3> QED BY <1>7, <2>1, <3>1 DEF ReadsAreFew
  <2>3. CASE caUsed'.edits + caUsed'.picks = caUsed.edits + caUsed.picks + 1
    BY <1>1, <1>7, <2>1, <2>3 DEF ReadsAreFew
  <2> QED BY <2>2, <2>3
<1> QED BY <1>4, <1>5, <1>6, <1>7, <1>8 DEF ReadsAreFew

\* A read that is answered in part, or ends, leaves no more than there were.
LEMMA FewerReads ==
  ASSUME ReadsAreFew, NEW r \in caReads, NEW s,
         caReads' = caReads \ {r} \/ caReads' = (caReads \ {r}) \cup {s},
         caUsed' \in [edits : 0..CaMaxEdits, picks : 0..CaMaxPicks, visits : 0..CaMaxVisits, faults : 0..CaMaxFaults],
         caUsed'.edits = caUsed.edits, caUsed'.picks = caUsed.picks, caOpen' = caOpen
  PROVE  ReadsAreFew'
<1> USE CaAssumption
<1>1. IsFiniteSet(caReads \ {r}) /\ Cardinality(caReads \ {r}) = Cardinality(caReads) - 1
  BY FS_RemoveElement DEF ReadsAreFew
<1>2. Cardinality(caReads) \in Nat /\ Cardinality(caReads \ {r}) \in Nat
  BY <1>1, FS_CardinalityType DEF ReadsAreFew
<1>3. IsFiniteSet(caReads') /\ Cardinality(caReads') <= Cardinality(caReads)
  <2>1. CASE caReads' = caReads \ {r}
    BY <1>1, <1>2, <2>1
  <2>2. CASE caReads' = (caReads \ {r}) \cup {s}
    <3>1. /\ IsFiniteSet((caReads \ {r}) \cup {s})
          /\ Cardinality((caReads \ {r}) \cup {s}) =
               IF s \in caReads \ {r} THEN Cardinality(caReads \ {r}) ELSE Cardinality(caReads \ {r}) + 1
      BY <1>1, FS_AddElement
    <3> QED BY <1>1, <1>2, <2>2, <3>1
  <2> QED BY <2>1, <2>2
<1>4. Cardinality(caReads') \in Nat
  BY <1>3, FS_CardinalityType
<1> QED BY <1>2, <1>3, <1>4 DEF ReadsAreFew

LEMMA MetricsStep == MetricsInv /\ [CaNext]_caVars => MetricsInv'
<1> SUFFICES ASSUME MetricsInv, [CaNext]_caVars PROVE MetricsInv'
  OBVIOUS
<1> USE CaAssumption DEF MetricsInv
<1>0. \A t \in CaTicker : Stored(t) \in Assumptions /\ Stored(t).ticker = t
  BY DEF Stored, Assumptions, CaTypeOK
<1>a. ASSUME NEW a \in Assumptions, Assume(a)
      PROVE  caShown' = a /\ caTimer' \in BOOLEAN /\ caLocal' \in [CaTicker -> CaFigure \cup {NoCa}]
  BY <1>a DEF Assume, Assumptions, CaTypeOK
<1>1. CASE OpenCorporate
  <2>1. PICK t \in CaTicker : /\ caShown' = Stored(t) /\ Hydrate(t)
                              /\ caLocal' = [caLocal EXCEPT ![t] = Stored(t).figure]
    BY <1>1 DEF OpenCorporate
  <2>2. /\ caUsed' \in [edits : 0..CaMaxEdits, picks : 0..CaMaxPicks, visits : 0..CaMaxVisits, faults : 0..CaMaxFaults]
        /\ caUsed'.edits = caUsed.edits /\ caUsed'.picks = caUsed.picks
    BY <1>1 DEF OpenCorporate, CaUse, ReadsAreFew
  <2>3. ~ caOpen /\ caOpen'
    BY <1>1 DEF OpenCorporate
  <2>4. ReadsAreFew' /\ caReads' \subseteq ReadOf /\ caHydrating' = t /\ \E r \in caReads' : r.ticker = t
    BY <2>1, <2>2, <2>3, HydrateReads
  <2>5. /\ caOpen' \in BOOLEAN /\ caTimer' \in BOOLEAN /\ caPending' \in BOOLEAN /\ caReselected' \in BOOLEAN
    BY <1>1 DEF OpenCorporate
  <2>6. caLocal' \in [CaTicker -> CaFigure \cup {NoCa}]
    BY <1>0, <2>1 DEF CaTypeOK, Assumptions
  <2>7. CaTypeOK'
    BY <1>0, <1>1, <2>1, <2>4, <2>5, <2>6 DEF OpenCorporate, CaTypeOK
  <2> QED BY <1>0, <2>1, <2>4, <2>5, <2>7 DEF MetricsAwaited
<1>2. CASE LeaveCorporate
  <2>1. CaTypeOK' /\ ReadsAreFew'
    <3>1. caOpen' \in BOOLEAN /\ caTimer' \in BOOLEAN
      BY <1>2 DEF LeaveCorporate
    <3>2. IsFiniteSet(caReads') /\ Cardinality(caReads') = 0
      BY <1>2, FS_EmptySet DEF LeaveCorporate
    <3> QED BY <1>2, <3>1, <3>2 DEF LeaveCorporate, CaTypeOK, ReadsAreFew
  <2> QED BY <1>2, <2>1 DEF LeaveCorporate, MetricsAwaited
<1>3. CASE EditFigure
  <2>1. PICK f \in CaFigure : Assume([caShown EXCEPT !.figure = f])
    BY <1>3 DEF EditFigure
  <2>2. /\ [caShown EXCEPT !.figure = f] \in Assumptions
        /\ [caShown EXCEPT !.figure = f].ticker = caShown.ticker
    BY DEF Assumptions, CaTypeOK
  <2>3. caShown' \in Assumptions /\ caShown'.ticker = caShown.ticker /\ caLocal' \in [CaTicker -> CaFigure \cup {NoCa}]
    BY <1>a, <2>1, <2>2
  <2>4. caTimer' \in BOOLEAN /\ caPending' \in BOOLEAN
    BY <1>3, <1>a, <2>1, <2>2 DEF EditFigure
  <2>5. CaTypeOK'
    BY <1>3, <2>3, <2>4 DEF EditFigure, CaTypeOK
  <2>6. ReadsAreFew'
    BY <1>3, FS_CardinalityType DEF EditFigure, CaUse, ReadsAreFew
  <2> QED BY <1>3, <2>3, <2>5, <2>6 DEF EditFigure, MetricsAwaited, CaUse, ReadsAreFew
<1>4. CASE ChangeBasis
  <2>1. caShown.ticker \in CaTicker /\ Hydrate(caShown.ticker)
    BY <1>4 DEF ChangeBasis, CaTypeOK, Assumptions
  <2>2. /\ caUsed' \in [edits : 0..CaMaxEdits, picks : 0..CaMaxPicks, visits : 0..CaMaxVisits, faults : 0..CaMaxFaults]
        /\ caUsed'.edits + caUsed'.picks = caUsed.edits + caUsed.picks + 1
    BY <1>4 DEF ChangeBasis, CaUse, ReadsAreFew
  <2>3. caOpen'
    BY <1>4 DEF ChangeBasis
  <2>4. ReadsAreFew' /\ caReads' \subseteq ReadOf /\ caHydrating' = caShown.ticker /\ \E r \in caReads' : r.ticker = caShown.ticker
    BY <2>1, <2>2, <2>3, HydrateReads
  <2>5. CaTypeOK'
    BY <1>4, <2>1, <2>4 DEF ChangeBasis, CaTypeOK
  <2> QED BY <1>4, <2>4, <2>5 DEF ChangeBasis, MetricsAwaited
<1>5. ASSUME NEW t \in CaTicker, SelectTicker(t) PROVE MetricsInv'
  <2>1. /\ caShown' = Stored(t) /\ caLocal' \in [CaTicker -> CaFigure \cup {NoCa}]
    BY <1>0, <1>5, <1>a DEF SelectTicker
  <2>2. caTimer' \in BOOLEAN
    BY <1>0, <1>5, <1>a DEF SelectTicker
  <2>3. /\ caUsed' \in [edits : 0..CaMaxEdits, picks : 0..CaMaxPicks, visits : 0..CaMaxVisits, faults : 0..CaMaxFaults]
        /\ caUsed'.edits + caUsed'.picks = caUsed.edits + caUsed.picks + 1 /\ caUsed'.faults = caUsed.faults
    BY <1>5 DEF SelectTicker, CaUse, ReadsAreFew
  <2>4. CASE t = caShown.ticker
    <3>1. CaTypeOK'
      BY <1>0, <1>5, <2>1, <2>2, <2>4 DEF SelectTicker, CaTypeOK
    <3>2. ReadsAreFew'
      BY <1>5, <2>3, <2>4, FS_CardinalityType DEF SelectTicker, ReadsAreFew
    <3> QED BY <1>0, <1>5, <2>1, <2>4, <3>1, <3>2 DEF SelectTicker, MetricsAwaited
  <2>5. CASE t # caShown.ticker
    <3>1. ReadsAreFew' /\ caReads' \subseteq ReadOf /\ caHydrating' = t /\ \E r \in caReads' : r.ticker = t
      BY <1>5, <2>3, <2>5, HydrateReads DEF SelectTicker
    <3>2. CaTypeOK'
      BY <1>0, <1>5, <2>1, <2>2, <2>5, <3>1 DEF SelectTicker, CaTypeOK
    <3> QED BY <1>0, <1>5, <2>1, <2>5, <3>1, <3>2 DEF SelectTicker, MetricsAwaited
  <2> QED BY <2>4, <2>5
<1>6. CASE AssumptionsSettle
  <2>1. caTimer' \in BOOLEAN /\ caPending' \in BOOLEAN
    BY <1>6 DEF AssumptionsSettle, CaTypeOK
  <2>2. CaTypeOK'
    BY <1>6, <2>1 DEF AssumptionsSettle, CaTypeOK
  <2> QED BY <1>6, <2>2 DEF AssumptionsSettle, ReadsAreFew, MetricsAwaited
<1>7. ASSUME NEW r \in caReads, CaReadServed(r) PROVE MetricsInv'
  <2>1. PICK s : s = [r EXCEPT !.seen = caServer[r.ticker]]
    OBVIOUS
  <2>2. s \in ReadOf /\ s.ticker = r.ticker
    BY <2>1 DEF CaTypeOK, ReadOf
  <2>3. caReads' = (caReads \ {r}) \cup {s} /\ UNCHANGED <<caOpen, caUsed>>
    BY <1>7, <2>1 DEF CaReadServed
  <2>4. ReadsAreFew'
    BY <2>3, FewerReads DEF ReadsAreFew
  <2>5. CaTypeOK'
    BY <1>7, <2>2, <2>3 DEF CaReadServed, CaTypeOK
  <2> QED BY <1>7, <2>2, <2>3, <2>4, <2>5 DEF CaReadServed, MetricsAwaited
<1>8. ASSUME NEW r \in caReads, CaReadAnswered(r) PROVE MetricsInv'
  <2>1. /\ caReads' = caReads \ {r} /\ UNCHANGED <<caOpen, caUsed, caReselected>>
        /\ caLoaded' = Kept(r.ticker) /\ caHydrating' = Unhydrated(r.ticker)
    BY <1>8 DEF CaReadAnswered
  <2>2. r.ticker \in CaTicker /\ r.seen \in CaFigure
    BY <1>8 DEF CaReadAnswered, CaTypeOK, ReadOf
  <2>3. /\ caShown' \in Assumptions /\ caShown'.ticker = caShown.ticker
        /\ caLocal' \in [CaTicker -> CaFigure \cup {NoCa}]
    BY <1>8, <1>a, <2>2 DEF CaReadAnswered, CaTypeOK, Assumptions
  <2>4. caTimer' \in BOOLEAN
    BY <1>8, <1>a, <2>2 DEF CaReadAnswered, CaTypeOK, Assumptions
  <2>5. ReadsAreFew'
    BY <2>1, FewerReads DEF ReadsAreFew
  <2>6. caLoaded' \in CaTicker \cup {NoCa} /\ caHydrating' \in CaTicker \cup {NoCa}
    BY <2>1, <2>2 DEF Kept, Unhydrated, CaTypeOK
  <2>7. CaTypeOK'
    BY <1>8, <2>1, <2>3, <2>4, <2>6 DEF CaReadAnswered, CaTypeOK
  <2>8. CASE r.ticker = caShown.ticker
    BY <2>1, <2>3, <2>5, <2>7, <2>8 DEF Kept, Unhydrated, MetricsAwaited
  <2>9. CASE r.ticker # caShown.ticker
    BY <2>1, <2>2, <2>3, <2>5, <2>7, <2>9 DEF Kept, Unhydrated, MetricsAwaited
  <2> QED BY <2>8, <2>9
<1>9. ASSUME NEW r \in caReads, CaReadLost(r) PROVE MetricsInv'
  <2>1. /\ caReads' = caReads \ {r} /\ UNCHANGED <<caOpen, caShown>> /\ caHydrating' = Unhydrated(r.ticker)
    BY <1>9 DEF CaReadLost
  <2>2. /\ caUsed' \in [edits : 0..CaMaxEdits, picks : 0..CaMaxPicks, visits : 0..CaMaxVisits, faults : 0..CaMaxFaults]
        /\ caUsed'.edits = caUsed.edits /\ caUsed'.picks = caUsed.picks /\ caUsed'.faults > 0
    BY <1>9 DEF CaReadLost, CaUse, ReadsAreFew
  <2>3. ReadsAreFew'
    BY <2>1, <2>2, FewerReads
  <2>4. CaTypeOK'
    BY <1>9, <2>1 DEF CaReadLost, CaTypeOK, Unhydrated
  <2> QED BY <1>9, <2>1, <2>2, <2>3, <2>4 DEF CaReadLost, MetricsAwaited, Unhydrated
<1>10. ASSUME NEW p \in caPuts, CaPutServed(p) PROVE MetricsInv'
  <2>1. CaTypeOK'
    BY <1>10 DEF CaPutServed, CaTypeOK, Assumptions
  <2> QED BY <1>10, <2>1 DEF CaPutServed, ReadsAreFew, MetricsAwaited
<1>11. ASSUME NEW p \in caPuts, CaPutLost(p) PROVE MetricsInv'
  <2>1. CaTypeOK'
    BY <1>11 DEF CaPutLost, CaTypeOK
  <2>2. ReadsAreFew'
    BY <1>11 DEF CaPutLost, CaUse, ReadsAreFew
  <2> QED BY <1>11, <2>1, <2>2 DEF CaPutLost, CaUse, ReadsAreFew, MetricsAwaited
<1>12. CASE UNCHANGED caVars
  BY <1>12 DEF caVars, CaTypeOK, ReadsAreFew, MetricsAwaited
<1> QED
  BY <1>1, <1>2, <1>3, <1>4, <1>5, <1>6, <1>7, <1>8, <1>9, <1>10, <1>11, <1>12 DEF CaNext, CaServes

\* The metrics of the ticker on screen are there once nothing is being read, unless the selected ticker was
\* selected again (latestLoadedMetrics in selectTicker and the effect on assumptions.ticker).
THEOREM MetricsAlwaysKept == CaInit /\ [][CaNext]_caVars => []MetricsAreLost
<1>1. CaInit => MetricsInv
  <2> SUFFICES ASSUME CaInit PROVE MetricsInv
    OBVIOUS
  <2> USE CaAssumption DEF CaInit
  <2>1. caOpen \in BOOLEAN /\ caTimer \in BOOLEAN /\ caPending \in BOOLEAN /\ caReselected \in BOOLEAN
    OBVIOUS
  <2>2. caShown \in Assumptions
    BY DEF Assumptions
  <2>3. CaTypeOK
    BY <2>1, <2>2 DEF CaTypeOK
  <2>4. ReadsAreFew
    BY FS_EmptySet DEF ReadsAreFew
  <2>5. MetricsAwaited
    BY DEF MetricsAwaited
  <2> QED BY <2>1, <2>3, <2>4, <2>5 DEF MetricsInv
<1>2. MetricsInv => MetricsAreLost
  BY DEF MetricsInv, MetricsAwaited, MetricsAreLost, MetricsAreKept
<1> QED BY <1>1, <1>2, MetricsStep, PTL

-----------------------------------------------------------------------------
(* The ticker search.                                                      *)

CompanyIn(rows, t) == [x \in DOMAIN rows \cup {t} |-> IF x = t THEN "typed" ELSE rows[x]]
CsSaved == csPost # NoCs /\ csPost.phase = "served"

\* A list read whole is the service's, but for a company saved whose answer is under way.
ListIsKnown ==
  csList.data # NoCs /\ csList.whole /\ ~ csWant.late /\ csUsed.faults = 0
  => IF CsSaved THEN csStore = CompanyIn(csList.data, csPost.ticker) ELSE csStore = csList.data

SavedIsListed == CsSaved => csPost.ticker \in DOMAIN csStore /\ csStore[csPost.ticker] = "typed"

BoxCloses ==
  /\ csBox.timers <= csUsed.acts
  /\ csBox.open => csBox.focused \/ csBox.timers > 0
  /\ csBox.pressed # NoCs => ~ csBox.focused

PickerAddsNothing ==
  csPlace = "picker" => csDraft = NoCs /\ csPost = NoCs /\ \A x \in DOMAIN csStore : csStore[x] = "own"

SearchInv == CsTypeOK /\ ChoiceIsKept /\ ListIsKnown /\ SavedIsListed /\ BoxCloses /\ PickerAddsNothing

CsUses == [acts : 0..CsMaxActs, faults : 0..CsMaxFaults]
CsWanted == [ticker : CsTicker, overtaken : BOOLEAN, late : BOOLEAN]

LEMMA ListingIs ==
  ASSUME NEW rows \in Listings
  PROVE  DOMAIN rows \in SUBSET CsTicker /\ rows \in [DOMAIN rows -> {"own", "typed"}] /\ rows # NoCs
<1>1. PICK S \in SUBSET CsTicker : rows \in [S -> {"own", "typed"}]
  BY DEF Listings
<1> QED BY <1>1, CsNothing

LEMMA CompanyInIs ==
  ASSUME NEW rows \in Listings, NEW t \in CsTicker
  PROVE  CompanyIn(rows, t) \in Listings
<1>1. DOMAIN rows \in SUBSET CsTicker /\ rows \in [DOMAIN rows -> {"own", "typed"}]
  BY ListingIs
<1>2. CompanyIn(rows, t) \in [DOMAIN rows \cup {t} -> {"own", "typed"}]
  BY <1>1 DEF CompanyIn
<1> QED BY <1>1, <1>2 DEF Listings

\* Acts and faults are counted.
LEMMA CsCounted ==
  ASSUME CsTypeOK
  PROVE  /\ csUsed.acts \in 0..CsMaxActs /\ csUsed.faults \in 0..CsMaxFaults /\ CsMaxActs \in Nat /\ CsMaxFaults \in Nat
         /\ CsActs => csUsed' \in CsUses /\ csUsed'.acts = csUsed.acts + 1 /\ csUsed'.faults = csUsed.faults
         /\ CsFault => csUsed' \in CsUses /\ csUsed'.acts = csUsed.acts /\ csUsed'.faults # 0
<1>1. csUsed \in CsUses /\ csUsed.acts \in 0..CsMaxActs /\ csUsed.faults \in 0..CsMaxFaults
  BY DEF CsTypeOK, CsUses
<1>2. CsMaxActs \in Nat /\ CsMaxFaults \in Nat
  BY CsAssumption, Zenon
<1>3. ASSUME CsActs PROVE csUsed' \in CsUses /\ csUsed'.acts = csUsed.acts + 1 /\ csUsed'.faults = csUsed.faults
  <2>1. PICK more \in 0..CsMaxActs : more = csUsed.acts + 1
    BY <1>1, <1>2, <1>3 DEF CsActs
  <2>2. csUsed' = [csUsed EXCEPT !.acts = more]
    BY <1>3, <2>1 DEF CsActs
  <2>3. csUsed' \in CsUses /\ csUsed'.acts = more /\ csUsed'.faults = csUsed.faults
    BY <1>1, <2>2 DEF CsUses
  <2> QED BY <2>1, <2>3
<1>4. ASSUME CsFault PROVE csUsed' \in CsUses /\ csUsed'.acts = csUsed.acts /\ csUsed'.faults # 0
  <2>1. PICK more \in 0..CsMaxFaults : more = csUsed.faults + 1 /\ more # 0
    BY <1>1, <1>2, <1>4 DEF CsFault
  <2>2. csUsed' = [csUsed EXCEPT !.faults = more]
    BY <1>4, <2>1 DEF CsFault
  <2>3. csUsed' \in CsUses /\ csUsed'.acts = csUsed.acts /\ csUsed'.faults = more
    BY <1>1, <2>2 DEF CsUses
  <2> QED BY <2>1, <2>3
<1> QED BY <1>1, <1>2, <1>3, <1>4

\* What is done with the list box and the field leaves the list and the request alone.
LEMMA BoxStep ==
  ASSUME SearchInv, csBox' \in CsBoxes, BoxCloses', csText' \in CsText0 \cup CsTicker,
         csUsed' \in CsUses, csUsed'.faults = csUsed.faults,
         UNCHANGED <<csPlace, csStore, csList>>,
         csDraft' \in {NoCs} \cup CsDrafting, csPost' \in {NoCs} \cup CsPosting,
         CsSaved' <=> CsSaved, CsSaved => csPost'.ticker = csPost.ticker,
         csPlace = "picker" => csDraft' = NoCs /\ csPost' = NoCs,
         csTicker' \in CsTicker, csWant' \in CsWanted, csWant'.late = csWant.late, ChoiceIsKept'
  PROVE  SearchInv'
<1>1. CsTypeOK'
  BY DEF SearchInv, CsTypeOK, CsUses, CsWanted
<1>2. ListIsKnown'
  BY DEF SearchInv, ListIsKnown
<1>3. SavedIsListed' /\ PickerAddsNothing'
  BY DEF SearchInv, SavedIsListed, PickerAddsNothing
<1> QED BY <1>1, <1>2, <1>3 DEF SearchInv

LEMMA BoxTurns ==
  ASSUME SearchInv, NEW open \in BOOLEAN, NEW focused \in BOOLEAN, NEW timers \in 0..CsMaxActs,
         NEW pressed \in CsTicker \cup {NoCs, "add"},
         csBox' = [open |-> open, focused |-> focused, timers |-> timers, pressed |-> pressed],
         timers <= csUsed'.acts, open => focused \/ timers > 0, pressed # NoCs => ~ focused
  PROVE  csBox' \in CsBoxes /\ BoxCloses'
<1>1. csBox' \in CsBoxes
  BY DEF CsBoxes
<1>2. csBox'.timers = timers /\ csBox'.pressed = pressed /\ (csBox'.open <=> open) /\ (csBox'.focused <=> focused)
  OBVIOUS
<1> QED BY <1>1, <1>2 DEF BoxCloses

LEMMA SearchState ==
  ASSUME SearchInv
  PROVE  /\ csBox \in CsBoxes /\ csBox.open \in BOOLEAN /\ csBox.focused \in BOOLEAN
         /\ csBox.timers \in 0..CsMaxActs /\ csBox.pressed \in CsTicker \cup {NoCs, "add"}
         /\ csBox.timers <= csUsed.acts /\ (csBox.open => csBox.focused \/ csBox.timers > 0)
         /\ (csBox.pressed # NoCs => ~ csBox.focused)
         /\ csText \in CsText0 \cup CsTicker /\ csDraft \in {NoCs} \cup CsDrafting
         /\ csPost \in {NoCs} \cup CsPosting /\ csTicker \in CsTicker /\ csWant \in CsWanted
         /\ csUsed \in CsUses /\ CsTypeOK /\ ChoiceIsKept
         /\ (csPlace = "picker" => csDraft = NoCs /\ csPost = NoCs)
  BY DEF SearchInv, CsTypeOK, CsBoxes, BoxCloses, PickerAddsNothing, CsWanted, CsUses

\* An act that only turns the list box.
LEMMA BoxActs ==
  ASSUME SearchInv, NEW open \in BOOLEAN, NEW focused \in BOOLEAN, NEW timers \in 0..CsMaxActs,
         NEW pressed \in CsTicker \cup {NoCs, "add"},
         csBox' = [open |-> open, focused |-> focused, timers |-> timers, pressed |-> pressed],
         timers <= csUsed'.acts, open => focused \/ timers > 0, pressed # NoCs => ~ focused,
         CsActs \/ UNCHANGED csUsed, csText' \in CsText0 \cup CsTicker,
         UNCHANGED <<csPlace, csStore, csList, csDraft, csPost, csTicker, csWant>>
  PROVE  SearchInv'
<1>1. csBox' \in CsBoxes /\ BoxCloses'
  BY BoxTurns
<1>2. csUsed' \in CsUses /\ csUsed'.faults = csUsed.faults
  BY CsCounted, SearchState
<1>3. (CsSaved' <=> CsSaved) /\ (CsSaved => csPost'.ticker = csPost.ticker) /\ ChoiceIsKept'
  BY SearchState DEF CsSaved, ChoiceIsKept
<1>4. csWant' \in CsWanted
  BY SearchState
<1> QED BY <1>1, <1>2, <1>3, <1>4, SearchState, BoxStep

LEMMA FieldSteps ==
  ASSUME SearchInv,
         \/ \E text \in CsText0 : TypeText(text)
         \/ FocusSearch \/ LeaveField \/ TimerCloses \/ EscapeSearch
         \/ \E x \in CsTicker \cup {"add"} : PressOption(x)
  PROVE  SearchInv'
<1>0. /\ csUsed.acts \in 0..CsMaxActs /\ CsMaxActs \in Nat
      /\ CsActs => csUsed'.acts = csUsed.acts + 1 /\ csUsed.acts + 1 \in 0..CsMaxActs
  <2>1. csUsed.acts \in 0..CsMaxActs /\ CsMaxActs \in Nat /\ (CsActs => csUsed'.acts = csUsed.acts + 1)
    BY CsCounted, SearchState
  <2>2. CsActs => csUsed.acts < CsMaxActs
    BY DEF CsActs
  <2> QED BY <2>1, <2>2
<1> DEFINE more == csBox.timers + 1
<1>1. CsActs => /\ more \in 0..CsMaxActs /\ more <= csUsed'.acts /\ more > 0
                /\ csBox.timers <= csUsed'.acts
  BY <1>0, SearchState
<1>2. ASSUME NEW text \in CsText0, TypeText(text) PROVE SearchInv'
  <2>1. csBox' = [open |-> TRUE, focused |-> TRUE, timers |-> csBox.timers, pressed |-> NoCs]
    BY <1>2, SearchState DEF TypeText, CsBoxes
  <2> QED BY <1>1, <1>2, <2>1, SearchState, BoxActs DEF TypeText
<1>3. CASE FocusSearch
  <2>1. csBox' = [open |-> TRUE, focused |-> TRUE, timers |-> csBox.timers, pressed |-> NoCs]
    BY <1>3, SearchState DEF FocusSearch, CsBoxes
  <2> QED BY <1>1, <1>3, <2>1, SearchState, BoxActs DEF FocusSearch
<1>4. CASE LeaveField
  <2>1. PICK timers : timers = more
    OBVIOUS
  <2>2. csBox' = [open |-> csBox.open, focused |-> FALSE, timers |-> timers, pressed |-> csBox.pressed]
    BY <1>4, <2>1, SearchState DEF LeaveField, CsBoxes
  <2> HIDE DEF more
  <2> QED BY <1>1, <1>4, <2>1, <2>2, SearchState, BoxActs DEF LeaveField
<1>5. CASE TimerCloses
  <2>1. PICK timers : timers = csBox.timers - 1
    OBVIOUS
  <2>2. timers \in 0..CsMaxActs /\ timers <= csUsed.acts
    BY <1>5, <2>1, <1>0, SearchState DEF TimerCloses
  <2>3. csBox' = [open |-> FALSE, focused |-> csBox.focused, timers |-> timers, pressed |-> csBox.pressed]
    BY <1>5, <2>1, SearchState DEF TimerCloses, CsBoxes
  <2> QED BY <1>5, <2>2, <2>3, SearchState, BoxActs DEF TimerCloses
<1>6. CASE EscapeSearch
  <2>1. csBox' = [open |-> FALSE, focused |-> csBox.focused, timers |-> csBox.timers, pressed |-> csBox.pressed]
    BY <1>6, SearchState DEF EscapeSearch, CsBoxes
  <2> QED BY <1>1, <1>6, <2>1, SearchState, BoxActs DEF EscapeSearch
<1>7. ASSUME NEW x \in CsTicker \cup {"add"}, PressOption(x) PROVE SearchInv'
  <2>1. PICK timers : timers = more
    OBVIOUS
  <2>2. csBox' = [open |-> csBox.open, focused |-> FALSE, timers |-> timers, pressed |-> x]
    BY <1>7, <2>1, SearchState DEF PressOption, CsBoxes
  <2> HIDE DEF more
  <2> QED BY <1>1, <1>7, <2>1, <2>2, SearchState, BoxActs DEF PressOption
<1> QED BY <1>2, <1>3, <1>4, <1>5, <1>6, <1>7

\* What is taken, and what a form opens on, is a ticker.
LEMMA TickersTaken ==
  ASSUME SearchInv
  PROVE  /\ csText # NoCs => Typed \in CsTicker
         /\ Suggested \subseteq CsTicker
         /\ Cardinality(Suggested) = 1 => (CHOOSE x \in Suggested : TRUE) \in Suggested
<1>1. csText # NoCs => Typed \in CsTicker
  BY SearchState, CsAssumption DEF Typed, CsText0
<1>2. Suggested \subseteq CsTicker
  BY CsAssumption DEF Suggested
<1>3. Cardinality(Suggested) = 1 => Suggested # {}
  BY FS_EmptySet
<1> QED BY <1>1, <1>2, <1>3

LEMMA TakeStep ==
  ASSUME SearchInv, NEW x \in CsTicker, TakeTicker(x), csBox' \in CsBoxes, BoxCloses',
         CsActs \/ UNCHANGED csUsed, UNCHANGED <<csPlace, csStore, csList>>
  PROVE  SearchInv'
<1>1. csUsed' \in CsUses /\ csUsed'.faults = csUsed.faults
  BY CsCounted, SearchState
<1>2. csText' \in CsText0 \cup CsTicker /\ csDraft' = NoCs /\ csTicker' = x
  BY DEF TakeTicker, CsText0
<1>3. csWant' \in CsWanted /\ csWant'.late = csWant.late /\ csWant'.ticker = x
  <2>1. csWant \in CsWanted /\ csWant' = [csWant EXCEPT !.ticker = x, !.overtaken = FALSE]
    BY SearchState DEF TakeTicker
  <2> QED BY <2>1 DEF CsWanted
<1>4. /\ csPost' \in {NoCs} \cup CsPosting /\ (csPost = NoCs => csPost' = NoCs)
      /\ csPost # NoCs => csPost' # NoCs /\ csPost'.phase = csPost.phase /\ csPost'.ticker = csPost.ticker
  <2>1. CASE csPost = NoCs
    BY <2>1 DEF TakeTicker
  <2>2. CASE csPost # NoCs
    <3>1. csPost \in CsPosting /\ csPost' = [csPost EXCEPT !.overtaken = TRUE]
      BY <2>2, SearchState DEF TakeTicker
    <3>2. csPost' \in CsPosting /\ csPost'.phase = csPost.phase /\ csPost'.ticker = csPost.ticker
      BY <3>1 DEF CsPosting
    <3> QED BY <2>2, <3>2, CsNothing
  <2> QED BY <2>1, <2>2
<1>5. ChoiceIsKept'
  BY <1>2, <1>3 DEF ChoiceIsKept
<1>6. (CsSaved' <=> CsSaved) /\ (CsSaved => csPost'.ticker = csPost.ticker)
  BY <1>4 DEF CsSaved
<1> QED BY <1>1, <1>2, <1>3, <1>4, <1>5, <1>6, SearchState, BoxStep

LEMMA OpenStep ==
  ASSUME SearchInv, OpenForm, OffersAdd, csBox' \in CsBoxes, BoxCloses',
         CsActs \/ UNCHANGED csUsed, UNCHANGED <<csPlace, csStore, csList>>
  PROVE  SearchInv'
<1>1. csUsed' \in CsUses /\ csUsed'.faults = csUsed.faults
  BY CsCounted, SearchState
<1>2. csDraft' \in CsDrafting
  <2>1. Typed \in CsTicker
    BY TickersTaken DEF OffersAdd
  <2> QED BY <2>1 DEF OpenForm, CsDrafting
<1>3. csPlace # "picker" /\ UNCHANGED <<csText, csPost, csTicker, csWant>>
  BY DEF OffersAdd, OpenForm
<1>4. (CsSaved' <=> CsSaved) /\ (CsSaved => csPost'.ticker = csPost.ticker) /\ ChoiceIsKept'
  BY <1>3, SearchState DEF CsSaved, ChoiceIsKept
<1> QED BY <1>1, <1>2, <1>3, <1>4, SearchState, BoxStep

LEMMA ChoosingSteps ==
  ASSUME SearchInv, ReleaseOption \/ EnterText \/ ShowTyped
  PROVE  SearchInv'
<1>0. /\ csUsed.acts \in 0..CsMaxActs /\ CsMaxActs \in Nat
      /\ CsActs => csUsed'.acts = csUsed.acts + 1 /\ csUsed.acts + 1 \in 0..CsMaxActs
  <2>1. csUsed.acts \in 0..CsMaxActs /\ CsMaxActs \in Nat /\ (CsActs => csUsed'.acts = csUsed.acts + 1)
    BY CsCounted, SearchState
  <2>2. CsActs => csUsed.acts < CsMaxActs
    BY DEF CsActs
  <2> QED BY <2>1, <2>2
<1>1. CASE ReleaseOption
  <2> DEFINE lands == BoxShown /\ IF csBox.pressed = "add" THEN OffersAdd ELSE csBox.pressed \in Suggested
  <2>1. /\ csBox' = [csBox EXCEPT !.pressed = NoCs, !.open = @ /\ ~ lands] /\ csBox.pressed # NoCs
        /\ IF ~ lands THEN UNCHANGED <<csText, csDraft, csPost, csTicker, csWant>>
           ELSE IF csBox.pressed = "add" THEN OpenForm ELSE TakeTicker(csBox.pressed)
        /\ UNCHANGED <<csPlace, csStore, csList, csUsed>>
    BY <1>1 DEF ReleaseOption
  <2>2. PICK open \in BOOLEAN : open <=> csBox.open /\ ~ lands
    OBVIOUS
  <2>3. csBox' = [open |-> open, focused |-> csBox.focused, timers |-> csBox.timers, pressed |-> NoCs]
    <3>1. open = (csBox.open /\ ~ lands)
      BY <2>2
    <3> HIDE DEF lands
    <3>2. csBox' = [csBox EXCEPT !.pressed = NoCs, !.open = open]
      BY <2>1, <3>1, Zenon
    <3> QED BY <3>2, SearchState DEF CsBoxes
  <2>4. csBox' \in CsBoxes /\ BoxCloses'
    BY <2>1, <2>2, <2>3, SearchState, BoxTurns
  <2>5. CASE ~ lands
    BY <2>1, <2>2, <2>3, <2>5, SearchState, BoxActs
  <2>6. CASE lands /\ csBox.pressed = "add"
    <3>1. OffersAdd /\ OpenForm
      BY <2>1, <2>6
    <3> QED BY <2>1, <2>4, <3>1, OpenStep
  <2>7. CASE lands /\ csBox.pressed # "add"
    <3>1. csBox.pressed \in CsTicker /\ TakeTicker(csBox.pressed)
      BY <2>1, <2>7, SearchState
    <3> QED BY <2>1, <2>4, <3>1, TakeStep
  <2> QED BY <2>5, <2>6, <2>7
<1>2. CASE EnterText
  <2>1. csBox' = [open |-> FALSE, focused |-> csBox.focused, timers |-> csBox.timers, pressed |-> csBox.pressed]
    BY <1>2, SearchState DEF EnterText, CsBoxes
  <2>2. CsActs /\ UNCHANGED <<csPlace, csStore, csList>> /\ csText # NoCs
    BY <1>2 DEF EnterText
  <2>3. csBox' \in CsBoxes /\ BoxCloses'
    <3>1. csBox.timers <= csUsed'.acts
      BY <1>0, <2>2, SearchState
    <3>2. csBox.pressed # NoCs => ~ csBox.focused
      BY SearchState
    <3>3. csBox.focused \in BOOLEAN /\ csBox.timers \in 0..CsMaxActs /\ csBox.pressed \in CsTicker \cup {NoCs, "add"}
      BY SearchState
    <3> QED BY <2>1, <3>1, <3>2, <3>3, BoxTurns
  <2>4. CASE OffersAdd
    BY <1>2, <2>2, <2>3, <2>4, OpenStep DEF EnterText
  <2>5. CASE ~ OffersAdd
    <3>1. PICK x : x = IF Cardinality(Suggested) = 1 THEN CHOOSE y \in Suggested : TRUE ELSE Typed
      OBVIOUS
    <3>2. x \in CsTicker
      BY <2>2, <3>1, TickersTaken
    <3>3. TakeTicker(x)
      BY <1>2, <2>5, <3>1 DEF EnterText
    <3> QED BY <2>2, <2>3, <3>2, <3>3, TakeStep
  <2> QED BY <2>4, <2>5
<1>3. CASE ShowTyped
  <2>1. /\ csPlace = "picker" /\ csText # NoCs /\ csBox.pressed = NoCs /\ CsActs
        /\ csTicker' = Typed /\ csWant' = [csWant EXCEPT !.ticker = Typed]
        /\ UNCHANGED <<csPlace, csStore, csList, csText, csDraft, csPost>>
    BY <1>3 DEF ShowTyped
  <2>2. PICK timers : timers = csBox.timers + 1
    OBVIOUS
  <2>3. \/ csBox' = csBox
        \/ csBox' = [open |-> csBox.open, focused |-> FALSE, timers |-> timers, pressed |-> NoCs]
    BY <1>3, <2>1, <2>2, SearchState DEF ShowTyped, CsBoxes
  <2>4. /\ timers \in 0..CsMaxActs /\ timers <= csUsed'.acts /\ timers > 0
        /\ csBox.timers <= csUsed'.acts
    BY <1>0, <2>1, <2>2, SearchState
  <2>5. csBox' \in CsBoxes /\ BoxCloses'
    <3>1. CASE csBox' = csBox
      BY <2>4, <3>1, SearchState DEF BoxCloses
    <3>2. CASE csBox' = [open |-> csBox.open, focused |-> FALSE, timers |-> timers, pressed |-> NoCs]
      BY <2>4, <3>2, SearchState, BoxTurns
    <3> QED BY <2>3, <3>1, <3>2
  <2>6. csUsed' \in CsUses /\ csUsed'.faults = csUsed.faults
    BY <2>1, CsCounted, SearchState
  <2>7. PICK t \in CsTicker : t = Typed
    BY <2>1, TickersTaken
  <2>8. csWant' \in CsWanted /\ csWant'.late = csWant.late /\ csWant'.ticker = t
    <3>1. csWant' = [csWant EXCEPT !.ticker = t]
      BY <2>1, <2>7
    <3> QED BY <3>1, SearchState DEF CsWanted
  <2>9. ChoiceIsKept'
    BY <2>1, <2>7, <2>8 DEF ChoiceIsKept
  <2>10. CsSaved' <=> CsSaved
    BY <2>1 DEF CsSaved
  <2> QED BY <2>1, <2>5, <2>6, <2>8, <2>9, <2>10, SearchState, BoxStep
<1> QED BY <1>1, <1>2, <1>3

\* The list is read, and may lack a company.
LEMMA ReadStep ==
  ASSUME SearchInv, NEW rows, SuggestionsRead(rows) PROVE SearchInv'
<1>1. /\ csList.asked # NoCs /\ rows \in {csList.asked, csStore}
      /\ csList' = [data |-> rows, asked |-> NoCs, whole |-> TRUE]
      /\ csWant' = [csWant EXCEPT !.late = rows # csStore]
      /\ UNCHANGED <<csPlace, csStore, csText, csBox, csDraft, csPost, csTicker, csUsed>>
  BY DEF SuggestionsRead
<1>2. csList \in CsListing /\ csStore \in Listings /\ rows \in Listings
  BY <1>1 DEF SearchInv, CsTypeOK, CsListing
<1>3. csList' \in CsListing /\ csList'.data = rows
  BY <1>1, <1>2 DEF CsListing
<1>4. PICK late \in BOOLEAN : late <=> rows # csStore
  OBVIOUS
<1>5. csWant' \in CsWanted /\ csWant'.ticker = csWant.ticker /\ csWant'.late = late
  <2>1. late = (rows # csStore)
    BY <1>4
  <2>2. csWant' = [csWant EXCEPT !.late = late]
    BY <1>1, <2>1, Zenon
  <2> QED BY <2>2, SearchState DEF CsWanted
<1>6. csWant'.overtaken = csWant.overtaken
  <2>1. late = (rows # csStore)
    BY <1>4
  <2>2. csWant' = [csWant EXCEPT !.late = late]
    BY <1>1, <2>1, Zenon
  <2> QED BY <2>2, SearchState DEF CsWanted
<1>7. CsTypeOK' /\ ChoiceIsKept'
  <2>1. ChoiceIsKept'
    BY <1>1, <1>5, <1>6 DEF SearchInv, ChoiceIsKept
  <2>2. CsTypeOK'
    BY <1>1, <1>3, <1>5 DEF SearchInv, CsTypeOK, CsWanted
  <2> QED BY <2>1, <2>2
<1>8. ListIsKnown'
  <2>1. CASE rows = csStore /\ CsSaved
    <3>1. csPost.ticker \in DOMAIN csStore /\ csStore[csPost.ticker] = "typed"
      BY <2>1 DEF SearchInv, SavedIsListed
    <3>2. csStore \in [DOMAIN csStore -> {"own", "typed"}]
      BY <1>2, ListingIs
    <3>3. csStore = CompanyIn(csStore, csPost.ticker)
      <4>1. DOMAIN csStore \cup {csPost.ticker} = DOMAIN csStore
        BY <3>1
      <4> QED BY <3>1, <3>2, <4>1 DEF CompanyIn
    <3> QED BY <1>1, <1>3, <2>1, <3>3 DEF ListIsKnown, CsSaved, CompanyIn
  <2>2. CASE rows = csStore /\ ~ CsSaved
    BY <1>1, <1>3, <2>2 DEF ListIsKnown, CsSaved
  <2>3. CASE rows # csStore
    BY <1>4, <1>5, <2>3 DEF ListIsKnown
  <2> QED BY <2>1, <2>2, <2>3
<1>9. SavedIsListed' /\ BoxCloses' /\ PickerAddsNothing'
  BY <1>1 DEF SearchInv, SavedIsListed, CsSaved, BoxCloses, PickerAddsNothing
<1> QED BY <1>7, <1>8, <1>9 DEF SearchInv

LEMMA ReadFailsStep == ASSUME SearchInv, SuggestionsFail PROVE SearchInv'
<1>1. /\ csList' = [csList EXCEPT !.asked = NoCs] /\ csList \in CsListing
      /\ csUsed' \in CsUses /\ csUsed'.acts = csUsed.acts /\ csUsed'.faults # 0
      /\ UNCHANGED <<csPlace, csStore, csText, csBox, csDraft, csPost, csTicker, csWant>>
  BY CsCounted DEF SearchInv, SuggestionsFail, CsTypeOK
<1>2. csList' \in CsListing
  BY <1>1 DEF CsListing
<1>3. CsTypeOK'
  BY <1>1, <1>2 DEF SearchInv, CsTypeOK, CsUses
<1> QED BY <1>1, <1>3 DEF SearchInv, ChoiceIsKept, ListIsKnown, SavedIsListed, CsSaved, BoxCloses, PickerAddsNothing

\* The form and its request.
LEMMA FormSteps ==
  ASSUME SearchInv,
         \/ \E name \in BOOLEAN, symbol \in CsTicker : EditDraft(name, symbol)
         \/ CancelForm \/ SubmitCompany
  PROVE  SearchInv'
<1>0. /\ CsActs /\ UNCHANGED <<csPlace, csStore, csList, csText, csBox, csTicker, csWant>> /\ csDraft # NoCs
  BY DEF EditDraft, CancelForm, SubmitCompany
<1>1. csUsed' \in CsUses /\ csUsed'.faults = csUsed.faults /\ csUsed'.acts = csUsed.acts + 1 /\ csUsed.acts \in Nat
  BY <1>0, CsCounted, SearchState
<1>2. csBox' \in CsBoxes /\ BoxCloses' /\ ChoiceIsKept' /\ csPlace # "picker"
  <2>1. csBox.timers <= csUsed'.acts
    BY <1>1, SearchState
  <2> QED BY <1>0, <2>1, SearchState DEF BoxCloses, ChoiceIsKept
<1>3. ASSUME csDraft' \in {NoCs} \cup CsDrafting, csPost' \in {NoCs} \cup CsPosting, CsSaved' <=> CsSaved,
             CsSaved => csPost'.ticker = csPost.ticker
      PROVE  SearchInv'
  BY <1>0, <1>1, <1>2, <1>3, SearchState, BoxStep
<1>4. csDraft \in CsDrafting
  BY <1>0, SearchState
<1>5. ASSUME NEW name \in BOOLEAN, NEW symbol \in CsTicker, EditDraft(name, symbol) PROVE SearchInv'
  <2>1. csDraft' \in CsDrafting
    BY <1>4, <1>5 DEF EditDraft, CsDrafting
  <2>2. csPost' = csPost
    BY <1>5 DEF EditDraft
  <2> QED BY <1>3, <2>1, <2>2, SearchState DEF CsSaved
<1>6. CASE CancelForm
  <2>1. csDraft' = NoCs /\ csPost' = csPost
    BY <1>6 DEF CancelForm
  <2> QED BY <1>3, <2>1, SearchState DEF CsSaved
<1>7. CASE SubmitCompany
  <2>1. csDraft' \in CsDrafting
    BY <1>4, <1>7 DEF SubmitCompany, CsDrafting
  <2>2. csPost' \in CsPosting /\ csPost'.phase = "sent" /\ csPost = NoCs
    BY <1>4, <1>7 DEF SubmitCompany, CsDrafting, CsPosting
  <2> QED BY <1>3, <2>1, <2>2 DEF CsSaved
<1> QED BY <1>5, <1>6, <1>7

LEMMA CompanySavedStep == ASSUME SearchInv, CompanySaved PROVE SearchInv'
<1>1. /\ csPost # NoCs /\ csPost.phase = "sent" /\ csPost \in CsPosting /\ csPost.ticker \in CsTicker
      /\ csStore' = CompanyIn(csStore, csPost.ticker) /\ csPost' = [csPost EXCEPT !.phase = "served"]
      /\ csStore \in Listings /\ csPlace # "picker"
      /\ UNCHANGED <<csPlace, csList, csText, csBox, csDraft, csTicker, csWant, csUsed>>
  BY SearchState DEF CompanySaved, SearchInv, CsTypeOK, CompanyIn, CsPosting
<1>2. csPost' \in CsPosting /\ csPost'.phase = "served" /\ csPost'.ticker = csPost.ticker
  BY <1>1 DEF CsPosting
<1>3. CsSaved' /\ ~ CsSaved
  BY <1>1, <1>2, CsNothing DEF CsSaved
<1>4. csStore' \in Listings
  BY <1>1, CompanyInIs
<1>5. CsTypeOK'
  BY <1>1, <1>2, <1>4 DEF SearchInv, CsTypeOK
<1>6. ListIsKnown'
  <2> SUFFICES ASSUME csList.data # NoCs, csList.whole, ~ csWant.late, csUsed.faults = 0
               PROVE  csStore' = CompanyIn(csList.data, csPost.ticker)
    BY <1>1, <1>2, <1>3 DEF ListIsKnown, CompanyIn
  <2>1. csStore = csList.data
    BY <1>3 DEF SearchInv, ListIsKnown
  <2> QED BY <1>1, <2>1
<1>7. SavedIsListed'
  BY <1>1, <1>2 DEF SavedIsListed, CompanyIn
<1>8. ChoiceIsKept' /\ BoxCloses' /\ PickerAddsNothing'
  BY <1>1 DEF SearchInv, ChoiceIsKept, BoxCloses, PickerAddsNothing
<1> QED BY <1>5, <1>6, <1>7, <1>8 DEF SearchInv

LEMMA CompanyAddedStep == ASSUME SearchInv, CompanyAdded PROVE SearchInv'
<1>1. /\ csPost # NoCs /\ csPost.phase = "served" /\ csPost \in CsPosting /\ csPost.ticker \in CsTicker
      /\ csPost.overtaken \in BOOLEAN
      /\ csTicker' = csPost.ticker /\ csPost' = NoCs /\ csPlace # "picker"
      /\ UNCHANGED <<csPlace, csStore, csBox, csUsed>>
  BY SearchState DEF CompanyAdded, CsPosting
<1>2. csList \in CsListing /\ csWant \in CsWanted
  BY SearchState DEF SearchInv, CsTypeOK
<1>3. PICK rows : rows = [x \in KnownCompanies \cup {csPost.ticker} |->
                                          IF x = csPost.ticker THEN "typed" ELSE csList.data[x]]
  OBVIOUS
<1>4. rows \in Listings /\ (csList.data # NoCs => rows = CompanyIn(csList.data, csPost.ticker))
  <2>1. CASE csList.data = NoCs
    <3>1. rows \in [{csPost.ticker} -> {"own", "typed"}]
      BY <1>3, <2>1 DEF KnownCompanies
    <3> QED BY <1>1, <2>1, <3>1 DEF Listings
  <2>2. CASE csList.data # NoCs
    <3>1. csList.data \in Listings
      BY <1>2, <2>2 DEF CsListing
    <3>2. rows = CompanyIn(csList.data, csPost.ticker)
      BY <1>3, <2>2 DEF CompanyIn, KnownCompanies
    <3> QED BY <1>1, <3>1, <3>2, CompanyInIs
  <2> QED BY <2>1, <2>2
<1>5. PICK whole \in BOOLEAN : whole <=> csList.whole /\ csList.data # NoCs
  OBVIOUS
<1>6. csList' = [csList EXCEPT !.data = rows, !.whole = whole]
  <2>1. whole = (csList.whole /\ csList.data # NoCs)
    BY <1>5
  <2> QED BY <1>3, <2>1, Zenon DEF CompanyAdded
<1>7. csList' \in CsListing /\ csList'.data = rows /\ csList'.whole = whole
  BY <1>2, <1>4, <1>6 DEF CsListing
<1>8. PICK ticker \in CsTicker : ticker = IF csPost.overtaken THEN csWant.ticker ELSE csPost.ticker
  BY <1>1, <1>2 DEF CsWanted
<1>9. csWant' \in CsWanted /\ csWant'.late = csWant.late /\ csWant'.ticker = ticker /\ csWant'.overtaken = csPost.overtaken
  <2>1. csWant' = [csWant EXCEPT !.overtaken = csPost.overtaken, !.ticker = ticker]
    BY <1>8, Zenon DEF CompanyAdded
  <2> QED BY <1>1, <1>2, <2>1 DEF CsWanted
<1>10. ChoiceIsKept'
  BY <1>1, <1>8, <1>9 DEF ChoiceIsKept
<1>11. csDraft' \in {NoCs} \cup CsDrafting /\ csText' \in CsText0 \cup CsTicker
  BY SearchState DEF CompanyAdded, CsText0
<1>12. CsTypeOK'
  BY <1>1, <1>7, <1>9, <1>11 DEF SearchInv, CsTypeOK, CsWanted
<1>13. ListIsKnown'
  <2>1. ~ CsSaved' /\ CsSaved
    BY <1>1 DEF CsSaved
  <2> QED BY <1>1, <1>4, <1>5, <1>7, <1>9, <2>1 DEF SearchInv, ListIsKnown
<1>14. SavedIsListed' /\ BoxCloses' /\ PickerAddsNothing'
  BY <1>1 DEF SearchInv, SavedIsListed, CsSaved, BoxCloses, PickerAddsNothing
<1> QED BY <1>10, <1>12, <1>13, <1>14 DEF SearchInv

LEMMA AddingFailsStep == ASSUME SearchInv, AddingFails PROVE SearchInv'
<1>1. /\ csPost # NoCs /\ csPost' = NoCs
      /\ csUsed' \in CsUses /\ csUsed'.acts = csUsed.acts /\ csUsed'.faults # 0 /\ csPlace # "picker"
      /\ UNCHANGED <<csPlace, csStore, csList, csText, csBox, csTicker, csWant>>
  BY CsCounted, SearchState DEF AddingFails
<1>2. csDraft' \in {NoCs} \cup CsDrafting
  <2>1. \/ csDraft' = csDraft
        \/ csDraft \in CsDrafting /\ csDraft' = [csDraft EXCEPT !.error = TRUE]
    BY SearchState DEF AddingFails
  <2> QED BY <2>1, SearchState DEF CsDrafting
<1>3. CsTypeOK'
  BY <1>1, <1>2 DEF SearchInv, CsTypeOK, CsUses
<1> QED BY <1>1, <1>3 DEF SearchInv, ChoiceIsKept, ListIsKnown, SavedIsListed, CsSaved, BoxCloses, PickerAddsNothing

LEMMA VisitStep == ASSUME SearchInv, NEW again \in BOOLEAN, VisitAgain(again) PROVE SearchInv'
<1>1. /\ csText' = NoCs /\ csBox' = BoxClosed /\ csDraft' = NoCs /\ CsActs
      /\ csUsed' \in CsUses /\ csUsed'.acts = csUsed.acts + 1 /\ csUsed'.faults = csUsed.faults /\ csUsed.acts \in Nat
      /\ UNCHANGED <<csPlace, csStore, csTicker, csWant>> /\ csList \in CsListing /\ csStore \in Listings
  BY CsCounted DEF VisitAgain, SearchInv, CsTypeOK
<1>2. csList' \in CsListing /\ csList'.data = csList.data /\ csList'.whole = csList.whole
  <2>1. PICK asked : asked = IF csList.asked = NoCs /\ (again \/ csList.data = NoCs) THEN csStore ELSE csList.asked
    OBVIOUS
  <2>2. csList' = [csList EXCEPT !.asked = asked]
    BY <2>1, Zenon DEF VisitAgain
  <2>3. asked \in Listings \cup {NoCs}
    BY <1>1, <2>1 DEF CsListing
  <2> QED BY <1>1, <2>2, <2>3 DEF CsListing
<1>3. /\ csPost' \in {NoCs} \cup CsPosting /\ (csPost = NoCs => csPost' = NoCs)
      /\ csPost # NoCs => csPost' # NoCs /\ csPost'.phase = csPost.phase /\ csPost'.ticker = csPost.ticker
  <2>1. CASE csPost = NoCs
    BY <2>1 DEF VisitAgain
  <2>2. CASE csPost # NoCs
    <3>1. csPost \in CsPosting /\ csPost' = [csPost EXCEPT !.mine = FALSE]
      BY <2>2, SearchState DEF VisitAgain
    <3>2. csPost' \in CsPosting /\ csPost'.phase = csPost.phase /\ csPost'.ticker = csPost.ticker
      BY <3>1 DEF CsPosting
    <3> QED BY <2>2, <3>2, CsNothing
  <2> QED BY <2>1, <2>2
<1>4. BoxClosed \in CsBoxes /\ BoxClosed.timers = 0 /\ ~ BoxClosed.open /\ BoxClosed.pressed = NoCs
  <2>1. 0 \in 0..CsMaxActs
    BY CsAssumption
  <2> QED BY <2>1 DEF BoxClosed, CsBoxes
<1>5. CsTypeOK'
  BY <1>1, <1>2, <1>3, <1>4 DEF SearchInv, CsTypeOK, CsUses, CsText0
<1>6. BoxCloses'
  BY <1>1, <1>4 DEF BoxCloses
<1>7. CsSaved' <=> CsSaved
  BY <1>3 DEF CsSaved
<1>8. ListIsKnown'
  BY <1>1, <1>2, <1>3, <1>7 DEF SearchInv, ListIsKnown, CsSaved
<1>9. ChoiceIsKept' /\ SavedIsListed' /\ PickerAddsNothing'
  BY <1>1, <1>3, <1>7 DEF SearchInv, ChoiceIsKept, SavedIsListed, PickerAddsNothing, CsSaved
<1> QED BY <1>5, <1>6, <1>8, <1>9 DEF SearchInv

LEMMA SearchStep == SearchInv /\ [CsNext]_csVars => SearchInv'
<1> SUFFICES ASSUME SearchInv, [CsNext]_csVars PROVE SearchInv'
  OBVIOUS
<1>1. CASE UNCHANGED csVars
  BY <1>1 DEF csVars, SearchInv, CsTypeOK, ChoiceIsKept, ListIsKnown, SavedIsListed, CsSaved, BoxCloses, PickerAddsNothing
<1>2. CASE CsNext
  BY <1>2, FieldSteps, ChoosingSteps, ReadStep, ReadFailsStep, FormSteps, CompanySavedStep, CompanyAddedStep,
     AddingFailsStep, VisitStep DEF CsNext
<1> QED BY <1>1, <1>2

\* The ticker search takes what its field says, closes its list and never renames a company but by its
\* form, and lists what the service has once all answers are in (TickerSearch.tsx), for any tickers.
THEOREM SearchAlwaysHolds == CsSpec => []SearchHolds
<1>1. CsInit => SearchInv
  <2> SUFFICES ASSUME CsInit PROVE SearchInv
    OBVIOUS
  <2>1. csTicker \in CsFirst /\ CsFirst \in SUBSET CsTicker
    BY CsAssumption DEF CsInit
  <2>2. csStore \in Listings /\ DOMAIN csStore = CsFirst /\ \A x \in CsFirst : csStore[x] = "own"
    <3>1. csStore \in [CsFirst -> {"own", "typed"}]
      BY DEF CsInit
    <3> QED BY <2>1, <3>1 DEF CsInit, Listings
  <2>3. csList \in CsListing /\ csList.data = NoCs
    BY <2>2 DEF CsInit, CsListing
  <2>4. /\ CsMaxActs \in Nat /\ CsMaxFaults \in Nat
    BY CsAssumption, Zenon
  <2>5. 0 \in 0..CsMaxActs /\ 0 \in 0..CsMaxFaults
    BY <2>4
  <2>6. csBox \in CsBoxes /\ csBox.timers = 0 /\ ~ csBox.open /\ csBox.pressed = NoCs
    BY <2>5 DEF CsInit, BoxClosed, CsBoxes
  <2>7. csUsed \in CsUses /\ csUsed.acts = 0
    BY <2>5 DEF CsInit, CsUses
  <2>8. csWant \in CsWanted /\ csWant.ticker = csTicker
    BY <2>1 DEF CsInit, CsWanted
  <2>9. CsTypeOK
    BY <2>1, <2>2, <2>3, <2>6, <2>7, <2>8 DEF CsInit, CsTypeOK, CsUses, CsWanted, CsText0
  <2>10. ChoiceIsKept /\ ListIsKnown /\ SavedIsListed
    BY <2>3, <2>8 DEF CsInit, ChoiceIsKept, ListIsKnown, SavedIsListed, CsSaved
  <2>11. BoxCloses /\ PickerAddsNothing
    BY <2>2, <2>6, <2>7 DEF CsInit, BoxCloses, PickerAddsNothing
  <2> QED BY <2>9, <2>10, <2>11 DEF SearchInv
<1>2. SearchInv => SearchHolds
  <2> SUFFICES ASSUME SearchInv PROVE SearchHolds
    OBVIOUS
  <2>1. ListIsTheServices
    BY DEF SearchInv, ListIsKnown, CsSaved, ListIsTheServices
  <2> QED BY <2>1 DEF SearchInv, SearchHolds, BoxCloses, PickerAddsNothing
<1> QED BY <1>1, <1>2, SearchStep, PTL DEF CsSpec

-----------------------------------------------------------------------------
(* The valuation page.                                                     *)

\* A verdict's time is that of its own sync, and the status of the one on the page is read for it.
VerdictsAreDated ==
  /\ \A t \in VpTicker : vpVerdict[t].sync = vpVerdict[t].at /\ vpVerdict[t].at <= vpSyncs
  /\ IsSuccess(vpVerdict, vpTicker) => vpStatus.of = vpVerdict[vpTicker].at
  /\ vpStatus.of <= vpSyncs /\ (~ vpStatus.asked => vpStatus.sync >= vpStatus.of)

\* How far the service is with a request, it is for a reason.
AnswerIsDue(t, phase) ==
  /\ phase = "missing" => t \notin VpRefused /\ (t \in vpStored => t \in vpRaced)
  /\ phase = "done" => t \in vpStored \ VpRefused
  /\ phase \in {"refused", "clash"} => t \in VpRefused \cup vpRaced

AnswersAreDue ==
  \A t \in VpTicker :
    /\ AnswerIsDue(t, vpPost[t].mine) /\ AnswerIsDue(t, vpPost[t].orphan)
    /\ vpPost[t].orphan \in {"sent", "missing"} => t \in vpRaced
    /\ vpFair[t].error = "refused" => t \in VpRefused \cup vpRaced
    /\ vpFair[t].case => t \in vpStored \ VpRefused

CasesAreStored ==
  /\ vpCases.data # NoVp => vpCases.data \subseteq vpStored /\ vpSyncs > 0
  /\ vpCases.asked # NoVp => vpCases.asked \subseteq vpStored /\ vpSyncs > 0

ValInv == VpTypeOK /\ VerdictsAreDated /\ AnswersAreDue /\ CasesAreStored

VpVerdicts == [sync : Nat, at : Nat, failed : BOOLEAN, asked : BOOLEAN]
VpFairs == [case : BOOLEAN, error : {"none", "refused", "failed"}, tries : 0..VpRetries]
VpPosts == [mine : Served \cup {NoVp}, orphan : Served \cup {NoVp}]
VpListed == [data : (SUBSET VpTicker) \cup {NoVp}, asked : (SUBSET VpTicker) \cup {NoVp}]
VpStatuses == [of : Nat, sync : Nat, asked : BOOLEAN]
VpUses == [acts : 0..VpMaxActs, faults : 0..VpMaxFaults]

LEMMA VpState ==
  ASSUME ValInv
  PROVE  /\ vpTicker \in VpTicker \cup {NoVp} /\ vpVerdict \in [VpTicker -> VpVerdicts]
         /\ vpFair \in [VpTicker -> VpFairs] /\ vpPost \in [VpTicker -> VpPosts]
         /\ vpCases \in VpListed /\ vpStatus \in VpStatuses
         /\ vpStored \subseteq VpTicker /\ vpSyncs \in Nat /\ vpRaced \subseteq VpTicker /\ vpUsed \in VpUses
  BY DEF ValInv, VpTypeOK, VpVerdicts, VpFairs, VpPosts, VpListed, VpStatuses, VpUses

LEMMA VpCounted ==
  ASSUME ValInv
  PROVE  /\ VpFault => vpUsed' \in VpUses
         /\ vpUsed.acts < VpMaxActs /\ vpUsed' = [vpUsed EXCEPT !.acts = @ + 1] => vpUsed' \in VpUses
<1>1. vpUsed \in VpUses /\ vpUsed.acts \in 0..VpMaxActs /\ vpUsed.faults \in 0..VpMaxFaults
  BY VpState DEF VpUses
<1>2. VpMaxActs \in Nat /\ VpMaxFaults \in Nat
  BY VpAssumption, Zenon
<1>3. ASSUME VpFault PROVE vpUsed' \in VpUses
  <2>1. PICK more \in 0..VpMaxFaults : more = vpUsed.faults + 1
    BY <1>1, <1>2, <1>3 DEF VpFault
  <2>2. vpUsed' = [vpUsed EXCEPT !.faults = more]
    BY <1>3, <2>1 DEF VpFault
  <2> QED BY <1>1, <2>2 DEF VpUses
<1>4. ASSUME vpUsed.acts < VpMaxActs, vpUsed' = [vpUsed EXCEPT !.acts = @ + 1] PROVE vpUsed' \in VpUses
  <2>1. PICK more \in 0..VpMaxActs : more = vpUsed.acts + 1
    BY <1>1, <1>2, <1>4
  <2>2. vpUsed' = [vpUsed EXCEPT !.acts = more]
    BY <1>4, <2>1
  <2> QED BY <1>1, <2>2 DEF VpUses
<1> QED BY <1>3, <1>4

\* The status and the list are asked for when a verdict is on the page.
LEMMA StatusForIs ==
  ASSUME ValInv, NEW verdict \in [VpTicker -> VpVerdicts], NEW t \in VpTicker \cup {NoVp},
         \A x \in VpTicker : verdict[x].at \in Nat
  PROVE  /\ StatusFor(verdict, t) \in VpStatuses
         /\ \/ StatusFor(verdict, t) = vpStatus /\ (IsSuccess(verdict, t) => vpStatus.of = verdict[t].at)
            \/ /\ StatusFor(verdict, t).asked /\ IsSuccess(verdict, t) /\ t \in VpTicker
               /\ StatusFor(verdict, t).of = verdict[t].at
<1>1. CASE ~ IsSuccess(verdict, t) \/ vpStatus.of = verdict[t].at
  BY <1>1, VpState DEF StatusFor
<1>2. CASE IsSuccess(verdict, t) /\ vpStatus.of # verdict[t].at
  <2>1. t \in VpTicker /\ verdict[t].at \in Nat
    BY <1>2 DEF IsSuccess, VpVerdicts
  <2>2. PICK at \in Nat : at = verdict[t].at
    BY <2>1
  <2>3. StatusFor(verdict, t) = [vpStatus EXCEPT !.of = at, !.asked = TRUE]
    BY <1>2, <2>2 DEF StatusFor
  <2> QED BY <1>2, <2>1, <2>2, <2>3, VpState DEF VpStatuses
<1> QED BY <1>1, <1>2

LEMMA CasesForIs ==
  ASSUME ValInv, NEW verdict, NEW t \in VpTicker \cup {NoVp}, NEW old \in BOOLEAN
  PROVE  /\ CasesFor(verdict, t, old) \in VpListed
         /\ \/ CasesFor(verdict, t, old) = vpCases
            \/ /\ IsSuccess(verdict, t) /\ t \in VpTicker
               /\ CasesFor(verdict, t, old).data = vpCases.data /\ CasesFor(verdict, t, old).asked = vpStored
<1>1. vpCases \in VpListed /\ vpStored \in SUBSET VpTicker
  BY VpState
<1>2. \/ CasesFor(verdict, t, old) = vpCases
      \/ IsSuccess(verdict, t) /\ CasesFor(verdict, t, old) = [vpCases EXCEPT !.asked = vpStored]
  BY DEF CasesFor
<1> QED BY <1>1, <1>2 DEF VpListed, IsSuccess

\* What a step that leaves the verdicts, the list and their syncs alone has to keep.
LEMMA FairOnlyStep ==
  ASSUME ValInv, vpFair' \in [VpTicker -> VpFairs], vpPost' \in [VpTicker -> VpPosts],
         vpStored \subseteq vpStored', vpStored' \subseteq VpTicker, vpRaced' \subseteq VpTicker,
         vpUsed' \in VpUses, UNCHANGED <<vpTicker, vpVerdict, vpCases, vpStatus, vpSyncs>>, AnswersAreDue'
  PROVE  ValInv'
<1>1. VpTypeOK'
  BY VpState DEF VpTypeOK, VpVerdicts, VpFairs, VpPosts, VpListed, VpStatuses, VpUses
<1>2. VerdictsAreDated' /\ CasesAreStored'
  BY DEF ValInv, VerdictsAreDated, IsSuccess, CasesAreStored
<1> QED BY <1>1, <1>2 DEF ValInv

\* A request goes on, on one side or the other.
LEMMA PhaseStep ==
  ASSUME ValInv, NEW t \in VpTicker, NEW which \in {"mine", "orphan"}, NEW phase \in Served,
         vpPost' = [vpPost EXCEPT ![t][which] = phase]
  PROVE  /\ vpPost' \in [VpTicker -> VpPosts]
         /\ vpPost'[t].mine = IF which = "mine" THEN phase ELSE vpPost[t].mine
         /\ vpPost'[t].orphan = IF which = "orphan" THEN phase ELSE vpPost[t].orphan
         /\ \A x \in VpTicker \ {t} : vpPost'[x] = vpPost[x]
<1>1. vpPost \in [VpTicker -> VpPosts]
  BY VpState
<1>2. CASE which = "mine"
  BY <1>1, <1>2 DEF VpPosts
<1>3. CASE which = "orphan"
  BY <1>1, <1>3 DEF VpPosts
<1> QED BY <1>2, <1>3

LEMMA ServiceSteps ==
  ASSUME ValInv, NEW t \in VpTicker, NEW which \in {"mine", "orphan"},
         LooksForCase(t, which) \/ StoresCase(t, which)
  PROVE  ValInv'
<1>1. CASE LooksForCase(t, which)
  <2>1. PICK phase : phase = IF t \in VpRefused THEN "refused" ELSE IF t \in vpStored THEN "done" ELSE "missing"
    OBVIOUS
  <2>2. phase \in Served /\ AnswerIsDue(t, phase) /\ (phase = "missing" => vpPost[t][which] = "sent")
    BY <1>1, <2>1 DEF Served, AnswerIsDue, LooksForCase
  <2>3. /\ vpPost' = [vpPost EXCEPT ![t][which] = phase] /\ vpPost[t][which] = "sent"
        /\ UNCHANGED <<vpTicker, vpVerdict, vpFair, vpCases, vpStatus, vpStored, vpSyncs, vpRaced, vpUsed>>
    BY <1>1, <2>1 DEF LooksForCase
  <2>4. /\ vpPost' \in [VpTicker -> VpPosts]
        /\ vpPost'[t].mine = IF which = "mine" THEN phase ELSE vpPost[t].mine
        /\ vpPost'[t].orphan = IF which = "orphan" THEN phase ELSE vpPost[t].orphan
        /\ \A x \in VpTicker \ {t} : vpPost'[x] = vpPost[x]
    BY <2>2, <2>3, PhaseStep
  <2>5. AnswersAreDue'
    <3>1. \A x \in VpTicker : \A p : AnswerIsDue(x, p)' <=> AnswerIsDue(x, p)
      BY <2>3 DEF AnswerIsDue
    <3>2. which = "orphan" => vpPost[t].orphan = "sent"
      BY <2>3
    <3> QED BY <2>2, <2>3, <2>4, <3>1, <3>2 DEF ValInv, AnswersAreDue, AnswerIsDue
  <2> QED BY <2>3, <2>4, <2>5, VpState, FairOnlyStep
<1>2. CASE StoresCase(t, which)
  <2>1. PICK phase : phase = IF t \in vpStored THEN "clash" ELSE "done"
    OBVIOUS
  <2>2. phase \in Served
    BY <2>1 DEF Served
  <2>3. /\ vpPost' = [vpPost EXCEPT ![t][which] = phase] /\ vpPost[t][which] = "missing"
        /\ vpStored' = vpStored \cup {t}
        /\ UNCHANGED <<vpTicker, vpVerdict, vpFair, vpCases, vpStatus, vpSyncs, vpRaced, vpUsed>>
    BY <1>2, <2>1 DEF StoresCase
  <2>4. /\ vpPost' \in [VpTicker -> VpPosts]
        /\ vpPost'[t].mine = IF which = "mine" THEN phase ELSE vpPost[t].mine
        /\ vpPost'[t].orphan = IF which = "orphan" THEN phase ELSE vpPost[t].orphan
        /\ \A x \in VpTicker \ {t} : vpPost'[x] = vpPost[x]
    BY <2>2, <2>3, PhaseStep
  <2>5. /\ which = "mine" => vpPost[t].mine = "missing"
        /\ which = "orphan" => vpPost[t].orphan = "missing"
    BY <2>3
  <2>6. t \notin VpRefused /\ (t \in vpStored => t \in vpRaced)
    BY <2>5 DEF ValInv, AnswersAreDue, AnswerIsDue
  <2>7. AnswersAreDue'
    <3>1. ASSUME NEW x \in VpTicker \ {t}, NEW p
          PROVE  AnswerIsDue(x, p)' <=> AnswerIsDue(x, p)
      BY <2>3 DEF AnswerIsDue
    <3>2. \A x \in VpTicker \ {t} : (x \in vpStored' <=> x \in vpStored)
      BY <2>3
    <3>3. PICK mine, orphan : mine = vpPost[t].mine /\ orphan = vpPost[t].orphan
      OBVIOUS
    <3>4. AnswerIsDue(t, mine) /\ AnswerIsDue(t, orphan) /\ (orphan \in {"sent", "missing"} => t \in vpRaced)
      BY <3>3 DEF ValInv, AnswersAreDue
    <3>5. AnswerIsDue(t, phase)' /\ phase \notin {"sent", "missing"}
      BY <2>1, <2>3, <2>6 DEF AnswerIsDue
    <3>6. AnswerIsDue(t, vpPost[t].mine)' /\ AnswerIsDue(t, vpPost[t].orphan)'
      <4>1. CASE which = "mine"
        <5>1. AnswerIsDue(t, orphan)'
          BY <2>3, <3>4 DEF AnswerIsDue
        <5> QED BY <2>4, <3>3, <3>5, <4>1, <5>1
      <4>2. CASE which = "orphan"
        <5>1. t \in vpRaced
          BY <2>5, <4>2 DEF ValInv, AnswersAreDue
        <5>2. AnswerIsDue(t, mine)'
          BY <2>3, <3>4, <5>1 DEF AnswerIsDue
        <5> QED BY <2>4, <3>3, <3>5, <4>2, <5>2
      <4> QED BY <4>1, <4>2
    <3>7. vpPost'[t].orphan \in {"sent", "missing"} => t \in vpRaced
      BY <2>1, <2>4 DEF ValInv, AnswersAreDue
    <3>8. vpFair[t].case => t \in vpStored' \ VpRefused
      BY <2>3, <2>6
    <3> QED BY <2>3, <2>4, <3>1, <3>2, <3>6, <3>7, <3>8 DEF ValInv, AnswersAreDue, AnswerIsDue
  <2> QED BY <2>3, <2>4, <2>7, VpState, FairOnlyStep
<1> QED BY <1>1, <1>2

LEMMA FairAnsweredStep == ASSUME ValInv, NEW t \in VpTicker, FairAnswered(t) PROVE ValInv'
<1>1. /\ vpPost[t].mine \in {"done", "refused", "clash"} /\ vpPost' = [vpPost EXCEPT ![t].mine = NoVp]
      /\ UNCHANGED <<vpTicker, vpVerdict, vpCases, vpStatus, vpStored, vpSyncs, vpRaced, vpUsed>>
  BY DEF FairAnswered
<1>2. PICK fair : fair = IF vpPost[t].mine = "done" THEN [case |-> TRUE, error |-> "none", tries |-> 0]
                         ELSE [vpFair[t] EXCEPT !.error = "refused", !.tries = 0]
  OBVIOUS
<1>3. vpFair' = [vpFair EXCEPT ![t] = fair]
  BY <1>2, VpState DEF FairAnswered
<1>4. 0 \in 0..VpRetries
  BY VpAssumption
<1>5. /\ fair \in VpFairs
      /\ \/ vpPost[t].mine = "done" /\ fair.error = "none"
         \/ vpPost[t].mine \in {"refused", "clash"} /\ fair.case = vpFair[t].case
  <2>1. CASE vpPost[t].mine = "done"
    BY <1>2, <1>4, <2>1 DEF VpFairs
  <2>2. CASE vpPost[t].mine # "done"
    BY <1>1, <1>2, <1>4, <2>2, VpState DEF VpFairs
  <2> QED BY <2>1, <2>2
<1>6. vpFair' \in [VpTicker -> VpFairs] /\ vpFair'[t] = fair /\ \A x \in VpTicker \ {t} : vpFair'[x] = vpFair[x]
  BY <1>3, <1>5, VpState
<1>7. /\ vpPost' \in [VpTicker -> VpPosts] /\ vpPost'[t].mine = NoVp /\ vpPost'[t].orphan = vpPost[t].orphan
      /\ \A x \in VpTicker \ {t} : vpPost'[x] = vpPost[x]
  BY <1>1, VpState DEF VpPosts
<1>8. AnswersAreDue'
  <2>1. \A x \in VpTicker : \A p : AnswerIsDue(x, p)' <=> AnswerIsDue(x, p)
    BY <1>1 DEF AnswerIsDue
  <2>2. AnswerIsDue(t, vpPost[t].mine) /\ (vpFair[t].case => t \in vpStored \ VpRefused)
    BY DEF ValInv, AnswersAreDue
  <2>3. /\ fair.error = "refused" => t \in VpRefused \cup vpRaced
        /\ fair.case => t \in vpStored \ VpRefused
    BY <1>5, <2>2 DEF AnswerIsDue
  <2>4. AnswerIsDue(t, NoVp)
    BY VpNothing DEF AnswerIsDue, Served
  <2> QED BY <1>1, <1>6, <1>7, <2>1, <2>3, <2>4 DEF ValInv, AnswersAreDue
<1> QED BY <1>1, <1>6, <1>7, <1>8, VpState, FairOnlyStep

LEMMA FairLostStep == ASSUME ValInv, NEW t \in VpTicker, FairLost(t) PROVE ValInv'
<1>1. PICK again \in BOOLEAN : again <=> vpFair[t].tries < VpRetries
  OBVIOUS
<1>2. /\ vpPost[t].mine # NoVp /\ vpPost[t].mine \in Served
      /\ vpRaced' = IF vpPost[t].mine \in {"sent", "missing"} THEN vpRaced \cup {t} ELSE vpRaced
      /\ VpFault /\ UNCHANGED <<vpTicker, vpVerdict, vpCases, vpStatus, vpStored, vpSyncs>>
  BY VpState DEF FairLost, VpPosts
<1>3. PICK post : post = [mine |-> IF again THEN "sent" ELSE NoVp, orphan |-> vpPost[t].mine]
  OBVIOUS
<1>4. vpPost' = [vpPost EXCEPT ![t] = post]
  <2>1. CASE again
    BY <1>1, <1>3, <2>1, VpState DEF FairLost
  <2>2. CASE ~ again
    BY <1>1, <1>3, <2>2, VpState DEF FairLost
  <2> QED BY <2>1, <2>2
<1>5. /\ vpPost' \in [VpTicker -> VpPosts] /\ vpPost'[t].mine \in {"sent", NoVp} /\ vpPost'[t].orphan = vpPost[t].mine
      /\ \A x \in VpTicker \ {t} : vpPost'[x] = vpPost[x]
  BY <1>2, <1>3, <1>4, VpState DEF VpPosts, Served
<1>6. /\ vpFair' \in [VpTicker -> VpFairs] /\ vpFair'[t].case = vpFair[t].case
      /\ vpFair'[t].error \in {vpFair[t].error, "failed"}
      /\ \A x \in VpTicker \ {t} : vpFair'[x] = vpFair[x]
  <2>1. CASE again
    <3>1. PICK more \in 0..VpRetries : more = vpFair[t].tries + 1
      <4>1. vpFair[t].tries \in 0..VpRetries /\ vpFair[t].tries < VpRetries
        BY <1>1, <2>1, VpState DEF VpFairs
      <4>2. VpRetries \in Nat
        BY VpAssumption
      <4> QED BY <4>1, <4>2
    <3>2. PICK fair : fair = [vpFair[t] EXCEPT !.tries = more]
      OBVIOUS
    <3>3. vpFair' = [vpFair EXCEPT ![t] = fair]
      <4>1. vpFair' = [vpFair EXCEPT ![t].tries = more]
        BY <1>1, <2>1, <3>1 DEF FairLost
      <4> QED BY <3>2, <4>1, VpState
    <3>4. fair \in VpFairs /\ fair.case = vpFair[t].case /\ fair.error = vpFair[t].error
      BY <3>2, VpState DEF VpFairs
    <3> QED BY <3>3, <3>4, VpState
  <2>2. CASE ~ again
    <3>1. 0 \in 0..VpRetries
      BY VpAssumption
    <3>2. PICK fair : fair = [vpFair[t] EXCEPT !.error = "failed", !.tries = 0]
      OBVIOUS
    <3>3. vpFair' = [vpFair EXCEPT ![t] = fair]
      BY <1>1, <2>2, <3>2, VpState DEF FairLost
    <3>4. fair \in VpFairs /\ fair.case = vpFair[t].case /\ fair.error = "failed"
      BY <3>1, <3>2, VpState DEF VpFairs
    <3> QED BY <3>3, <3>4, VpState
  <2> QED BY <2>1, <2>2
<1>7. AnswersAreDue'
  <2>1. ASSUME NEW x \in VpTicker, NEW p, AnswerIsDue(x, p) PROVE AnswerIsDue(x, p)'
    BY <1>2, <2>1 DEF AnswerIsDue
  <2>2. AnswerIsDue(t, vpPost[t].mine)' /\ AnswerIsDue(t, vpPost[t].orphan)'
    <3>1. PICK mine : mine = vpPost[t].mine
      OBVIOUS
    <3>2. AnswerIsDue(t, mine)
      BY <3>1 DEF ValInv, AnswersAreDue
    <3>3. AnswerIsDue(t, mine)'
      BY <2>1, <3>2
    <3>4. AnswerIsDue(t, vpPost[t].orphan)'
      BY <1>5, <3>1, <3>3
    <3>5. AnswerIsDue(t, vpPost[t].mine)'
      BY <1>5, VpNothing DEF AnswerIsDue, Served
    <3> QED BY <3>4, <3>5
  <2> QED BY <1>2, <1>5, <1>6, <2>1, <2>2 DEF ValInv, AnswersAreDue
<1>8. vpUsed' \in VpUses /\ vpRaced' \subseteq VpTicker
  BY <1>2, VpCounted, VpState
<1> QED BY <1>2, <1>5, <1>6, <1>7, <1>8, VpState, FairOnlyStep

\* What a step of the verdicts has to keep.
LEMMA VerdictOnlyStep ==
  ASSUME ValInv, vpTicker' \in VpTicker \cup {NoVp}, vpVerdict' \in [VpTicker -> VpVerdicts],
         vpCases' \in VpListed, vpStatus' \in VpStatuses, vpSyncs' \in Nat, vpUsed' \in VpUses,
         vpFair' \in [VpTicker -> VpFairs], vpPost' \in [VpTicker -> VpPosts],
         \A t \in VpTicker : vpFair'[t].case = vpFair[t].case /\ vpFair'[t].error \in {vpFair[t].error, "none"},
         \A t \in VpTicker : /\ vpPost'[t].mine \in {vpPost[t].mine, "sent"}
                             /\ vpPost'[t].orphan = vpPost[t].orphan,
         UNCHANGED <<vpStored, vpRaced>>, VerdictsAreDated', CasesAreStored'
  PROVE  ValInv'
<1>1. VpTypeOK'
  BY VpState DEF VpTypeOK, VpVerdicts, VpFairs, VpPosts, VpListed, VpStatuses, VpUses
<1>2. AnswersAreDue'
  <2>1. ASSUME NEW t \in VpTicker, NEW p, AnswerIsDue(t, p) PROVE AnswerIsDue(t, p)'
    BY <2>1 DEF AnswerIsDue
  <2>2. ASSUME NEW t \in VpTicker PROVE AnswerIsDue(t, vpPost[t].mine)'
    <3>1. PICK mine : mine = vpPost[t].mine
      OBVIOUS
    <3>2. AnswerIsDue(t, mine)' /\ AnswerIsDue(t, "sent")'
      BY <2>1, <3>1 DEF ValInv, AnswersAreDue, AnswerIsDue
    <3> QED BY <3>1, <3>2
  <2>3. ASSUME NEW t \in VpTicker PROVE AnswerIsDue(t, vpPost[t].orphan)'
    <3>1. PICK orphan : orphan = vpPost[t].orphan
      OBVIOUS
    <3>2. AnswerIsDue(t, orphan)'
      BY <2>1, <3>1 DEF ValInv, AnswersAreDue
    <3> QED BY <3>1, <3>2
  <2> QED BY <2>2, <2>3 DEF ValInv, AnswersAreDue
<1> QED BY <1>1, <1>2 DEF ValInv

LEMMA ShowTickerStep ==
  ASSUME ValInv, NEW t \in VpTicker, NEW old \in BOOLEAN, ShowTicker(t, old) PROVE ValInv'
<1>1. /\ vpTicker' = t /\ vpStatus' = StatusFor(vpVerdict', t) /\ vpCases' = CasesFor(vpVerdict', t, old)
      /\ AskFair(t, old) /\ vpUsed.acts < VpMaxActs /\ vpUsed' = [vpUsed EXCEPT !.acts = @ + 1]
      /\ UNCHANGED <<vpStored, vpSyncs, vpRaced>>
  BY DEF ShowTicker
<1>2. /\ vpVerdict' \in [VpTicker -> VpVerdicts]
      /\ \A x \in VpTicker : vpVerdict'[x].sync = vpVerdict[x].sync /\ vpVerdict'[x].at = vpVerdict[x].at
  <2>1. PICK failed \in BOOLEAN : failed <=> vpVerdict[t].failed /\ vpVerdict[t].at > 0
    OBVIOUS
  <2>2. PICK verdict : verdict = [vpVerdict[t] EXCEPT !.asked = TRUE, !.failed = failed]
    OBVIOUS
  <2>3. vpVerdict' = vpVerdict \/ vpVerdict' = [vpVerdict EXCEPT ![t] = verdict]
    <3>1. failed = (vpVerdict[t].failed /\ vpVerdict[t].at > 0)
      BY <2>1
    <3>2. vpVerdict' = vpVerdict
          \/ vpVerdict' = [vpVerdict EXCEPT ![t].asked = TRUE, ![t].failed = failed]
      BY <3>1, Zenon DEF ShowTicker
    <3> QED BY <2>2, <3>2, VpState
  <2>4. verdict \in VpVerdicts /\ verdict.sync = vpVerdict[t].sync /\ verdict.at = vpVerdict[t].at
    BY <2>2, VpState DEF VpVerdicts
  <2> QED BY <2>3, <2>4, VpState
<1>3. \A x \in VpTicker : vpVerdict'[x].sync = vpVerdict'[x].at /\ vpVerdict'[x].at <= vpSyncs'
  BY <1>1, <1>2 DEF ValInv, VerdictsAreDated
<1>4. PICK verdict : verdict = vpVerdict'
  OBVIOUS
<1>5. /\ vpStatus' \in VpStatuses
      /\ \/ vpStatus' = vpStatus /\ (IsSuccess(verdict, t) => vpStatus.of = verdict[t].at)
         \/ vpStatus'.asked /\ IsSuccess(verdict, t) /\ vpStatus'.of = verdict[t].at
  <2>1. verdict \in [VpTicker -> VpVerdicts] /\ vpStatus' = StatusFor(verdict, t)
    BY <1>1, <1>2, <1>4
  <2>2. \A x \in VpTicker : verdict[x].at \in Nat
    BY <2>1 DEF VpVerdicts
  <2> QED BY <2>1, <2>2, StatusForIs
<1>6. /\ vpCases' \in VpListed
      /\ \/ vpCases' = vpCases
         \/ /\ IsSuccess(verdict, t)
            /\ vpCases'.data = vpCases.data /\ vpCases'.asked = vpStored
  <2>1. verdict \in [VpTicker -> VpVerdicts] /\ vpCases' = CasesFor(verdict, t, old)
    BY <1>1, <1>2, <1>4
  <2> QED BY <2>1, CasesForIs
<1>7. VerdictsAreDated'
  <2>1. vpStatus'.of <= vpSyncs' /\ (~ vpStatus'.asked => vpStatus'.sync >= vpStatus'.of)
    BY <1>1, <1>3, <1>4, <1>5 DEF ValInv, VerdictsAreDated
  <2>2. IsSuccess(vpVerdict, vpTicker)' => vpStatus'.of = vpVerdict'[t].at
    BY <1>1, <1>4, <1>5 DEF IsSuccess
  <2> QED BY <1>1, <1>3, <2>1, <2>2 DEF VerdictsAreDated
<1>8. CasesAreStored'
  <2>1. IsSuccess(verdict, t) => vpSyncs > 0
    BY <1>1, <1>2, <1>3, <1>4, VpState DEF IsSuccess, VpVerdicts
  <2> QED BY <1>1, <1>6, <2>1 DEF ValInv, CasesAreStored
<1>9. /\ vpFair' \in [VpTicker -> VpFairs] /\ vpPost' \in [VpTicker -> VpPosts]
      /\ \A x \in VpTicker : vpFair'[x].case = vpFair[x].case /\ vpFair'[x].error \in {vpFair[x].error, "none"}
      /\ \A x \in VpTicker : /\ vpPost'[x].mine \in {vpPost[x].mine, "sent"}
                             /\ vpPost'[x].orphan = vpPost[x].orphan
  <2>1. CASE UNCHANGED <<vpPost, vpFair>>
    BY <2>1, VpState
  <2>2. CASE /\ vpPost' = [vpPost EXCEPT ![t].mine = "sent"]
             /\ vpFair' = [vpFair EXCEPT ![t].tries = 0, ![t].error = IF vpFair[t].case THEN @ ELSE "none"]
    <3>1. PICK error \in {"none", "refused", "failed"} :
            error \in {vpFair[t].error, "none"} /\ error = IF vpFair[t].case THEN vpFair[t].error ELSE "none"
      BY VpState DEF VpFairs
    <3>2. PICK fair : fair = [vpFair[t] EXCEPT !.tries = 0, !.error = error]
      OBVIOUS
    <3>3. vpFair' = [vpFair EXCEPT ![t] = fair]
      <4>1. vpFair' = [vpFair EXCEPT ![t].tries = 0, ![t].error = error]
        BY <2>2, <3>1, Zenon
      <4> QED BY <3>2, <4>1, VpState
    <3>4. fair \in VpFairs /\ fair.case = vpFair[t].case /\ fair.error = error
      <4>1. 0 \in 0..VpRetries
        BY VpAssumption
      <4> QED BY <3>2, <4>1, VpState DEF VpFairs
    <3>5. /\ vpPost' \in [VpTicker -> VpPosts] /\ vpPost'[t].mine = "sent" /\ vpPost'[t].orphan = vpPost[t].orphan
          /\ \A x \in VpTicker \ {t} : vpPost'[x] = vpPost[x]
      BY <2>2, VpState DEF VpPosts, Served
    <3> QED BY <3>1, <3>3, <3>4, <3>5, VpState
  <2> QED BY <1>1, <2>1, <2>2 DEF AskFair
<1>10. vpUsed' \in VpUses
  BY <1>1, VpCounted
<1> QED BY <1>1, <1>2, <1>5, <1>6, <1>7, <1>8, <1>9, <1>10, VpState, VerdictOnlyStep

LEMMA VerdictReadStep ==
  ASSUME ValInv, NEW t \in VpTicker, NEW old \in BOOLEAN, VerdictRead(t, old) PROVE ValInv'
<1>1. /\ vpSyncs' = vpSyncs + 1 /\ vpStatus' = StatusFor(vpVerdict', vpTicker)
      /\ vpCases' \in {vpCases, CasesFor(vpVerdict', vpTicker, old)}
      /\ vpVerdict' = [vpVerdict EXCEPT ![t] = [sync |-> vpSyncs + 1, at |-> vpSyncs + 1, failed |-> FALSE, asked |-> FALSE]]
      /\ UNCHANGED <<vpTicker, vpFair, vpPost, vpStored, vpRaced, vpUsed>>
  BY DEF VerdictRead
<1>2. PICK now \in Nat : now = vpSyncs + 1 /\ vpSyncs <= now /\ now > 0
  BY VpState
<1>3. /\ vpVerdict' \in [VpTicker -> VpVerdicts] /\ vpVerdict'[t].sync = now /\ vpVerdict'[t].at = now
      /\ \A x \in VpTicker \ {t} : vpVerdict'[x] = vpVerdict[x]
  <2>1. PICK verdict : verdict = [sync |-> now, at |-> now, failed |-> FALSE, asked |-> FALSE]
    OBVIOUS
  <2>2. verdict \in VpVerdicts /\ verdict.sync = now /\ verdict.at = now
    BY <2>1 DEF VpVerdicts
  <2>3. vpVerdict' = [vpVerdict EXCEPT ![t] = verdict]
    BY <1>1, <1>2, <2>1
  <2> QED BY <2>2, <2>3, VpState
<1>4. \A x \in VpTicker : vpVerdict'[x].sync = vpVerdict'[x].at /\ vpVerdict'[x].at <= vpSyncs'
  <2>1. \A x \in VpTicker : vpVerdict[x].at \in Nat /\ vpVerdict[x].sync = vpVerdict[x].at /\ vpVerdict[x].at <= vpSyncs
    BY VpState DEF ValInv, VerdictsAreDated, VpVerdicts
  <2>2. vpSyncs \in Nat
    BY VpState
  <2> QED BY <1>1, <1>2, <1>3, <2>1, <2>2
<1>5. PICK verdict : verdict = vpVerdict'
  OBVIOUS
<1>6. /\ vpStatus' \in VpStatuses
      /\ \/ vpStatus' = vpStatus /\ (IsSuccess(verdict, vpTicker) => vpStatus.of = verdict[vpTicker].at)
         \/ vpStatus'.asked /\ IsSuccess(verdict, vpTicker) /\ vpTicker \in VpTicker /\ vpStatus'.of = verdict[vpTicker].at
  <2>1. /\ verdict \in [VpTicker -> VpVerdicts] /\ vpTicker \in VpTicker \cup {NoVp}
        /\ vpStatus' = StatusFor(verdict, vpTicker)
    BY <1>1, <1>3, <1>5, VpState
  <2>2. \A x \in VpTicker : verdict[x].at \in Nat
    BY <2>1 DEF VpVerdicts
  <2> QED BY <2>1, <2>2, StatusForIs
<1>7. /\ vpCases' \in VpListed
      /\ vpCases' = vpCases \/ (vpCases'.data = vpCases.data /\ vpCases'.asked = vpStored)
  <2>1. vpTicker \in VpTicker \cup {NoVp} /\ vpCases' \in {vpCases, CasesFor(verdict, vpTicker, old)}
    BY <1>1, <1>5, VpState
  <2>2. vpCases \in VpListed
    BY VpState
  <2> QED BY <2>1, <2>2, CasesForIs
<1>8. VerdictsAreDated'
  <2>1. vpStatus'.of <= vpSyncs' /\ (~ vpStatus'.asked => vpStatus'.sync >= vpStatus'.of)
    <3>1. vpStatus.of <= vpSyncs' /\ (~ vpStatus.asked => vpStatus.sync >= vpStatus.of)
      <4>1. vpStatus.of <= vpSyncs /\ vpStatus.of \in Nat /\ vpSyncs \in Nat
        BY VpState DEF ValInv, VerdictsAreDated, VpStatuses
      <4>2. ~ vpStatus.asked => vpStatus.sync >= vpStatus.of
        BY DEF ValInv, VerdictsAreDated
      <4>3. vpStatus.of <= vpSyncs'
        BY <1>1, <4>1
      <4> QED BY <4>2, <4>3
    <3> QED BY <1>4, <1>5, <1>6, <3>1
  <2>2. IsSuccess(vpVerdict, vpTicker)' => vpStatus'.of = vpVerdict'[vpTicker].at
    BY <1>1, <1>5, <1>6 DEF IsSuccess
  <2> QED BY <1>1, <1>4, <2>1, <2>2 DEF VerdictsAreDated
<1>9. CasesAreStored'
  BY <1>1, <1>2, <1>7 DEF ValInv, CasesAreStored
<1> QED BY <1>1, <1>2, <1>3, <1>6, <1>7, <1>8, <1>9, VpState, VerdictOnlyStep

LEMMA OtherValSteps ==
  ASSUME ValInv,
         \/ \E t \in VpTicker : VerdictFails(t)
         \/ StatusRead \/ \E rows \in {vpCases.asked, vpStored} : CasesListed(rows)
  PROVE  ValInv'
<1>1. ASSUME NEW t \in VpTicker, VerdictFails(t) PROVE ValInv'
  <2>1. PICK verdict : verdict = [vpVerdict[t] EXCEPT !.asked = FALSE, !.failed = TRUE]
    OBVIOUS
  <2>2. verdict \in VpVerdicts /\ verdict.sync = vpVerdict[t].sync /\ verdict.at = vpVerdict[t].at /\ verdict.failed = TRUE
    BY <2>1, VpState DEF VpVerdicts
  <2>3. vpVerdict' = [vpVerdict EXCEPT ![t] = verdict]
    BY <1>1, <2>1, VpState DEF VerdictFails
  <2>4. /\ vpVerdict' \in [VpTicker -> VpVerdicts] /\ vpVerdict'[t] = verdict
        /\ \A x \in VpTicker \ {t} : vpVerdict'[x] = vpVerdict[x]
    BY <2>2, <2>3, VpState
  <2>5. vpUsed' \in VpUses /\ UNCHANGED <<vpTicker, vpFair, vpPost, vpCases, vpStatus, vpStored, vpSyncs, vpRaced>>
    BY <1>1, VpCounted DEF VerdictFails
  <2>6. VerdictsAreDated' /\ CasesAreStored'
    <3>1. VerdictsAreDated'
      BY <2>2, <2>4, <2>5, VpState, VpAssumption DEF ValInv, VerdictsAreDated, IsSuccess
    <3> QED BY <2>5, <3>1 DEF ValInv, CasesAreStored
  <2> QED BY <2>4, <2>5, <2>6, VpState, VerdictOnlyStep
<1>2. CASE StatusRead
  <2>1. /\ vpStatus' = [vpStatus EXCEPT !.asked = FALSE, !.sync = vpSyncs]
        /\ UNCHANGED <<vpTicker, vpVerdict, vpFair, vpPost, vpCases, vpStored, vpSyncs, vpRaced, vpUsed>>
    BY <1>2 DEF StatusRead
  <2>2. vpStatus' \in VpStatuses /\ vpStatus'.of = vpStatus.of /\ vpStatus'.sync = vpSyncs
    BY <2>1, VpState DEF VpStatuses
  <2>3. VerdictsAreDated' /\ CasesAreStored'
    <3>1. vpStatus.of \in Nat /\ vpSyncs \in Nat
      BY VpState DEF VpStatuses
    <3> QED BY <2>1, <2>2, <3>1 DEF ValInv, VerdictsAreDated, IsSuccess, CasesAreStored
  <2> QED BY <2>1, <2>2, <2>3, VpState, VerdictOnlyStep
<1>3. ASSUME NEW rows \in {vpCases.asked, vpStored}, CasesListed(rows) PROVE ValInv'
  <2>1. /\ vpCases' = [data |-> rows, asked |-> NoVp] /\ vpCases.asked # NoVp
        /\ UNCHANGED <<vpTicker, vpVerdict, vpFair, vpPost, vpStatus, vpStored, vpSyncs, vpRaced, vpUsed>>
    BY <1>3 DEF CasesListed
  <2>2. rows \subseteq vpStored /\ vpSyncs > 0 /\ rows \in SUBSET VpTicker
    BY <2>1, VpState DEF ValInv, CasesAreStored
  <2>3. vpCases' \in VpListed /\ vpCases'.data = rows /\ vpCases'.asked = NoVp
    BY <2>1, <2>2 DEF VpListed
  <2>4. VerdictsAreDated' /\ CasesAreStored'
    BY <2>1, <2>2, <2>3 DEF ValInv, VerdictsAreDated, IsSuccess, CasesAreStored
  <2> QED BY <2>1, <2>3, <2>4, VpState, VerdictOnlyStep
<1> QED BY <1>1, <1>2, <1>3

LEMMA ValStep == ValInv /\ [VpNext]_vpVars => ValInv'
<1> SUFFICES ASSUME ValInv, [VpNext]_vpVars PROVE ValInv'
  OBVIOUS
<1>1. CASE UNCHANGED vpVars
  BY <1>1, VpState, VerdictOnlyStep DEF vpVars, ValInv, VerdictsAreDated, IsSuccess, CasesAreStored
<1>2. CASE VpNext
  BY <1>2, ServiceSteps, FairAnsweredStep, FairLostStep, ShowTickerStep, VerdictReadStep, OtherValSteps DEF VpNext
<1> QED BY <1>1, <1>2

\* The verdict, fair value and link of the valuation page are of its ticker and of stored cases, and its
\* status is read after the verdict (valuation/page.tsx), for any tickers and any number of syncs.
THEOREM ValuationAlwaysHolds == VpSpec => []ValuationHolds
<1>1. VpInit => ValInv
  <2> SUFFICES ASSUME VpInit PROVE ValInv
    OBVIOUS
  <2>1. VpMaxActs \in Nat /\ VpMaxFaults \in Nat /\ VpRetries \in Nat
    BY VpAssumption, Zenon
  <2>2. 0 \in 0..VpMaxActs /\ 0 \in 0..VpMaxFaults /\ 0 \in 0..VpRetries
    BY <2>1
  <2>3. VpTypeOK
    BY <2>2 DEF VpInit, VpTypeOK
  <2>4. VerdictsAreDated /\ CasesAreStored
    BY DEF VpInit, VerdictsAreDated, IsSuccess, CasesAreStored
  <2>5. AnswersAreDue
    BY VpNothing DEF VpInit, AnswersAreDue, AnswerIsDue, Served
  <2> QED BY <2>3, <2>4, <2>5 DEF ValInv
<1>2. ValInv => ValuationHolds
  <2> SUFFICES ASSUME ValInv PROVE ValuationHolds
    OBVIOUS
  <2>1. StatusIsLater
    <3> SUFFICES ASSUME VerdictView = "panel", ~ vpStatus.asked
                 PROVE  vpStatus.sync >= vpVerdict[vpTicker].sync
      BY DEF StatusIsLater
    <3>1. vpTicker \in VpTicker /\ IsSuccess(vpVerdict, vpTicker)
      BY VpState DEF VerdictView, IsSuccess
    <3> QED BY <3>1 DEF ValInv, VerdictsAreDated
  <2>2. RefusedByModel
    <3> SUFFICES ASSUME NEW t \in VpTicker
                 PROVE  /\ FairView(t) = "refused" => t \in VpRefused \cup vpRaced
                        /\ FairView(t) = "valued" => t \in vpStored \ VpRefused
      BY DEF RefusedByModel
    <3>1. vpFair[t].error \in {"none", "refused", "failed"}
      BY VpState DEF VpFairs
    <3>2. /\ FairView(t) = "refused" => vpFair[t].error = "refused"
          /\ FairView(t) = "valued" => vpFair[t].case
      BY <3>1 DEF FairView
    <3> QED BY <3>2 DEF ValInv, AnswersAreDue
  <2>3. HasCases => vpTicker \in vpStored
    BY DEF HasCases, ValInv, CasesAreStored
  <2>4. ASSUME vpCases # [data |-> NoVp, asked |-> NoVp] \/ vpStatus.of > 0
        PROVE  vpSyncs > 0
    <3>1. CASE vpStatus.of > 0
      <4>1. vpStatus.of \in Nat /\ vpSyncs \in Nat /\ vpStatus.of <= vpSyncs
        BY VpState DEF VpStatuses, ValInv, VerdictsAreDated
      <4> QED BY <3>1, <4>1
    <3>2. CASE vpCases # [data |-> NoVp, asked |-> NoVp]
      <4>1. vpCases.data # NoVp \/ vpCases.asked # NoVp
        BY <3>2, VpState DEF VpListed
      <4> QED BY <4>1 DEF ValInv, CasesAreStored
    <3> QED BY <2>4, <3>1, <3>2
  <2> QED BY <2>1, <2>2, <2>3, <2>4 DEF ValuationHolds
<1> QED BY <1>1, <1>2, ValStep, PTL DEF VpSpec

-----------------------------------------------------------------------------
(* The page of one valuation case.                                         *)

CxQueries == [CxSection -> [data : BOOLEAN, asked : BOOLEAN, said : {"", "refused", "failed"}]]
CxAnswers == [data : BOOLEAN, asked : BOOLEAN, said : {"", "refused", "failed"}]
CxSaids == [submitted : BOOLEAN, refusal : BOOLEAN, failed : BOOLEAN]

\* A request in hand, and the one a result is of, are distributions and a seed.
RequestsAre ==
  /\ cxAsked = NoCx \/ cxAsked = [dist |-> cxAsked.dist, seed |-> cxAsked.seed]
  /\ cxLast = NoCx \/ cxLast = [dist |-> cxLast.dist, seed |-> cxLast.seed]

\* Whatever the rows of the form are: what a result says of its request does not stand on them.
CaseInv ==
  /\ cxQuery \in CxQueries /\ cxSaid \in CxSaids
  /\ RequestsAre /\ RerunReproduces /\ OneVerdict /\ SectionsSpeak

LEMMA ResultOnlyStep ==
  ASSUME CaseInv, UNCHANGED <<cxQuery, cxResult, cxLast>>, cxSaid' \in CxSaids,
         cxAsked' = NoCx \/ cxAsked' = [dist |-> cxAsked'.dist, seed |-> cxAsked'.seed], OneVerdict'
  PROVE  CaseInv'
<1>1. RequestsAre' /\ RerunReproduces' /\ SectionsSpeak'
  BY DEF CaseInv, RequestsAre, RerunReproduces, Simulated, SectionsSpeak, Loading, CxFigures
<1> QED BY <1>1 DEF CaseInv

LEMMA QueryOnlyStep ==
  ASSUME CaseInv, UNCHANGED <<cxSaid, cxResult, cxLast, cxAsked>>, cxQuery' \in CxQueries, SectionsSpeak'
  PROVE  CaseInv'
BY DEF CaseInv, RequestsAre, RerunReproduces, Simulated, OneVerdict

LEMMA CxSendStep == ASSUME CaseInv, CxSend PROVE CaseInv'
<1>1. cxSaid' \in CxSaids /\ ~ cxSaid'.refusal /\ ~ cxSaid'.failed
  BY DEF CxSend, CxQuiet, CxSaids
<1>2. PICK request : request = Built
  OBVIOUS
<1>3. request = [dist |-> request.dist, seed |-> request.seed]
  BY <1>2 DEF Built
<1>4. cxAsked' = NoCx \/ cxAsked' = request
  BY <1>2 DEF CxSend
<1> QED BY <1>1, <1>3, <1>4, ResultOnlyStep DEF CxSend, OneVerdict

LEMMA CxRerunStep == ASSUME CaseInv, CxRerun PROVE CaseInv'
<1>1. cxSaid' \in CxSaids /\ ~ cxSaid'.refusal /\ ~ cxSaid'.failed
  BY DEF CxRerun, CaseInv, CxSaids
<1>2. cxAsked' = [dist |-> cxAsked'.dist, seed |-> cxAsked'.seed]
  BY DEF CxRerun, CaseInv, RequestsAre
<1> QED BY <1>1, <1>2, ResultOnlyStep DEF CxRerun, OneVerdict

LEMMA CxAnsweredStep == ASSUME CaseInv, NEW seed \in CxSeeds, CxAnswered(seed) PROVE CaseInv'
<1>1. PICK dist, given : cxAsked = [dist |-> dist, seed |-> given]
  BY DEF CaseInv, RequestsAre, CxAnswered
<1>2. cxResult' = [dist |-> dist, seed |-> seed, stats |-> seed \notin CxWithheld] /\ cxLast' = cxAsked
      /\ cxAsked' = NoCx /\ UNCHANGED <<cxQuery, cxSaid>>
  BY <1>1 DEF CxAnswered, Simulated
<1>3. given # NoCx => seed = given
  BY <1>1 DEF CxAnswered
<1>4. RequestsAre'
  BY <1>1, <1>2 DEF RequestsAre
<1>5. RerunReproduces'
  BY <1>1, <1>2, <1>3 DEF RerunReproduces, Simulated, CxAnswered
<1>6. OneVerdict'
  BY <1>2 DEF CaseInv, OneVerdict, CxAnswered
<1> QED BY <1>2, <1>4, <1>5, <1>6 DEF CaseInv, SectionsSpeak, Loading, CxFigures

LEMMA CxFailedStep == ASSUME CaseInv, NEW refused \in BOOLEAN, CxFailed(refused) PROVE CaseInv'
<1>1. ~ cxSaid.refusal /\ ~ cxSaid.failed
  BY DEF CaseInv, OneVerdict, CxFailed
<1>2. cxSaid' \in CxSaids /\ ~ (cxSaid'.refusal /\ cxSaid'.failed)
  BY <1>1 DEF CaseInv, CxFailed, CxSaids
<1> QED BY <1>2 DEF CaseInv, CxFailed, RequestsAre, RerunReproduces, OneVerdict, SectionsSpeak, Loading, CxFigures

LEMMA SectionReadStep ==
  ASSUME CaseInv, NEW s \in CxSection, NEW how \in {"", "refused", "failed"}, SectionRead(s, how) PROVE CaseInv'
<1>1. PICK data \in BOOLEAN : data <=> how = "" \/ cxQuery[s].data
  OBVIOUS
<1>2. PICK read \in CxAnswers : read = [data |-> data, asked |-> FALSE, said |-> how]
  BY DEF CxAnswers
<1>3. PICK query \in CxQueries : query = [cxQuery EXCEPT ![s] = read]
  BY DEF CaseInv, CxQueries, CxAnswers
<1>4. cxQuery' = AskedBy(query, s) /\ cxQuery[s].asked /\ UNCHANGED <<cxSaid, cxResult, cxLast, cxAsked>>
  <2>1. data = (how = "" \/ cxQuery[s].data)
    BY <1>1
  <2> QED BY <1>2, <1>3, <2>1, Zenon DEF SectionRead
<1>5. /\ query[s].data = data /\ query[s].said = how /\ ~ query[s].asked
      /\ \A q \in CxSection \ {s} : query[q] = cxQuery[q]
  BY <1>2, <1>3 DEF CaseInv, CxQueries
<1>6. \A q \in CxSection : cxQuery[q].data \in BOOLEAN /\ cxQuery[q].asked \in BOOLEAN
                          /\ query[q].data \in BOOLEAN /\ query[q].asked \in BOOLEAN
  BY <1>3 DEF CaseInv, CxQueries
<1>7. CASE s = "case" /\ how = ""
  <2>1. cxQuery' = [q \in CxSection |-> IF q # "case" /\ ~ query[q].data /\ query[q].said = ""
                                        THEN [query[q] EXCEPT !.asked = TRUE] ELSE query[q]]
    BY <1>4, <1>5, <1>7 DEF AskedBy
  <2>2. \A q \in CxSection : [query[q] EXCEPT !.asked = TRUE] \in CxAnswers /\ query[q] \in CxAnswers
    BY <1>3 DEF CxQueries, CxAnswers
  <2>3. cxQuery' \in CxQueries
    BY <2>1, <2>2 DEF CxQueries, CxAnswers
  <2>4. /\ cxQuery'["case"].data /\ cxQuery'["case"].said = ""
        /\ \A q \in CxSection : cxQuery'[q].data = query[q].data /\ cxQuery'[q].said = query[q].said
        /\ \A q \in CxSection \ {"case"} : ~ query[q].data /\ query[q].said = "" => cxQuery'[q].asked
    BY <1>1, <1>5, <1>7, <2>1, <2>2 DEF CxSection, CxAnswers
  <2>5. \A q \in CxSection : Loading(q)' /\ (q = "case" \/ cxQuery'["case"].data) => cxQuery'[q].asked
    BY <1>7, <2>4 DEF Loading
  <2> QED BY <1>4, <2>3, <2>4, <2>5, QueryOnlyStep DEF SectionsSpeak
<1>8. CASE ~ (s = "case" /\ how = "")
  <2>1. cxQuery' = query
    BY <1>4, <1>5, <1>8 DEF AskedBy
  <2>2. cxQuery["case"].data = query["case"].data /\ (s = "case" \/ query["case"].data)
    BY <1>1, <1>4, <1>5, <1>6, <1>8 DEF CaseInv, SectionsSpeak, CxSection
  <2>3. \A q \in CxSection : Loading(q)' /\ (q = "case" \/ cxQuery'["case"].data) => cxQuery'[q].asked
    <3>1. ASSUME NEW q \in CxSection, q # s PROVE Loading(q)' <=> Loading(q)
      BY <1>5, <2>1, <3>1 DEF Loading
    <3>2. ~ Loading(s)'
      BY <1>1, <1>5, <2>1 DEF Loading
    <3> QED BY <1>5, <2>1, <2>2, <3>1, <3>2 DEF CaseInv, SectionsSpeak
  <2>4. \A q \in CxSection : CxFigures(q)' \/ cxQuery'[q].asked => q = "case" \/ cxQuery'["case"].data
    BY <1>5, <2>1, <2>2 DEF CaseInv, SectionsSpeak, CxFigures
  <2>5. SectionsSpeak'
    BY <2>3, <2>4 DEF SectionsSpeak
  <2> QED BY <1>4, <2>1, <2>5, QueryOnlyStep
<1> QED BY <1>7, <1>8

LEMMA BackOnlineStep == ASSUME CaseInv, BackOnline PROVE CaseInv'
<1>1. cxQuery' \in CxQueries
  BY DEF CaseInv, BackOnline, CxQueries
<1>2. /\ \A s \in CxSection : cxQuery'[s].data = cxQuery[s].data
      /\ \A s \in CxSection : \/ cxQuery'[s].asked /\ (s = "case" \/ cxQuery["case"].data)
                              \/ cxQuery'[s] = cxQuery[s] /\ s # "case"
  BY DEF CaseInv, BackOnline, CxQueries
<1>3. cxQuery'["case"].data = cxQuery["case"].data
  BY <1>2 DEF CxSection
<1>4. \A s \in CxSection : Loading(s)' /\ (s = "case" \/ cxQuery'["case"].data) => cxQuery'[s].asked
  BY <1>2, <1>3 DEF CaseInv, SectionsSpeak, Loading
<1>5. \A s \in CxSection : CxFigures(s)' \/ cxQuery'[s].asked => s = "case" \/ cxQuery'["case"].data
  BY <1>2, <1>3 DEF CaseInv, SectionsSpeak, CxFigures
<1>6. SectionsSpeak'
  BY <1>4, <1>5 DEF SectionsSpeak
<1> QED BY <1>1, <1>6, QueryOnlyStep DEF BackOnline

LEMMA CaseFormStep ==
  ASSUME CaseInv, UNCHANGED <<cxQuery, cxSaid, cxResult, cxLast, cxAsked>> PROVE CaseInv'
BY DEF CaseInv, CxQueries, RequestsAre, RerunReproduces, Simulated, OneVerdict, SectionsSpeak, Loading, CxFigures

LEMMA CaseStep == CaseInv /\ [CxNext]_cxVars => CaseInv'
<1> SUFFICES ASSUME CaseInv, [CxNext]_cxVars PROVE CaseInv'
  OBVIOUS
<1>1. CASE \E s \in CxSection, how \in {"", "refused", "failed"} : SectionRead(s, how)
  BY <1>1, SectionReadStep
<1>2. CASE BackOnline \/ CxSend \/ CxRerun
  BY <1>2, BackOnlineStep, CxSendStep, CxRerunStep
<1>3. CASE \/ \E seed \in CxSeeds : CxAnswered(seed)
           \/ \E refused \in BOOLEAN : CxFailed(refused)
  BY <1>3, CxAnsweredStep, CxFailedStep
<1>4. CASE \/ UNCHANGED cxVars \/ CxAddRow
           \/ \E id \in 1..(cxNextId - 1) : CxRemoveRow(id)
           \/ \E i \in DOMAIN cxRows : \/ \E key \in CxKey \cup {NoCx} : PickInput(i, key)
                                       \/ \E shape \in CxShape : PickShape(i, shape)
                                       \/ \E name \in UNION {CxParams[s] : s \in CxShape} : TypeParam(i, name)
                                       \/ GiveClaim(i)
           \/ \E seed \in CxSeeds \cup {NoCx} : TypeSeed(seed)
  <2>1. UNCHANGED cxVars \/ CxEdit
    BY <1>4, Zenon DEF CxAddRow, CxRemoveRow, PickInput, PickShape, TypeParam, GiveClaim, SetRow, TypeSeed
  <2> QED BY <2>1, CaseFormStep DEF cxVars, CxEdit
<1> QED BY <1>1, <1>2, <1>3, <1>4 DEF CxNext

LEMMA OneBin == PointIsInOneBin
<1> SUFFICES ASSUME NEW n \in 2..4, NEW edges \in [1..n -> 0..5], \A i \in 1..(n - 1) : edges[i] < edges[i + 1],
                    NEW point \in -1..6
             PROVE  Cardinality({i \in 1..(n - 1) : HoldsPoint(edges, i, point)})
                      = IF edges[1] <= point /\ point <= edges[n] THEN 1 ELSE 0
  BY DEF PointIsInOneBin
<1>1. Len(edges) = n
  OBVIOUS
<1>2. CASE edges[1] <= point /\ point <= edges[n]
  <2>1. \E i \in 1..(n - 1) : {j \in 1..(n - 1) : HoldsPoint(edges, j, point)} = {i}
    <3>1. CASE n = 2
      BY <1>1, <1>2, <3>1 DEF HoldsPoint
    <3>2. CASE n = 3
      BY <1>1, <1>2, <3>2 DEF HoldsPoint
    <3>3. CASE n = 4
      BY <1>1, <1>2, <3>3 DEF HoldsPoint
    <3> QED BY <3>1, <3>2, <3>3
  <2> QED BY <1>2, <2>1, FS_Singleton
<1>3. CASE ~ (edges[1] <= point /\ point <= edges[n])
  <2>1. {j \in 1..(n - 1) : HoldsPoint(edges, j, point)} = {}
    <3>1. CASE n = 2
      BY <1>1, <1>3, <3>1 DEF HoldsPoint
    <3>2. CASE n = 3
      BY <1>1, <1>3, <3>2 DEF HoldsPoint
    <3>3. CASE n = 4
      BY <1>1, <1>3, <3>3 DEF HoldsPoint
    <3> QED BY <3>1, <3>2, <3>3
  <2> QED BY <1>3, <2>1, FS_EmptySet
<1> QED BY <1>2, <1>3

\* A re-run of a case reproduces the result it repeats, one verdict is shown for it, a section that
\* failed says so, and a point falls in one bin of the histogram (SimulateSection.tsx).
THEOREM CaseAlwaysHolds == CxSpec => []CaseHolds
<1>1. CxInit => CaseInv
  <2> SUFFICES ASSUME CxInit PROVE CaseInv
    OBVIOUS
  <2>1. \A s \in CxSection : [data |-> FALSE, asked |-> s = "case", said |-> ""] \in CxAnswers
    BY DEF CxAnswers
  <2>2. cxQuery \in CxQueries
    BY <2>1, Zenon DEF CxInit, CxQueries, CxAnswers
  <2>4. cxSaid \in CxSaids /\ ~ cxSaid.refusal /\ ~ cxSaid.failed
    BY DEF CxInit, CxSaids, CxQuiet
  <2>3. SectionsSpeak
    <3>1. \A s \in CxSection : (cxQuery[s].asked <=> s = "case") /\ ~ cxQuery[s].data
      BY DEF CxInit
    <3> QED BY <3>1 DEF SectionsSpeak, Loading, CxFigures, CxSection
  <2> QED BY <2>2, <2>3, <2>4 DEF CxInit, CaseInv, RequestsAre, RerunReproduces, OneVerdict
<1>2. CaseInv => CaseHolds
  BY OneBin DEF CaseInv, CaseHolds
<1> QED BY <1>1, <1>2, CaseStep, PTL DEF CxSpec

-----------------------------------------------------------------------------
(* The decisions page.                                                     *)

AsWritten(d, rows) ==
  /\ dlWrite[d].kind = "save" /\ d \in DOMAIN rows => rows[d] = dlWrite[d].memo
  /\ dlWrite[d].kind = "remove" => d \notin DOMAIN rows

LogListed(d) == dlList.data # NoDl /\ d \in DOMAIN dlList.data
LogAsked(d) == dlList.asked # NoDl /\ d \in DOMAIN dlList.asked
Going(d) == dlWrite[d] # NoDl /\ dlWrite[d].kind = "remove" /\ dlWrite[d].phase \in {"served", "refreshing"}

\* Where every change was answered and the list asked for since, the store is what it will show.
LogIsKnown ==
  /\ ~ dlUnsure
  /\ dlPost = NoDl \/ dlPost.phase # "served"
  /\ \A d \in DlId : dlWrite[d] = NoDl \/ dlWrite[d].phase # "served"
  => IF dlList.asked # NoDl THEN dlList.asked = dlStore ELSE dlList.failed \/ dlList.data = dlStore

\* A number is given to one row only.
NumbersAreGiven ==
  \A d \in DlId : d \in DOMAIN dlStore \/ LogListed(d) \/ LogAsked(d) => d <= dlLast

\* What a write did stays done until the list is read again.
WritesLast ==
  \A d \in DlId : dlWrite[d] # NoDl =>
    /\ dlList.data # NoDl /\ d <= dlLast /\ (dlWrite[d].kind = "save" => dlWrite[d].memo \in DlMemo)
    /\ dlWrite[d].phase \in {"served", "refreshing"} => AsWritten(d, dlStore)
    /\ dlWrite[d].phase = "refreshing" => dlList.asked # NoDl /\ AsWritten(d, dlList.asked)

CardsAreListed ==
  \A d \in DlId : /\ dlCard[d] # CardClosed => CardShown(d)
                  /\ dlCard[d].mode = "edit" => dlCard[d].memo \in DlMemo
                  /\ dlWrite[d] # NoDl /\ dlWrite[d].mine => CardShown(d)

\* But for faults, only a delete of the page takes a row away.
RowsStay ==
  dlUsed.faults = 0 =>
    \A d \in DlId :
      /\ dlWrite[d] # NoDl => /\ dlWrite[d].phase # "refused" /\ (LogListed(d) \/ Going(d))
                              /\ dlWrite[d].mine \/ dlWrite[d].kind = "remove"
      /\ LogListed(d) \/ LogAsked(d) => d \in DOMAIN dlStore \/ Going(d)
      /\ LogListed(d) /\ dlList.asked # NoDl => LogAsked(d) \/ Going(d)

LogInv == DlTypeOK /\ LogIsKnown /\ NumbersAreGiven /\ WritesLast /\ CardsAreListed /\ RowsStay

DlListType == [data : DlRows \cup {NoDl}, asked : DlRows \cup {NoDl}, failed : BOOLEAN]

\* What the rows of a list are.
LEMMA RowsAre ==
  ASSUME NEW rows \in DlRows
  PROVE  DOMAIN rows \in SUBSET DlId /\ rows \in [DOMAIN rows -> DlMemo] /\ rows # NoDl
<1>1. PICK S \in SUBSET DlId : rows \in [S -> DlMemo]
  BY DEF DlRows
<1> QED BY <1>1, DlNothing

LEMMA RowsBuild == ASSUME NEW S \in SUBSET DlId, NEW rows \in [S -> DlMemo] PROVE rows \in DlRows
  BY DEF DlRows

\* The list is asked for anew, but for a first read under way.
LEMMA AskedAnew ==
  ASSUME DlTypeOK, LogInvalidated
  PROVE  /\ dlList' \in DlListType /\ dlUnsure' \in BOOLEAN
         /\ dlList'.data = dlList.data /\ dlList'.failed = dlList.failed /\ dlList'.asked # NoDl
         /\ IF dlList.data = NoDl /\ dlList.asked # NoDl
            THEN dlList'.asked = dlList.asked /\ dlUnsure' = (dlUnsure \/ dlList.asked # dlStore)
            ELSE dlList'.asked = dlStore /\ dlUnsure' = dlUnsure
<1> DEFINE joins == dlList.data = NoDl /\ dlList.asked # NoDl
<1>1. dlList \in DlListType /\ dlStore \in DlRows /\ dlStore # NoDl /\ dlUnsure \in BOOLEAN
  BY RowsAre DEF DlTypeOK, DlListType
<1>2. /\ dlList' = [dlList EXCEPT !.asked = IF joins THEN dlList.asked ELSE dlStore]
      /\ dlUnsure' = (dlUnsure \/ (joins /\ dlList.asked # dlStore))
  BY DEF LogInvalidated
<1>3. dlUnsure' \in BOOLEAN
  BY <1>1, <1>2
<1>4. dlList' \in DlListType /\ dlList'.data = dlList.data /\ dlList'.failed = dlList.failed
      /\ dlList'.asked = IF joins THEN dlList.asked ELSE dlStore
  <2>1. PICK asked \in DlRows \cup {NoDl} : asked = IF joins THEN dlList.asked ELSE dlStore
    BY <1>1 DEF DlListType
  <2> HIDE DEF joins
  <2>2. dlList' = [dlList EXCEPT !.asked = asked]
    BY <1>2, <2>1, Zenon
  <2> QED BY <1>1, <2>1, <2>2 DEF DlListType
<1>5. CASE joins
  BY <1>1, <1>2, <1>3, <1>4, <1>5
<1>6. CASE ~ joins
  BY <1>1, <1>2, <1>3, <1>4, <1>6
<1> QED BY <1>5, <1>6

\* A fault, an edit and a request are counted.
LEMMA DlCounted ==
  ASSUME DlTypeOK, DlEdits \/ DlWrites \/ DlFault \/ UNCHANGED dlUsed
  PROVE  /\ dlUsed' \in [edits : 0..DlMaxEdits, writes : 0..DlMaxWrites, faults : 0..DlMaxFaults]
         /\ dlUsed'.faults \in {dlUsed.faults, dlUsed.faults + 1} /\ dlUsed.faults \in Nat
         /\ DlFault => dlUsed'.faults > 0
<1> DEFINE Used == [edits : 0..DlMaxEdits, writes : 0..DlMaxWrites, faults : 0..DlMaxFaults]
<1>0. DlMaxEdits \in Nat /\ DlMaxWrites \in Nat /\ DlMaxFaults \in Nat
  BY DlAssumption, Zenon
<1>1. dlUsed \in Used /\ dlUsed.edits \in 0..DlMaxEdits /\ dlUsed.writes \in 0..DlMaxWrites
      /\ dlUsed.faults \in 0..DlMaxFaults
  BY DEF DlTypeOK
<1>2. ASSUME DlEdits PROVE dlUsed' \in Used /\ dlUsed'.faults = dlUsed.faults
  <2>1. PICK more \in 0..DlMaxEdits : more = dlUsed.edits + 1
    BY <1>0, <1>1, <1>2 DEF DlEdits
  <2>2. dlUsed' = [dlUsed EXCEPT !.edits = more]
    BY <1>2, <2>1 DEF DlEdits
  <2>3. dlUsed' \in Used /\ dlUsed'.faults = dlUsed.faults
    BY <1>1, <2>2
  <2> QED BY <2>1, <2>3
<1>3. ASSUME DlWrites PROVE dlUsed' \in Used /\ dlUsed'.faults = dlUsed.faults
  <2>1. PICK more \in 0..DlMaxWrites : more = dlUsed.writes + 1
    BY <1>0, <1>1, <1>3 DEF DlWrites
  <2>2. dlUsed' = [dlUsed EXCEPT !.writes = more]
    BY <1>3, <2>1 DEF DlWrites
  <2>3. dlUsed' \in Used /\ dlUsed'.faults = dlUsed.faults
    BY <1>1, <2>2
  <2> QED BY <2>1, <2>3
<1>4. ASSUME DlFault PROVE dlUsed' \in Used /\ dlUsed'.faults = dlUsed.faults + 1
  <2>1. PICK more \in 0..DlMaxFaults : more = dlUsed.faults + 1
    BY <1>0, <1>1, <1>4 DEF DlFault
  <2>2. dlUsed' = [dlUsed EXCEPT !.faults = more]
    BY <1>4, <2>1 DEF DlFault
  <2>3. dlUsed' \in Used /\ dlUsed'.faults = more
    BY <1>1, <2>2
  <2> QED BY <2>1, <2>3
<1>5. ASSUME UNCHANGED dlUsed PROVE dlUsed' \in Used /\ dlUsed'.faults = dlUsed.faults
  BY <1>1, <1>5
<1>6. dlUsed' \in Used /\ dlUsed'.faults \in {dlUsed.faults, dlUsed.faults + 1}
  BY <1>2, <1>3, <1>4, <1>5
<1> QED BY <1>1, <1>4, <1>6, <1>0

LEMMA LogAnsweredStep ==
  ASSUME LogInv, NEW rows, LogAnswered(rows) PROVE LogInv'
<1>1. /\ dlList.asked # NoDl /\ rows \in DlRows /\ rows \in {dlList.asked, dlStore} /\ rows # NoDl
      /\ dlList' = [data |-> rows, asked |-> NoDl, failed |-> FALSE]
      /\ dlUnsure' = (dlUnsure /\ rows # dlStore)
      /\ UNCHANGED <<dlStore, dlLast, dlForm, dlPost, dlUsed>>
  BY RowsAre DEF LogInv, DlTypeOK, LogAnswered
<1>2. /\ dlList' \in DlListType
      /\ dlList'.data = rows /\ dlList'.asked = NoDl
  BY <1>1 DEF DlListType
<1>3. dlList'.failed = FALSE
  BY <1>1
<1>4. \A d \in DlId : dlCard'[d] = IF d \in DOMAIN rows
                                   THEN IF Waits(d) /\ dlWrite[d].kind = "save" /\ dlWrite[d].mine
                                        THEN CardClosed ELSE dlCard[d]
                                   ELSE CardClosed
  BY DEF LogAnswered, CardsMounted, Closed
<1>5. dlCard' \in [DlId -> [mode : {"view", "edit", "confirmDelete"}, memo : Memos, error : BOOLEAN]]
  <2>1. CardClosed \in [mode : {"view", "edit", "confirmDelete"}, memo : Memos, error : BOOLEAN]
    BY DEF CardClosed, Memos
  <2> QED BY <2>1 DEF LogInv, DlTypeOK, LogAnswered, CardsMounted, Closed
<1>6. \A d \in DlId : \/ dlWrite'[d] = NoDl /\ (dlWrite[d] = NoDl \/ Waits(d))
                      \/ /\ dlWrite[d] # NoDl /\ ~ Waits(d) /\ dlWrite[d] \in DlWriting
                         /\ dlWrite'[d] = IF d \in DOMAIN rows THEN dlWrite[d] ELSE [dlWrite[d] EXCEPT !.mine = FALSE]
  BY DEF LogInv, DlTypeOK, DlWriting, LogAnswered, Owned, Ended
<1>7. \A d \in DlId : \/ dlWrite'[d] = NoDl /\ (dlWrite[d] = NoDl \/ Waits(d))
                      \/ /\ dlWrite[d] # NoDl /\ ~ Waits(d) /\ dlWrite'[d] \in DlWriting /\ dlWrite'[d] # NoDl
                         /\ dlWrite'[d].kind = dlWrite[d].kind /\ dlWrite'[d].memo = dlWrite[d].memo
                         /\ dlWrite'[d].phase = dlWrite[d].phase
                         /\ dlWrite'[d].mine <=> d \in DOMAIN rows /\ dlWrite[d].mine
  <2> SUFFICES ASSUME NEW d \in DlId, dlWrite[d] # NoDl, ~ Waits(d), dlWrite[d] \in DlWriting,
                      dlWrite'[d] = IF d \in DOMAIN rows THEN dlWrite[d] ELSE [dlWrite[d] EXCEPT !.mine = FALSE]
               PROVE  /\ dlWrite'[d] \in DlWriting /\ dlWrite'[d] # NoDl
                      /\ dlWrite'[d].kind = dlWrite[d].kind /\ dlWrite'[d].memo = dlWrite[d].memo
                      /\ dlWrite'[d].phase = dlWrite[d].phase
                      /\ dlWrite'[d].mine <=> d \in DOMAIN rows /\ dlWrite[d].mine
    BY <1>6
  <2>1. CASE d \in DOMAIN rows
    BY <2>1 DEF DlWriting
  <2>2. CASE d \notin DOMAIN rows
    <3>1. dlWrite'[d] = [dlWrite[d] EXCEPT !.mine = FALSE]
      BY <2>2
    <3>2. dlWrite'[d] \in DlWriting
      BY <3>1 DEF DlWriting
    <3> QED BY <2>2, <3>1, <3>2, DlNothing DEF DlWriting
  <2> QED BY <2>1, <2>2
<1>8. dlWrite' \in [DlId -> {NoDl} \cup DlWriting]
  <2>1. dlWrite' = [d \in DlId |-> dlWrite'[d]]
    BY DEF LogAnswered, Owned
  <2> QED BY <1>7, <2>1
<1>9. DlTypeOK'
  <2>1. dlUnsure' \in BOOLEAN
    BY <1>1
  <2> QED BY <1>1, <1>2, <1>5, <1>8, <2>1 DEF LogInv, DlTypeOK, DlListType, DlWriting
<1>10. LogIsKnown'
  <2>1. ASSUME NEW d \in DlId, dlWrite'[d] = NoDl \/ dlWrite'[d].phase # "served",
               dlWrite[d] # NoDl
        PROVE  dlWrite[d].phase # "served"
    <3>1. \/ Waits(d)
          \/ dlWrite'[d] # NoDl /\ dlWrite'[d].phase = dlWrite[d].phase
      BY <1>6, <1>7, <2>1, Zenon
    <3> QED BY <2>1, <3>1 DEF Waits
  <2>2. CASE rows = dlStore
    BY <1>1, <1>2, <2>2 DEF LogIsKnown
  <2>3. CASE rows # dlStore
    BY <1>1, <1>2, <2>1, <2>3 DEF LogInv, LogIsKnown
  <2> QED BY <2>2, <2>3
<1>11. NumbersAreGiven'
  BY <1>1, <1>2 DEF LogInv, NumbersAreGiven, LogListed, LogAsked
<1>12. WritesLast'
  BY <1>1, <1>2, <1>7 DEF LogInv, WritesLast, AsWritten, Waits
<1>13. CardsAreListed'
  <2>1. CardClosed.mode # "edit"
    BY DEF CardClosed
  <2>2. \A d \in DlId : CardShown(d)' <=> d \in DOMAIN rows
    BY <1>1, <1>2, <1>3 DEF CardShown, ListShown
  <2> QED BY <1>4, <1>7, <2>1, <2>2 DEF LogInv, CardsAreListed
<1>14. RowsStay'
  <2> SUFFICES ASSUME dlUsed.faults = 0, NEW d \in DlId
               PROVE  /\ dlWrite'[d] # NoDl => /\ dlWrite'[d].phase # "refused" /\ (LogListed(d)' \/ Going(d)')
                                               /\ dlWrite'[d].mine \/ dlWrite'[d].kind = "remove"
                      /\ LogListed(d)' => d \in DOMAIN dlStore \/ Going(d)'
    BY <1>1, <1>2 DEF RowsStay, LogListed, LogAsked
  <2>1. /\ dlWrite[d] # NoDl => /\ dlWrite[d].phase # "refused" /\ (LogListed(d) \/ Going(d))
                                /\ dlWrite[d].mine \/ dlWrite[d].kind = "remove"
        /\ LogListed(d) \/ LogAsked(d) => d \in DOMAIN dlStore \/ Going(d)
        /\ LogListed(d) => LogAsked(d) \/ Going(d)
    BY <1>1 DEF LogInv, RowsStay
  <2>2. Waits(d) => AsWritten(d, dlStore) /\ AsWritten(d, dlList.asked)
    BY DEF LogInv, WritesLast, Waits
  <2>3. /\ LogListed(d)' <=> d \in DOMAIN rows
        /\ LogAsked(d) <=> d \in DOMAIN dlList.asked
        /\ d \in DOMAIN rows => d \in DOMAIN dlStore \/ d \in DOMAIN dlList.asked
        /\ d \in DOMAIN dlStore /\ d \in DOMAIN dlList.asked => d \in DOMAIN rows
    BY <1>1, <1>2 DEF LogListed, LogAsked
  <2>4. /\ Waits(d) /\ dlWrite[d].kind = "remove" => d \notin DOMAIN rows
        /\ Waits(d) <=> dlWrite[d] # NoDl /\ dlWrite[d].phase = "refreshing"
    BY <2>2, <1>1 DEF AsWritten, Waits
  <2>5. CASE dlWrite'[d] = NoDl
    BY <1>7, <2>1, <2>3, <2>4, <2>5 DEF Going
  <2>6. CASE dlWrite'[d] # NoDl
    <3>1. /\ dlWrite[d] # NoDl /\ ~ Waits(d) /\ dlWrite[d].kind \in {"save", "remove"}
          /\ dlWrite'[d].kind = dlWrite[d].kind
          /\ dlWrite'[d].phase = dlWrite[d].phase
          /\ dlWrite'[d].mine <=> d \in DOMAIN rows /\ dlWrite[d].mine
      BY <1>7, <2>6 DEF DlWriting
    <3>2. Going(d)' <=> Going(d)
      BY <2>6, <3>1 DEF Going
    <3>3. d \in DOMAIN rows \/ dlWrite[d].kind = "remove"
      BY <2>1, <2>3, <3>1 DEF Going
    <3> QED BY <2>1, <2>3, <2>6, <3>1, <3>2, <3>3 DEF Going
  <2> QED BY <2>5, <2>6
<1> QED BY <1>9, <1>10, <1>11, <1>12, <1>13, <1>14 DEF LogInv

DlCards == [mode : {"view", "edit", "confirmDelete"}, memo : Memos, error : BOOLEAN]

LEMMA LogFailedStep == ASSUME LogInv, LogFailed PROVE LogInv'
<1>1. /\ dlList.asked # NoDl /\ dlList \in DlListType
      /\ dlList' = [dlList EXCEPT !.asked = NoDl, !.failed = TRUE]
      /\ UNCHANGED <<dlStore, dlLast, dlForm, dlPost, dlUnsure>>
  BY DEF LogInv, DlTypeOK, DlListType, LogFailed
<1>2. /\ dlList' \in DlListType
      /\ dlList'.data = dlList.data /\ dlList'.asked = NoDl /\ dlList'.failed = TRUE
  BY <1>1 DEF DlListType
<1>3. \A d \in DlId : dlCard'[d] = CardClosed
  BY DEF LogFailed, CardsMounted
<1>4. dlCard' \in [DlId -> DlCards]
  <2>1. CardClosed \in DlCards
    BY DEF CardClosed, Memos, DlCards
  <2> QED BY <2>1 DEF LogFailed, CardsMounted
<1>5. \A d \in DlId : \/ dlWrite'[d] = NoDl /\ (dlWrite[d] = NoDl \/ Waits(d))
                      \/ /\ dlWrite[d] # NoDl /\ ~ Waits(d) /\ dlWrite[d] \in DlWriting
                         /\ dlWrite'[d] = [dlWrite[d] EXCEPT !.mine = FALSE]
  BY DEF LogInv, DlTypeOK, LogFailed, Owned, Ended
<1>6. \A d \in DlId : \/ dlWrite'[d] = NoDl /\ (dlWrite[d] = NoDl \/ Waits(d))
                      \/ /\ dlWrite[d] # NoDl /\ ~ Waits(d) /\ dlWrite'[d] \in DlWriting
                         /\ dlWrite'[d] # NoDl /\ dlWrite'[d].mine = FALSE
                         /\ dlWrite'[d].kind = dlWrite[d].kind /\ dlWrite'[d].memo = dlWrite[d].memo
                         /\ dlWrite'[d].phase = dlWrite[d].phase
  <2> SUFFICES ASSUME NEW d \in DlId, dlWrite[d] # NoDl, ~ Waits(d), dlWrite[d] \in DlWriting,
                      dlWrite'[d] = [dlWrite[d] EXCEPT !.mine = FALSE]
               PROVE  /\ dlWrite'[d] \in DlWriting /\ dlWrite'[d] # NoDl /\ dlWrite'[d].mine = FALSE
                      /\ dlWrite'[d].kind = dlWrite[d].kind /\ dlWrite'[d].memo = dlWrite[d].memo
                      /\ dlWrite'[d].phase = dlWrite[d].phase
    BY <1>5
  <2>1. dlWrite'[d] \in DlWriting
    BY DEF DlWriting
  <2> QED BY <2>1, DlNothing DEF DlWriting
<1>7. dlWrite' \in [DlId -> {NoDl} \cup DlWriting]
  <2>1. dlWrite' = [d \in DlId |-> dlWrite'[d]]
    BY DEF LogFailed, Owned
  <2> QED BY <1>6, <2>1
<1>8. /\ dlUsed' \in [edits : 0..DlMaxEdits, writes : 0..DlMaxWrites, faults : 0..DlMaxFaults]
      /\ dlUsed'.faults > 0
  BY DlCounted DEF LogInv, LogFailed
<1>9. DlTypeOK'
  BY <1>1, <1>2, <1>4, <1>7, <1>8 DEF LogInv, DlTypeOK, DlListType, DlCards
<1>10. LogIsKnown'
  BY <1>2 DEF LogIsKnown
<1>11. NumbersAreGiven'
  BY <1>1, <1>2 DEF LogInv, NumbersAreGiven, LogListed, LogAsked
<1>12. WritesLast'
  BY <1>1, <1>2, <1>6 DEF LogInv, WritesLast, AsWritten, Waits
<1>13. CardsAreListed'
  <2>1. CardClosed.mode # "edit"
    BY DEF CardClosed
  <2> QED BY <1>3, <1>6, <2>1 DEF CardsAreListed
<1>14. RowsStay'
  BY <1>8 DEF RowsStay
<1> QED BY <1>9, <1>10, <1>11, <1>12, <1>13, <1>14 DEF LogInv

\* What is typed, opened and closed on the page, and a post, leave what it knows alone.
LEMMA LogPageStep ==
  ASSUME LogInv, UNCHANGED <<dlStore, dlLast, dlList, dlWrite, dlUnsure>>,
         DlEdits \/ DlWrites \/ DlFault \/ UNCHANGED dlUsed,
         dlForm' \in Memos, dlPost' \in {NoDl} \cup DlPosting,
         dlCard' \in [DlId -> DlCards],
         \A d \in DlId : /\ dlCard'[d] # CardClosed => CardShown(d)
                         /\ dlCard'[d].mode = "edit" => dlCard'[d].memo \in DlMemo,
         dlPost = NoDl \/ dlPost.phase = "sent" => dlPost' = NoDl \/ dlPost'.phase = "sent",
         dlPost = NoDl \/ dlPost.phase = "sent" \/ dlPost' = dlPost
  PROVE  LogInv'
<1>1. /\ dlUsed' \in [edits : 0..DlMaxEdits, writes : 0..DlMaxWrites, faults : 0..DlMaxFaults]
      /\ dlUsed'.faults \in {dlUsed.faults, dlUsed.faults + 1} /\ dlUsed.faults \in Nat
  BY DlCounted DEF LogInv
<1>2. DlTypeOK'
  <2>1. dlUnsure' \in BOOLEAN
    BY DEF LogInv, DlTypeOK
  <2> QED BY <1>1, <2>1 DEF LogInv, DlTypeOK, DlCards
<1>3. LogIsKnown'
  <2>1. dlPost' = NoDl \/ dlPost'.phase # "served" => dlPost = NoDl \/ dlPost.phase # "served"
    OBVIOUS
  <2> QED BY <2>1 DEF LogInv, LogIsKnown
<1>4. NumbersAreGiven' /\ WritesLast' /\ CardsAreListed'
  BY DEF LogInv, NumbersAreGiven, LogListed, LogAsked, WritesLast, AsWritten, CardsAreListed, CardShown, ListShown
<1>5. RowsStay'
  <2>1. dlUsed'.faults = 0 => dlUsed.faults = 0
    BY <1>1
  <2> QED BY <2>1 DEF LogInv, RowsStay, LogListed, LogAsked, Going
<1> QED BY <1>2, <1>3, <1>4, <1>5 DEF LogInv

LEMMA LogFormStep ==
  ASSUME LogInv,
         \/ DlSubmit \/ \E memo \in DlMemo : TypeMemo(memo)
         \/ \E d \in DlId : StartEdit(d) \/ AskDelete(d) \/ CancelCard(d) \/ \E memo \in DlMemo : Correct(d, memo)
  PROVE  LogInv'
<1>0. /\ dlForm \in Memos /\ dlPost \in {NoDl} \cup DlPosting
      /\ dlCard \in [DlId -> DlCards]
      /\ dlPost # NoDl => dlPost.phase \in {"sent", "served"}
      /\ \A d \in DlId : /\ dlCard[d] # CardClosed => CardShown(d)
                         /\ dlCard[d].mode = "edit" => dlCard[d].memo \in DlMemo
  BY DEF LogInv, DlTypeOK, DlCards, DlPosting, CardsAreListed
<1>1. CASE DlSubmit
  <2>1. dlPost' \in DlPosting /\ dlPost'.phase = "sent" /\ dlPost = NoDl
    BY <1>0, <1>1 DEF DlSubmit, DlPosting, Memos
  <2>2. /\ DlWrites /\ UNCHANGED <<dlStore, dlLast, dlList, dlForm, dlCard, dlWrite, dlUnsure>>
    BY <1>1 DEF DlSubmit
  <2> QED BY <1>0, <2>1, <2>2, LogPageStep
<1>2. ASSUME NEW memo \in DlMemo, TypeMemo(memo) PROVE LogInv'
  <2>1. /\ DlEdits /\ UNCHANGED <<dlStore, dlLast, dlList, dlPost, dlCard, dlWrite, dlUnsure>>
        /\ dlForm' \in Memos
    BY <1>2 DEF TypeMemo, Memos
  <2> QED BY <1>0, <2>1, LogPageStep
<1>3. ASSUME NEW d \in DlId, NEW card \in DlCards, dlCard' = [dlCard EXCEPT ![d] = card],
             card # CardClosed => CardShown(d), card.mode = "edit" => card.memo \in DlMemo,
             UNCHANGED <<dlStore, dlLast, dlList, dlForm, dlPost, dlWrite, dlUnsure>>,
             DlEdits \/ UNCHANGED dlUsed
      PROVE  LogInv'
  <2>1. /\ dlCard' \in [DlId -> DlCards]
        /\ \A e \in DlId : /\ dlCard'[e] # CardClosed => CardShown(e)
                           /\ dlCard'[e].mode = "edit" => dlCard'[e].memo \in DlMemo
    BY <1>0, <1>3
  <2> QED BY <1>0, <1>3, <2>1, LogPageStep
<1>4. ASSUME NEW d \in DlId, StartEdit(d) PROVE LogInv'
  <2>1. dlList.data[d] \in DlMemo
    BY <1>4, RowsAre DEF StartEdit, CardShown, ListShown, LogInv, DlTypeOK, DlListType
  <2>2. [mode |-> "edit", memo |-> dlList.data[d], error |-> FALSE] \in DlCards
    BY <2>1 DEF DlCards, Memos
  <2>3. PICK card : card = [mode |-> "edit", memo |-> dlList.data[d], error |-> FALSE]
    OBVIOUS
  <2> QED BY <1>3, <1>4, <2>1, <2>2, <2>3 DEF StartEdit
<1>5. ASSUME NEW d \in DlId, AskDelete(d) PROVE LogInv'
  <2>1. PICK card : card = [dlCard[d] EXCEPT !.mode = "confirmDelete", !.error = FALSE]
    OBVIOUS
  <2>2. card \in DlCards /\ card.mode = "confirmDelete"
    BY <1>0, <2>1 DEF DlCards
  <2>3. dlCard' = [dlCard EXCEPT ![d] = card]
    BY <1>0, <1>5, <2>1 DEF AskDelete
  <2> QED BY <1>3, <1>5, <2>2, <2>3 DEF AskDelete
<1>6. ASSUME NEW d \in DlId, CancelCard(d) PROVE LogInv'
  <2>1. CardClosed \in DlCards
    BY DEF CardClosed, Memos, DlCards
  <2>2. CardClosed.mode = "view"
    BY DEF CardClosed
  <2> QED BY <1>3, <1>6, <2>1, <2>2 DEF CancelCard
<1>7. ASSUME NEW d \in DlId, NEW memo \in DlMemo, Correct(d, memo) PROVE LogInv'
  <2>1. PICK card : card = [dlCard[d] EXCEPT !.memo = memo]
    OBVIOUS
  <2>2. card \in DlCards /\ card.memo \in DlMemo
    BY <1>0, <2>1 DEF DlCards, Memos
  <2>3. dlCard' = [dlCard EXCEPT ![d] = card]
    BY <1>0, <1>7, <2>1 DEF Correct
  <2>4. CardShown(d)
    BY <1>0, <1>7 DEF Correct, CardClosed
  <2> QED BY <1>3, <1>7, <2>2, <2>3, <2>4 DEF Correct
<1> QED BY <1>1, <1>2, <1>4, <1>5, <1>6, <1>7

\* A write of one row in place of another, or of none.
LEMMA OneWrite ==
  ASSUME DlTypeOK, NEW d \in DlId, NEW write \in {NoDl} \cup DlWriting,
         dlWrite' = [dlWrite EXCEPT ![d] = write]
  PROVE  /\ dlWrite' \in [DlId -> {NoDl} \cup DlWriting] /\ dlWrite'[d] = write
         /\ \A e \in DlId \ {d} : dlWrite'[e] = dlWrite[e]
  BY DEF DlTypeOK

LEMMA SendStep == ASSUME LogInv, NEW d \in DlId, Send(d) PROVE LogInv'
<1>1. PICK write : write = [kind |-> IF dlCard[d].mode = "edit" THEN "save" ELSE "remove",
                            memo |-> dlCard[d].memo, phase |-> "sent", mine |-> TRUE]
  OBVIOUS
<1>2. dlCard[d] \in DlCards /\ dlCard[d] # CardClosed /\ CardShown(d) /\ dlWrite[d] = NoDl
  BY DEF LogInv, DlTypeOK, DlCards, Send, CardsAreListed, CardClosed
<1>3. /\ write \in DlWriting /\ write # NoDl /\ write.phase = "sent" /\ write.mine
      /\ write.kind = "save" => write.memo \in DlMemo
  <2>1. write \in DlWriting /\ write.phase = "sent" /\ write.mine = TRUE /\ write.memo = dlCard[d].memo
        /\ (write.kind = "save" => dlCard[d].mode = "edit")
    BY <1>1, <1>2 DEF DlWriting, DlCards
  <2> QED BY <1>2, <2>1, DlNothing DEF LogInv, CardsAreListed
<1>4. /\ dlWrite' = [dlWrite EXCEPT ![d] = write] /\ DlWrites
      /\ UNCHANGED <<dlStore, dlLast, dlList, dlForm, dlPost, dlCard, dlUnsure>>
  BY <1>1 DEF Send
<1>5. /\ dlWrite' \in [DlId -> {NoDl} \cup DlWriting] /\ dlWrite'[d] = write
      /\ \A e \in DlId \ {d} : dlWrite'[e] = dlWrite[e]
  BY <1>3, <1>4, OneWrite DEF LogInv
<1>6. /\ dlUsed' \in [edits : 0..DlMaxEdits, writes : 0..DlMaxWrites, faults : 0..DlMaxFaults]
      /\ dlUsed'.faults \in {dlUsed.faults, dlUsed.faults + 1} /\ dlUsed.faults \in Nat
  BY <1>4, DlCounted DEF LogInv
<1>7. DlTypeOK'
  <2>1. dlUnsure' \in BOOLEAN
    BY <1>4 DEF LogInv, DlTypeOK
  <2> QED BY <1>4, <1>5, <1>6, <2>1 DEF LogInv, DlTypeOK
<1>8. LogListed(d) /\ d <= dlLast
  BY <1>2 DEF CardShown, ListShown, LogListed, LogInv, NumbersAreGiven
<1>9. LogIsKnown' /\ NumbersAreGiven'
  BY <1>2, <1>3, <1>4, <1>5 DEF LogInv, LogIsKnown, NumbersAreGiven, LogListed, LogAsked
<1>10. WritesLast'
  BY <1>3, <1>4, <1>5, <1>8 DEF LogInv, WritesLast, LogListed, AsWritten
<1>11. CardsAreListed'
  BY <1>2, <1>3, <1>4, <1>5 DEF LogInv, CardsAreListed, CardShown, ListShown
<1>12. RowsStay'
  <2> SUFFICES ASSUME dlUsed'.faults = 0, NEW e \in DlId
               PROVE  /\ dlWrite'[e] # NoDl => /\ dlWrite'[e].phase # "refused" /\ (LogListed(e) \/ Going(e)')
                                               /\ dlWrite'[e].mine \/ dlWrite'[e].kind = "remove"
                      /\ LogListed(e) \/ LogAsked(e) => e \in DOMAIN dlStore \/ Going(e)'
                      /\ LogListed(e) /\ dlList.asked # NoDl => LogAsked(e) \/ Going(e)'
    BY <1>4 DEF RowsStay, LogListed, LogAsked
  <2>1. dlUsed.faults = 0
    BY <1>6
  <2>2. Going(e) => Going(e)'
    BY <1>2, <1>5 DEF Going
  <2>3. CASE e = d
    BY <1>2, <1>3, <1>5, <1>8, <2>1, <2>2, <2>3 DEF LogInv, RowsStay
  <2>4. CASE e # d
    BY <1>5, <2>1, <2>2, <2>4 DEF LogInv, RowsStay
  <2> QED BY <2>3, <2>4
<1> QED BY <1>7, <1>9, <1>10, <1>11, <1>12 DEF LogInv

\* The row without its decision.
LEMMA RowTaken ==
  ASSUME NEW rows \in DlRows, NEW d, NEW left, left = [x \in DOMAIN rows \ {d} |-> rows[x]]
  PROVE  /\ left \in DlRows /\ DOMAIN left = DOMAIN rows \ {d}
         /\ \A e \in DOMAIN left : left[e] = rows[e]
         /\ d \notin DOMAIN rows => left = rows
<1>1. DOMAIN rows \in SUBSET DlId /\ rows \in [DOMAIN rows -> DlMemo]
  BY RowsAre
<1>2. left \in [DOMAIN rows \ {d} -> DlMemo]
  BY <1>1
<1>3. left \in DlRows
  BY <1>1, <1>2, RowsBuild
<1>4. DOMAIN left = DOMAIN rows \ {d} /\ \A e \in DOMAIN left : left[e] = rows[e]
  OBVIOUS
<1>5. ASSUME d \notin DOMAIN rows PROVE left = rows
  <2>1. DOMAIN rows \ {d} = DOMAIN rows
    BY <1>5
  <2> QED BY <1>1, <2>1
<1> QED BY <1>3, <1>4, <1>5

LEMMA RemovedStep == ASSUME LogInv, NEW d \in DlId, RemovedElsewhere(d) PROVE LogInv'
<1>1. /\ dlStore' = [x \in DOMAIN dlStore \ {d} |-> dlStore[x]] /\ dlUnsure' = TRUE /\ DlFault
      /\ UNCHANGED <<dlLast, dlList, dlForm, dlPost, dlCard, dlWrite>>
  BY DEF RemovedElsewhere
<1>2. /\ dlStore' \in DlRows /\ DOMAIN dlStore' = DOMAIN dlStore \ {d}
      /\ \A e \in DOMAIN dlStore' : dlStore'[e] = dlStore[e]
  BY <1>1, RowTaken DEF LogInv, DlTypeOK
<1>3. /\ dlUsed' \in [edits : 0..DlMaxEdits, writes : 0..DlMaxWrites, faults : 0..DlMaxFaults]
      /\ dlUsed'.faults > 0
  BY <1>1, DlCounted DEF LogInv
<1>4. DlTypeOK'
  <2>1. dlUnsure' \in BOOLEAN
    BY <1>1
  <2> QED BY <1>1, <1>2, <1>3, <2>1 DEF LogInv, DlTypeOK
<1>5. LogIsKnown' /\ RowsStay'
  BY <1>1, <1>3 DEF LogIsKnown, RowsStay
<1>6. NumbersAreGiven' /\ CardsAreListed'
  BY <1>1, <1>2 DEF LogInv, NumbersAreGiven, LogListed, LogAsked, CardsAreListed, CardShown, ListShown
<1>7. WritesLast'
  BY <1>1, <1>2 DEF LogInv, WritesLast, AsWritten
<1> QED BY <1>4, <1>5, <1>6, <1>7 DEF LogInv

LEMMA WriteServedStep == ASSUME LogInv, NEW d \in DlId, WriteServed(d) PROVE LogInv'
<1>1. /\ dlWrite[d] \in DlWriting /\ dlWrite[d] # NoDl /\ dlWrite[d].phase = "sent" /\ dlStore \in DlRows
      /\ dlWrite[d].kind \in {"save", "remove"} /\ (dlWrite[d].kind = "save" => dlWrite[d].memo \in DlMemo)
      /\ UNCHANGED <<dlLast, dlList, dlForm, dlPost, dlCard, dlUnsure, dlUsed>>
  BY DEF LogInv, DlTypeOK, WriteServed, DlWriting, WritesLast
<1>2. PICK phase : phase = IF d \in DOMAIN dlStore THEN "served" ELSE "refused"
  OBVIOUS
<1>3. PICK write : write = [dlWrite[d] EXCEPT !.phase = phase]
  OBVIOUS
<1>4. /\ write \in DlWriting /\ write # NoDl /\ write.phase = phase
      /\ write.kind = dlWrite[d].kind /\ write.memo = dlWrite[d].memo
  <2>1. write \in DlWriting /\ write.phase = phase /\ write.kind = dlWrite[d].kind /\ write.memo = dlWrite[d].memo
    BY <1>1, <1>2, <1>3 DEF DlWriting
  <2> QED BY <2>1, DlNothing
<1>5. write.mine = dlWrite[d].mine
  BY <1>1, <1>3 DEF DlWriting
<1>6. dlWrite' = [dlWrite EXCEPT ![d] = write]
  BY <1>2, <1>3 DEF WriteServed, LogInv, DlTypeOK
<1>7. /\ dlWrite' \in [DlId -> {NoDl} \cup DlWriting] /\ dlWrite'[d] = write
      /\ \A e \in DlId \ {d} : dlWrite'[e] = dlWrite[e]
  BY <1>4, <1>6, OneWrite DEF LogInv
<1>8. /\ dlStore' \in DlRows
      /\ DOMAIN dlStore' = IF dlWrite[d].kind = "remove" THEN DOMAIN dlStore \ {d} ELSE DOMAIN dlStore
      /\ \A e \in DOMAIN dlStore' : dlStore'[e] = IF e = d THEN dlWrite[d].memo ELSE dlStore[e]
      /\ d \notin DOMAIN dlStore => dlStore' = dlStore
  <2>1. CASE dlWrite[d].kind = "remove"
    <3>1. dlStore' = [x \in DOMAIN dlStore \ {d} |-> dlStore[x]]
      BY <2>1 DEF WriteServed
    <3> QED BY <1>1, <2>1, <3>1, RowTaken
  <2>2. CASE dlWrite[d].kind = "save" /\ d \in DOMAIN dlStore
    <3>1. dlStore' = [dlStore EXCEPT ![d] = dlWrite[d].memo]
      BY <2>2 DEF WriteServed
    <3>2. DOMAIN dlStore \in SUBSET DlId /\ dlStore \in [DOMAIN dlStore -> DlMemo]
      BY <1>1, RowsAre
    <3>3. dlStore' \in [DOMAIN dlStore -> DlMemo]
      BY <1>1, <2>2, <3>1, <3>2
    <3>4. dlStore' \in DlRows
      BY <3>2, <3>3, RowsBuild
    <3> QED BY <2>2, <3>1, <3>2, <3>4
  <2>3. CASE dlWrite[d].kind = "save" /\ d \notin DOMAIN dlStore
    <3>1. dlStore' = dlStore
      BY <2>3 DEF WriteServed
    <3> QED BY <1>1, <2>3, <3>1
  <2> QED BY <1>1, <2>1, <2>2, <2>3
<1>9. DlTypeOK'
  <2>1. dlUnsure' \in BOOLEAN
    BY <1>1 DEF LogInv, DlTypeOK
  <2> QED BY <1>1, <1>7, <1>8, <2>1 DEF LogInv, DlTypeOK
<1>10. LogIsKnown'
  <2>1. CASE phase = "served"
    BY <1>4, <1>7, <2>1 DEF LogIsKnown
  <2>2. CASE phase # "served"
    <3>1. dlStore' = dlStore
      BY <1>2, <1>8, <2>2
    <3>2. ASSUME \A e \in DlId : dlWrite'[e] = NoDl \/ dlWrite'[e].phase # "served"
          PROVE  \A e \in DlId : dlWrite[e] = NoDl \/ dlWrite[e].phase # "served"
      BY <1>1, <1>7, <3>2
    <3> QED BY <1>1, <3>1, <3>2 DEF LogInv, LogIsKnown
  <2> QED BY <2>1, <2>2
<1>11. NumbersAreGiven' /\ CardsAreListed'
  BY <1>1, <1>4, <1>5, <1>7, <1>8 DEF LogInv, NumbersAreGiven, LogListed, LogAsked, CardsAreListed, CardShown, ListShown
<1>12. WritesLast'
  <2>1. AsWritten(d, dlStore)'
    BY <1>4, <1>7, <1>8 DEF AsWritten
  <2>2. write.phase # "refreshing"
    BY <1>2, <1>4
  <2>3. ASSUME NEW e \in DlId \ {d} PROVE AsWritten(e, dlStore) => AsWritten(e, dlStore)'
    BY <1>7, <1>8, <2>3 DEF AsWritten
  <2> QED BY <1>1, <1>4, <1>7, <2>1, <2>2, <2>3 DEF LogInv, WritesLast, AsWritten
<1>13. RowsStay'
  <2> SUFFICES ASSUME dlUsed.faults = 0, NEW e \in DlId
               PROVE  /\ dlWrite'[e] # NoDl => /\ dlWrite'[e].phase # "refused" /\ (LogListed(e) \/ Going(e)')
                                               /\ dlWrite'[e].mine \/ dlWrite'[e].kind = "remove"
                      /\ LogListed(e) \/ LogAsked(e) => e \in DOMAIN dlStore' \/ Going(e)'
                      /\ LogListed(e) /\ dlList.asked # NoDl => LogAsked(e) \/ Going(e)'
    BY <1>1 DEF RowsStay, LogListed, LogAsked
  <2>1. /\ dlWrite[e] # NoDl => /\ dlWrite[e].phase # "refused" /\ (LogListed(e) \/ Going(e))
                                /\ dlWrite[e].mine \/ dlWrite[e].kind = "remove"
        /\ LogListed(e) \/ LogAsked(e) => e \in DOMAIN dlStore \/ Going(e)
        /\ LogListed(e) /\ dlList.asked # NoDl => LogAsked(e) \/ Going(e)
    BY DEF LogInv, RowsStay
  <2>2. CASE e = d
    <3>1. ~ Going(d)
      BY <1>1 DEF Going
    <3>2. d \in DOMAIN dlStore /\ phase = "served"
      BY <1>1, <1>2, <2>1, <2>2, <3>1
    <3>3. Going(d)' <=> dlWrite[d].kind = "remove"
      BY <1>4, <1>7, <3>2 DEF Going
    <3> QED BY <1>1, <1>4, <1>5, <1>7, <1>8, <2>1, <2>2, <3>1, <3>2, <3>3
  <2>3. CASE e # d
    BY <1>7, <1>8, <2>1, <2>3 DEF Going
  <2> QED BY <2>2, <2>3
<1> QED BY <1>9, <1>10, <1>11, <1>12, <1>13 DEF LogInv

LEMMA WriteAnsweredStep == ASSUME LogInv, NEW d \in DlId, WriteAnswered(d) PROVE LogInv'
<1>1. /\ dlWrite[d] \in DlWriting /\ dlWrite[d] # NoDl /\ dlWrite[d].phase = "served"
      /\ dlWrite[d].kind \in {"save", "remove"} /\ dlList.data # NoDl
      /\ LogInvalidated /\ dlWrite' = [dlWrite EXCEPT ![d].phase = "refreshing"]
      /\ UNCHANGED <<dlStore, dlLast, dlForm, dlPost, dlCard, dlUsed>>
  BY DEF LogInv, DlTypeOK, WriteAnswered, DlWriting, WritesLast
<1>2. PICK write : write = [dlWrite[d] EXCEPT !.phase = "refreshing"]
  OBVIOUS
<1>3. /\ write \in DlWriting /\ write # NoDl /\ write.phase = "refreshing"
      /\ write.kind = dlWrite[d].kind /\ write.memo = dlWrite[d].memo
  <2>1. write \in DlWriting /\ write.phase = "refreshing" /\ write.kind = dlWrite[d].kind /\ write.memo = dlWrite[d].memo
    BY <1>1, <1>2 DEF DlWriting
  <2> QED BY <2>1, DlNothing
<1>4. write.mine = dlWrite[d].mine
  BY <1>1, <1>2 DEF DlWriting
<1>5. dlWrite' = [dlWrite EXCEPT ![d] = write]
  BY <1>1, <1>2 DEF LogInv, DlTypeOK
<1>6. /\ dlWrite' \in [DlId -> {NoDl} \cup DlWriting] /\ dlWrite'[d] = write
      /\ \A e \in DlId \ {d} : dlWrite'[e] = dlWrite[e]
  BY <1>3, <1>5, OneWrite DEF LogInv
<1>7. /\ dlList' \in DlListType /\ dlUnsure' \in BOOLEAN /\ dlUnsure' = dlUnsure
      /\ dlList'.data = dlList.data /\ dlList'.failed = dlList.failed
      /\ dlList'.asked = dlStore /\ dlStore # NoDl
  <2>1. dlStore # NoDl
    BY RowsAre DEF LogInv, DlTypeOK
  <2> QED BY <1>1, <2>1, AskedAnew DEF LogInv
<1>8. DlTypeOK'
  BY <1>1, <1>6, <1>7 DEF LogInv, DlTypeOK, DlListType
<1>9. LogIsKnown'
  BY <1>1, <1>7 DEF LogIsKnown
<1>10. NumbersAreGiven'
  BY <1>1, <1>7 DEF LogInv, NumbersAreGiven, LogListed, LogAsked
<1>11. WritesLast'
  <2>1. \A e \in DlId : AsWritten(e, dlStore)' <=> AsWritten(e, dlStore)
    BY <1>1, <1>3, <1>6 DEF AsWritten
  <2>2. \A e \in DlId : AsWritten(e, dlList.asked)' <=> AsWritten(e, dlStore)'
    BY <1>1, <1>7 DEF AsWritten
  <2> QED BY <1>1, <1>3, <1>6, <1>7, <2>1, <2>2 DEF LogInv, WritesLast
<1>12. CardsAreListed'
  BY <1>1, <1>4, <1>6, <1>7 DEF LogInv, CardsAreListed, CardShown, ListShown
<1>13. RowsStay'
  <2> SUFFICES ASSUME dlUsed.faults = 0, NEW e \in DlId
               PROVE  /\ dlWrite'[e] # NoDl => /\ dlWrite'[e].phase # "refused" /\ (LogListed(e) \/ Going(e)')
                                               /\ dlWrite'[e].mine \/ dlWrite'[e].kind = "remove"
                      /\ LogListed(e) \/ e \in DOMAIN dlStore => e \in DOMAIN dlStore \/ Going(e)'
    BY <1>1, <1>7 DEF RowsStay, LogListed, LogAsked
  <2>1. /\ dlWrite[e] # NoDl => /\ dlWrite[e].phase # "refused" /\ (LogListed(e) \/ Going(e))
                                /\ dlWrite[e].mine \/ dlWrite[e].kind = "remove"
        /\ LogListed(e) => e \in DOMAIN dlStore \/ Going(e)
    BY DEF LogInv, RowsStay
  <2>2. Going(e)' <=> Going(e)
    BY <1>1, <1>3, <1>6 DEF Going
  <2>3. CASE e = d
    BY <1>1, <1>3, <1>4, <1>6, <2>1, <2>2, <2>3
  <2>4. CASE e # d
    BY <1>6, <2>1, <2>2, <2>4
  <2> QED BY <2>3, <2>4
<1> QED BY <1>8, <1>9, <1>10, <1>11, <1>12, <1>13 DEF LogInv

LEMMA WriteFailedStep == ASSUME LogInv, NEW d \in DlId, WriteFailed(d) PROVE LogInv'
<1>1. /\ dlWrite[d] # NoDl /\ dlWrite' = [dlWrite EXCEPT ![d] = NoDl]
      /\ dlUnsure' = (dlUnsure \/ dlWrite[d].phase = "served")
      /\ UNCHANGED <<dlStore, dlLast, dlList, dlForm, dlPost>>
      /\ IF dlWrite[d].phase = "refused" THEN UNCHANGED dlUsed ELSE DlFault
  BY DEF WriteFailed
<1>2. /\ dlWrite' \in [DlId -> {NoDl} \cup DlWriting] /\ dlWrite'[d] = NoDl
      /\ \A e \in DlId \ {d} : dlWrite'[e] = dlWrite[e]
  BY <1>1, OneWrite DEF LogInv
<1>3. PICK card : card = [dlCard[d] EXCEPT !.error = TRUE]
  OBVIOUS
<1>4. dlCard \in [DlId -> DlCards] /\ card \in DlCards /\ card.mode = dlCard[d].mode /\ card.memo = dlCard[d].memo
  BY <1>3 DEF LogInv, DlTypeOK, DlCards
<1>5. /\ dlCard' \in [DlId -> DlCards]
      /\ \A e \in DlId : \/ dlCard'[e] = dlCard[e]
                         \/ e = d /\ dlWrite[d].mine /\ dlCard'[d].mode = dlCard[d].mode /\ dlCard'[d].memo = dlCard[d].memo
  <2>1. CASE dlWrite[d].mine
    <3>1. dlCard' = [dlCard EXCEPT ![d] = card]
      BY <1>3, <1>4, <2>1 DEF WriteFailed
    <3> QED BY <1>4, <2>1, <3>1
  <2>2. CASE ~ dlWrite[d].mine
    BY <1>4, <2>2 DEF WriteFailed
  <2> QED BY <2>1, <2>2
<1>6. /\ dlUsed' \in [edits : 0..DlMaxEdits, writes : 0..DlMaxWrites, faults : 0..DlMaxFaults]
      /\ dlUsed'.faults > 0 \/ (dlWrite[d].phase = "refused" /\ dlUsed' = dlUsed)
  <2>1. DlFault \/ (dlWrite[d].phase = "refused" /\ dlUsed' = dlUsed)
    BY <1>1, Zenon
  <2>2. CASE DlFault
    BY <2>2, DlCounted DEF LogInv
  <2>3. CASE dlWrite[d].phase = "refused" /\ dlUsed' = dlUsed
    BY <2>3 DEF LogInv, DlTypeOK
  <2> QED BY <2>1, <2>2, <2>3
<1>7. DlTypeOK'
  <2>1. dlUnsure' \in BOOLEAN
    BY <1>1 DEF LogInv, DlTypeOK
  <2> QED BY <1>1, <1>2, <1>5, <1>6, <2>1 DEF LogInv, DlTypeOK, DlCards
<1>8. LogIsKnown'
  <2> SUFFICES ASSUME ~ dlUnsure', \A e \in DlId : dlWrite'[e] = NoDl \/ dlWrite'[e].phase # "served"
               PROVE  ~ dlUnsure /\ \A e \in DlId : dlWrite[e] = NoDl \/ dlWrite[e].phase # "served"
    BY <1>1 DEF LogInv, LogIsKnown
  <2> QED BY <1>1, <1>2
<1>9. NumbersAreGiven' /\ WritesLast'
  BY <1>1, <1>2 DEF LogInv, NumbersAreGiven, LogListed, LogAsked, WritesLast, AsWritten
<1>10. CardsAreListed'
  <2>1. \A e \in DlId : CardShown(e)' <=> CardShown(e)
    BY <1>1 DEF CardShown, ListShown
  <2> QED BY <1>1, <1>2, <1>5, <2>1 DEF LogInv, CardsAreListed
<1>11. RowsStay'
  <2>1. CASE dlUsed'.faults > 0
    BY <2>1 DEF RowsStay
  <2>2. CASE dlWrite[d].phase = "refused" /\ dlUsed' = dlUsed
    BY <1>1, <2>2 DEF LogInv, RowsStay
  <2> QED BY <1>6, <2>1, <2>2
<1> QED BY <1>7, <1>8, <1>9, <1>10, <1>11 DEF LogInv

LEMMA RecordedStep == ASSUME LogInv, Recorded PROVE LogInv'
<1>1. PICK n : n = dlLast + 1
  OBVIOUS
<1>2. /\ n \in DlId /\ dlLast \in Nat /\ n <= n /\ dlLast' = n /\ dlLast < n
      /\ \A d \in DlId : d <= dlLast => d # n /\ d <= n
      /\ dlStore' = [x \in DOMAIN dlStore \cup {n} |-> IF x = n THEN dlPost.memo ELSE dlStore[x]]
      /\ UNCHANGED <<dlList, dlForm, dlCard, dlWrite, dlUnsure, dlUsed>>
  <2>1. DlId \subseteq Nat
    BY DlAssumption
  <2> QED BY <1>1, <2>1 DEF Recorded, LogInv, DlTypeOK
<1>3. /\ dlPost' \in DlPosting /\ dlPost' # NoDl /\ dlPost'.phase = "served"
      /\ dlPost.memo \in DlMemo
  <2>1. dlPost \in DlPosting /\ dlPost' = [dlPost EXCEPT !.phase = "served"]
    BY DEF Recorded, LogInv, DlTypeOK
  <2>2. dlPost' \in DlPosting /\ dlPost'.phase = "served" /\ dlPost.memo \in DlMemo
    BY <2>1 DEF DlPosting
  <2> QED BY <2>2, DlNothing
<1>4. /\ dlStore' \in DlRows /\ DOMAIN dlStore' = DOMAIN dlStore \cup {n}
      /\ \A d \in DOMAIN dlStore : d # n => dlStore'[d] = dlStore[d]
  <2>1. DOMAIN dlStore \in SUBSET DlId /\ dlStore \in [DOMAIN dlStore -> DlMemo]
    BY RowsAre DEF LogInv, DlTypeOK
  <2>2. dlStore' \in [DOMAIN dlStore \cup {n} -> DlMemo]
    BY <1>2, <1>3, <2>1
  <2>3. DOMAIN dlStore \cup {n} \in SUBSET DlId
    BY <1>2, <2>1
  <2> QED BY <1>2, <2>2, <2>3, RowsBuild
<1>5. DlTypeOK'
  <2>1. dlUnsure' \in BOOLEAN
    BY <1>2 DEF LogInv, DlTypeOK
  <2> QED BY <1>2, <1>3, <1>4, <2>1 DEF LogInv, DlTypeOK
<1>6. LogIsKnown'
  BY <1>3 DEF LogIsKnown
<1>7. NumbersAreGiven'
  BY <1>2, <1>4 DEF LogInv, NumbersAreGiven, LogListed, LogAsked
<1>8. WritesLast'
  <2>1. \A d \in DlId : dlWrite[d] # NoDl /\ AsWritten(d, dlStore) => AsWritten(d, dlStore)'
    BY <1>2, <1>4 DEF AsWritten, LogInv, WritesLast
  <2>2. \A d \in DlId : AsWritten(d, dlList.asked)' <=> AsWritten(d, dlList.asked)
    BY <1>2 DEF AsWritten
  <2> QED BY <1>2, <2>1, <2>2 DEF LogInv, WritesLast
<1>9. CardsAreListed' /\ RowsStay'
  BY <1>2, <1>4 DEF LogInv, CardsAreListed, CardShown, ListShown, RowsStay, LogListed, LogAsked, Going
<1> QED BY <1>5, <1>6, <1>7, <1>8, <1>9 DEF LogInv

LEMMA RecordAnsweredStep == ASSUME LogInv, RecordAnswered PROVE LogInv'
<1>1. /\ dlPost' = NoDl /\ dlForm' = NoDl /\ LogInvalidated
      /\ UNCHANGED <<dlStore, dlLast, dlCard, dlWrite, dlUsed>>
  BY DEF RecordAnswered
<1>2. /\ dlList' \in DlListType /\ dlUnsure' \in BOOLEAN
      /\ dlList'.data = dlList.data /\ dlList'.failed = dlList.failed /\ dlList'.asked # NoDl
      /\ IF dlList.data = NoDl /\ dlList.asked # NoDl
         THEN dlList'.asked = dlList.asked /\ dlUnsure' = (dlUnsure \/ dlList.asked # dlStore)
         ELSE dlList'.asked = dlStore /\ dlUnsure' = dlUnsure
  BY <1>1, AskedAnew DEF LogInv
<1>3. DlTypeOK'
  BY <1>1, <1>2 DEF LogInv, DlTypeOK, DlListType, Memos
<1>4. LogIsKnown'
  BY <1>1, <1>2 DEF LogIsKnown
<1>5. NumbersAreGiven'
  BY <1>1, <1>2 DEF LogInv, NumbersAreGiven, LogListed, LogAsked
<1>6. WritesLast'
  <2>1. ASSUME NEW d \in DlId, dlWrite[d] # NoDl, dlWrite[d].phase = "refreshing"
        PROVE  AsWritten(d, dlList'.asked)
    BY <1>2, <2>1 DEF LogInv, WritesLast
  <2>2. \A d \in DlId : /\ AsWritten(d, dlList.asked)' <=> AsWritten(d, dlList'.asked)
                        /\ AsWritten(d, dlStore)' <=> AsWritten(d, dlStore)
    BY <1>1 DEF AsWritten
  <2> QED BY <1>1, <1>2, <2>1, <2>2 DEF LogInv, WritesLast
<1>7. CardsAreListed'
  BY <1>1, <1>2 DEF LogInv, CardsAreListed, CardShown, ListShown
<1>8. RowsStay'
  BY <1>1, <1>2 DEF LogInv, RowsStay, LogListed, LogAsked, Going
<1> QED BY <1>3, <1>4, <1>5, <1>6, <1>7, <1>8 DEF LogInv

LEMMA RecordFailedStep == ASSUME LogInv, RecordFailed PROVE LogInv'
<1>1. /\ dlPost # NoDl /\ dlPost' = NoDl /\ dlUnsure' = (dlUnsure \/ dlPost.phase = "served") /\ DlFault
      /\ UNCHANGED <<dlStore, dlLast, dlList, dlForm, dlCard, dlWrite>>
  BY DEF RecordFailed
<1>2. /\ dlUsed' \in [edits : 0..DlMaxEdits, writes : 0..DlMaxWrites, faults : 0..DlMaxFaults]
      /\ dlUsed'.faults > 0
  BY <1>1, DlCounted DEF LogInv
<1>3. DlTypeOK'
  <2>1. dlUnsure' \in BOOLEAN
    BY <1>1 DEF LogInv, DlTypeOK
  <2> QED BY <1>1, <1>2, <2>1 DEF LogInv, DlTypeOK
<1>4. LogIsKnown' /\ RowsStay'
  <2>1. ~ dlUnsure' => ~ dlUnsure /\ dlPost.phase # "served"
    BY <1>1
  <2> QED BY <1>1, <1>2, <2>1 DEF LogInv, LogIsKnown, RowsStay
<1>5. NumbersAreGiven' /\ WritesLast' /\ CardsAreListed'
  BY <1>1 DEF LogInv, NumbersAreGiven, LogListed, LogAsked, WritesLast, AsWritten, CardsAreListed, CardShown, ListShown
<1> QED BY <1>3, <1>4, <1>5 DEF LogInv

LEMMA LogStep == LogInv /\ [DlNext]_dlVars => LogInv'
<1> SUFFICES ASSUME LogInv, [DlNext]_dlVars PROVE LogInv'
  OBVIOUS
<1>1. CASE UNCHANGED dlVars
  BY <1>1 DEF dlVars, LogInv, DlTypeOK, LogIsKnown, NumbersAreGiven, WritesLast, CardsAreListed, RowsStay,
              LogListed, LogAsked, Going, AsWritten, CardShown, ListShown
<1>2. CASE DlNext
  BY <1>2, LogAnsweredStep, LogFailedStep, LogFormStep, RecordedStep, RecordAnsweredStep, RecordFailedStep,
     SendStep, WriteServedStep, WriteAnsweredStep, WriteFailedStep, RemovedStep DEF DlNext
<1> QED BY <1>1, <1>2

\* The list of decisions is the one stored once its answers are in, a card waits for the read that shows
\* its change, what is typed is in a card on the page, and the caption counts every decision (app/decisions).
THEOREM LogAlwaysHolds == DlSpec => []LogHolds
<1>1. DlInit => LogInv
  <2> SUFFICES ASSUME DlInit PROVE LogInv
    OBVIOUS
  <2>1. (CHOOSE m \in DlMemo : TRUE) \in DlMemo
    BY DlAssumption
  <2>2. dlLast \in DlFirst /\ \A x \in DlFirst : x <= dlLast
    BY DlAssumption DEF DlInit
  <2>3. DOMAIN dlStore = DlFirst /\ dlStore \in DlRows /\ DlFirst \in SUBSET DlId
    <3>1. DlFirst \in SUBSET DlId
      BY DlAssumption
    <3>2. dlStore \in [DlFirst -> DlMemo]
      BY <2>1 DEF DlInit
    <3> QED BY <3>1, <3>2, RowsBuild
  <2>4. /\ dlList \in DlListType /\ dlList.data = NoDl /\ dlList.asked = dlStore
        /\ dlStore # NoDl
    BY <2>3, RowsAre DEF DlInit, DlListType
  <2>5. dlUnsure \in BOOLEAN
    BY DEF DlInit
  <2>6. CardClosed \in DlCards /\ CardClosed.mode = "view"
    BY DEF CardClosed, DlCards, Memos
  <2>7. dlUsed \in [edits : 0..DlMaxEdits, writes : 0..DlMaxWrites, faults : 0..DlMaxFaults]
    <3>1. DlMaxEdits \in Nat /\ DlMaxWrites \in Nat /\ DlMaxFaults \in Nat
      BY DlAssumption, Zenon
    <3>2. 0 \in 0..DlMaxEdits /\ 0 \in 0..DlMaxWrites /\ 0 \in 0..DlMaxFaults
      BY <3>1
    <3> QED BY <3>2 DEF DlInit
  <2>8. DlTypeOK
    BY <2>2, <2>3, <2>4, <2>5, <2>6, <2>7 DEF DlInit, DlTypeOK, DlListType, DlCards, Memos
  <2>9. LogIsKnown /\ NumbersAreGiven
    BY <2>2, <2>3, <2>4 DEF DlInit, LogIsKnown, NumbersAreGiven, LogListed, LogAsked
  <2>10. WritesLast /\ CardsAreListed /\ RowsStay
    BY <2>3, <2>4, <2>6 DEF DlInit, WritesLast, CardsAreListed, RowsStay, LogListed, LogAsked
  <2> QED BY <2>8, <2>9, <2>10 DEF LogInv
<1>2. LogInv => LogHolds
  <2> SUFFICES ASSUME LogInv PROVE LogHolds
    OBVIOUS
  <2>1. ListIsServed
    BY DEF LogInv, LogIsKnown, ListIsServed, ListShown
  <2>2. WaitsEnd
    BY DEF LogInv, WritesLast, AsWritten, WaitsEnd, Waits
  <2>3. \A d \in DlId : dlCard[d] # CardClosed => CardShown(d)
    BY DEF LogInv, CardsAreListed
  <2>4. \A d \in DlId : dlWrite[d] # NoDl /\ ~ dlWrite[d].mine => dlUsed.faults > 0 \/ dlWrite[d].kind = "remove"
    <3>1. dlUsed.faults > 0 \/ dlUsed.faults = 0
      <4>1. dlUsed.faults \in Nat
        <5>1. DlMaxFaults \in Nat /\ dlUsed.faults \in 0..DlMaxFaults
          BY DlAssumption DEF LogInv, DlTypeOK
        <5> QED BY <5>1
      <4> QED BY <4>1
    <3> QED BY <3>1 DEF LogInv, RowsStay
  <2>5. ASSUME ListShown
        PROVE  LET p == Partition(dlList.data)
               IN  Cardinality(p.points) + p.outcomeUnavailable + p.figuresUnavailable = p.total
    <3> DEFINE of(figures) == {d \in DOMAIN dlList.data : DlFigures[d] = figures}
    <3>1. PICK rows, points, early, blank :
            /\ rows = DOMAIN dlList.data /\ points = of("point") /\ early = of("no outcome") /\ blank = of("no figures")
      OBVIOUS
    <3>2. rows \subseteq DlId
      BY <2>5, <3>1, RowsAre DEF ListShown, LogInv, DlTypeOK
    <3>3. points \cap early = {} /\ (points \cup early) \cap blank = {} /\ (points \cup early) \cup blank = rows
      BY <3>1, <3>2, DlAssumption
    <3>4. IsFiniteSet(rows) /\ IsFiniteSet(points) /\ IsFiniteSet(early) /\ IsFiniteSet(blank)
      <4>1. IsFiniteSet(rows)
        BY <3>2, DlAssumption, FS_Subset
      <4> QED BY <3>3, <4>1, FS_Subset
    <3>5. /\ Cardinality(points) \in Nat /\ Cardinality(early) \in Nat /\ Cardinality(blank) \in Nat
          /\ IsFiniteSet(points \cup early) /\ Cardinality({}) = 0
      BY <3>4, FS_CardinalityType, FS_Union, FS_EmptySet
    <3>6. Cardinality(points \cup early) = Cardinality(points) + Cardinality(early) - Cardinality({})
      <4>1. Cardinality(points \cup early) = Cardinality(points) + Cardinality(early) - Cardinality(points \cap early)
        BY <3>4, FS_Union, Zenon
      <4> QED BY <3>3, <4>1, Zenon
    <3>7. Cardinality(rows) = Cardinality(points \cup early) + Cardinality(blank) - Cardinality({})
      <4>1. PICK two : two = points \cup early
        OBVIOUS
      <4>2. IsFiniteSet(two) /\ IsFiniteSet(blank)
        BY <3>4, <3>5, <4>1, Zenon
      <4>3. Cardinality(two \cup blank) = Cardinality(two) + Cardinality(blank) - Cardinality(two \cap blank)
        BY <4>2, FS_Union, Zenon
      <4> QED BY <3>3, <4>1, <4>3, Zenon
    <3>8. Cardinality(points) + Cardinality(early) + Cardinality(blank) = Cardinality(rows)
      BY <3>5, <3>6, <3>7
    <3> QED BY <3>1, <3>8 DEF Partition
  <2> QED BY <2>1, <2>2, <2>3, <2>4, <2>5 DEF LogHolds
<1> QED BY <1>1, <1>2, LogStep, PTL DEF DlSpec

-----------------------------------------------------------------------------
(* The price chart.                                                        *)

ChartShape(c) ==
  c = [candles |-> c.candles, averages |-> c.averages, times |-> c.times,
       events |-> c.events, monthly |-> c.monthly, visible |-> c.visible,
       marks |-> c.marks, zoomed |-> c.zoomed]

\* The chart was last rendered with what the page has.
ChartInv == ecShown = Props /\ ChartShape(ecChart)

\* The effects keep the zoom unless the bars or the averages are others.
LEMMA EffectsKeepZoom ==
  ASSUME NEW c, ChartShape(c), NEW p, NEW q
  PROVE  /\ ChartShape(Effects(c, p, q))
         /\ p.bars = q.bars /\ p.averages = q.averages => Effects(c, p, q).zoomed = c.zoomed
<1> DEFINE Keeps(a, b) == /\ ChartShape(b)
                          /\ p.bars = q.bars /\ p.averages = q.averages => b.zoomed = a.zoomed
           c1 == SetUp(c, p, q)
           c2 == SetData(c1, p, q)
           c3 == SetEvents(c2, p, q)
           c4 == SetMarks(c3, p, q)
<1>1. Keeps(c, c1)
  BY DEF SetUp, Rebuilds, NewChart, ChartShape
<1> HIDE DEF c1
<1>2. Keeps(c1, c2)
  <2>1. CASE p.bars # q.bars \/ p.averages # q.averages
    <3>1. c2.candles = c2.candles /\ ChartShape(c2)
      BY <1>1, <2>1 DEF SetData, ChartShape
    <3> QED BY <2>1, <3>1
  <2>2. CASE ~ (p.bars # q.bars \/ p.averages # q.averages)
    BY <1>1, <2>2 DEF SetData
  <2> QED BY <2>1, <2>2
<1> HIDE DEF c2
<1>3. Keeps(c2, c3)
  <2>1. CASE EventsChanged(p, q)
    BY <1>2, <2>1 DEF SetEvents, ChartShape
  <2>2. CASE ~ EventsChanged(p, q)
    BY <1>2, <2>2 DEF SetEvents
  <2> QED BY <2>1, <2>2
<1> HIDE DEF c3
<1>4. Keeps(c3, c4)
  BY <1>3 DEF SetMarks, ChartShape
<1>5. c4 = Effects(c, p, q)
  BY DEF Effects, c1, c2, c3
<1> HIDE DEF c4
<1> QED BY <1>1, <1>2, <1>3, <1>4, <1>5

LEMMA RenderedIsShown ==
  ASSUME ChartInv, RenderChart
  PROVE  /\ ChartInv'
         /\ (ecBars' = ecBars /\ Averages' = Averages) => (ecChart.zoomed => ecChart'.zoomed)
<1>1. CASE SameProps(ecShown, Props')
  <2>1. ecShown = Props' /\ UNCHANGED <<ecShown, ecChart>>
    BY <1>1 DEF SameProps, Props, ChartInv, RenderChart
  <2> QED BY <2>1 DEF ChartInv, ChartShape
<1>2. CASE ~ SameProps(ecShown, Props')
  <2>1. ecShown' = Props' /\ ecChart' = Effects(ecChart, ecShown, Props')
    BY <1>2 DEF RenderChart
  <2>2. /\ ecShown.bars = ecBars /\ ecShown.averages = Averages
        /\ Props'.bars = ecBars' /\ Props'.averages = Averages'
    BY DEF ChartInv, Props
  <2>3. PICK q : q = Props'
    OBVIOUS
  <2>4. /\ ChartShape(Effects(ecChart, ecShown, q))
        /\ ecShown.bars = q.bars /\ ecShown.averages = q.averages =>
             Effects(ecChart, ecShown, q).zoomed = ecChart.zoomed
    BY EffectsKeepZoom DEF ChartInv
  <2> QED BY <2>1, <2>2, <2>3, <2>4 DEF ChartInv, ChartShape
<1> QED BY <1>1, <1>2

LEMMA ChartStep ==
  ASSUME ChartInv, EcNext
  PROVE  /\ ChartInv'
         /\ (ecBars' = ecBars /\ Averages' = Averages) => (ecChart.zoomed => ecChart'.zoomed)
<1>1. ASSUME NEW bars \in EcBars, ChangeBars(bars) PROVE RenderChart
  BY <1>1 DEF ChangeBars, Change
<1>2. CASE SwitchLocale
  BY <1>2, RenderedIsShown DEF SwitchLocale, Change
<1>3. CASE Zoom
  BY <1>3 DEF Zoom, ChartInv, ChartShape, Props, Averages
<1>4. ASSUME NEW events, Hover(events) PROVE ChartInv' /\ ecChart' = ecChart
  BY <1>4 DEF Hover, ChartInv, ChartShape, Props, Averages
<1>5. ASSUME NEW events \in SUBSET EcEvent, FilterEvents(events) PROVE RenderChart
  BY <1>5 DEF FilterEvents, Change
<1>6. ASSUME NEW marks \in SUBSET Days(ecBars), ChangeMarks(marks) PROVE RenderChart
  BY <1>6 DEF ChangeMarks, Change
<1> QED BY <1>1, <1>2, <1>3, <1>4, <1>5, <1>6, RenderedIsShown DEF EcNext, MoveCrosshair

\* Whatever the filter, the thresholds and the language do, in any order, the reader's zoom and pan
\* stay unless the bars or the averages change (the comparator and the four effects of TVChart).
THEOREM ZoomIsAlwaysKept == EcInit /\ [][EcNext]_ecVars => ZoomIsKept
<1>1. EcInit => ChartInv
  BY DEF EcInit, ChartInv, ChartShape, NewChart, Props, Averages
<1>2. ASSUME ChartInv, [EcNext]_ecVars
      PROVE  /\ ChartInv'
             /\ [(ecBars' = ecBars /\ Averages' = Averages) =>
                   (ecChart.zoomed => ecChart'.zoomed)]_ecVars
  <2>1. CASE UNCHANGED ecVars
    BY <1>2, <2>1 DEF ecVars, ChartInv, ChartShape, Props, Averages
  <2> QED BY <1>2, <2>1, ChartStep
<1> QED BY <1>1, <1>2, PTL DEF ZoomIsKept

-----------------------------------------------------------------------------
(* What the price chart shows.                                             *)

\* What the chart draws is what it was last rendered with; without its event lines it shows none.
ChartIsDrawn(chart, props, lost) ==
  /\ chart.candles = props.bars /\ chart.averages = props.averages /\ chart.marks = props.marks
  /\ lost => chart.visible = FALSE
  /\ ~ lost => /\ chart.visible = TRUE /\ chart.events = props.events
               /\ chart.times = props.bars /\ chart.monthly = props.monthly

DrawnInv ==
  /\ ChartInv /\ ChartIsDrawn(ecChart, ecShown, ecLost)
  /\ ecBars \in EcBars /\ ecFiltered \subseteq EcEvent /\ ecMarked \subseteq Days(ecBars)
  /\ ecLost \in BOOLEAN

\* The four effects of a render bring the chart from the props before to those it is rendered with.
LEMMA EffectsDraw ==
  ASSUME NEW c, ChartShape(c), NEW p, NEW q, NEW lost \in BOOLEAN, ChartIsDrawn(c, p, lost),
         p.bars \in Seq(Nat), q.bars \in Seq(Nat)
  PROVE  ChartIsDrawn(Effects(c, p, q), q, (lost \/ Rebuilds(p, q)) /\ ~ EventsChanged(p, q))
<1> DEFINE c1 == SetUp(c, p, q)
           c2 == SetData(c1, p, q)
           c3 == SetEvents(c2, p, q)
           c4 == SetMarks(c3, p, q)
<1>1. /\ ChartShape(c1)
      /\ Rebuilds(p, q) => c1.candles = <<>> /\ c1.visible = FALSE
      /\ ~ Rebuilds(p, q) => c1 = c
  BY DEF SetUp, NewChart, ChartShape
<1> HIDE DEF c1
<1>2. /\ ChartShape(c2) /\ c2.candles = q.bars /\ c2.averages = q.averages
      /\ c2.visible = c1.visible /\ c2.events = c1.events /\ c2.times = c1.times
      /\ c2.monthly = c1.monthly /\ c2.marks = c1.marks
  <2>1. CASE p.bars # q.bars \/ p.averages # q.averages
    <3>1. PICK candles : candles = IF q.bars # <<>> THEN q.bars ELSE c1.candles
      OBVIOUS
    <3>2. candles = q.bars
      <4>1. CASE q.bars # <<>>
        BY <3>1, <4>1
      <4>2. CASE q.bars = <<>>
        <5>1. p.bars = <<>> \/ Len(p.bars) # 0
          OBVIOUS
        <5>2. Rebuilds(p, q)
          BY <2>1, <4>2, <5>1 DEF Rebuilds
        <5> QED BY <1>1, <3>1, <4>2, <5>2
      <4> QED BY <4>1, <4>2
    <3>3. c2 = [c1 EXCEPT !.candles = candles, !.averages = q.averages, !.zoomed = FALSE]
      BY <2>1, <3>1 DEF SetData
    <3> QED BY <1>1, <3>2, <3>3 DEF ChartShape
  <2>2. CASE ~ (p.bars # q.bars \/ p.averages # q.averages)
    <3>1. c2 = c1 /\ ~ Rebuilds(p, q)
      BY <2>2 DEF SetData, Rebuilds
    <3> QED BY <1>1, <2>2, <3>1 DEF ChartIsDrawn
  <2> QED BY <2>1, <2>2
<1> HIDE DEF c2
<1>3. /\ ChartShape(c3) /\ c3.candles = q.bars /\ c3.averages = q.averages /\ c3.marks = c1.marks
      /\ EventsChanged(p, q) => /\ c3.visible = TRUE /\ c3.events = q.events
                                /\ c3.times = q.bars /\ c3.monthly = q.monthly
      /\ ~ EventsChanged(p, q) => /\ c3.visible = c1.visible /\ c3.events = c1.events
                                  /\ c3.times = c1.times /\ c3.monthly = c1.monthly
  <2>1. CASE EventsChanged(p, q)
    BY <1>2, <2>1 DEF SetEvents, ChartShape
  <2>2. CASE ~ EventsChanged(p, q)
    BY <1>2, <2>2 DEF SetEvents
  <2> QED BY <2>1, <2>2
<1> HIDE DEF c3
<1>4. /\ c4.candles = q.bars /\ c4.averages = q.averages /\ c4.marks = q.marks
      /\ c4.visible = c3.visible /\ c4.events = c3.events /\ c4.times = c3.times /\ c4.monthly = c3.monthly
  <2>1. CASE p.marks # q.marks \/ p.bars # q.bars \/ Rebuilds(p, q)
    BY <1>3, <2>1 DEF SetMarks, ChartShape
  <2>2. CASE ~ (p.marks # q.marks \/ p.bars # q.bars \/ Rebuilds(p, q))
    BY <1>1, <1>3, <2>2 DEF SetMarks, ChartIsDrawn
  <2> QED BY <2>1, <2>2
<1>5. c4 = Effects(c, p, q)
  BY DEF Effects, c1, c2, c3
<1> HIDE DEF c4
<1>6. CASE EventsChanged(p, q)
  BY <1>3, <1>4, <1>5, <1>6 DEF ChartIsDrawn
<1>7. CASE ~ EventsChanged(p, q) /\ Rebuilds(p, q)
  BY <1>1, <1>3, <1>4, <1>5, <1>7 DEF ChartIsDrawn
<1>8. CASE ~ EventsChanged(p, q) /\ ~ Rebuilds(p, q)
  BY <1>1, <1>3, <1>4, <1>5, <1>8 DEF ChartIsDrawn, EventsChanged
<1> QED BY <1>6, <1>7, <1>8

LEMMA RenderDraws ==
  ASSUME DrawnInv, RenderChart, ChartInv', ecBars' \in EcBars
  PROVE  ChartIsDrawn(ecChart', ecShown', ecLost') /\ ecLost' \in BOOLEAN
<1> USE DEF DrawnInv
<1>1. CASE SameProps(ecShown, Props')
  <2>1. UNCHANGED <<ecShown, ecChart, ecLost>>
    BY <1>1 DEF RenderChart
  <2> QED BY <2>1
<1>2. CASE ~ SameProps(ecShown, Props')
  <2>1. PICK p, q : p = ecShown /\ q = Props'
    OBVIOUS
  <2>2. /\ ecShown' = q /\ ecChart' = Effects(ecChart, p, q)
        /\ ecLost' = ((ecLost \/ Rebuilds(p, q)) /\ ~ EventsChanged(p, q))
    BY <1>2, <2>1 DEF RenderChart
  <2>3. p.bars \in Seq(Nat) /\ q.bars \in Seq(Nat)
    BY <2>1, EcAssumption DEF ChartInv, Props
  <2>4. ChartIsDrawn(Effects(ecChart, p, q), q, (ecLost \/ Rebuilds(p, q)) /\ ~ EventsChanged(p, q))
    BY <2>1, <2>3, EffectsDraw DEF ChartInv
  <2>5. ecLost' \in BOOLEAN
    BY <2>2, Zenon
  <2> QED BY <2>2, <2>4, <2>5
<1> QED BY <1>1, <1>2

\* A bar of the series stands at its place.
LEMMA CoordinateIs ==
  ASSUME NEW bars \in EcBars, NEW i \in DOMAIN bars
  PROVE  TimeToCoordinate(bars[i], bars) = 2 * i
<1>1. bars \in Seq(Nat)
  BY EcAssumption
<1>2. \A j \in DOMAIN bars : bars[j] = bars[i] => j = i
  <2> TAKE j \in DOMAIN bars
  <2>1. i \in Nat /\ j \in Nat /\ bars[i] \in Nat /\ bars[j] \in Nat
    BY <1>1
  <2>2. (i < j => bars[i] < bars[j]) /\ (j < i => bars[j] < bars[i])
    BY EcAssumption
  <2> QED BY <2>1, <2>2
<1>3. PICK k : k = CHOOSE x \in DOMAIN bars : bars[x] = bars[i]
  OBVIOUS
<1>4. k \in DOMAIN bars /\ bars[k] = bars[i]
  BY <1>3
<1>5. k = i
  BY <1>2, <1>4
<1> QED BY <1>3, <1>5 DEF TimeToCoordinate

\* Of some places of a series there is a first and a last.
LEMMA PlacesHaveEnds ==
  ASSUME NEW n \in Nat, NEW S \in SUBSET (1..n), S # {}
  PROVE  (\E i \in S : \A j \in S : i <= j) /\ (\E i \in S : \A j \in S : j <= i)
<1> DEFINE R == {pair \in Nat \X Nat : pair[1] < pair[2]}
<1>1. IsWellFoundedOn(R, Nat)
  BY NatLessThanWellFounded DEF OpToRel
<1>2. ASSUME NEW T \in SUBSET Nat, T # {} PROVE \E i \in T : \A j \in T : i <= j
  <2>1. PICK i \in T : \A j \in T : <<j, i>> \notin R
    <3> HIDE DEF R
    <3> QED BY <1>1, <1>2, WFMin
  <2>2. \A j \in T : i <= j
    <3> TAKE j \in T
    <3>1. i \in Nat /\ j \in Nat
      OBVIOUS
    <3>2. ~ (j < i)
      BY <2>1, <3>1
    <3> QED BY <3>1, <3>2
  <2> QED BY <2>2
<1>3. \E i \in S : \A j \in S : i <= j
  <2>1. S \in SUBSET Nat
    OBVIOUS
  <2> HIDE DEF R
  <2> QED BY <1>2, <2>1
<1>4. \E i \in S : \A j \in S : j <= i
  <2> DEFINE T == {b \in Nat : \A j \in S : j <= b}
  <2>1. n \in T
    OBVIOUS
  <2>2. PICK m \in T : \A t \in T : m <= t
    <3>1. T \in SUBSET Nat /\ T # {}
      BY <2>1
    <3> HIDE DEF T, R
    <3> QED BY <1>2, <3>1
  <2>3. m \in S
    <3>1. SUFFICES ASSUME m \notin S PROVE FALSE
      OBVIOUS
    <3>2. \A j \in S : j \in Nat /\ j >= 1 /\ j <= m - 1
      <4> TAKE j \in S
      <4>1. j \in 1..n /\ j <= m /\ j # m /\ m \in Nat
        BY <3>1
      <4> QED BY <4>1
    <3>3. m - 1 \in Nat
      <4>1. PICK j \in S : TRUE
        OBVIOUS
      <4> QED BY <3>2, <4>1
    <3>4. m - 1 \in T
      BY <3>2, <3>3
    <3>5. m <= m - 1
      <4> HIDE DEF T
      <4> QED BY <2>2, <3>4
    <3> QED BY <3>5
  <2> QED BY <2>3
<1> QED BY <1>3, <1>4

\* An event is drawn at one place.
LEMMA EventAtOnePlace ==
  ASSUME NEW bars \in EcBars, NEW day, NEW x, NEW y,
         x \in EventCoordinate(day, bars, bars, bars \in EcMonthly),
         y \in EventCoordinate(day, bars, bars, bars \in EcMonthly)
  PROVE  x = y
<1>1. CASE bars \in EcMonthly
  <2>1. PICK c, d \in Days(bars) : /\ Month(c) = Month(day) /\ x = TimeToCoordinate(c, bars)
                                   /\ Month(d) = Month(day) /\ y = TimeToCoordinate(d, bars)
    BY <1>1 DEF EventCoordinate, MonthCoordinate
  <2>2. PICK i, j \in DOMAIN bars : c = bars[i] /\ d = bars[j]
    BY DEF Days
  <2>3. i = j
    <3>1. Month(bars[i]) = Month(bars[j])
      BY <2>1, <2>2
    <3> QED BY <1>1, <3>1, EcAssumption
  <2> QED BY <2>1, <2>2, <2>3
<1>2. CASE bars \notin EcMonthly
  <2>1. x \in DayCoordinate(day, bars, bars) /\ y \in DayCoordinate(day, bars, bars)
    BY <1>2 DEF EventCoordinate
  <2> QED BY <2>1 DEF DayCoordinate
<1> QED BY <1>1, <1>2

\* An event among the bars is drawn after the bars before it and before the bars after it.
LEMMA EventBetween ==
  ASSUME NEW bars \in EcBars, NEW day \in Nat, \E a, b \in Days(bars) : a <= day /\ day <= b
  PROVE  \E x \in DayCoordinate(day, bars, bars) :
           \A i \in DOMAIN bars : (bars[i] < day => 2 * i < x) /\ (bars[i] > day => x < 2 * i)
<1>1. bars \in Seq(Nat) /\ Len(bars) \in Nat /\ DOMAIN bars = 1..Len(bars)
  BY EcAssumption
<1>2. ASSUME NEW i \in DOMAIN bars, NEW j \in DOMAIN bars
      PROVE  /\ i \in Nat /\ j \in Nat /\ bars[i] \in Nat /\ bars[j] \in Nat
             /\ i < j => bars[i] < bars[j]
             /\ bars[i] < bars[j] => i < j
  <2>1. i \in Nat /\ j \in Nat /\ bars[i] \in Nat /\ bars[j] \in Nat
    BY <1>1
  <2>2. (i < j => bars[i] < bars[j]) /\ (j < i => bars[j] < bars[i])
    BY EcAssumption
  <2> QED BY <2>1, <2>2
<1>3. CASE day \in Days(bars)
  <2>1. PICK k \in DOMAIN bars : bars[k] = day
    BY <1>3 DEF Days
  <2>2. TimeToCoordinate(day, bars) = 2 * k
    BY <2>1, CoordinateIs
  <2>3. 2 * k \in DayCoordinate(day, bars, bars)
    BY <1>3, <2>2 DEF DayCoordinate
  <2>4. \A i \in DOMAIN bars : (bars[i] < day => 2 * i < 2 * k) /\ (bars[i] > day => 2 * k < 2 * i)
    <3> TAKE i \in DOMAIN bars
    <3>1. /\ i \in Nat /\ k \in Nat /\ bars[i] \in Nat
          /\ bars[i] < bars[k] => i < k /\ bars[k] \in Nat
          /\ bars[k] < bars[i] => k < i
      BY <1>2
    <3> QED BY <2>1, <3>1
  <2> QED BY <2>3, <2>4
<1>4. CASE day \notin Days(bars)
  <2> DEFINE before == {i \in DOMAIN bars : bars[i] < day}
             after == {i \in DOMAIN bars : bars[i] > day}
  <2>1. before # {} /\ after # {} /\ before \in SUBSET (1..Len(bars)) /\ after \in SUBSET (1..Len(bars))
    <3>1. PICK a, b \in Days(bars) : a <= day /\ day <= b
      OBVIOUS
    <3>2. PICK i, j \in DOMAIN bars : a = bars[i] /\ b = bars[j]
      BY DEF Days
    <3>3. bars[i] \in Nat /\ bars[j] \in Nat /\ bars[i] # day /\ bars[j] # day
      BY <1>2, <1>4, <3>2 DEF Days
    <3>4. i \in before /\ j \in after
      BY <3>1, <3>2, <3>3
    <3> QED BY <1>1, <3>4
  <2>2. PICK last : last = CHOOSE i \in before : \A j \in before : j <= i
    OBVIOUS
  <2>3. PICK first : first = CHOOSE i \in after : \A j \in after : i <= j
    OBVIOUS
  <2>4. last \in before /\ \A j \in before : j <= last
    <3>1. \E i \in before : \A j \in before : j <= i
      <4> HIDE DEF before, after
      <4> QED BY <1>1, <2>1, PlacesHaveEnds
    <3> HIDE DEF before
    <3> QED BY <2>2, <3>1
  <2>5. first \in after /\ \A j \in after : first <= j
    <3>1. \E i \in after : \A j \in after : i <= j
      <4> HIDE DEF before, after
      <4> QED BY <1>1, <2>1, PlacesHaveEnds
    <3> HIDE DEF after
    <3> QED BY <2>3, <3>1
  <2>6. TimeToCoordinate(bars[last], bars) = 2 * last /\ TimeToCoordinate(bars[first], bars) = 2 * first
    BY <2>4, <2>5, CoordinateIs
  <2>7. (2 * last + 2 * first) \div 2 \in DayCoordinate(day, bars, bars)
    <3>1. DayCoordinate(day, bars, bars) =
            {(TimeToCoordinate(bars[last], bars) + TimeToCoordinate(bars[first], bars)) \div 2}
      BY <1>4, <2>1, <2>2, <2>3, Zenon DEF DayCoordinate
    <3> QED BY <2>6, <3>1
  <2>8. last \in Nat /\ first \in Nat /\ last < first
    <3>1. last \in DOMAIN bars /\ first \in DOMAIN bars /\ bars[last] < day /\ day < bars[first]
      BY <2>4, <2>5
    <3>2. /\ last \in Nat /\ first \in Nat /\ bars[last] \in Nat /\ bars[first] \in Nat
          /\ bars[last] < bars[first] => last < first
      BY <1>2, <3>1
    <3> QED BY <3>1, <3>2
  <2>9. (2 * last + 2 * first) \div 2 = last + first
    BY <2>8
  <2>10. \A i \in DOMAIN bars : (bars[i] < day => 2 * i < last + first) /\ (bars[i] > day => last + first < 2 * i)
    <3> TAKE i \in DOMAIN bars
    <3>1. i \in Nat
      BY <1>2
    <3>2. (bars[i] < day => i <= last) /\ (bars[i] > day => first <= i)
      BY <2>4, <2>5
    <3> HIDE DEF before, after
    <3> QED BY <2>8, <3>1, <3>2
  <2> HIDE DEF before, after
  <2> QED BY <2>7, <2>9, <2>10
<1> QED BY <1>3, <1>4

LEMMA ChartShows == DrawnInv => ChartFollowsPage
<1> SUFFICES ASSUME DrawnInv PROVE ChartFollowsPage
  OBVIOUS
<1>1. /\ ecChart.candles = ecBars /\ ecChart.averages = Averages /\ ecChart.marks = ecMarked
      /\ ecLost => ecChart.visible = FALSE
      /\ ~ ecLost => /\ ecChart.visible = TRUE /\ ecChart.events = ecFiltered
                     /\ ecChart.times = ecBars /\ ecChart.monthly = (ecBars \in EcMonthly)
      /\ ecBars \in EcBars /\ ecFiltered \subseteq EcEvent /\ ecMarked \subseteq Days(ecBars)
  BY DEF DrawnInv, ChartInv, ChartIsDrawn, Props
<1>2. DrawnMarks = ecMarked
  BY <1>1 DEF DrawnMarks
<1>3. ecLost => DrawnLines = {}
  BY <1>1 DEF DrawnLines
<1>4. ~ ecLost => DrawnLines = PlacedLines(ecFiltered, ecBars, ecBars, ecBars \in EcMonthly)
  BY <1>1 DEF DrawnLines
<1> DEFINE SpotOf(e) == EventCoordinate(e, ecBars, ecBars, ecBars \in EcMonthly)
<1>5. \A line \in DrawnLines : line.events = {e \in ecFiltered : line.x \in SpotOf(e)}
  BY <1>3, <1>4 DEF PlacedLines
<1>6. \A line, other \in DrawnLines :
        line # other => line.x # other.x /\ line.events \cap other.events = {}
  <2> SUFFICES ASSUME NEW line \in DrawnLines, NEW other \in DrawnLines, line # other
               PROVE  line.x # other.x /\ line.events \cap other.events = {}
    OBVIOUS
  <2>1. line.x # other.x
    <3>1. ~ ecLost
      BY <1>3
    <3>2. PICK x : line = [x |-> x, events |-> {e \in ecFiltered : x \in SpotOf(e)}]
      BY <1>4, <3>1 DEF PlacedLines
    <3>3. PICK y : other = [x |-> y, events |-> {e \in ecFiltered : y \in SpotOf(e)}]
      BY <1>4, <3>1 DEF PlacedLines
    <3>4. line.x = x /\ other.x = y
      BY <3>2, <3>3
    <3> HIDE DEF SpotOf
    <3> QED BY <3>2, <3>3, <3>4
  <2>2. ASSUME NEW e \in line.events, e \in other.events PROVE FALSE
    <3>1. line.x \in SpotOf(e) /\ other.x \in SpotOf(e)
      BY <1>5, <2>2
    <3> QED BY <1>1, <2>1, <3>1, EventAtOnePlace
  <2> HIDE DEF SpotOf
  <2> QED BY <2>1, <2>2
<1>7. ASSUME NEW e \in ecFiltered, ~ ecLost, \E a, b \in Days(ecBars) : a <= e /\ e <= b, ecBars \notin EcMonthly
      PROVE  \E line \in DrawnLines :
               /\ e \in line.events
               /\ \A i \in DOMAIN ecBars : /\ (ecBars[i] < e => 2 * i < line.x)
                                           /\ (ecBars[i] > e => line.x < 2 * i)
  <2>1. e \in Nat
    BY <1>1, EcAssumption
  <2>2. PICK x \in DayCoordinate(e, ecBars, ecBars) :
          \A i \in DOMAIN ecBars : (ecBars[i] < e => 2 * i < x) /\ (ecBars[i] > e => x < 2 * i)
    BY <1>1, <1>7, <2>1, EventBetween
  <2>3. x \in SpotOf(e)
    BY <1>7, <2>2 DEF EventCoordinate
  <2> HIDE DEF SpotOf
  <2>4. PICK line : line = [x |-> x, events |-> {d \in ecFiltered : x \in SpotOf(d)}]
    OBVIOUS
  <2>5. line \in DrawnLines
    BY <1>4, <1>7, <2>3, <2>4 DEF PlacedLines, SpotOf
  <2>6. e \in line.events /\ line.x = x
    BY <1>7, <2>3, <2>4
  <2> QED BY <2>2, <2>5, <2>6
<1> QED BY <1>1, <1>2, <1>4, <1>6, <1>7 DEF ChartFollowsPage

LEMMA DrawnStep == DrawnInv /\ [EcNext]_ecVars => DrawnInv'
<1> SUFFICES ASSUME DrawnInv, [EcNext]_ecVars PROVE DrawnInv'
  OBVIOUS
<1> USE DEF DrawnInv
<1>1. ASSUME RenderChart, ChartInv', ecBars' \in EcBars, ecFiltered' \subseteq EcEvent, ecMarked' \subseteq Days(ecBars')
      PROVE  DrawnInv'
  <2>1. ChartIsDrawn(ecChart', ecShown', ecLost') /\ ecLost' \in BOOLEAN
    BY <1>1, RenderDraws
  <2> QED BY <1>1, <2>1 DEF ChartIsDrawn, Days
<1>2. CASE UNCHANGED ecVars
  BY <1>2 DEF ecVars, ChartInv, ChartShape, Props, Averages, ChartIsDrawn, Days
<1>3. CASE EcNext
  <2>1. ChartInv'
    BY <1>3, ChartStep
  <2>2. ASSUME NEW bars \in EcBars, ChangeBars(bars) PROVE DrawnInv'
    <3>1. RenderChart /\ ecBars' = bars /\ ecFiltered' = ecFiltered /\ ecMarked' = ecMarked \cap Days(bars)
      BY <2>2 DEF ChangeBars, Change
    <3> QED BY <1>1, <2>1, <3>1
  <2>3. CASE SwitchLocale
    <3>1. RenderChart /\ UNCHANGED <<ecBars, ecFiltered, ecMarked>>
      BY <2>3 DEF SwitchLocale, Change
    <3> QED BY <1>1, <2>1, <3>1
  <2>4. CASE Zoom
    <3>1. /\ ecChart' = [ecChart EXCEPT !.zoomed = TRUE]
          /\ UNCHANGED <<ecBars, ecFiltered, ecMarked, ecShown, ecLost>>
      BY <2>4 DEF Zoom
    <3>2. /\ ecChart'.candles = ecChart.candles /\ ecChart'.averages = ecChart.averages
          /\ ecChart'.marks = ecChart.marks /\ ecChart'.visible = ecChart.visible
          /\ ecChart'.events = ecChart.events /\ ecChart'.times = ecChart.times
          /\ ecChart'.monthly = ecChart.monthly
      BY <3>1 DEF ChartInv, ChartShape
    <3> QED BY <2>1, <3>1, <3>2 DEF ChartIsDrawn, Days
  <2>5. CASE MoveCrosshair
    <3>1. UNCHANGED <<ecBars, ecFiltered, ecMarked, ecShown, ecChart, ecLost>>
      BY <2>5 DEF MoveCrosshair, Hover
    <3> QED BY <2>1, <3>1 DEF ChartIsDrawn, Days
  <2>6. ASSUME NEW events \in SUBSET EcEvent, FilterEvents(events) PROVE DrawnInv'
    <3>1. RenderChart /\ ecFiltered' = events /\ UNCHANGED <<ecBars, ecMarked>>
      BY <2>6 DEF FilterEvents, Change
    <3> QED BY <1>1, <2>1, <3>1
  <2>7. ASSUME NEW marks \in SUBSET Days(ecBars), ChangeMarks(marks) PROVE DrawnInv'
    <3>1. RenderChart /\ ecMarked' = marks /\ UNCHANGED <<ecBars, ecFiltered>>
      BY <2>7 DEF ChangeMarks, Change
    <3> QED BY <1>1, <2>1, <3>1
  <2> QED BY <1>3, <2>2, <2>3, <2>4, <2>5, <2>6, <2>7 DEF EcNext
<1> QED BY <1>2, <1>3

LEMMA DrawnStarts == EcInit => DrawnInv
<1> SUFFICES ASSUME EcInit PROVE DrawnInv
  OBVIOUS
<1>1. ecBars \in EcBars
  <2>1. \E bars \in EcBars \ EcMonthly : TRUE
    BY EcAssumption
  <2>2. ecBars \in EcBars \ EcMonthly
    BY <2>1 DEF EcInit
  <2> QED BY <2>2
<1>2. ecBars \notin EcMonthly
  <2>1. \E bars \in EcBars \ EcMonthly : TRUE
    BY EcAssumption
  <2>2. ecBars \in EcBars \ EcMonthly
    BY <2>1 DEF EcInit
  <2> QED BY <2>2
<1>3. ChartInv
  BY DEF EcInit, ChartInv, ChartShape, NewChart, Props, Averages
<1>4. /\ ecChart.candles = ecBars /\ ecChart.averages = Averages /\ ecChart.times = ecBars
      /\ ecChart.events = EcEvent /\ ecChart.visible = TRUE /\ ecChart.marks = {} /\ ecChart.monthly = FALSE
  BY DEF EcInit, NewChart
<1>5. (ecBars \in EcMonthly) = FALSE
  BY <1>2
<1>6. ChartIsDrawn(ecChart, ecShown, ecLost)
  BY <1>4, <1>5 DEF EcInit, Props, ChartIsDrawn
<1> QED BY <1>1, <1>3, <1>6 DEF EcInit, DrawnInv

\* The chart shows the bars, averages and marks of its page and draws each event of the filter once, on or
\* between its bars (TVChart.tsx and its primitives), for any bars in order, months and events.
THEOREM ChartAlwaysFollowsPage == EcSpec => []ChartFollowsPage
<1>1. EcInit => DrawnInv
  BY DrawnStarts
<1>2. DrawnInv /\ [EcNext]_ecVars => DrawnInv'
  BY DrawnStep
<1>3. DrawnInv => ChartFollowsPage
  BY ChartShows
<1> QED BY <1>1, <1>2, <1>3, PTL DEF EcSpec

-----------------------------------------------------------------------------
(* The market page.                                                        *)

MsScreens ==
  [here : BOOLEAN, panel : BOOLEAN, pending : BOOLEAN, index : BOOLEAN, tab : {"crash", "surge"},
   card : Nat, dragged : BOOLEAN, pageTab : {"instruments", "spreads"}, waits : SUBSET MsKey]

SignalTypes ==
  /\ msServer \in Latest /\ msData \in Latest \cup {NoMs}
  /\ msRead.phase = "served" => msRead.value \in Latest
  /\ msScreen \in MsScreens /\ msSeen \subseteq MsKey /\ msBlocked \in BOOLEAN
  /\ msTimes \in [MsKey -> Nat]
  /\ msStored \in {"none", "instruments", "spreads"} /\ msChosen \in {"instruments", "spreads"}

\* One dialog at a time; an opening waits only behind the dialog of an index, on a page that is open.
OneDialog(s) ==
  /\ ~ (s.panel /\ s.index) /\ (s.pending => s.index)
  /\ s.waits # {} => s.pending /\ s.here

\* With storage, what was seen has opened the panel or waits to, or its waiting was cut short; what
\* was not seen never did.
OpenedOnce ==
  /\ msBlocked => msSeen = {}
  /\ ~ msBlocked => \A k \in MsKey :
       /\ k \notin msSeen => msTimes[k] = 0
       /\ k \in msScreen.waits => k \in msSeen /\ msTimes[k] = 0
       /\ k \in msSeen => msTimes[k] = 1 \/ k \in msScreen.waits \/ k \in msCut

\* The tab that is stored is the one that was chosen.
TabIsStored ==
  /\ msScreen.here => msScreen.pageTab = msChosen
  /\ ~ msBlocked /\ msStored = "none" => msChosen = "instruments"
  /\ ~ msBlocked /\ msStored # "none" => msStored = msChosen

SignalInv == SignalTypes /\ OneDialog(msScreen) /\ OpenedOnce /\ TabIsStored

\* What stays of a screen when only its dialogs, its tab or its deck move.
SameVisit(s, t) == s.here = t.here /\ s.pageTab = t.pageTab

LEMMA OpenPanelIs ==
  ASSUME NEW s \in MsScreens, NEW d
  PROVE  /\ OpenPanel(s, d) \in MsScreens /\ OpenPanel(s, d).panel
         /\ OpenPanel(s, d).here = s.here /\ OpenPanel(s, d).pageTab = s.pageTab
         /\ OpenPanel(s, d).index = s.index /\ OpenPanel(s, d).pending = s.pending
         /\ OpenPanel(s, d).waits = s.waits
<1>1. PICK tab : tab = IF s.panel THEN s.tab ELSE InitialTab(d)
  OBVIOUS
<1>2. tab \in {"crash", "surge"}
  BY <1>1 DEF InitialTab, MsScreens
<1>3. OpenPanel(s, d) = [s EXCEPT !.panel = TRUE, !.tab = tab]
  BY <1>1 DEF OpenPanel
<1>4. TRUE \in BOOLEAN
  OBVIOUS
<1>5. [s EXCEPT !.panel = TRUE, !.tab = tab] \in MsScreens
  BY <1>2, <1>4 DEF MsScreens
<1>6. /\ [s EXCEPT !.panel = TRUE, !.tab = tab].panel
      /\ [s EXCEPT !.panel = TRUE, !.tab = tab].here = s.here
      /\ [s EXCEPT !.panel = TRUE, !.tab = tab].pageTab = s.pageTab
      /\ [s EXCEPT !.panel = TRUE, !.tab = tab].index = s.index
      /\ [s EXCEPT !.panel = TRUE, !.tab = tab].pending = s.pending
      /\ [s EXCEPT !.panel = TRUE, !.tab = tab].waits = s.waits
  BY DEF MsScreens
<1> QED BY <1>3, <1>5, <1>6, Zenon

LEMMA ResetDeckIs ==
  ASSUME NEW s \in MsScreens
  PROVE  /\ ResetDeck(s) \in MsScreens /\ ResetDeck(s).here = s.here /\ ResetDeck(s).pageTab = s.pageTab
         /\ ResetDeck(s).panel = s.panel /\ ResetDeck(s).index = s.index
         /\ ResetDeck(s).pending = s.pending /\ ResetDeck(s).waits = s.waits
BY DEF ResetDeck, MsScreens

LEMMA MsKeysAreKeys == ASSUME NEW d \in Latest \cup {NoMs} PROVE Keys(d) \subseteq MsKey /\ Fresh(d) \subseteq Keys(d)
BY DEF Keys, Latest, MsKey, Fresh

LEMMA CountedIs ==
  ASSUME msTimes \in [MsKey -> Nat], NEW keys
  PROVE  /\ Counted(keys) \in [MsKey -> Nat]
         /\ \A k \in MsKey : /\ k \notin keys => Counted(keys)[k] = msTimes[k]
                             /\ k \in keys /\ msTimes[k] = 0 => Counted(keys)[k] = 1
BY DEF Counted

\* The effect that opens the panel, or has it wait, on a screen that is about to be shown.
LEMMA AutoOpens ==
  ASSUME SignalTypes, OpenedOnce, NEW s \in MsScreens, OneDialog(s), s.here, s.waits = msScreen.waits,
         NEW d \in Latest \cup {NoMs}, AutoOpenEffect(s, d), UNCHANGED <<msBlocked, msCut>>
  PROVE  /\ msScreen' \in MsScreens /\ msScreen'.here /\ msScreen'.pageTab = s.pageTab
         /\ OneDialog(msScreen') /\ OpenedOnce'
         /\ msSeen' \subseteq MsKey /\ msTimes' \in [MsKey -> Nat]
<1>1. /\ msScreen' = AutoOpen(s, d)
      /\ msSeen' = IF msBlocked THEN msSeen ELSE msSeen \cup Keys(d)
      /\ msTimes' = IF s.index THEN msTimes ELSE Counted(Fresh(d))
  BY DEF AutoOpenEffect
<1>2. Keys(d) \subseteq MsKey /\ Fresh(d) \subseteq Keys(d) /\ (~ msBlocked => Fresh(d) = Keys(d) \ msSeen)
  BY MsKeysAreKeys DEF Fresh
<1>3. PICK fresh : fresh = Fresh(d)
  OBVIOUS
<1>4. /\ Counted(fresh) \in [MsKey -> Nat]
      /\ \A k \in MsKey : /\ k \notin fresh => Counted(fresh)[k] = msTimes[k]
                          /\ k \in fresh /\ msTimes[k] = 0 => Counted(fresh)[k] = 1
  BY CountedIs DEF SignalTypes
<1>5. /\ msScreen' \in MsScreens /\ msScreen'.here /\ msScreen'.pageTab = s.pageTab
      /\ msScreen'.waits = IF s.index THEN s.waits \cup fresh ELSE s.waits
      /\ OneDialog(msScreen')
  <2>1. CASE fresh = {}
    <3>1. msScreen' = s
      BY <1>1, <1>3, <2>1 DEF AutoOpen
    <3> QED BY <2>1, <3>1
  <2>2. CASE fresh # {} /\ s.index
    <3>1. msScreen' = [s EXCEPT !.pending = TRUE, !.waits = s.waits \cup fresh]
      BY <1>1, <1>3, <2>2 DEF AutoOpen
    <3>2. s.waits \cup fresh \in SUBSET MsKey /\ TRUE \in BOOLEAN
      BY <1>2, <1>3 DEF MsScreens
    <3>3. msScreen' \in MsScreens
      BY <3>1, <3>2 DEF MsScreens
    <3>4. /\ msScreen'.here = s.here /\ msScreen'.pageTab = s.pageTab /\ msScreen'.waits = s.waits \cup fresh
          /\ msScreen'.panel = s.panel /\ msScreen'.index = s.index /\ msScreen'.pending
      BY <3>1 DEF MsScreens
    <3> QED BY <2>2, <3>3, <3>4 DEF OneDialog
  <2>3. CASE fresh # {} /\ ~ s.index
    <3>1. msScreen' = OpenPanel(s, d)
      BY <1>1, <1>3, <2>3 DEF AutoOpen
    <3>2. /\ msScreen' \in MsScreens /\ msScreen'.panel /\ msScreen'.here = s.here
          /\ msScreen'.pageTab = s.pageTab /\ msScreen'.index = s.index
          /\ msScreen'.pending = s.pending /\ msScreen'.waits = s.waits
      BY <3>1, OpenPanelIs
    <3> QED BY <2>3, <3>2 DEF OneDialog
  <2> QED BY <2>1, <2>2, <2>3
<1>6. msSeen' \subseteq MsKey
  BY <1>1, <1>2 DEF SignalTypes
<1>7. msTimes' \in [MsKey -> Nat]
  BY <1>1, <1>3, <1>4 DEF SignalTypes
<1>8. ASSUME ~ msBlocked, NEW k \in MsKey
      PROVE  /\ k \notin msSeen' => msTimes'[k] = 0
             /\ k \in msScreen'.waits => k \in msSeen' /\ msTimes'[k] = 0
             /\ k \in msSeen' => msTimes'[k] = 1 \/ k \in msScreen'.waits \/ k \in msCut
  <2>1. /\ k \notin msSeen => msTimes[k] = 0
        /\ k \in s.waits => k \in msSeen /\ msTimes[k] = 0
        /\ k \in msSeen => msTimes[k] = 1 \/ k \in s.waits \/ k \in msCut
    BY <1>8 DEF OpenedOnce
  <2>2. /\ k \in msSeen' <=> k \in msSeen \/ k \in fresh
        /\ k \in fresh => k \notin msSeen
    BY <1>1, <1>2, <1>3, <1>8
  <2>3. CASE s.index
    <3>1. msTimes' = msTimes
      BY <1>1, <2>3
    <3> QED BY <1>5, <2>1, <2>2, <2>3, <3>1
  <2>4. CASE ~ s.index
    <3>1. msTimes' = Counted(fresh)
      BY <1>1, <1>3, <2>4
    <3>2. (k \notin fresh => msTimes'[k] = msTimes[k]) /\ (k \in fresh /\ msTimes[k] = 0 => msTimes'[k] = 1)
      BY <1>4, <3>1
    <3> QED BY <1>5, <2>1, <2>2, <2>4, <3>2
  <2> QED BY <2>3, <2>4
<1>9. OpenedOnce'
  BY <1>1, <1>8 DEF OpenedOnce
<1> QED BY <1>5, <1>6, <1>7, <1>9

\* A step that leaves what is seen and counted, and whose screen waits for the same.
LEMMA ScreenMoves ==
  ASSUME SignalInv, msScreen' \in MsScreens, msScreen'.here = msScreen.here, OneDialog(msScreen'),
         msScreen'.waits = msScreen.waits, UNCHANGED <<msServer, msSeen, msBlocked, msTimes, msCut>>,
         msData' \in Latest \cup {NoMs}, msRead'.phase = "served" => msRead'.value \in Latest,
         \/ UNCHANGED <<msStored, msChosen>> /\ msScreen'.pageTab = msScreen.pageTab
         \/ /\ msScreen'.pageTab \in {"instruments", "spreads"}
            /\ msChosen' = msScreen'.pageTab /\ msStored' = IF msBlocked THEN msStored ELSE msChosen'
  PROVE  SignalInv'
<1>1. SignalTypes'
  BY DEF SignalInv, SignalTypes
<1>2. OpenedOnce'
  BY DEF SignalInv, OpenedOnce
<1>3. TabIsStored'
  BY DEF SignalInv, TabIsStored, SignalTypes
<1> QED BY <1>1, <1>2, <1>3 DEF SignalInv, OneDialog

LEMMA ControlsMove ==
  ASSUME SignalInv, NEW s \in MsScreens, OnScreen(s), s.here = msScreen.here, s.waits = msScreen.waits,
         s.pending = msScreen.pending, ~ (s.panel /\ s.index), s.pending => s.index,
         \/ UNCHANGED <<msStored, msChosen>> /\ s.pageTab = msScreen.pageTab
         \/ msChosen' = s.pageTab /\ msStored' = IF msBlocked THEN msStored ELSE msChosen'
  PROVE  SignalInv'
<1>1. /\ msScreen' = s
      /\ UNCHANGED <<msServer, msData, msErr, msRead, msSeen, msBlocked, msTimes, msCut, msUsed>>
  BY DEF OnScreen
<1>2. OneDialog(s)
  BY DEF SignalInv, OneDialog
<1>3. s.pageTab \in {"instruments", "spreads"}
  BY DEF MsScreens
<1> QED BY <1>1, <1>2, <1>3, ScreenMoves DEF SignalInv, SignalTypes

LEMMA PollIsKept == SignalInv /\ PollAnswered => SignalInv'
<1> SUFFICES ASSUME SignalInv, PollAnswered PROVE SignalInv'
  OBVIOUS
<1> DEFINE D == IF msRead.phase = "failed" THEN msData ELSE msRead.value
           Same == DeckOf(msScreen, D, msErr', msRecord) = DeckOf(msScreen, msData, msErr, msRecord)
<1>1. PICK d, s : d = D /\ s = IF Same THEN msScreen ELSE ResetDeck(msScreen)
  OBVIOUS
<1>2. /\ msRead.phase \in {"served", "failed"} /\ msRead' = Request("none", NoMs)
      /\ msData' = d
      /\ IF msScreen.here /\ Keys(d) # Keys(msData) THEN AutoOpenEffect(s, d)
         ELSE msScreen' = s /\ UNCHANGED <<msSeen, msTimes>>
      /\ UNCHANGED <<msServer, msBlocked, msStored, msCut, msChosen, msUsed>>
  BY <1>1 DEF PollAnswered
<1>3. d \in Latest \cup {NoMs}
  BY <1>1, <1>2 DEF SignalInv, SignalTypes
<1>4. /\ s \in MsScreens /\ s.here = msScreen.here /\ s.pageTab = msScreen.pageTab
      /\ s.waits = msScreen.waits /\ OneDialog(s)
  <2>1. msScreen \in MsScreens /\ OneDialog(msScreen)
    BY DEF SignalInv, SignalTypes
  <2>2. s = msScreen \/ s = ResetDeck(msScreen)
    BY <1>1
  <2> HIDE DEF Same
  <2> QED BY <2>1, <2>2, ResetDeckIs DEF OneDialog
<1>5. msRead'.phase # "served"
  BY <1>2 DEF Request
<1> HIDE DEF D, Same
<1>6. CASE msScreen.here /\ Keys(d) # Keys(msData)
  <2>1. /\ msScreen' \in MsScreens /\ msScreen'.here /\ msScreen'.pageTab = s.pageTab
        /\ OneDialog(msScreen') /\ OpenedOnce'
        /\ msSeen' \subseteq MsKey /\ msTimes' \in [MsKey -> Nat]
    BY <1>2, <1>3, <1>4, <1>6, AutoOpens DEF SignalInv
  <2>2. SignalTypes'
    BY <1>2, <1>3, <1>5, <2>1 DEF SignalInv, SignalTypes
  <2>3. TabIsStored'
    BY <1>2, <1>4, <1>6, <2>1 DEF SignalInv, TabIsStored
  <2> QED BY <2>1, <2>2, <2>3 DEF SignalInv, OneDialog
<1>7. CASE ~ (msScreen.here /\ Keys(d) # Keys(msData))
  <2>1. msScreen' = s /\ UNCHANGED <<msSeen, msTimes>>
    BY <1>2, <1>7
  <2> QED BY <1>2, <1>3, <1>4, <1>5, <2>1, ScreenMoves
<1> QED BY <1>6, <1>7

LEMMA VisitIsKept == ASSUME SignalInv, NEW reloaded, Visit(reloaded) PROVE SignalInv'
<1>1. PICK d : d = IF reloaded THEN NoMs ELSE msData
  OBVIOUS
<1>2. PICK s : s = [NoScreen EXCEPT !.here = TRUE, !.pageTab = Restored]
  OBVIOUS
<1>3. /\ ~ msScreen.here /\ AutoOpenEffect(s, d) /\ msData' = d
      /\ \/ msRead' = Request("asked", NoMs)
         \/ msRead' = msRead
      /\ msStored' = IF msBlocked THEN msStored ELSE Restored
      /\ msChosen' = IF msBlocked THEN "instruments" ELSE msChosen
      /\ UNCHANGED <<msServer, msBlocked, msCut>>
  BY <1>1, <1>2 DEF Visit
<1>4. d \in Latest \cup {NoMs}
  BY <1>1 DEF SignalInv, SignalTypes
<1>5. Restored \in {"instruments", "spreads"}
  BY DEF SignalInv, SignalTypes, Restored
<1>6. /\ s \in MsScreens /\ s.here /\ s.pageTab = Restored /\ s.waits = {}
      /\ ~ s.panel /\ ~ s.pending
  <2>1. PICK t : t = Restored
    OBVIOUS
  <2>2. s = [here |-> TRUE, panel |-> FALSE, pending |-> FALSE, index |-> FALSE, tab |-> "crash",
             card |-> 0, dragged |-> FALSE, pageTab |-> t, waits |-> {}]
    BY <1>2, <2>1 DEF NoScreen
  <2>3. TRUE \in BOOLEAN /\ FALSE \in BOOLEAN
    OBVIOUS
  <2>4. s \in MsScreens
    BY <1>5, <2>1, <2>2, <2>3 DEF MsScreens
  <2> QED BY <2>1, <2>2, <2>4
<1>7. OneDialog(s) /\ s.waits = msScreen.waits
  BY <1>3, <1>6 DEF OneDialog, SignalInv
<1>8. /\ msScreen' \in MsScreens /\ msScreen'.here /\ msScreen'.pageTab = s.pageTab
      /\ OneDialog(msScreen') /\ OpenedOnce'
      /\ msSeen' \subseteq MsKey /\ msTimes' \in [MsKey -> Nat]
  BY <1>3, <1>4, <1>6, <1>7, AutoOpens DEF SignalInv
<1>9. SignalTypes'
  BY <1>3, <1>4, <1>5, <1>8 DEF SignalInv, SignalTypes, Request
<1>10. TabIsStored'
  <2>1. msBlocked => Restored = "instruments"
    BY DEF Restored
  <2>2. ~ msBlocked => Restored = msChosen
    BY DEF Restored, SignalInv, TabIsStored
  <2> QED BY <1>3, <1>5, <1>6, <1>8, <2>1, <2>2 DEF TabIsStored
<1> QED BY <1>8, <1>9, <1>10 DEF SignalInv, OneDialog

LEMMA LeavingIsKept == SignalInv /\ LeaveMarket => SignalInv'
<1> SUFFICES ASSUME SignalInv, LeaveMarket PROVE SignalInv'
  OBVIOUS
<1>1. /\ msScreen' = NoScreen /\ msCut' = msCut \cup msScreen.waits
      /\ UNCHANGED <<msServer, msData, msErr, msRead, msRecord, msSeen, msBlocked, msStored, msTimes, msChosen>>
  BY DEF LeaveMarket
<1>2. /\ NoScreen \in MsScreens /\ ~ NoScreen.here /\ NoScreen.waits = {} /\ ~ NoScreen.panel /\ ~ NoScreen.pending
  <2>1. TRUE \in BOOLEAN /\ FALSE \in BOOLEAN
    OBVIOUS
  <2> QED BY <2>1 DEF NoScreen, MsScreens
<1>3. SignalTypes'
  BY <1>1, <1>2 DEF SignalInv, SignalTypes
<1>4. OneDialog(msScreen)'
  BY <1>1, <1>2 DEF OneDialog
<1>5. OpenedOnce'
  BY <1>1, <1>2 DEF SignalInv, OpenedOnce
<1>6. TabIsStored'
  BY <1>1, <1>2 DEF SignalInv, TabIsStored
<1> QED BY <1>3, <1>4, <1>5, <1>6 DEF SignalInv

LEMMA ClosingIsKept == SignalInv /\ CloseIndex => SignalInv'
<1> SUFFICES ASSUME SignalInv, CloseIndex PROVE SignalInv'
  OBVIOUS
<1>1. /\ msScreen.index /\ msScreen.here /\ msScreen' = DetailClosed
      /\ msTimes' = IF msScreen'.panel THEN Counted(msScreen.waits) ELSE msTimes
      /\ UNCHANGED <<msServer, msData, msErr, msRead, msSeen, msBlocked, msStored, msCut, msChosen>>
  BY DEF CloseIndex
<1>2. msScreen \in MsScreens /\ OneDialog(msScreen)
  BY DEF SignalInv, SignalTypes
<1>3. PICK s : s = [msScreen EXCEPT !.index = FALSE, !.pending = FALSE, !.waits = {}]
  OBVIOUS
<1>4. /\ s \in MsScreens /\ s.here = msScreen.here /\ s.pageTab = msScreen.pageTab
      /\ ~ s.index /\ ~ s.pending /\ s.waits = {} /\ s.panel = msScreen.panel
  <2>1. FALSE \in BOOLEAN /\ {} \in SUBSET MsKey
    OBVIOUS
  <2> QED BY <1>2, <1>3, <2>1 DEF MsScreens
<1>5. /\ msScreen' \in MsScreens /\ msScreen'.here /\ msScreen'.pageTab = msScreen.pageTab
      /\ ~ msScreen'.index /\ ~ msScreen'.pending /\ msScreen'.waits = {}
      /\ msScreen.pending => msScreen'.panel
  <2>1. msScreen' = IF msScreen.pending THEN OpenPanel(s, msData) ELSE s
    BY <1>1, <1>3 DEF DetailClosed
  <2>2. CASE msScreen.pending
    <3>1. msScreen' = OpenPanel(s, msData)
      BY <2>1, <2>2
    <3>2. PICK t : t = OpenPanel(s, msData)
      OBVIOUS
    <3>3. /\ t \in MsScreens /\ t.panel /\ t.here = s.here /\ t.pageTab = s.pageTab
          /\ t.index = s.index /\ t.pending = s.pending /\ t.waits = s.waits
      BY <1>4, <3>2, OpenPanelIs
    <3> QED BY <1>1, <1>4, <3>1, <3>2, <3>3
  <2>3. CASE ~ msScreen.pending
    BY <1>1, <1>4, <2>1, <2>3
  <2> QED BY <2>2, <2>3
<1>6. OneDialog(msScreen)'
  BY <1>5 DEF OneDialog
<1>7. PICK waits : waits = msScreen.waits
  OBVIOUS
<1>8. /\ Counted(waits) \in [MsKey -> Nat]
      /\ \A k \in MsKey : /\ k \notin waits => Counted(waits)[k] = msTimes[k]
                          /\ k \in waits /\ msTimes[k] = 0 => Counted(waits)[k] = 1
  BY CountedIs DEF SignalInv, SignalTypes
<1>9. msTimes' \in [MsKey -> Nat]
  BY <1>1, <1>7, <1>8 DEF SignalInv, SignalTypes
<1>10. ASSUME NEW k \in MsKey
       PROVE  (k \notin waits => msTimes'[k] = msTimes[k]) /\ (k \in waits /\ msTimes[k] = 0 => msTimes'[k] = 1)
  <2>1. CASE msScreen'.panel
    <3>1. msTimes' = Counted(waits)
      BY <1>1, <1>7, <2>1
    <3> QED BY <1>8, <3>1
  <2>2. CASE ~ msScreen'.panel
    <3>1. waits = {}
      BY <1>2, <1>5, <1>7, <2>2 DEF OneDialog
    <3>2. msTimes' = msTimes
      BY <1>1, <2>2
    <3> QED BY <3>1, <3>2
  <2> QED BY <2>1, <2>2
<1>11. OpenedOnce'
  BY <1>1, <1>5, <1>7, <1>10 DEF SignalInv, OpenedOnce
<1>12. SignalTypes'
  BY <1>1, <1>5, <1>9 DEF SignalInv, SignalTypes
<1>13. TabIsStored'
  BY <1>1, <1>5 DEF SignalInv, TabIsStored
<1> QED BY <1>6, <1>11, <1>12, <1>13 DEF SignalInv

\* The controls of the page, of its panel and of the deck.
LEMMA PanelControls ==
  ASSUME SignalInv,
         \/ ClickStrip \/ ClosePanel \/ OpenIndex
         \/ \E tab \in {"instruments", "spreads"} : SelectPageTab(tab)
  PROVE  SignalInv'
<1>1. msScreen \in MsScreens /\ OneDialog(msScreen)
  BY DEF SignalInv, SignalTypes
<1>2. CASE ClickStrip
  <2>1. PICK s : s = OpenPanel(msScreen, msData)
    OBVIOUS
  <2>2. OnScreen(s) /\ ~ msScreen.index /\ UNCHANGED <<msStored, msChosen>>
    BY <1>2, <2>1 DEF ClickStrip, Dialog
  <2>3. /\ s \in MsScreens /\ s.here = msScreen.here /\ s.waits = msScreen.waits
        /\ s.pending = msScreen.pending /\ s.index = msScreen.index /\ s.pageTab = msScreen.pageTab
    BY <1>1, <2>1, OpenPanelIs
  <2> QED BY <1>1, <2>2, <2>3, ControlsMove DEF OneDialog
<1>3. CASE ClosePanel
  <2>1. PICK t : t = [msScreen EXCEPT !.panel = FALSE]
    OBVIOUS
  <2>2. /\ t \in MsScreens /\ t.here = msScreen.here /\ t.waits = msScreen.waits /\ t.pending = msScreen.pending
        /\ t.index = msScreen.index /\ t.pageTab = msScreen.pageTab /\ ~ t.panel
    <3>1. FALSE \in BOOLEAN
      OBVIOUS
    <3> QED BY <1>1, <2>1, <3>1 DEF MsScreens
  <2>3. PICK s : s = ResetDeck(t)
    OBVIOUS
  <2>4. OnScreen(s) /\ UNCHANGED <<msStored, msChosen>>
    BY <1>3, <2>1, <2>3 DEF ClosePanel
  <2>5. /\ s \in MsScreens /\ s.here = t.here /\ s.waits = t.waits /\ s.pending = t.pending
        /\ s.index = t.index /\ s.pageTab = t.pageTab /\ s.panel = t.panel
    BY <2>2, <2>3, ResetDeckIs
  <2> QED BY <1>1, <2>2, <2>4, <2>5, ControlsMove DEF OneDialog
<1>4. CASE OpenIndex
  <2>1. PICK s : s = [msScreen EXCEPT !.index = TRUE]
    OBVIOUS
  <2>2. OnScreen(s) /\ ~ msScreen.panel /\ UNCHANGED <<msStored, msChosen>>
    BY <1>4, <2>1 DEF OpenIndex, Dialog
  <2>3. /\ s \in MsScreens /\ s.here = msScreen.here /\ s.waits = msScreen.waits /\ s.pending = msScreen.pending
        /\ s.index /\ s.pageTab = msScreen.pageTab /\ s.panel = msScreen.panel
    <3>1. TRUE \in BOOLEAN
      OBVIOUS
    <3> QED BY <1>1, <2>1, <3>1 DEF MsScreens
  <2> QED BY <2>2, <2>3, ControlsMove
<1>5. CASE \E tab \in {"instruments", "spreads"} : SelectPageTab(tab)
  <2>1. PICK tab \in {"instruments", "spreads"} : SelectPageTab(tab)
    BY <1>5
  <2>2. PICK s : s = [msScreen EXCEPT !.pageTab = tab]
    OBVIOUS
  <2>3. OnScreen(s) /\ msChosen' = tab /\ msStored' = IF msBlocked THEN msStored ELSE tab
    BY <2>1, <2>2 DEF SelectPageTab
  <2>4. /\ s \in MsScreens /\ s.here = msScreen.here /\ s.waits = msScreen.waits /\ s.pending = msScreen.pending
        /\ s.index = msScreen.index /\ s.pageTab = tab /\ s.panel = msScreen.panel
    BY <1>1, <2>2 DEF MsScreens
  <2> QED BY <1>1, <2>3, <2>4, ControlsMove DEF OneDialog
<1> QED BY <1>2, <1>3, <1>4, <1>5

\* The deck stands on a card that is one, however far it is moved.
LEMMA MovedIsCard ==
  ASSUME SignalInv, PanelShows = "deck", NEW step \in {1, -1}
  PROVE  /\ Slots \in Nat /\ Slots >= 1 /\ FrontCard \in 0..(Slots - 1) /\ Moved(step) \in Nat
<1>1. msData \in Latest /\ ~ msErr
  BY DEF PanelShows, ShownBy, SignalInv, SignalTypes
<1>2. Cards \in Nat /\ Cards >= 1
  <2>1. CASE msScreen.tab = "surge"
    BY <2>1 DEF Cards
  <2>2. CASE msScreen.tab # "surge"
    <3>1. RecordCards(msData) # 0
      BY <2>2 DEF PanelShows, ShownBy
    <3>2. RecordCards(msData) \in Nat
      <4>1. msData.cards \in MsCards \cup {0}
        BY <1>1 DEF Latest
      <4>2. MsCards \cup {0} \subseteq Nat
        BY MsAssumption
      <4>3. msData.cards \in Nat
        BY <4>1, <4>2, Zenon
      <4> QED BY <4>3 DEF RecordCards
    <3>3. Cards = RecordCards(msData)
      BY <2>2 DEF Cards
    <3> QED BY <3>1, <3>2, <3>3
  <2> QED BY <2>1, <2>2
<1>3. Slots \in Nat /\ Slots >= 1
  BY <1>2, MsAssumption DEF Slots
<1>4. msScreen.card \in Nat
  BY DEF SignalInv, SignalTypes, MsScreens
<1>5. FrontCard \in 0..(Slots - 1)
  BY <1>3, <1>4 DEF FrontCard
<1>6. Moved(step) \in Nat
  BY <1>3, <1>5 DEF Moved
<1> QED BY <1>3, <1>5, <1>6

LEMMA DeckControls ==
  ASSUME SignalInv,
         \/ \E tab \in {"crash", "surge"} : SelectTab(tab)
         \/ \E step \in {1, -1} : MoveCard(step) \/ DragCard(step)
         \/ EnterMore
  PROVE  SignalInv'
<1>1. msScreen \in MsScreens /\ OneDialog(msScreen)
  BY DEF SignalInv, SignalTypes
<1>2. ASSUME NEW s \in MsScreens, OnScreen(s), UNCHANGED <<msStored, msChosen>>,
             s.here = msScreen.here, s.waits = msScreen.waits, s.pending = msScreen.pending,
             s.index = msScreen.index, s.pageTab = msScreen.pageTab, s.panel = msScreen.panel
      PROVE  SignalInv'
  BY <1>1, <1>2, ControlsMove DEF OneDialog
<1>3. ASSUME NEW tab \in {"crash", "surge"}, SelectTab(tab) PROVE SignalInv'
  <2>1. PICK t : t = [msScreen EXCEPT !.tab = tab]
    OBVIOUS
  <2>2. /\ t \in MsScreens /\ t.here = msScreen.here /\ t.waits = msScreen.waits /\ t.pending = msScreen.pending
        /\ t.index = msScreen.index /\ t.pageTab = msScreen.pageTab /\ t.panel = msScreen.panel
    BY <1>1, <2>1 DEF MsScreens
  <2>3. PICK s : s = ResetDeck(t)
    OBVIOUS
  <2>4. OnScreen(s) /\ UNCHANGED <<msStored, msChosen>>
    BY <1>3, <2>1, <2>3 DEF SelectTab
  <2> QED BY <1>2, <2>2, <2>3, <2>4, ResetDeckIs
<1>4. ASSUME NEW step \in {1, -1}, MoveCard(step) PROVE SignalInv'
  <2>1. PICK card : card = Moved(step)
    OBVIOUS
  <2>2. card \in Nat
    BY <1>4, <2>1, MovedIsCard DEF MoveCard
  <2>3. PICK s : s = [msScreen EXCEPT !.card = card]
    OBVIOUS
  <2>4. OnScreen(s) /\ UNCHANGED <<msStored, msChosen>>
    BY <1>4, <2>1, <2>3 DEF MoveCard
  <2>5. /\ s \in MsScreens /\ s.here = msScreen.here /\ s.waits = msScreen.waits /\ s.pending = msScreen.pending
        /\ s.index = msScreen.index /\ s.pageTab = msScreen.pageTab /\ s.panel = msScreen.panel
    BY <1>1, <2>2, <2>3 DEF MsScreens
  <2> QED BY <1>2, <2>4, <2>5
<1>5. ASSUME NEW step \in {1, -1}, DragCard(step) PROVE SignalInv'
  <2>1. PICK card : card = Moved(step)
    OBVIOUS
  <2> DEFINE dragged == Moved(step) # FrontCard
  <2>2. card \in Nat
    BY <1>5, <2>1, MovedIsCard DEF DragCard
  <2>6. dragged \in BOOLEAN
    OBVIOUS
  <2>3. PICK s : s = [msScreen EXCEPT !.card = card, !.dragged = dragged]
    OBVIOUS
  <2>4. OnScreen(s) /\ UNCHANGED <<msStored, msChosen>>
    BY <1>5, <2>1, <2>3, Zenon DEF DragCard
  <2> HIDE DEF dragged
  <2>5. /\ s \in MsScreens /\ s.here = msScreen.here /\ s.waits = msScreen.waits /\ s.pending = msScreen.pending
        /\ s.index = msScreen.index /\ s.pageTab = msScreen.pageTab /\ s.panel = msScreen.panel
    BY <1>1, <2>2, <2>3, <2>6 DEF MsScreens
  <2> QED BY <1>2, <2>4, <2>5
<1>6. CASE EnterMore
  <2>1. CASE ~ msScreen.dragged
    BY <1>6, <2>1, LeavingIsKept DEF EnterMore
  <2>2. CASE msScreen.dragged
    <3>1. PICK s : s = [msScreen EXCEPT !.dragged = FALSE]
      OBVIOUS
    <3>2. OnScreen(s) /\ UNCHANGED <<msStored, msChosen>>
      BY <1>6, <2>2, <3>1 DEF EnterMore
    <3>3. /\ s \in MsScreens /\ s.here = msScreen.here /\ s.waits = msScreen.waits /\ s.pending = msScreen.pending
          /\ s.index = msScreen.index /\ s.pageTab = msScreen.pageTab /\ s.panel = msScreen.panel
      <4>1. FALSE \in BOOLEAN
        OBVIOUS
      <4> QED BY <1>1, <3>1, <4>1 DEF MsScreens
    <3> QED BY <1>2, <3>2, <3>3
  <2> QED BY <2>1, <2>2
<1> QED BY <1>3, <1>4, <1>5, <1>6

LEMMA SignalsStart == MsInit => SignalInv
<1> SUFFICES ASSUME MsInit PROVE SignalInv
  OBVIOUS
<1>1. /\ msScreen = NoScreen /\ msSeen = {} /\ msBlocked \in BOOLEAN /\ msStored = "none" /\ msChosen = "instruments"
      /\ msTimes = [k \in MsKey |-> 0] /\ msServer = NotReady /\ msData = NoMs /\ msRead = Request("none", NoMs)
  BY DEF MsInit
<1>2. /\ NoScreen \in MsScreens /\ ~ NoScreen.here /\ NoScreen.waits = {} /\ ~ NoScreen.panel /\ ~ NoScreen.pending
  <2>1. TRUE \in BOOLEAN /\ FALSE \in BOOLEAN
    OBVIOUS
  <2> QED BY <2>1 DEF NoScreen, MsScreens
<1>3. NotReady \in Latest
  <2>1. FALSE \in BOOLEAN
    OBVIOUS
  <2> QED BY <2>1 DEF NotReady, Latest
<1>4. SignalTypes
  BY <1>1, <1>2, <1>3 DEF SignalTypes, Request
<1>5. OneDialog(msScreen)
  BY <1>1, <1>2 DEF OneDialog
<1>6. OpenedOnce
  BY <1>1, <1>2 DEF OpenedOnce
<1>7. TabIsStored
  BY <1>1, <1>2 DEF TabIsStored
<1> QED BY <1>4, <1>5, <1>6, <1>7 DEF SignalInv

LEMMA SignalStep == SignalInv /\ [MsNext]_msVars => SignalInv'
<1> SUFFICES ASSUME SignalInv, [MsNext]_msVars PROVE SignalInv'
  OBVIOUS
<1>1. msScreen \in MsScreens /\ OneDialog(msScreen) /\ msData \in Latest \cup {NoMs}
  BY DEF SignalInv, SignalTypes
<1>2. CASE UNCHANGED msVars
  <2>1. UNCHANGED <<msServer, msData, msRead, msSeen, msBlocked, msStored, msScreen, msTimes, msCut, msChosen>>
    BY <1>2 DEF msVars
  <2> QED BY <2>1 DEF SignalInv, SignalTypes, OneDialog, OpenedOnce, TabIsStored
<1>3. ASSUME NEW next \in Latest, EngineMoves(next) PROVE SignalInv'
  <2>1. /\ msServer' = next
        /\ UNCHANGED <<msData, msRead, msSeen, msBlocked, msStored, msScreen, msTimes, msCut, msChosen>>
    BY <1>3 DEF EngineMoves
  <2> QED BY <2>1 DEF SignalInv, SignalTypes, OneDialog, OpenedOnce, TabIsStored
<1>4. CASE Poll \/ PollServed
  <2>1. /\ msRead'.phase = "served" => msRead'.value \in Latest
        /\ UNCHANGED <<msServer, msData, msSeen, msBlocked, msStored, msScreen, msTimes, msCut, msChosen>>
    BY <1>4 DEF Poll, PollServed, Request, SignalInv, SignalTypes
  <2> QED BY <1>1, <2>1, ScreenMoves
<1>5. CASE \E a \in MsAlert : RecordServed(a) \/ RetryRecord(a)
  <2>1. UNCHANGED <<msServer, msData, msRead, msSeen, msBlocked, msStored, msScreen, msTimes, msCut, msChosen>>
    BY <1>5 DEF RecordServed, RetryRecord
  <2> QED BY <2>1 DEF SignalInv, SignalTypes, OneDialog, OpenedOnce, TabIsStored
<1>6. CASE \E reloaded \in BOOLEAN : Visit(reloaded)
  BY <1>6, VisitIsKept
<1>7. CASE PollAnswered \/ LeaveMarket \/ CloseIndex
  BY <1>7, PollIsKept, LeavingIsKept, ClosingIsKept
<1>8. CASE \/ ClickStrip \/ ClosePanel \/ OpenIndex
           \/ \E tab \in {"instruments", "spreads"} : SelectPageTab(tab)
  BY <1>8, PanelControls
<1>9. CASE \/ \E tab \in {"crash", "surge"} : SelectTab(tab)
           \/ \E step \in {1, -1} : MoveCard(step) \/ DragCard(step)
           \/ EnterMore
  BY <1>9, DeckControls
<1> QED BY <1>2, <1>3, <1>4, <1>5, <1>6, <1>7, <1>8, <1>9 DEF MsNext

LEMMA SignalsGive == SignalInv => SignalsAreTold
<1> SUFFICES ASSUME SignalInv PROVE SignalsAreTold
  OBVIOUS
<1>1. msScreen \in MsScreens /\ OneDialog(msScreen) /\ msSeen \subseteq MsKey
  BY DEF SignalInv, SignalTypes
<1>2. ~ (msScreen.panel /\ msScreen.index)
  BY <1>1 DEF OneDialog
<1>3. \A k \in msSeen : msTimes[k] = 1 \/ (msScreen.pending /\ msScreen.index) \/ k \in msCut
  BY <1>1 DEF OneDialog, SignalInv, OpenedOnce
<1>4. msScreen.panel /\ StripState \in {"loading", "error"} => PanelShows = StripState
  BY DEF StripState, PanelShows, ShownBy
<1>5. PanelShows = "deck" => FrontCard \in 0..(Slots - 1)
  BY MovedIsCard
<1>6. msScreen.here => msScreen.pageTab = msChosen
  BY DEF SignalInv, TabIsStored
<1> QED BY <1>2, <1>3, <1>4, <1>5, <1>6 DEF SignalsAreTold

\* An alert or surge marked as seen opened the signal panel once, two dialogs never stack, the strip and
\* the panel agree, the deck stands on a card it has, and the tab chosen is kept (MarketOverviewClient.tsx).
THEOREM SignalsAreAlwaysTold == MsSpec => []SignalsAreTold
<1>1. MsInit => SignalInv
  BY SignalsStart
<1>2. SignalInv /\ [MsNext]_msVars => SignalInv'
  BY SignalStep
<1>3. SignalInv => SignalsAreTold
  BY SignalsGive
<1> QED BY <1>1, <1>2, <1>3, PTL DEF MsSpec

-----------------------------------------------------------------------------
(* The filter of events and categories.                                    *)

EfBatchShape ==
  [to : {"hidden", "shown"}, asked : SUBSET EfCategory, failed : SUBSET EfCategory, open : BOOLEAN]
EfWriteShape ==
  [op : EfOp \cup {"none"}, event : EfEvent \cup {NoEf}, category : EfCategory \cup {NoEf},
   phase : {"none", "asked", "ok", "failed"}]
FilterShape ==
  /\ efServer = [q \in List |-> efServer[q]] /\ efData = [q \in List |-> efData[q]]
  /\ efErr = [q \in List |-> efErr[q]] /\ efRead = [q \in List |-> efRead[q]]
  /\ efCut \in [List -> BOOLEAN]
  /\ efBatch \in [EfClick -> EfBatchShape]
  /\ efWrite \in EfWriteShape /\ (efWrite.phase # "none" => efWrite.op \in EfOp)
  /\ efUsed \in [acts : Nat, faults : Nat]

\* A read of the list is still to be asked for: a click has not settled, a write was saved.
ReadOwed(q) ==
  \/ efCut[q] \/ efWrite.phase = "ok"
  \/ q = "categories" /\ \E k \in EfClick : efBatch[k].open

\* Unless a read is owed, one that was served brings what is saved, and what was read is what is saved.
ListIsSaved(q) ==
  ReadOwed(q) \/ /\ efRead[q].phase = "served" => efRead[q].value = efServer[q]
                 /\ efRead[q].phase = "none" => efErr[q] \/ efData[q] = NoEf \/ efData[q] = efServer[q]
FilterInv == FilterShape /\ \A q \in List : ListIsSaved(q)

LEMMA ReadServedInv == ASSUME FilterInv, NEW q \in List, EfReadServed(q) PROVE FilterInv'
<1>1. FilterShape'
  BY DEF EfReadServed, EfFault, FilterInv, FilterShape
<1>2. ASSUME NEW x \in List PROVE ListIsSaved(x)'
  BY DEF EfReadServed, FilterInv, FilterShape, ListIsSaved, ReadOwed
<1> QED BY <1>1, <1>2 DEF FilterInv

LEMMA ReadAnsweredInv == ASSUME FilterInv, NEW q \in List, EfReadAnswered(q) PROVE FilterInv'
<1>1. FilterShape'
  BY DEF EfReadAnswered, FilterInv, FilterShape
<1>2. ASSUME NEW x \in List PROVE ListIsSaved(x)'
  <2>1. ReadOwed(x) <=> ReadOwed(x)'
    BY DEF EfReadAnswered, ReadOwed
  <2>2. CASE x = q
    BY <2>1, <2>2 DEF EfReadAnswered, FilterInv, FilterShape, ListIsSaved, EfIdle
  <2>3. CASE x # q
    BY <2>1, <2>3 DEF EfReadAnswered, FilterInv, FilterShape, ListIsSaved
  <2> QED BY <2>2, <2>3
<1> QED BY <1>1, <1>2 DEF FilterInv

LEMMA RetryInv == ASSUME FilterInv, EfRetry PROVE FilterInv'
  BY DEF EfRetry, Asked, FilterInv, FilterShape, ListIsSaved, ReadOwed

LEMMA ClickInv ==
  ASSUME FilterInv, NEW changed \in SUBSET EfCategory, NEW to \in {"hidden", "shown"},
         ClickFilter(changed, to)
  PROVE  FilterInv'
<1>1. PICK batch : batch = [to |-> to, asked |-> changed, failed |-> {}, open |-> TRUE]
  OBVIOUS
<1>2. efUsed.acts + 1 \in EfClick
  BY EfAssumption DEF ClickFilter, FilterInv, FilterShape, EfClick
<1>3. batch \in EfBatchShape /\ batch.open
  BY <1>1 DEF EfBatchShape
<1>4. efBatch' = [efBatch EXCEPT ![efUsed.acts + 1] = batch]
  BY <1>1 DEF ClickFilter
<1>5. efBatch' \in [EfClick -> EfBatchShape] /\ \E k \in EfClick : efBatch'[k].open
  BY <1>2, <1>3, <1>4 DEF FilterInv, FilterShape
<1>6. efUsed' \in [acts : Nat, faults : Nat]
  BY DEF ClickFilter, FilterInv, FilterShape
<1>7. FilterShape'
  BY <1>5, <1>6 DEF ClickFilter, ReadsAfterClick, FilterInv, FilterShape
<1>8. ListIsSaved("categories")'
  BY <1>5 DEF ListIsSaved, ReadOwed
<1>9. ListIsSaved("events")'
  BY DEF ClickFilter, ReadsAfterClick, FilterInv, FilterShape, List, ListIsSaved, ReadOwed
<1> QED BY <1>7, <1>8, <1>9 DEF FilterInv, List

LEMMA PatchInv ==
  ASSUME FilterInv, NEW k \in EfClick, NEW c \in EfCategory, PatchServed(k, c) PROVE FilterInv'
<1>1. efBatch' \in [EfClick -> EfBatchShape] /\ \A j \in EfClick : efBatch'[j].open = efBatch[j].open
  <2>1. CASE efBatch' = [efBatch EXCEPT ![k].asked = @ \ {c}]
    BY <2>1 DEF FilterInv, FilterShape, EfBatchShape
  <2>2. CASE efBatch' = [efBatch EXCEPT ![k].asked = @ \ {c}, ![k].failed = @ \cup {c}]
    BY <2>2 DEF FilterInv, FilterShape, EfBatchShape
  <2> QED BY <2>1, <2>2 DEF PatchServed
<1>2. efUsed' \in [acts : Nat, faults : Nat]
  BY DEF PatchServed, EfFault, FilterInv, FilterShape
<1>3. efServer' = [q \in List |-> efServer'[q]] /\ efServer'["events"] = efServer["events"]
  BY DEF PatchServed, FilterInv, FilterShape, List
<1>4. /\ efCut' \in [List -> BOOLEAN] /\ efCut'["events"] = efCut["events"]
      /\ efBatch[k].open \/ efCut'["categories"]
  BY DEF PatchServed, FilterInv, FilterShape, List
<1>5. FilterShape'
  BY <1>1, <1>2, <1>3, <1>4 DEF PatchServed, FilterInv, FilterShape
<1>6. ListIsSaved("categories")'
  BY <1>1, <1>4 DEF ListIsSaved, ReadOwed
<1>7. ListIsSaved("events")'
  BY <1>3, <1>4 DEF PatchServed, FilterInv, List, ListIsSaved, ReadOwed
<1> QED BY <1>5, <1>6, <1>7 DEF FilterInv, List

LEMMA SettlesInv == ASSUME FilterInv, NEW k \in EfClick, ClickSettles(k) PROVE FilterInv'
<1>1. efBatch' \in [EfClick -> EfBatchShape]
  BY DEF ClickSettles, FilterInv, FilterShape, EfBatchShape
<1>2. FilterShape'
  BY <1>1 DEF ClickSettles, FilterInv, FilterShape
<1>3. ListIsSaved("categories")'
  BY DEF ClickSettles, Asked, FilterInv, FilterShape, List, ListIsSaved
<1>4. ListIsSaved("events")'
  BY DEF ClickSettles, FilterInv, FilterShape, List, ListIsSaved, ReadOwed
<1> QED BY <1>2, <1>3, <1>4 DEF FilterInv, List

LEMMA WriteInv ==
  ASSUME FilterInv, NEW op \in EfOp, NEW e \in EfEvent \cup {NoEf}, NEW c \in EfCategory \cup {NoEf},
         Write(op, e, c)
  PROVE  FilterInv'
<1>1. efWrite' \in EfWriteShape /\ efWrite.phase = "none" /\ efWrite'.phase = "asked" /\ efWrite'.op = op
  BY DEF Write, NoWrite, EfWriteShape
<1>2. efUsed' \in [acts : Nat, faults : Nat]
  BY DEF Write, FilterInv, FilterShape
<1>3. FilterShape'
  BY <1>1, <1>2 DEF Write, FilterInv, FilterShape
<1>4. ASSUME NEW x \in List PROVE ListIsSaved(x)'
  BY <1>1 DEF Write, FilterInv, ListIsSaved, ReadOwed
<1> QED BY <1>3, <1>4 DEF FilterInv

LEMMA WrittenShape ==
  ASSUME FilterShape, efWrite.op \in EfOp
  PROVE  Written = [q \in List |-> Written[q]] /\ (~ Accepted => Written = efServer)
<1>1. CASE ~ Accepted
  BY <1>1 DEF Written, FilterShape
<1>2. CASE Accepted
  BY <1>2 DEF Written, FilterShape, EfOp
<1> QED BY <1>1, <1>2

LEMMA WriteServedInv == ASSUME FilterInv, EfWriteServed PROVE FilterInv'
<1> USE DEF FilterInv
<1>1. efWrite \in EfWriteShape /\ efWrite.phase = "asked" /\ efWrite.op \in EfOp
  BY DEF EfWriteServed, FilterShape
<1>2. efServer' = [q \in List |-> efServer'[q]]
  BY <1>1, WrittenShape DEF EfWriteServed, FilterShape
<1>3. /\ efWrite' \in EfWriteShape /\ efWrite'.op \in EfOp
      /\ \/ efWrite'.phase = "ok" /\ efCut' = efCut
         \/ efServer' = efServer /\ efCut' = efCut
         \/ efCut' = [q \in List |-> TRUE]
  <2>1. ASSUME NEW p \in {"ok", "failed"}, efWrite' = [efWrite EXCEPT !.phase = p]
        PROVE  efWrite' \in EfWriteShape /\ efWrite'.op \in EfOp /\ efWrite'.phase = p
    BY <1>1, <2>1 DEF EfWriteShape
  <2>2. CASE /\ efServer' = Written /\ efCut' = efCut
             /\ efWrite' = [efWrite EXCEPT !.phase = IF Accepted THEN "ok" ELSE "failed"]
    <3>1. CASE Accepted
      BY <2>1, <2>2, <3>1
    <3>2. CASE ~ Accepted
      BY <1>1, <2>1, <2>2, <3>2, WrittenShape
    <3> QED BY <3>1, <3>2
  <2>3. CASE /\ efWrite' = [efWrite EXCEPT !.phase = "failed"]
             /\ \/ UNCHANGED <<efServer, efCut>>
                \/ efCut' = [q \in List |-> TRUE]
    BY <2>1, <2>3
  <2>4. \/ /\ efServer' = Written /\ efCut' = efCut
           /\ efWrite' = [efWrite EXCEPT !.phase = IF Accepted THEN "ok" ELSE "failed"]
        \/ /\ efWrite' = [efWrite EXCEPT !.phase = "failed"]
           /\ \/ UNCHANGED <<efServer, efCut>>
              \/ efCut' = [q \in List |-> TRUE]
    <3> DEFINE saved == [efWrite EXCEPT !.phase = IF Accepted THEN "ok" ELSE "failed"]
               lost == [efWrite EXCEPT !.phase = "failed"]
    <3>1. \/ efServer' = Written /\ efWrite' = saved /\ UNCHANGED <<efCut, efUsed>>
          \/ efWrite' = lost /\ (UNCHANGED <<efServer, efCut>> \/ efCut' = [q \in List |-> TRUE])
      BY Zenon DEF EfWriteServed
    <3> HIDE DEF saved, lost
    <3>2. \/ efServer' = Written /\ efWrite' = saved /\ efCut' = efCut
          \/ efWrite' = lost /\ (UNCHANGED <<efServer, efCut>> \/ efCut' = [q \in List |-> TRUE])
      BY <3>1
    <3> QED BY <3>2 DEF saved, lost
  <2> QED BY <2>2, <2>3, <2>4
<1>4. efUsed' \in [acts : Nat, faults : Nat] /\ efCut' \in [List -> BOOLEAN]
  <2>1. efUsed' = efUsed \/ efUsed' = [efUsed EXCEPT !.faults = @ + 1]
    <3>1. UNCHANGED <<efCut, efUsed>> \/ EfFault
      BY Zenon DEF EfWriteServed
    <3> QED BY <3>1 DEF EfFault
  <2>2. efUsed \in [acts : Nat, faults : Nat]
    BY DEF FilterShape
  <2>3. efUsed' \in [acts : Nat, faults : Nat]
    BY <2>1, <2>2
  <2>4. efCut' \in [List -> BOOLEAN]
    BY <1>3 DEF FilterShape
  <2> QED BY <2>3, <2>4
<1>5. FilterShape'
  BY <1>2, <1>3, <1>4 DEF EfWriteServed, FilterShape
<1>6. ASSUME NEW x \in List PROVE ListIsSaved(x)'
  BY <1>1, <1>3 DEF EfWriteServed, FilterShape, ListIsSaved, ReadOwed
<1> QED BY <1>5, <1>6

LEMMA WriteAnsweredInv == ASSUME FilterInv, EfWriteAnswered PROVE FilterInv'
<1> USE DEF FilterInv
<1>1. efWrite' \in EfWriteShape /\ efWrite'.phase = "none"
  BY DEF EfWriteAnswered, NoWrite, EfWriteShape
<1>2. FilterShape'
  BY <1>1 DEF EfWriteAnswered, FilterShape
<1>3. ASSUME NEW x \in List PROVE ListIsSaved(x)'
  <2>1. CASE efWrite.phase = "ok"
    BY <1>1, <2>1 DEF EfWriteAnswered, ListsReRead, Asked, ListIsSaved
  <2>2. CASE efWrite.phase # "ok"
    BY <1>1, <2>2 DEF EfWriteAnswered, ListIsSaved, ReadOwed
  <2> QED BY <2>1, <2>2
<1> QED BY <1>2, <1>3

LEMMA FilterStep == FilterInv /\ [EfNext]_efVars => FilterInv'
<1> SUFFICES ASSUME FilterInv, [EfNext]_efVars PROVE FilterInv'
  OBVIOUS
<1>1. CASE ShowAll \/ ShowNone \/ \E c \in EfCategory : ToggleCategory(c)
  BY <1>1, ClickInv DEF ShowAll, ShowNone, ToggleCategory
<1>2. CASE \/ \E c \in EfCategory : DeleteCategory(c)
           \/ \E e \in EfEvent : DeleteEvent(e) \/ \E c \in EfCategory : SubmitForm(e, c)
  BY <1>2, WriteInv DEF DeleteCategory, DeleteEvent, SubmitForm, EfOp
<1>3. CASE CancelEdit \/ (\E e \in EfEvent : EditEvent(e)) \/ UNCHANGED efVars
  BY <1>3 DEF CancelEdit, EditEvent, efVars, FilterInv, FilterShape, ListIsSaved, ReadOwed
<1> QED
  BY <1>1, <1>2, <1>3, ReadServedInv, ReadAnsweredInv, RetryInv, SettlesInv, PatchInv, WriteServedInv,
     WriteAnsweredInv DEF EfNext

\* Once every request is answered the filter, the charts and the events page show what is saved,
\* whatever clicks, writes and failures were in flight together (useSetCategoriesVisible,
\* useEventsWrite), for any categories and events and any number of clicks.
THEOREM FilterAlwaysShowsSaved == EfSpec => []FilterShowsSaved
<1>1. EfInit => FilterInv
  BY DEF EfInit, FilterInv, FilterShape, ListIsSaved, ReadOwed, NoBatch, EfBatchShape, NoWrite,
     EfWriteShape, Asked
<1>2. FilterInv => FilterShowsSaved
  BY DEF FilterInv, FilterShowsSaved, EfQuiet, EfIdle, NoWrite, Status, ListIsSaved, ReadOwed
<1> QED BY <1>1, <1>2, FilterStep, PTL DEF EfSpec

-----------------------------------------------------------------------------
(* The card of a day and the news beside it.                               *)

DtAnswers == [stored : BOOLEAN, searched : BOOLEAN]
DtQueryShape ==
  [data : DtAnswers \cup {NoDt}, err : BOOLEAN, phase : {"none", "asked", "served", "failed"},
   value : DtAnswers \cup {NoDt}, stale : BOOLEAN]
DtSearchPhases == {"none", "asked", "served", "refetch", "settled"}
DtSearchShape ==
  [phase : DtSearchPhases, date : DtDate \cup {NoDt},
   status : DtStatus, mine : BOOLEAN, waits : SUBSET DtQueries]
DetailShape ==
  /\ dtQuery \in [DtQueries -> DtQueryShape]
  /\ \A q \in DtQueries : dtQuery[q].phase = "served" => dtQuery[q].value \in DtAnswers
  /\ dtSearch \in [DtSearch -> DtSearchShape]
  /\ dtDate \in DtDate \cup {NoDt} /\ dtDone \subseteq DtDate

\* A search that was served and not lost owes the queries a refresh.
RefreshOwed == \E k \in DtSearch : dtSearch[k].phase = "served" /\ dtSearch[k].status # "lost"
CardOf(d) == <<"move", d>>

\* But for what is cut, and while no refresh is owed, a fresh query and an answer on its way are
\* what the server has.
AnswersAreCurrent ==
  ~ RefreshOwed => \A q \in DtQueries \ dtCut :
    /\ dtQuery[q].phase = "served" => dtQuery[q].value = DtAnswer(q)
    /\ dtQuery[q].phase = "none" /\ ~ dtQuery[q].stale => dtQuery[q].data = DtAnswer(q)
\* What is on screen was read.
ViewIsRead == \A q \in OnView : dtQuery[q].phase = "none" => dtQuery[q].err \/ ~ dtQuery[q].stale
\* A search is the open card's, and that card had its data when it was sent.
OwnIsShown ==
  \A k \in DtSearch : dtSearch[k].mine =>
    /\ dtHere /\ dtDate # NoDt /\ dtSearch[k].date = dtDate /\ dtQuery[CardOf(dtDate)].data # NoDt
    /\ dtSearch[k].phase \in {"served", "refetch"} /\ dtSearch[k].status = "done" =>
         dtDate \in dtServer.searched
\* What is read of a card once its search refreshed it says that its day was searched.
ToldIsSearched ==
  \A k \in DtSearch :
    dtSearch[k].mine /\ dtSearch[k].phase = "refetch" /\ dtSearch[k].status = "done" =>
      LET card == CardOf(dtDate) IN
      /\ dtQuery[card].phase = "served" => dtQuery[card].value.searched
      /\ card \in dtSearch[k].waits \/ dtQuery[card].err \/ dtQuery[card].data.searched
DoneIsSearched ==
  \A d \in dtDone :
    /\ d \in dtServer.searched
    /\ dtQuery[CardOf(d)].phase = "served" => dtQuery[CardOf(d)].value.searched
    /\ dtQuery[CardOf(d)].err \/ dtQuery[CardOf(d)].data.searched
CardInv ==
  DetailShape /\ AnswersAreCurrent /\ ViewIsRead /\ OwnIsShown /\ ToldIsSearched /\ DoneIsSearched

LEMMA NewsAnswer ==
  ASSUME NEW q, q[1] # "move"
  PROVE  DtAnswer(q) \in DtAnswers
<1>1. \E near \in BOOLEAN : DtAnswer(q) = [stored |-> near, searched |-> FALSE]
  <2>1. CASE q[2] = NoDt
    BY <2>1 DEF DtAnswer
  <2>2. CASE q[2] # NoDt
    <3>1. DtAnswer(q) = [stored |-> q[2] \in dtServer.stored, searched |-> FALSE]
      BY <2>2 DEF DtAnswer
    <3>2. (q[2] \in dtServer.stored) \in BOOLEAN
      OBVIOUS
    <3> QED BY <3>1, <3>2, Zenon
  <2> QED BY <2>1, <2>2
<1> QED BY <1>1 DEF DtAnswers

LEMMA AnswerIsAnswer ==
  ASSUME NEW q \in DtQueries
  PROVE  /\ DtAnswer(q) \in DtAnswers
         /\ \A d \in DtDate : q = <<"move", d>> => DtAnswer(q).searched = (d \in dtServer.searched)
<1>1. CASE \E d \in DtDate : q = <<"move", d>>
  BY <1>1 DEF DtAnswer, DtAnswers
<1>2. CASE \E d \in DtDate \cup {NoDt} : q = <<"news", d>>
  <2>1. q[1] # "move" /\ \A d \in DtDate : q # <<"move", d>>
    BY <1>2
  <2> QED BY <2>1, NewsAnswer
<1> QED BY <1>1, <1>2 DEF DtQueries

LEMMA ViewIsQueries == \A d \in DtDate \cup {NoDt} : \A here : OnViewWith(here, d) \subseteq DtQueries
  BY DEF OnViewWith, DtQueries

LEMMA AskedAgain ==
  ASSUME NEW query \in DtQueryShape
  PROVE  /\ AskAgain(query) \in DtQueryShape /\ AskAgain(query).phase = "asked"
         /\ AskAgain(query).data = query.data /\ AskAgain(query).err = query.err
         /\ AskAgain(query).stale = query.stale
  BY DEF AskAgain, DtQueryShape

LEMMA MarkedStale ==
  ASSUME NEW query \in DtQueryShape, NEW r, r = [query EXCEPT !.stale = TRUE]
  PROVE  r \in DtQueryShape /\ r.stale /\ r.phase = query.phase /\ r.data = query.data
         /\ r.err = query.err /\ r.value = query.value
  BY DEF DtQueryShape

LEMMA SearchUpdates ==
  ASSUME NEW s \in DtSearchShape, NEW p \in DtSearchPhases, NEW status \in DtStatus, NEW W \in SUBSET DtQueries
  PROVE  /\ [s EXCEPT !.phase = p] \in DtSearchShape
         /\ [s EXCEPT !.phase = p, !.status = status] \in DtSearchShape
         /\ [s EXCEPT !.phase = p, !.waits = W] \in DtSearchShape
         /\ [s EXCEPT !.mine = FALSE] \in DtSearchShape
         /\ [s EXCEPT !.waits = W] \in DtSearchShape
  BY DEF DtSearchShape, DtSearchPhases

\* How each action changes a query and a search.
LEMMA ReadServedFacts ==
  ASSUME DetailShape, NEW q \in DtQueries, DtReadServed(q)
  PROVE  /\ dtQuery' \in [DtQueries -> DtQueryShape]
         /\ \A x \in DtQueries \ {q} : dtQuery'[x] = dtQuery[x]
         /\ dtQuery'[q].data = dtQuery[q].data /\ dtQuery'[q].err = dtQuery[q].err
         /\ dtQuery'[q].stale = dtQuery[q].stale
         /\ \/ dtQuery'[q].phase = "served" /\ dtQuery'[q].value = DtAnswer(q) /\ dtCut' = dtCut \ {q}
            \/ dtQuery'[q].phase = "failed" /\ dtCut' = dtCut
         /\ UNCHANGED <<dtServer, dtDate, dtSearch, dtHere, dtDone>>
<1>1. CASE dtQuery' = [dtQuery EXCEPT ![q].phase = "failed"] /\ dtCut' = dtCut
  BY <1>1 DEF DtReadServed, DtQueryShape, DetailShape
<1>2. CASE dtQuery' = [dtQuery EXCEPT ![q].phase = "served", ![q].value = DtAnswer(q)]
           /\ dtCut' = dtCut \ {q}
  BY <1>2, AnswerIsAnswer DEF DtReadServed, DtQueryShape, DetailShape
<1> QED BY <1>1, <1>2 DEF DtReadServed

LEMMA ReadAnsweredFacts ==
  ASSUME DetailShape, NEW q \in DtQueries, DtReadAnswered(q)
  PROVE  /\ dtQuery' \in [DtQueries -> DtQueryShape] /\ dtSearch' \in [DtSearch -> DtSearchShape]
         /\ \A x \in DtQueries \ {q} : dtQuery'[x] = dtQuery[x]
         /\ dtQuery'[q].phase = "none"
         /\ \/ /\ dtQuery[q].phase = "served" /\ dtQuery'[q].data = dtQuery[q].value
               /\ ~ dtQuery'[q].err /\ ~ dtQuery'[q].stale
            \/ dtQuery'[q].data = dtQuery[q].data /\ dtQuery'[q].err /\ dtQuery'[q].stale
         /\ \A k \in DtSearch :
              /\ dtSearch'[k].phase = dtSearch[k].phase /\ dtSearch'[k].date = dtSearch[k].date
              /\ dtSearch'[k].status = dtSearch[k].status /\ dtSearch'[k].mine = dtSearch[k].mine
              /\ dtSearch'[k].waits = dtSearch[k].waits \ {q}
         /\ UNCHANGED <<dtServer, dtDate, dtHere, dtCut, dtDone>>
<1>1. /\ dtSearch' \in [DtSearch -> DtSearchShape]
      /\ \A k \in DtSearch :
              /\ dtSearch'[k].phase = dtSearch[k].phase /\ dtSearch'[k].date = dtSearch[k].date
              /\ dtSearch'[k].status = dtSearch[k].status /\ dtSearch'[k].mine = dtSearch[k].mine
              /\ dtSearch'[k].waits = dtSearch[k].waits \ {q}
  BY DEF DtReadAnswered, DtSearchShape, DetailShape
<1>2. /\ dtQuery' \in [DtQueries -> DtQueryShape]
      /\ \A x \in DtQueries \ {q} : dtQuery'[x] = dtQuery[x]
      /\ dtQuery'[q].phase = "none"
      /\ \/ /\ dtQuery[q].phase = "served" /\ dtQuery'[q].data = dtQuery[q].value
            /\ ~ dtQuery'[q].err /\ ~ dtQuery'[q].stale
         \/ dtQuery'[q].data = dtQuery[q].data /\ dtQuery'[q].err /\ dtQuery'[q].stale
  <2>1. CASE dtQuery[q].phase = "served"
    BY <2>1 DEF DtReadAnswered, DtQueryShape, DetailShape
  <2>2. CASE dtQuery[q].phase # "served"
    BY <2>2 DEF DtReadAnswered, DtQueryShape, DetailShape
  <2> QED BY <2>1, <2>2
<1> QED BY <1>1, <1>2 DEF DtReadAnswered

LEMMA SearchServedFacts ==
  ASSUME DetailShape, NEW k \in DtSearch, SearchServed(k)
  PROVE  /\ dtSearch' \in [DtSearch -> DtSearchShape]
         /\ \A j \in DtSearch \ {k} : dtSearch'[j] = dtSearch[j]
         /\ dtSearch[k].phase = "asked" /\ dtSearch'[k].phase = "served"
         /\ dtSearch'[k].date = dtSearch[k].date /\ dtSearch'[k].mine = dtSearch[k].mine
         /\ dtServer.searched \subseteq dtServer'.searched
         /\ dtSearch'[k].status # "limited" => dtSearch[k].date \in dtServer'.searched
         /\ dtSearch'[k].status = "lost" => dtCut' = DtQueries
         /\ UNCHANGED <<dtQuery, dtDate, dtHere, dtDone>>
<1>1. PICK status \in DtStatus, found \in SUBSET DtDate :
        /\ dtServer' = [stored |-> dtServer.stored \cup found,
                        searched |-> IF status = "limited" THEN dtServer.searched
                                     ELSE dtServer.searched \cup {dtSearch[k].date}]
        /\ dtSearch' = [dtSearch EXCEPT ![k].phase = "served", ![k].status = status]
        /\ status = "lost" => dtCut' = DtQueries
  BY DEF SearchServed
<1>2. /\ dtSearch' \in [DtSearch -> DtSearchShape]
      /\ \A j \in DtSearch \ {k} : dtSearch'[j] = dtSearch[j]
      /\ dtSearch'[k].phase = "served" /\ dtSearch'[k].status = status
      /\ dtSearch'[k].date = dtSearch[k].date /\ dtSearch'[k].mine = dtSearch[k].mine
  BY <1>1 DEF DetailShape, DtSearchShape, DtSearchPhases
<1>3. /\ dtServer.searched \subseteq dtServer'.searched
      /\ status # "limited" => dtSearch[k].date \in dtServer'.searched
  BY <1>1
<1> QED BY <1>1, <1>2, <1>3 DEF SearchServed

\* What a search that is answered leaves of each query.
LEMMA RefreshedFacts ==
  ASSUME DetailShape, NEW q \in DtQueries
  PROVE  /\ AfterRefresh(q) \in DtQueryShape /\ AfterRefresh(q).stale
         /\ AfterRefresh(q).data = dtQuery[q].data /\ AfterRefresh(q).err = dtQuery[q].err
         /\ AfterRefresh(q).phase = "served" => dtQuery[q].phase = "served" /\ AfterRefresh(q).value = dtQuery[q].value
         /\ q \in OnView => AfterRefresh(q).phase # "none"
         /\ q \in OnView /\ dtQuery[q].data # NoDt => AfterRefresh(q).phase = "asked"
<1>1. PICK stale : stale = [dtQuery[q] EXCEPT !.stale = TRUE]
  OBVIOUS
<1>2. /\ stale \in DtQueryShape /\ stale.stale /\ stale.phase = dtQuery[q].phase
      /\ stale.data = dtQuery[q].data /\ stale.err = dtQuery[q].err /\ stale.value = dtQuery[q].value
  BY <1>1, MarkedStale DEF DetailShape
<1>3. AfterRefresh(q) = IF q \in OnView /\ ~ (stale.data = NoDt /\ stale.phase # "none")
                     THEN AskAgain(stale) ELSE stale
  BY <1>1 DEF AfterRefresh
<1>4. CASE q \in OnView /\ ~ (stale.data = NoDt /\ stale.phase # "none")
  BY <1>2, <1>3, <1>4, AskedAgain
<1>5. CASE ~ (q \in OnView /\ ~ (stale.data = NoDt /\ stale.phase # "none"))
  BY <1>2, <1>3, <1>5
<1> QED BY <1>4, <1>5

LEMMA SearchAnsweredFacts ==
  ASSUME DetailShape, NEW k \in DtSearch, SearchAnswered(k)
  PROVE  /\ dtQuery' \in [DtQueries -> DtQueryShape] /\ dtSearch' \in [DtSearch -> DtSearchShape]
         /\ \A j \in DtSearch \ {k} : dtSearch'[j] = dtSearch[j]
         /\ dtSearch'[k].date = dtSearch[k].date /\ dtSearch'[k].mine = dtSearch[k].mine
         /\ dtSearch'[k].status = dtSearch[k].status /\ dtSearch[k].phase = "served"
         /\ \/ /\ dtSearch[k].status = "lost" /\ dtSearch'[k].phase = "settled"
               /\ UNCHANGED <<dtQuery, dtCut>>
            \/ /\ dtSearch[k].status # "lost" /\ dtSearch'[k].phase = "refetch"
               /\ dtSearch'[k].waits = OnView
               /\ \A q \in DtQueries : dtQuery'[q] = AfterRefresh(q)
               /\ dtCut' = {q \in DtQueries : AfterRefresh(q).phase = "served" /\ AfterRefresh(q).value # DtAnswer(q)}
         /\ UNCHANGED <<dtServer, dtDate, dtHere, dtDone>>
<1>1. CASE dtSearch[k].status = "lost"
  BY <1>1 DEF SearchAnswered, DetailShape, DtSearchShape, DtSearchPhases
<1>2. CASE dtSearch[k].status # "lost"
  <2>1. OnView \in SUBSET DtQueries
    BY ViewIsQueries DEF OnView, DetailShape
  <2>2. dtQuery' = [q \in DtQueries |-> AfterRefresh(q)]
    BY <1>2 DEF SearchAnswered
  <2>3. dtQuery' \in [DtQueries -> DtQueryShape] /\ \A q \in DtQueries : dtQuery'[q] = AfterRefresh(q)
    BY <2>2, RefreshedFacts
  <2>4. dtSearch' = [dtSearch EXCEPT ![k].phase = "refetch", ![k].waits = OnView]
    BY <1>2 DEF SearchAnswered
  <2>5. /\ dtSearch' \in [DtSearch -> DtSearchShape]
        /\ \A j \in DtSearch \ {k} : dtSearch'[j] = dtSearch[j]
        /\ dtSearch'[k].date = dtSearch[k].date /\ dtSearch'[k].mine = dtSearch[k].mine
        /\ dtSearch'[k].status = dtSearch[k].status
        /\ dtSearch'[k].phase = "refetch" /\ dtSearch'[k].waits = OnView
    BY <2>1, <2>4 DEF DetailShape, DtSearchShape, DtSearchPhases
  <2> QED BY <1>2, <2>3, <2>5 DEF SearchAnswered
<1> QED BY <1>1, <1>2

\* Another card, or none: the searches are no card's any more, and what comes on screen is asked for.
LEMMA ShowDayFacts ==
  ASSUME DetailShape, NEW here, NEW d \in DtDate \cup {NoDt}, ShowDay(here, d)
  PROVE  /\ dtQuery' \in [DtQueries -> DtQueryShape] /\ dtSearch' \in [DtSearch -> DtSearchShape]
         /\ \A k \in DtSearch :
              /\ dtSearch'[k].phase = dtSearch[k].phase /\ dtSearch'[k].date = dtSearch[k].date
              /\ dtSearch'[k].status = dtSearch[k].status /\ dtSearch'[k].mine = FALSE
              /\ dtSearch'[k].waits = dtSearch[k].waits
         /\ \A q \in DtQueries :
              /\ dtQuery'[q].data = dtQuery[q].data /\ dtQuery'[q].err = dtQuery[q].err
              /\ dtQuery'[q].stale = dtQuery[q].stale
              /\ dtQuery'[q].phase # "asked" => dtQuery'[q] = dtQuery[q]
              /\ q \in OnView' /\ dtQuery'[q].phase = "none" => ~ dtQuery'[q].stale
         /\ dtDate' = d /\ UNCHANGED <<dtServer, dtCut, dtDone>>
<1>1. /\ dtSearch' \in [DtSearch -> DtSearchShape]
      /\ \A k \in DtSearch :
              /\ dtSearch'[k].phase = dtSearch[k].phase /\ dtSearch'[k].date = dtSearch[k].date
              /\ dtSearch'[k].status = dtSearch[k].status /\ dtSearch'[k].mine = FALSE
              /\ dtSearch'[k].waits = dtSearch[k].waits
  BY DEF ShowDay, DetailShape, DtSearchShape
<1>2. OnView' = OnViewWith(here, d)
  BY DEF ShowDay, OnView
<1>3. ASSUME NEW q \in DtQueries
      PROVE  /\ dtQuery'[q] \in DtQueryShape
             /\ dtQuery'[q].data = dtQuery[q].data /\ dtQuery'[q].err = dtQuery[q].err
             /\ dtQuery'[q].stale = dtQuery[q].stale
             /\ dtQuery'[q].phase # "asked" => dtQuery'[q] = dtQuery[q]
             /\ q \in OnView' /\ dtQuery'[q].phase = "none" => ~ dtQuery'[q].stale
  <2>1. dtQuery'[q] = IF q \in OnViewWith(here, d) /\ dtQuery[q].stale /\ dtQuery[q].phase = "none"
                      THEN AskAgain(dtQuery[q]) ELSE dtQuery[q]
    BY DEF ShowDay, CameOn
  <2>2. dtQuery[q] \in DtQueryShape
    BY DEF DetailShape
  <2> QED BY <1>2, <2>1, <2>2, AskedAgain
<1>4. dtQuery' \in [DtQueries -> DtQueryShape]
  BY <1>3 DEF ShowDay, CameOn
<1> QED BY <1>1, <1>3, <1>4 DEF ShowDay

LEMMA FindNewsFacts ==
  ASSUME DetailShape, FindNews
  PROVE  \E k \in DtSearch :
           /\ dtSearch' \in [DtSearch -> DtSearchShape]
           /\ dtSearch[k].phase = "none"
           /\ dtSearch'[k].phase = "asked" /\ dtSearch'[k].date = dtDate
           /\ \A j \in DtSearch \ {k} :
                /\ dtSearch'[j].phase = dtSearch[j].phase /\ dtSearch'[j].status = dtSearch[j].status
                /\ dtSearch'[j].mine = FALSE
           /\ dtHere /\ dtDate # NoDt /\ dtQuery[<<"move", dtDate>>].data # NoDt
           /\ UNCHANGED <<dtServer, dtQuery, dtDate, dtHere, dtCut, dtDone>>
<1>1. PICK k \in DtSearch :
        /\ dtSearch[k] = DtNoSearch
        /\ dtSearch' = [j \in DtSearch |->
             IF j = k THEN [DtNoSearch EXCEPT !.phase = "asked", !.date = dtDate, !.mine = TRUE]
             ELSE [dtSearch[j] EXCEPT !.mine = FALSE]]
  BY DEF FindNews
<1>2. PICK new : new = [DtNoSearch EXCEPT !.phase = "asked", !.date = dtDate, !.mine = TRUE]
  OBVIOUS
<1>3. new \in DtSearchShape /\ new.phase = "asked" /\ new.date = dtDate /\ dtSearch[k].phase = "none"
  <2>1. new = [phase |-> "asked", date |-> dtDate, status |-> "done", mine |-> TRUE, waits |-> {}]
    BY <1>2 DEF DtNoSearch
  <2>2. dtSearch[k].phase = "none"
    BY <1>1 DEF DtNoSearch
  <2> QED BY <2>1, <2>2 DEF DtSearchShape, DtSearchPhases, DtStatus, DetailShape
<1>4. ASSUME NEW j \in DtSearch \ {k}
      PROVE  /\ dtSearch'[j] \in DtSearchShape
             /\ dtSearch'[j].phase = dtSearch[j].phase /\ dtSearch'[j].status = dtSearch[j].status
             /\ dtSearch'[j].mine = FALSE
  BY <1>1 DEF DetailShape, DtSearchShape
<1>5. dtSearch'[k] = new
  BY <1>1, <1>2
<1>6. dtSearch' \in [DtSearch -> DtSearchShape]
  BY <1>1, <1>3, <1>4, <1>5
<1>7. dtHere /\ dtDate # NoDt /\ dtQuery[<<"move", dtDate>>].data # NoDt
  BY DEF FindNews, CardShows, CardQuery
<1> QED BY <1>3, <1>4, <1>5, <1>6, <1>7 DEF FindNews

LEMMA SearchSettlesFacts ==
  ASSUME DetailShape, NEW k \in DtSearch, SearchSettles(k)
  PROVE  /\ dtSearch' \in [DtSearch -> DtSearchShape]
         /\ \A j \in DtSearch \ {k} : dtSearch'[j] = dtSearch[j]
         /\ dtSearch[k].phase = "refetch" /\ dtSearch[k].waits = {} /\ dtSearch'[k].phase = "settled"
         /\ dtSearch'[k].date = dtSearch[k].date /\ dtSearch'[k].mine = dtSearch[k].mine
         /\ dtDone' = dtDone \/ (/\ dtSearch[k].mine /\ dtSearch[k].status = "done"
                                 /\ dtDone' = dtDone \cup {dtSearch[k].date})
         /\ UNCHANGED <<dtServer, dtQuery, dtDate, dtHere, dtCut>>
  BY DEF SearchSettles, Refetched, DetailShape, DtSearchShape, DtSearchPhases

LEMMA DetailNextCases ==
  ASSUME [DtNext]_dtVars, DetailShape
  PROVE  \/ \E q \in DtQueries : DtReadServed(q) \/ DtReadAnswered(q)
         \/ \E k \in DtSearch : SearchServed(k) \/ SearchAnswered(k) \/ SearchSettles(k)
         \/ FindNews
         \/ \E d \in DtDate \cup {NoDt}, here \in BOOLEAN : ShowDay(here, d)
         \/ UNCHANGED dtVars
  BY DEF DtNext, ToggleDay, CloseCard, OpenDetail, CloseDetail, DetailShape

LEMMA DetailShapeStep == DetailShape /\ OwnIsShown /\ [DtNext]_dtVars => DetailShape'
<1> SUFFICES ASSUME DetailShape, OwnIsShown, [DtNext]_dtVars PROVE DetailShape'
  OBVIOUS
<1>1. ASSUME NEW q \in DtQueries, DtReadServed(q) PROVE DetailShape'
  BY <1>1, ReadServedFacts, AnswerIsAnswer DEF DetailShape
<1>2. ASSUME NEW q \in DtQueries, DtReadAnswered(q) PROVE DetailShape'
  BY <1>2, ReadAnsweredFacts DEF DetailShape
<1>3. ASSUME NEW k \in DtSearch, SearchServed(k) PROVE DetailShape'
  BY <1>3, SearchServedFacts DEF DetailShape
<1>4. ASSUME NEW k \in DtSearch, SearchAnswered(k) PROVE DetailShape'
  BY <1>4, SearchAnsweredFacts, RefreshedFacts DEF DetailShape
<1>5. ASSUME NEW k \in DtSearch, SearchSettles(k) PROVE DetailShape'
  BY <1>5, SearchSettlesFacts DEF DetailShape, OwnIsShown
<1>6. CASE FindNews
  BY <1>6, FindNewsFacts DEF DetailShape
<1>7. ASSUME NEW d \in DtDate \cup {NoDt}, NEW here, ShowDay(here, d) PROVE DetailShape'
  BY <1>7, ShowDayFacts DEF DetailShape
<1>8. CASE UNCHANGED dtVars
  BY <1>8 DEF dtVars, DetailShape
<1> QED
  BY <1>1, <1>2, <1>3, <1>4, <1>5, <1>6, <1>7, <1>8, DetailNextCases

LEMMA CardOnView ==
  ASSUME DetailShape
  PROVE  /\ \A d \in DtDate : CardOf(d) \in DtQueries
         /\ OnView \subseteq DtQueries
         /\ dtHere /\ dtDate # NoDt => CardOf(dtDate) \in OnView /\ dtDate \in DtDate
  BY ViewIsQueries DEF CardOf, DtQueries, OnView, OnViewWith, DetailShape

LEMMA ReadServedKeeps ==
  ASSUME CardInv, NEW q \in DtQueries, DtReadServed(q)
  PROVE  AnswersAreCurrent' /\ ViewIsRead' /\ OwnIsShown' /\ ToldIsSearched' /\ DoneIsSearched'
<1> USE DEF CardInv
<1>0. \A x \in DtQueries : DtAnswer(x)' = DtAnswer(x)
  BY ReadServedFacts DEF DtAnswer
<1>1. AnswersAreCurrent'
  BY <1>0, ReadServedFacts DEF AnswersAreCurrent, RefreshOwed
<1>2. ViewIsRead'
  BY ReadServedFacts, CardOnView DEF ViewIsRead, OnView
<1>3. OwnIsShown'
  BY ReadServedFacts, CardOnView DEF OwnIsShown
<1>a. ASSUME NEW d \in DtDate, d \in dtServer.searched, dtQuery'[CardOf(d)].phase = "served",
             dtQuery[CardOf(d)].phase = "served" => dtQuery[CardOf(d)].value.searched
      PROVE  dtQuery'[CardOf(d)].value.searched
  <2>1. CASE q = CardOf(d)
    <3>1. DtAnswer(q).searched
      BY <1>a, <2>1, AnswerIsAnswer DEF CardOf
    <3> QED BY <1>a, <2>1, <3>1, ReadServedFacts
  <2>2. CASE q # CardOf(d)
    BY <1>a, <2>2, ReadServedFacts, CardOnView
  <2> QED BY <2>1, <2>2
<1>b. \A d \in DtDate : /\ dtQuery'[CardOf(d)].data = dtQuery[CardOf(d)].data
                        /\ dtQuery'[CardOf(d)].err = dtQuery[CardOf(d)].err
  BY ReadServedFacts, CardOnView
<1>4. ToldIsSearched'
  BY <1>a, <1>b, ReadServedFacts, CardOnView DEF ToldIsSearched, OwnIsShown
<1>5. DoneIsSearched'
  BY <1>a, <1>b, ReadServedFacts DEF DoneIsSearched, DetailShape
<1> QED BY <1>1, <1>2, <1>3, <1>4, <1>5

LEMMA ReadAnsweredKeeps ==
  ASSUME CardInv, NEW q \in DtQueries, DtReadAnswered(q)
  PROVE  AnswersAreCurrent' /\ ViewIsRead' /\ OwnIsShown' /\ ToldIsSearched' /\ DoneIsSearched'
<1> USE DEF CardInv
<1>0. \A x \in DtQueries : DtAnswer(x)' = DtAnswer(x)
  BY ReadAnsweredFacts DEF DtAnswer
<1>1. AnswersAreCurrent'
  BY <1>0, ReadAnsweredFacts DEF AnswersAreCurrent, RefreshOwed
<1>2. ViewIsRead'
  BY ReadAnsweredFacts, CardOnView DEF ViewIsRead, OnView
<1>3. OwnIsShown'
  BY ReadAnsweredFacts, CardOnView, DtAssumption DEF OwnIsShown, DetailShape, DtAnswers
<1>4. ToldIsSearched'
  BY ReadAnsweredFacts, CardOnView DEF ToldIsSearched, OwnIsShown
<1>5. DoneIsSearched'
  BY ReadAnsweredFacts, CardOnView DEF DoneIsSearched, DetailShape
<1> QED BY <1>1, <1>2, <1>3, <1>4, <1>5

LEMMA SearchServedKeeps ==
  ASSUME CardInv, NEW k \in DtSearch, SearchServed(k)
  PROVE  AnswersAreCurrent' /\ ViewIsRead' /\ OwnIsShown' /\ ToldIsSearched' /\ DoneIsSearched'
<1> USE DEF CardInv
<1>1. AnswersAreCurrent'
  BY SearchServedFacts DEF AnswersAreCurrent, RefreshOwed
<1>2. ViewIsRead'
  BY SearchServedFacts DEF ViewIsRead, OnView
<1>3. OwnIsShown'
  BY SearchServedFacts, CardOnView DEF OwnIsShown
<1>4. ToldIsSearched'
  BY SearchServedFacts DEF ToldIsSearched
<1>5. DoneIsSearched'
  BY SearchServedFacts DEF DoneIsSearched
<1> QED BY <1>1, <1>2, <1>3, <1>4, <1>5

LEMMA SearchAnsweredKeeps ==
  ASSUME CardInv, NEW k \in DtSearch, SearchAnswered(k)
  PROVE  AnswersAreCurrent' /\ ViewIsRead' /\ OwnIsShown' /\ ToldIsSearched' /\ DoneIsSearched'
<1> USE DEF CardInv
<1>0. \A x \in DtQueries : DtAnswer(x)' = DtAnswer(x)
  BY SearchAnsweredFacts DEF DtAnswer
<1>1. CASE dtSearch[k].status = "lost"
  <2>1. AnswersAreCurrent'
    BY <1>0, <1>1, SearchAnsweredFacts DEF AnswersAreCurrent, RefreshOwed
  <2>2. ViewIsRead'
    BY <1>1, SearchAnsweredFacts DEF ViewIsRead, OnView
  <2>3. OwnIsShown'
    BY <1>1, SearchAnsweredFacts DEF OwnIsShown
  <2>4. ToldIsSearched'
    BY <1>1, SearchAnsweredFacts DEF ToldIsSearched
  <2>5. DoneIsSearched'
    BY <1>1, SearchAnsweredFacts DEF DoneIsSearched
  <2> QED BY <2>1, <2>2, <2>3, <2>4, <2>5
<1>2. CASE dtSearch[k].status # "lost"
  <2>0. /\ dtSearch'[k].phase = "refetch" /\ dtSearch'[k].waits = OnView
        /\ \A q \in DtQueries : dtQuery'[q] = AfterRefresh(q)
        /\ dtCut' = {q \in DtQueries : AfterRefresh(q).phase = "served" /\ AfterRefresh(q).value # DtAnswer(q)}
    BY <1>2, SearchAnsweredFacts
  <2>1. AnswersAreCurrent'
    BY <1>0, <2>0, RefreshedFacts DEF AnswersAreCurrent
  <2>2. ViewIsRead'
    BY <2>0, SearchAnsweredFacts, RefreshedFacts, CardOnView DEF ViewIsRead, OnView
  <2>3. OwnIsShown'
    BY <2>0, SearchAnsweredFacts, RefreshedFacts, CardOnView DEF OwnIsShown
  <2>4. ToldIsSearched'
    BY <2>0, SearchAnsweredFacts, RefreshedFacts, CardOnView DEF ToldIsSearched, OwnIsShown
  <2>5. DoneIsSearched'
    BY <2>0, SearchAnsweredFacts, RefreshedFacts, CardOnView DEF DoneIsSearched, DetailShape
  <2> QED BY <2>1, <2>2, <2>3, <2>4, <2>5
<1> QED BY <1>1, <1>2

LEMMA SearchSettlesKeeps ==
  ASSUME CardInv, NEW k \in DtSearch, SearchSettles(k)
  PROVE  AnswersAreCurrent' /\ ViewIsRead' /\ OwnIsShown' /\ ToldIsSearched' /\ DoneIsSearched'
<1> USE DEF CardInv
<1>0. \A x \in DtQueries : DtAnswer(x)' = DtAnswer(x)
  BY SearchSettlesFacts DEF DtAnswer
<1>1. AnswersAreCurrent'
  BY <1>0, SearchSettlesFacts DEF AnswersAreCurrent, RefreshOwed
<1>2. ViewIsRead'
  BY SearchSettlesFacts DEF ViewIsRead, OnView
<1>3. OwnIsShown'
  BY SearchSettlesFacts DEF OwnIsShown
<1>4. ToldIsSearched'
  BY SearchSettlesFacts DEF ToldIsSearched
<1>5. DoneIsSearched'
  BY SearchSettlesFacts DEF DoneIsSearched, ToldIsSearched, OwnIsShown
<1> QED BY <1>1, <1>2, <1>3, <1>4, <1>5

LEMMA FindNewsKeeps ==
  ASSUME CardInv, FindNews
  PROVE  AnswersAreCurrent' /\ ViewIsRead' /\ OwnIsShown' /\ ToldIsSearched' /\ DoneIsSearched'
<1> USE DEF CardInv
<1>0. \A x \in DtQueries : DtAnswer(x)' = DtAnswer(x)
  BY FindNewsFacts DEF DtAnswer
<1>1. AnswersAreCurrent'
  <2>1. RefreshOwed <=> RefreshOwed'
    BY FindNewsFacts DEF RefreshOwed
  <2> QED BY <1>0, <2>1, FindNewsFacts DEF AnswersAreCurrent
<1>2. ViewIsRead'
  BY FindNewsFacts DEF ViewIsRead, OnView
<1>3. OwnIsShown'
  <2>1. PICK k \in DtSearch :
          /\ dtSearch'[k].phase = "asked" /\ dtSearch'[k].date = dtDate
          /\ \A j \in DtSearch \ {k} : dtSearch'[j].mine = FALSE
          /\ dtHere /\ dtDate # NoDt /\ dtQuery[<<"move", dtDate>>].data # NoDt
          /\ UNCHANGED <<dtServer, dtQuery, dtDate, dtHere>>
    BY FindNewsFacts
  <2> QED BY <2>1 DEF OwnIsShown, CardOf
<1>4. ToldIsSearched'
  BY FindNewsFacts DEF ToldIsSearched
<1>5. DoneIsSearched'
  BY FindNewsFacts DEF DoneIsSearched
<1> QED BY <1>1, <1>2, <1>3, <1>4, <1>5

LEMMA ShowDayKeeps ==
  ASSUME CardInv, NEW d \in DtDate \cup {NoDt}, NEW here, ShowDay(here, d)
  PROVE  AnswersAreCurrent' /\ ViewIsRead' /\ OwnIsShown' /\ ToldIsSearched' /\ DoneIsSearched'
<1> USE DEF CardInv
<1>0. \A x \in DtQueries : DtAnswer(x)' = DtAnswer(x)
  BY ShowDayFacts DEF DtAnswer
<1>1. AnswersAreCurrent'
  <2>1. RefreshOwed <=> RefreshOwed'
    BY ShowDayFacts DEF RefreshOwed
  <2>2. dtCut' = dtCut /\ \A q \in DtQueries : dtQuery'[q].phase # "asked" => dtQuery'[q] = dtQuery[q]
    BY ShowDayFacts
  <2> QED BY <1>0, <2>1, <2>2 DEF AnswersAreCurrent
<1>2. ViewIsRead'
  <2>1. OnView' \subseteq DtQueries
    BY ViewIsQueries DEF ShowDay, OnView
  <2> QED BY <2>1, ShowDayFacts DEF ViewIsRead
<1>3. OwnIsShown'
  BY ShowDayFacts DEF OwnIsShown
<1>4. ToldIsSearched'
  BY ShowDayFacts DEF ToldIsSearched
<1>5. DoneIsSearched'
  BY ShowDayFacts, CardOnView DEF DoneIsSearched, DetailShape
<1> QED BY <1>1, <1>2, <1>3, <1>4, <1>5

LEMMA CardStep == CardInv /\ [DtNext]_dtVars => CardInv'
<1> SUFFICES ASSUME CardInv, [DtNext]_dtVars PROVE CardInv'
  OBVIOUS
<1>1. DetailShape'
  BY DetailShapeStep DEF CardInv
<1>2. CASE UNCHANGED dtVars
  BY <1>1, <1>2 DEF dtVars, CardInv, AnswersAreCurrent, RefreshOwed, ViewIsRead, OnView, OwnIsShown,
     ToldIsSearched, DoneIsSearched, DtAnswer
<1> QED
  BY <1>1, <1>2, DetailNextCases, ReadServedKeeps, ReadAnsweredKeeps, SearchServedKeeps,
     SearchAnsweredKeeps, SearchSettlesKeeps, FindNewsKeeps, ShowDayKeeps DEF CardInv

\* Once its requests are answered the card of a day and the news column show what is stored around it,
\* whatever searches were sent and whatever was open meanwhile, and a day whose search was answered
\* as done is not offered for a search again (useFindNews), for any days and any number of searches.
THEOREM CardIsAlwaysCurrent == DtSpec => []CardIsCurrent
<1>1. DtInit => CardInv
  <2> SUFFICES ASSUME DtInit PROVE CardInv
    OBVIOUS
  <2>1. DetailShape
    BY DEF DtInit, DetailShape, DtNoQuery, DtQueryShape, DtNoSearch, DtSearchShape, DtSearchPhases, DtStatus
  <2>2. AnswersAreCurrent
    BY DEF DtInit, AnswersAreCurrent, DtNoQuery
  <2>3. ViewIsRead /\ DoneIsSearched
    BY DEF DtInit, ViewIsRead, DoneIsSearched, OnView, OnViewWith
  <2>4. OwnIsShown /\ ToldIsSearched
    BY DEF DtInit, OwnIsShown, ToldIsSearched, DtNoSearch
  <2> QED BY <2>1, <2>2, <2>3, <2>4 DEF CardInv
<1>2. CardInv => CardIsCurrent
  <2> SUFFICES ASSUME CardInv PROVE CardIsCurrent
    OBVIOUS
  <2>1. ASSUME DtQuiet, NEW q \in OnView \ dtCut, ~ dtQuery[q].err PROVE dtQuery[q].data = DtAnswer(q)
    BY <2>1, CardOnView DEF CardInv, DtQuiet, AnswersAreCurrent, RefreshOwed, ViewIsRead
  <2>2. ASSUME dtDate \in dtDone PROVE CardShows # "button"
    BY <2>2 DEF CardInv, DoneIsSearched, CardShows, CardQuery, CardOf
  <2> QED BY <2>1, <2>2 DEF CardIsCurrent
<1> QED BY <1>1, <1>2, CardStep, PTL DEF DtSpec

-----------------------------------------------------------------------------
(* The address of the signal records.                                      *)

\* What a filter says in an address it says read back.
RdRead == {f \in RdFilter : Parse(f) = f}

RdTypes ==
  /\ rdHistory \in Seq(RdAddress) /\ rdAt \in DOMAIN rdHistory
  /\ rdNav \in [how : {"none", "push", "replace"}, own : BOOLEAN, to : RdAddress]
  /\ rdFilters \in RdRead /\ rdPending \in Seq(RdRead)
  /\ rdList \in [RdSource -> [data : BOOLEAN, asked : BOOLEAN, error : BOOLEAN]]
  /\ rdDetail \in [RdRows -> {"unread", "read", "failed"}]
  /\ rdOvertaken \in BOOLEAN

\* What is being written is the last that is pending, at the record shown; what comes from outside finds
\* no write owed.
NavIsTold ==
  /\ rdNav.how = "none" => ~ rdNav.own
  /\ rdNav.how = "replace" => rdNav.to.row = Here.row
  /\ ~ rdOvertaken =>
       IF rdNav.own
       THEN /\ rdNav.to.query = rdFilters
            /\ rdPending = <<>> \/ rdPending[Len(rdPending)] = rdFilters
       ELSE rdFilters = HereQuery /\ rdPending = <<>>

AddressInv == RdTypes /\ rdSeen = HereQuery /\ NavIsTold

LEMMA ParseReads ==
  ASSUME NEW q \in RdQuery
  PROVE  Parse(q) \in RdRead
<1> DEFINE p == Parse(q)
<1>1. q.shown \in BOOLEAN
  <2>1. CASE q \in RdFilter
    BY <2>1 DEF RdFilter
  <2>2. CASE q = TypedByHand
    BY <2>2 DEF TypedByHand
  <2> QED BY <2>1, <2>2 DEF RdQuery
<1>2. PICK kind : kind = IF q.kind \in RdSource THEN q.kind ELSE "all"
  OBVIOUS
<1>3. PICK from : from = IF q.from \in RdDay THEN q.from ELSE NoDay
  OBVIOUS
<1>4. PICK to : to = IF q.to \in RdDay THEN q.to ELSE NoDay
  OBVIOUS
<1>5. p = [kind |-> kind, from |-> from, to |-> to, shown |-> kind = "surge" /\ q.shown]
  BY <1>2, <1>3, <1>4 DEF Parse
<1>6. p \in RdFilter
  BY <1>1, <1>2, <1>3, <1>4, <1>5 DEF RdFilter
<1>7. Parse(p) = p
  BY <1>2, <1>3, <1>4, <1>5 DEF Parse
<1> QED BY <1>6, <1>7 DEF RdRead

\* The first place of a query among those pending is one where it is.
LEMMA FirstIsThere ==
  ASSUME NEW pending \in Seq(RdRead), NEW q, \E i \in DOMAIN pending : pending[i] = q
  PROVE  FirstAt(pending, q) \in 1..Len(pending)
<1> DEFINE at == {i \in DOMAIN pending : pending[i] = q}
<1>1. at \in SUBSET (1..Len(pending)) /\ at # {} /\ Len(pending) \in Nat
  OBVIOUS
<1>2. \E i \in at : \A j \in at : i <= j
  <2> HIDE DEF at
  <2> QED BY <1>1, PlacesHaveEnds
<1>3. FirstAt(pending, q) = CHOOSE i \in at : \A j \in at : i <= j
  BY <1>1 DEF FirstAt
<1>4. FirstAt(pending, q) \in at
  <2> HIDE DEF at
  <2> QED BY <1>2, <1>3
<1> QED BY <1>1, <1>4

\* What a render leaves pending.
Left(pending, seen, address) ==
  IF seen = address THEN pending
  ELSE IF FirstAt(pending, address) > 0 THEN SubSeq(pending, FirstAt(pending, address) + 1, Len(pending)) ELSE <<>>

LEMMA LeftIs ==
  ASSUME NEW pending \in Seq(RdRead), NEW seen, NEW address
  PROVE  /\ Left(pending, seen, address) \in Seq(RdRead)
         /\ FirstAt(pending, address) \in 0..Len(pending)
         /\ pending # <<>> /\ pending[Len(pending)] = address => FirstAt(pending, address) > 0
         /\ pending = <<>> => Left(pending, seen, address) = <<>> /\ FirstAt(pending, address) = 0
         /\ Left(pending, seen, address) # <<>> =>
              Left(pending, seen, address)[Len(Left(pending, seen, address))] = pending[Len(pending)]
<1>1. Len(pending) \in Nat /\ DOMAIN pending = 1..Len(pending)
  OBVIOUS
<1>2. CASE \E i \in DOMAIN pending : pending[i] = address
  <2>1. PICK at : at = FirstAt(pending, address)
    OBVIOUS
  <2>2. at \in 1..Len(pending)
    BY <1>2, <2>1, FirstIsThere
  <2>3. PICK rest : rest = SubSeq(pending, at + 1, Len(pending))
    OBVIOUS
  <2>4. rest \in Seq(RdRead) /\ Len(rest) = Len(pending) - at
        /\ \A i \in 1..Len(rest) : rest[i] = pending[at + i]
    BY <1>1, <2>2, <2>3
  <2>5. rest # <<>> => rest[Len(rest)] = pending[Len(pending)]
    <3> SUFFICES ASSUME rest # <<>> PROVE rest[Len(rest)] = pending[Len(pending)]
      OBVIOUS
    <3>1. Len(rest) \in 1..Len(rest)
      BY <1>1, <2>2, <2>4
    <3>2. at + Len(rest) = Len(pending)
      BY <1>1, <2>2, <2>4
    <3> QED BY <2>4, <3>1, <3>2
  <2> QED BY <1>1, <1>2, <2>1, <2>2, <2>3, <2>4, <2>5 DEF Left
<1>3. CASE ~ \E i \in DOMAIN pending : pending[i] = address
  <2>1. FirstAt(pending, address) = 0
    BY <1>3 DEF FirstAt
  <2>2. pending # <<>> => Len(pending) \in DOMAIN pending
    BY <1>1
  <2> QED BY <1>1, <1>3, <2>1, <2>2 DEF Left
<1> QED BY <1>2, <1>3

\* A render reads the address; the filters follow it unless the page wrote it.
LEMMA Rendering ==
  ASSUME NEW filters \in RdRead, NEW pending \in Seq(RdRead), NEW address \in RdRead,
         RdRendered(filters, pending, address)
  PROVE  /\ rdSeen' = address /\ rdFilters' \in RdRead /\ rdPending' \in Seq(RdRead)
         /\ address = filters /\ (pending = <<>> \/ pending[Len(pending)] = filters) =>
              rdFilters' = address /\ rdPending' = <<>>
         /\ pending = <<>> /\ (rdSeen = address => filters = address) =>
              rdFilters' = address /\ rdPending' = <<>>
         /\ rdSeen = address => rdFilters' = filters /\ rdPending' \in {<<>>, pending}
<1> DEFINE at == FirstAt(pending, address)
           left == Left(pending, rdSeen, address)
           caughtUp == left # <<>> /\ left[Len(left)] = address /\ address = filters
           follow == rdSeen # address /\ at = 0 /\ address # filters
<1>1. /\ rdSeen' = address
      /\ rdPending' = IF caughtUp THEN <<>> ELSE left
      /\ rdFilters' = IF follow THEN address ELSE filters
  BY DEF RdRendered, Sync, Left
<1>2. /\ left \in Seq(RdRead) /\ at \in 0..Len(pending) /\ Len(pending) \in Nat
      /\ pending # <<>> /\ pending[Len(pending)] = address => at > 0
      /\ pending = <<>> => left = <<>> /\ at = 0
      /\ left # <<>> => left[Len(left)] = pending[Len(pending)]
      /\ rdSeen = address => left = pending
  <2>1. rdSeen = address => left = pending
    BY DEF Left
  <2> QED BY <2>1, LeftIs
<1> HIDE DEF at, left
<1>3. rdFilters' \in RdRead /\ rdPending' \in Seq(RdRead)
  BY <1>1, <1>2
<1>4. ASSUME address = filters, pending = <<>> \/ pending[Len(pending)] = filters
      PROVE  rdFilters' = address /\ rdPending' = <<>>
  BY <1>1, <1>2, <1>4
<1>5. ASSUME pending = <<>>, rdSeen = address => filters = address
      PROVE  rdFilters' = address /\ rdPending' = <<>>
  BY <1>1, <1>2, <1>5
<1>6. ASSUME rdSeen = address PROVE rdFilters' = filters /\ rdPending' \in {<<>>, pending}
  BY <1>1, <1>2, <1>6
<1> QED BY <1>1, <1>3, <1>4, <1>5, <1>6

LEMMA AddressesParse ==
  ASSUME NEW a \in RdAddress
  PROVE  Parse(a.query) \in RdRead
<1>1. a.query \in RdQuery
  BY DEF RdAddress
<1> QED BY <1>1, ParseReads

\* The page moves from an address whose writes are told to another.
LEMMA Arriving ==
  ASSUME RdTypes, rdSeen = HereQuery, NEW address \in RdAddress, Arrive(address)
  PROVE  /\ rdSeen' = Parse(address.query) /\ rdFilters' \in RdRead /\ rdPending' \in Seq(RdRead)
         /\ Parse(address.query) = rdFilters /\ (rdPending = <<>> \/ rdPending[Len(rdPending)] = rdFilters) =>
              rdFilters' = Parse(address.query) /\ rdPending' = <<>>
         /\ rdPending = <<>> /\ rdFilters = HereQuery =>
              rdFilters' = Parse(address.query) /\ rdPending' = <<>>
<1>1. Parse(address.query) \in RdRead
  BY AddressesParse
<1>2. CASE address.row = Here.row
  <2>1. RdRendered(rdFilters, rdPending, Parse(address.query))
    BY <1>2 DEF Arrive
  <2>2. rdFilters \in RdRead /\ rdPending \in Seq(RdRead)
    BY DEF RdTypes
  <2> QED BY <1>1, <2>1, <2>2, Rendering
<1>3. CASE address.row # Here.row
  <2>1. Mounted(Parse(address.query))
    BY <1>3 DEF Arrive
  <2> QED BY <1>1, <2>1 DEF Mounted
<1> QED BY <1>2, <1>3

LEMMA SetFiltersStep == ASSUME AddressInv, NEW next \in RdFilter, SetFilters(next) PROVE AddressInv'
<1>1. PICK updated : updated = [next EXCEPT !.shown = next.kind = "surge" /\ next.shown]
  OBVIOUS
<1>2. updated \in RdRead
  <2>1. updated \in RdFilter
    BY <1>1 DEF RdFilter
  <2>2. updated = [kind |-> next.kind, from |-> next.from, to |-> next.to, shown |-> updated.shown]
        /\ updated.shown = (next.kind = "surge" /\ next.shown)
    BY <1>1 DEF RdFilter
  <2>3. next.kind \in RdSource \cup {"all"} /\ next.from \in RdDay \cup {NoDay} /\ next.to \in RdDay \cup {NoDay}
    BY DEF RdFilter
  <2>4. Parse(updated) = updated
    <3>1. (IF updated.kind \in RdSource THEN updated.kind ELSE "all") = next.kind
      BY <2>2, <2>3
    <3>2. (IF updated.from \in RdDay THEN updated.from ELSE NoDay) = next.from
          /\ (IF updated.to \in RdDay THEN updated.to ELSE NoDay) = next.to
      BY <2>2, <2>3
    <3>3. (next.kind = "surge" /\ updated.shown) = updated.shown
      BY <2>2
    <3> QED BY <2>2, <3>1, <3>2, <3>3 DEF Parse
  <2> QED BY <2>1, <2>4 DEF RdRead
<1>3. PICK nav : nav = [how |-> "replace", own |-> TRUE, to |-> [row |-> Here.row, query |-> updated]]
  OBVIOUS
<1>4. PICK pending : pending = Append(rdPending, updated)
  OBVIOUS
<1>5. /\ rdNav' = nav /\ RdRendered(updated, pending, HereQuery)
      /\ rdHistory' = rdHistory /\ rdAt' = rdAt /\ rdList' = rdList /\ rdDetail' = rdDetail
      /\ rdOvertaken' = rdOvertaken
  BY <1>1, <1>3, <1>4 DEF SetFilters
<1>6. /\ rdHistory \in Seq(RdAddress) /\ rdAt \in DOMAIN rdHistory /\ rdPending \in Seq(RdRead)
      /\ rdSeen = HereQuery /\ Here \in RdAddress
  BY DEF AddressInv, RdTypes, Here
<1>7. pending \in Seq(RdRead) /\ pending # <<>> /\ pending[Len(pending)] = updated
  BY <1>2, <1>4, <1>6
<1>8. HereQuery \in RdRead /\ HereQuery' = HereQuery /\ Here' = Here
  <2>1. HereQuery \in RdRead
    BY <1>6, AddressesParse DEF HereQuery
  <2> QED BY <1>5, <2>1 DEF HereQuery, Here
<1>9. /\ rdSeen' = HereQuery /\ rdFilters' = updated /\ rdPending' \in {<<>>, pending}
      /\ rdPending' \in Seq(RdRead)
  BY <1>2, <1>5, <1>6, <1>7, <1>8, Rendering
<1>10. nav \in [how : {"none", "push", "replace"}, own : BOOLEAN, to : RdAddress]
  <2>1. [row |-> Here.row, query |-> updated] \in RdAddress
    BY <1>2, <1>6 DEF RdAddress, RdQuery, RdRead
  <2> QED BY <1>3, <2>1
<1>11. RdTypes'
  BY <1>2, <1>5, <1>9, <1>10 DEF AddressInv, RdTypes
<1>12. NavIsTold'
  <2>1. rdPending' = <<>> \/ rdPending'[Len(rdPending')] = rdFilters'
    BY <1>7, <1>9
  <2> QED BY <1>3, <1>5, <1>8, <1>9, <2>1 DEF NavIsTold
<1> QED BY <1>8, <1>9, <1>11, <1>12 DEF AddressInv

LEMMA SelectRowStep == ASSUME AddressInv, NEW r \in RdRows, SelectRow(r) PROVE AddressInv'
<1>1. PICK nav : nav = [how |-> "push", own |-> TRUE, to |-> [row |-> r, query |-> rdFilters]]
  OBVIOUS
<1>2. /\ rdNav' = nav /\ UNCHANGED <<rdHistory, rdAt, rdFilters, rdPending, rdSeen, rdList, rdDetail, rdOvertaken>>
  BY <1>1 DEF SelectRow
<1>3. nav \in [how : {"none", "push", "replace"}, own : BOOLEAN, to : RdAddress]
  <2>1. nav.to \in RdAddress
    BY <1>1 DEF AddressInv, RdTypes, RdAddress, RdQuery, RdRead
  <2> QED BY <1>1, <2>1
<1>4. HereQuery' = HereQuery /\ Here' = Here
  BY <1>2 DEF HereQuery, Here
<1>5. RdTypes'
  BY <1>2, <1>3 DEF AddressInv, RdTypes
<1>6. NavIsTold'
  BY <1>1, <1>2, <1>4 DEF AddressInv, NavIsTold
<1> QED BY <1>2, <1>4, <1>5, <1>6 DEF AddressInv

LEMMA FollowLinkStep == ASSUME AddressInv, FollowLink PROVE AddressInv'
<1>1. PICK nav : nav = [how |-> "push", own |-> FALSE, to |-> [row |-> NoRd, query |-> AllRecords]]
  OBVIOUS
<1>2. /\ rdNav' = nav /\ rdOvertaken' = (rdOvertaken \/ rdNav.own)
      /\ UNCHANGED <<rdHistory, rdAt, rdFilters, rdPending, rdSeen, rdList, rdDetail>>
  BY <1>1 DEF FollowLink
<1>3. nav \in [how : {"none", "push", "replace"}, own : BOOLEAN, to : RdAddress]
  <2>1. nav.to \in RdAddress
    BY <1>1 DEF RdAddress, RdQuery, RdFilter, AllRecords
  <2> QED BY <1>1, <2>1
<1>4. HereQuery' = HereQuery /\ Here' = Here
  BY <1>2 DEF HereQuery, Here
<1>5. RdTypes'
  BY <1>2, <1>3 DEF AddressInv, RdTypes
<1>6. NavIsTold'
  BY <1>1, <1>2, <1>4 DEF AddressInv, NavIsTold
<1> QED BY <1>2, <1>4, <1>5, <1>6 DEF AddressInv

LEMMA DetailsKept ==
  ASSUME RdTypes, NEW row, DetailsAt(row)
  PROVE  rdDetail' \in [RdRows -> {"unread", "read", "failed"}]
BY DEF RdTypes, DetailsAt

LEMMA NoNavIs ==
  /\ NoNav \in [how : {"none", "push", "replace"}, own : BOOLEAN, to : RdAddress]
  /\ NoNav.how = "none" /\ NoNav.own = FALSE
<1>1. [row |-> NoRd, query |-> AllRecords] \in RdAddress
  BY DEF RdAddress, RdQuery, RdFilter, AllRecords
<1> QED BY <1>1 DEF NoNav

LEMMA TraverseStep == ASSUME AddressInv, NEW at, Traverse(at) PROVE AddressInv'
<1>1. /\ at \in DOMAIN rdHistory /\ rdAt' = at /\ rdNav' = NoNav /\ rdOvertaken' = (rdOvertaken \/ rdNav.own)
      /\ Arrive(rdHistory[at]) /\ DetailsAt(rdHistory[at].row) /\ rdHistory' = rdHistory /\ rdList' = rdList
  BY DEF Traverse
<1>2. RdTypes /\ rdSeen = HereQuery /\ rdHistory[at] \in RdAddress
  BY <1>1 DEF AddressInv, RdTypes
<1>3. HereQuery' = Parse(rdHistory[at].query)
  BY <1>1 DEF HereQuery, Here
<1>4. /\ rdSeen' = HereQuery' /\ rdFilters' \in RdRead /\ rdPending' \in Seq(RdRead)
      /\ rdPending = <<>> /\ rdFilters = HereQuery => rdFilters' = HereQuery' /\ rdPending' = <<>>
  BY <1>1, <1>2, <1>3, Arriving
<1>5. RdTypes'
  BY <1>1, <1>2, <1>4, DetailsKept, NoNavIs DEF RdTypes
<1>6. NavIsTold'
  BY <1>1, <1>4, NoNavIs DEF AddressInv, NavIsTold
<1> QED BY <1>4, <1>5, <1>6 DEF AddressInv

LEMMA LandsStep == ASSUME AddressInv, Lands PROVE AddressInv'
<1>1. /\ rdNav.how # "none" /\ rdNav' = NoNav /\ Arrive(rdNav.to) /\ DetailsAt(rdNav.to.row)
      /\ rdList' = rdList /\ rdOvertaken' = rdOvertaken
      /\ rdHistory' = IF rdNav.how = "push" THEN Append(SubSeq(rdHistory, 1, rdAt), rdNav.to)
                      ELSE [rdHistory EXCEPT ![rdAt] = rdNav.to]
      /\ rdAt' = IF rdNav.how = "push" THEN rdAt + 1 ELSE rdAt
  BY DEF Lands
<1>2. RdTypes /\ rdSeen = HereQuery /\ rdNav.to \in RdAddress
      /\ rdHistory \in Seq(RdAddress) /\ rdAt \in 1..Len(rdHistory) /\ Len(rdHistory) \in Nat
  BY DEF AddressInv, RdTypes
<1>3. rdHistory' \in Seq(RdAddress) /\ rdAt' \in DOMAIN rdHistory' /\ rdHistory'[rdAt'] = rdNav.to
  <2>1. CASE rdNav.how = "push"
    <3>1. PICK before : before = SubSeq(rdHistory, 1, rdAt)
      OBVIOUS
    <3>2. before \in Seq(RdAddress) /\ Len(before) = rdAt
      BY <1>2, <3>1
    <3> QED BY <1>1, <1>2, <2>1, <3>1, <3>2
  <2>2. CASE rdNav.how # "push"
    BY <1>1, <1>2, <2>2
  <2> QED BY <2>1, <2>2
<1>4. HereQuery' = Parse(rdNav.to.query)
  BY <1>3 DEF HereQuery, Here
<1>5. /\ rdSeen' = HereQuery' /\ rdFilters' \in RdRead /\ rdPending' \in Seq(RdRead)
      /\ HereQuery' = rdFilters /\ (rdPending = <<>> \/ rdPending[Len(rdPending)] = rdFilters) =>
           rdFilters' = HereQuery' /\ rdPending' = <<>>
      /\ rdPending = <<>> /\ rdFilters = HereQuery => rdFilters' = HereQuery' /\ rdPending' = <<>>
  BY <1>1, <1>2, <1>4, Arriving
<1>6. RdTypes'
  BY <1>1, <1>2, <1>3, <1>5, DetailsKept, NoNavIs DEF RdTypes
<1>7. NavIsTold'
  <2>1. ASSUME ~ rdOvertaken PROVE rdFilters' = HereQuery' /\ rdPending' = <<>>
    <3>1. CASE rdNav.own
      <4>1. Parse(rdFilters) = rdFilters
        BY <1>2 DEF RdTypes, RdRead
      <4> QED BY <1>4, <1>5, <2>1, <3>1, <4>1 DEF AddressInv, NavIsTold
    <3>2. CASE ~ rdNav.own
      BY <1>5, <2>1, <3>2 DEF AddressInv, NavIsTold
    <3> QED BY <3>1, <3>2
  <2> QED BY <1>1, <2>1, NoNavIs DEF NavIsTold
<1> QED BY <1>5, <1>6, <1>7 DEF AddressInv

LEMMA AddressStep == AddressInv /\ [RdNext]_rdVars => AddressInv'
<1> SUFFICES ASSUME AddressInv, [RdNext]_rdVars PROVE AddressInv'
  OBVIOUS
<1> DEFINE Stays == UNCHANGED <<rdHistory, rdAt, rdNav, rdFilters, rdPending, rdSeen, rdOvertaken>>
<1>1. ASSUME Stays, rdList' \in [RdSource -> [data : BOOLEAN, asked : BOOLEAN, error : BOOLEAN]],
             rdDetail' \in [RdRows -> {"unread", "read", "failed"}]
      PROVE  AddressInv'
  BY <1>1 DEF AddressInv, RdTypes, NavIsTold, HereQuery, Here
<1>2. /\ rdList \in [RdSource -> [data : BOOLEAN, asked : BOOLEAN, error : BOOLEAN]]
      /\ rdDetail \in [RdRows -> {"unread", "read", "failed"}]
  BY DEF AddressInv, RdTypes
<1>3. CASE UNCHANGED rdVars
  BY <1>1, <1>2, <1>3 DEF rdVars
<1>4. ASSUME NEW s \in RdSource, NEW ok \in BOOLEAN, RdListRead(s, ok) PROVE AddressInv'
  BY <1>1, <1>2, <1>4 DEF RdListRead
<1>5. ASSUME NEW ok \in BOOLEAN, DetailAnswered(ok) PROVE AddressInv'
  BY <1>1, <1>2, <1>5 DEF DetailAnswered
<1>6. CASE RetryFailed
  BY <1>1, <1>2, <1>6 DEF RetryFailed
<1>7. CASE RetryDetail
  BY <1>1, <1>2, <1>7 DEF RetryDetail
<1>8. CASE FocusReads
  <2>1. Stays /\ rdDetail' = rdDetail
        /\ rdList' = [s \in RdSource |-> [rdList[s] EXCEPT !.asked = rdList[s].asked \/ rdList[s].data]]
    BY <1>8 DEF FocusReads
  <2> QED BY <1>1, <1>2, <2>1
<1>9. CASE ShowMore
  BY <1>1, <1>2, <1>9 DEF ShowMore
<1> QED
  BY <1>3, <1>4, <1>5, <1>6, <1>7, <1>8, <1>9, SetFiltersStep, SelectRowStep, FollowLinkStep, TraverseStep,
     LandsStep DEF RdNext

\* In the page of records, when nothing is under way, the filters are those of the address, and what is being
\* written is what is shown; a record is said not to exist only if it does not (syncAddress, setFilters and the
\* report of app/alerts), for any records, days and histories.
THEOREM AddressAlwaysHolds == RdSpec => []AddressHolds
<1>1. RdInit => AddressInv
  <2> SUFFICES ASSUME RdInit PROVE AddressInv
    OBVIOUS
  <2>1. PICK a \in RdAddress : rdHistory = <<a>>
    <3>1. PICK row \in RdRows \cup {NoRd, RdStrange, IllFormed}, q \in {AllRecords, TypedByHand} :
            rdHistory = <<[row |-> row, query |-> q]>>
      BY DEF RdInit
    <3>2. AllRecords \in RdFilter
      BY DEF AllRecords, RdFilter
    <3>3. q \in RdQuery
      BY <3>2 DEF RdQuery
    <3> QED BY <3>1, <3>3 DEF RdAddress
  <2>2. /\ rdHistory \in Seq(RdAddress) /\ rdAt = 1 /\ rdAt \in DOMAIN rdHistory /\ rdNav = NoNav
        /\ rdSeen = HereQuery /\ rdFilters = HereQuery /\ rdPending = <<>> /\ rdOvertaken = FALSE /\ Here = a
    BY <2>1 DEF RdInit, HereQuery, Here
  <2>3. HereQuery \in RdRead
    BY <2>2, AddressesParse DEF HereQuery
  <2>4. RdTypes
    <3>1. rdList = [s \in RdSource |-> [data |-> FALSE, asked |-> TRUE, error |-> FALSE]]
          /\ rdDetail = [r \in RdRows |-> "unread"]
      BY DEF RdInit
    <3>2. rdList \in [RdSource -> [data : BOOLEAN, asked : BOOLEAN, error : BOOLEAN]]
          /\ rdDetail \in [RdRows -> {"unread", "read", "failed"}]
      BY <3>1
    <3>3. rdNav \in [how : {"none", "push", "replace"}, own : BOOLEAN, to : RdAddress]
      BY <2>2, NoNavIs
    <3>4. rdFilters \in RdRead /\ rdPending \in Seq(RdRead) /\ rdOvertaken \in BOOLEAN
      <4>1. <<>> \in Seq(RdRead)
        OBVIOUS
      <4> QED BY <2>2, <2>3, <4>1, Zenon
    <3> QED BY <2>2, <3>2, <3>3, <3>4 DEF RdTypes
  <2>5. NavIsTold
    BY <2>2, NoNavIs DEF NavIsTold
  <2> QED BY <2>2, <2>4, <2>5 DEF AddressInv
<1>2. AddressInv => AddressHolds
  <2> SUFFICES ASSUME AddressInv PROVE AddressHolds
    OBVIOUS
  <2>1. FiltersFollowAddress
    BY DEF AddressInv, NavIsTold, FiltersFollowAddress
  <2>2. WritesShowFilters
    BY DEF AddressInv, NavIsTold, WritesShowFilters
  <2>3. ASSUME NEW s \in RdSource, Here.row \in InList(s)
        PROVE  Here.row.kind = s /\ Here.row \in RdRows /\ Here.row # NoRd /\ Here.row # IllFormed
    BY <2>3, RdAssumption DEF InList, NoRd, IllFormed
  <2>4. ASSUME NEW s \in RdSource, Here.row \in InList(s), rdList[s].data
        PROVE  ~ NotFound /\ RdSelected = Here.row
    <3>1. RdSelected = Here.row
      BY <2>4 DEF RdSelected, DataOf
    <3> QED BY <2>3, <2>4, <3>1 DEF NotFound
  <2>5. ASSUME NEW s \in RdSource, RdReport = "notFound" PROVE Here.row \notin InList(s)
    <3>1. SUFFICES ASSUME Here.row \in InList(s) PROVE FALSE
      OBVIOUS
    <3>2. ~ NotFound
      BY <2>3, <2>4, <3>1 DEF NotFound
    <3>3. RdSelected # NoRd => RdSelected = Here.row
      BY DEF RdSelected
    <3>4. Here.row # NoRd /\ Here.row \in RdRows /\ Here.row.kind = s
      BY <2>3, <3>1
    <3>5. RdSelected = Here.row => ReportOf(RdSelected) \in {"read", "unread", "failed"}
      BY <3>4 DEF ReportOf, AddressInv, RdTypes
    <3> QED BY <2>5, <3>2, <3>3, <3>4, <3>5 DEF RdReport
  <2>6. ASSUME NEW s \in RdSource, Here.row \in InList(s), rdList[s].data, ~ rdList[s].error
        PROVE  RdReport \in {"unread", "read", "failed"}
    <3>1. ~ NotFound /\ RdSelected = Here.row /\ Here.row # NoRd /\ Here.row \in RdRows /\ Here.row.kind = s
      BY <2>3, <2>4, <2>6
    <3>2. ReportOf(RdSelected) \in {"read", "unread", "failed"}
      BY <3>1 DEF ReportOf, AddressInv, RdTypes
    <3>3. RdReport = ReportOf(RdSelected)
      BY <2>6, <3>1 DEF RdReport
    <3> QED BY <3>2, <3>3
  <2>7. ReportStandsAlone
    BY <2>5, <2>6 DEF ReportStandsAlone
  <2> QED BY <2>1, <2>2, <2>7 DEF AddressHolds
<1> QED BY <1>1, <1>2, AddressStep, PTL DEF RdSpec

-----------------------------------------------------------------------------
(* The list of the news.                                                   *)

\* Pages that follow one another: all before the last are full, and if they start with the newest
\* article they go on from it.
Begins(pages, new) == pages # <<>> /\ pages[1] # <<>> /\ pages[1][1] = new
Follows(pages, new) ==
  \A i \in DOMAIN pages : \A j \in DOMAIN pages[i] : pages[i][j] = new - (i - 1) * NlPage - j + 1
Fed(pages, old, new) ==
  /\ pages \in Seq(Seq(Nat))
  /\ \A i \in DOMAIN pages : Len(pages[i]) <= NlPage /\ (i < Len(pages) => Len(pages[i]) = NlPage)
  /\ \A i \in DOMAIN pages : \A j \in DOMAIN pages[i] : old <= pages[i][j] /\ pages[i][j] <= new
  /\ Begins(pages, new) => Follows(pages, new)

\* A list whose last page is short has all there is.
Complete(pages, old, new) ==
  Begins(pages, new) /\ Len(pages[Len(pages)]) < NlPage =>
    (Len(pages) - 1) * NlPage + Len(pages[Len(pages)]) = new - old + 1

Full(pages) == \A i \in DOMAIN pages : Len(pages[i]) = NlPage

NewsInv ==
  /\ nlOld \in Nat /\ nlNew \in Int /\ nlOld <= nlNew + 1
  /\ nlPages # NoNl => nlPages # <<>> /\ Fed(nlPages, nlOld, nlNew)
  /\ nlFetch # NoNl =>
       /\ nlFetch \in NlFetches
       /\ Fed(nlFetch.got, nlOld, nlNew) /\ Full(nlFetch.got)
       /\ nlFetch.offset = Len(nlFetch.got) * NlPage
       /\ nlFetch.stage # "feed" => Fed(Append(nlFetch.got, nlFetch.existing), nlOld, nlNew)
  /\ nlPages # NoNl /\ nlFetch = NoNl /\ ~ nlErr => Complete(nlPages, nlOld, nlNew)

LEMMA PageIsPositive == NlPage \in Nat /\ NlPage >= 1
BY NlAssumption

\* More articles at either end leave what was read as it was.
LEMMA FedStays ==
  ASSUME NEW pages, NEW old \in Nat, NEW new \in Int, Fed(pages, old, new),
         NEW older \in Nat, older <= old, NEW newer \in Int, new <= newer
  PROVE  Fed(pages, older, newer)
<1>1. \A i \in DOMAIN pages : \A j \in DOMAIN pages[i] :
        pages[i][j] \in Nat /\ older <= pages[i][j] /\ pages[i][j] <= newer
  BY DEF Fed
<1>2. Begins(pages, newer) => newer = new
  <2> SUFFICES ASSUME Begins(pages, newer) PROVE newer = new
    OBVIOUS
  <2>1. 1 \in DOMAIN pages /\ 1 \in DOMAIN pages[1] /\ pages[1][1] = newer
    BY DEF Begins, Fed
  <2>2. pages[1][1] <= new
    BY <2>1 DEF Fed
  <2> QED BY <2>1, <2>2
<1> QED BY <1>1, <1>2 DEF Fed

LEMMA EmptyIsFed == ASSUME NEW old, NEW new PROVE Fed(<<>>, old, new) /\ Full(<<>>) /\ Len(<<>>) * NlPage = 0
BY PageIsPositive DEF Fed, Full, Begins

\* The page a feed answers with: what is left from its offset on.
LEMMA FeedIs ==
  ASSUME nlOld \in Nat, nlNew \in Int, NEW offset \in Nat
  PROVE  LET left == nlNew - nlOld + 1 - offset
         IN  /\ Feed(offset) \in Seq(Nat) /\ Len(Feed(offset)) <= NlPage
             /\ Len(Feed(offset)) = (IF left < 0 THEN 0 ELSE IF left > NlPage THEN NlPage ELSE left)
             /\ \A j \in DOMAIN Feed(offset) :
                  /\ Feed(offset)[j] = nlNew - offset - j + 1
                  /\ nlOld <= Feed(offset)[j] /\ Feed(offset)[j] <= nlNew
<1> DEFINE left == nlNew - nlOld + 1 - offset
<1>1. PICK n : n = IF left < 0 THEN 0 ELSE IF left > NlPage THEN NlPage ELSE left
  OBVIOUS
<1>2. n \in Nat /\ n <= NlPage /\ (n > 0 => n <= left)
  BY <1>1, PageIsPositive
<1>3. Feed(offset) = [i \in 1..n |-> nlNew - offset - i + 1]
  BY <1>1 DEF Feed
<1>4. \A j \in 1..n : nlOld <= nlNew - offset - j + 1 /\ nlNew - offset - j + 1 <= nlNew
                      /\ nlNew - offset - j + 1 \in Nat
  BY <1>2
<1>5. Feed(offset) \in Seq(Nat) /\ Len(Feed(offset)) = n /\ DOMAIN Feed(offset) = 1..n
  BY <1>2, <1>3, <1>4
<1> QED BY <1>1, <1>2, <1>3, <1>4, <1>5

\* A page that goes on where full pages end makes pages that follow one another.
LEMMA PageFollows ==
  ASSUME NEW old \in Nat, NEW new \in Int, NEW got, Fed(got, old, new), Full(got),
         NEW page \in Seq(Nat), Len(page) <= NlPage,
         \A j \in DOMAIN page : /\ page[j] = new - Len(got) * NlPage - j + 1
                                /\ old <= page[j] /\ page[j] <= new
  PROVE  Fed(Append(got, page), old, new)
<1> DEFINE n == Len(got)
           pages == Append(got, page)
<1>1. got \in Seq(Seq(Nat)) /\ n \in Nat /\ DOMAIN got = 1..n
  BY DEF Fed
<1>2. /\ pages \in Seq(Seq(Nat)) /\ Len(pages) = n + 1 /\ DOMAIN pages = 1..(n + 1)
      /\ pages[n + 1] = page /\ \A i \in 1..n : pages[i] = got[i]
  BY <1>1
<1> HIDE DEF pages
<1>3. \A i \in DOMAIN pages : Len(pages[i]) <= NlPage /\ (i < Len(pages) => Len(pages[i]) = NlPage)
  <2> TAKE i \in DOMAIN pages
  <2>1. CASE i = n + 1
    BY <1>2, <2>1
  <2>2. CASE i \in 1..n
    BY <1>1, <1>2, <2>2 DEF Full, Fed
  <2> QED BY <1>1, <1>2, <2>1, <2>2
<1>4. \A i \in DOMAIN pages : \A j \in DOMAIN pages[i] : old <= pages[i][j] /\ pages[i][j] <= new
  <2> TAKE i \in DOMAIN pages
  <2>1. CASE i = n + 1
    BY <1>2, <2>1
  <2>2. CASE i \in 1..n
    BY <1>1, <1>2, <2>2 DEF Fed
  <2> QED BY <1>1, <1>2, <2>1, <2>2
<1>5. ASSUME Begins(pages, new) PROVE Follows(pages, new)
  <2>1. n > 0 => Begins(got, new)
    <3> SUFFICES ASSUME n > 0 PROVE Begins(got, new)
      OBVIOUS
    <3>1. 1 \in 1..n /\ pages[1] = got[1]
      BY <1>1, <1>2
    <3> QED BY <1>1, <1>5, <3>1 DEF Begins
  <2>2. ASSUME NEW i \in 1..n, NEW j \in DOMAIN pages[i] PROVE pages[i][j] = new - (i - 1) * NlPage - j + 1
    <3>1. pages[i] = got[i] /\ Follows(got, new)
      BY <1>1, <1>2, <2>1, <2>2 DEF Fed
    <3> QED BY <1>1, <2>2, <3>1 DEF Follows
  <2>3. ASSUME NEW j \in DOMAIN pages[n + 1] PROVE pages[n + 1][j] = new - ((n + 1) - 1) * NlPage - j + 1
    <3>1. (n + 1) - 1 = n
      BY <1>1
    <3> QED BY <1>2, <2>3, <3>1
  <2>4. \A i \in 1..(n + 1) : i \in 1..n \/ i = n + 1
    BY <1>1
  <2> QED BY <1>2, <2>2, <2>3, <2>4 DEF Follows
<1>6. Fed(pages, old, new)
  BY <1>2, <1>3, <1>4, <1>5 DEF Fed
<1> QED BY <1>6 DEF pages

\* Full pages that start with the newest article are not more than is stored.
LEMMA FullIsStored ==
  ASSUME NEW old \in Nat, NEW new \in Int, old <= new + 1, NEW got, Fed(got, old, new), Full(got),
         got = <<>> \/ Begins(got, new)
  PROVE  Len(got) * NlPage <= new - old + 1
<1>1. CASE got = <<>>
  BY <1>1, PageIsPositive
<1>2. CASE got # <<>> /\ Begins(got, new)
  <2>1. PICK n : n = Len(got)
    OBVIOUS
  <2>2. n \in Nat \ {0} /\ n \in DOMAIN got /\ Len(got[n]) = NlPage /\ got[n] \in Seq(Nat)
    BY <1>2, <2>1 DEF Fed, Full
  <2>3. NlPage \in DOMAIN got[n]
    BY <2>2, PageIsPositive
  <2>4. got[n][NlPage] = new - (n - 1) * NlPage - NlPage + 1 /\ old <= got[n][NlPage]
    BY <1>2, <2>2, <2>3 DEF Fed, Follows
  <2>5. (n - 1) * NlPage + NlPage = n * NlPage /\ (n - 1) * NlPage \in Int /\ n * NlPage \in Int
    BY <2>2, PageIsPositive
  <2> QED BY <2>1, <2>4, <2>5, PageIsPositive
<1> QED BY <1>1, <1>2

\* The page that is read next, as it is answered now, goes on from the full pages before it, and
\* if it is short it is the last there is.
LEMMA FeedGoesOn ==
  ASSUME nlOld \in Nat, nlNew \in Int, nlOld <= nlNew + 1,
         NEW got, Fed(got, nlOld, nlNew), Full(got), NEW offset, offset = Len(got) * NlPage
  PROVE  LET page == Feed(offset)
         IN  /\ page \in Seq(Nat) /\ Fed(Append(got, page), nlOld, nlNew)
             /\ Complete(Append(got, page), nlOld, nlNew)
             /\ page = <<>> /\ (got = <<>> \/ Begins(got, nlNew)) => offset = nlNew - nlOld + 1
<1> DEFINE page == Feed(offset)
           pages == Append(got, page)
           left == nlNew - nlOld + 1 - offset
<1>1. got \in Seq(Seq(Nat)) /\ Len(got) \in Nat /\ offset \in Nat
  BY PageIsPositive DEF Fed
<1>2. /\ page \in Seq(Nat) /\ Len(page) <= NlPage
      /\ Len(page) = (IF left < 0 THEN 0 ELSE IF left > NlPage THEN NlPage ELSE left)
      /\ \A j \in DOMAIN page : /\ page[j] = nlNew - offset - j + 1
                                /\ nlOld <= page[j] /\ page[j] <= nlNew
  BY <1>1, FeedIs
<1> HIDE DEF page
<1>3. Fed(pages, nlOld, nlNew)
  BY <1>1, <1>2, PageFollows
<1>4. Len(pages) = Len(got) + 1 /\ pages[Len(pages)] = page /\ Len(pages) - 1 = Len(got)
  BY <1>1, <1>2
<1>5. Begins(pages, nlNew) => got = <<>> \/ Begins(got, nlNew)
  <2>1. got # <<>> => 1 \in 1..Len(got)
    BY <1>1
  <2>2. got # <<>> => pages[1] = got[1]
    BY <1>1, <1>2, <2>1
  <2> QED BY <2>2 DEF Begins
<1>6. got = <<>> \/ Begins(got, nlNew) => left >= 0
  BY <1>1, FullIsStored
<1>7. Complete(pages, nlOld, nlNew)
  <2> SUFFICES ASSUME Begins(pages, nlNew), Len(page) < NlPage
               PROVE  offset + Len(page) = nlNew - nlOld + 1
    BY <1>4 DEF Complete
  <2>1. left >= 0
    BY <1>5, <1>6
  <2> QED BY <1>1, <1>2, <2>1
<1>8. page = <<>> /\ (got = <<>> \/ Begins(got, nlNew)) => offset = nlNew - nlOld + 1
  <2> SUFFICES ASSUME page = <<>>, got = <<>> \/ Begins(got, nlNew) PROVE offset = nlNew - nlOld + 1
    OBVIOUS
  <2>1. Len(page) = 0 /\ left >= 0
    BY <1>6
  <2> QED BY <1>1, <1>2, <2>1, PageIsPositive
<1> QED BY <1>2, <1>3, <1>7, <1>8 DEF page

\* A page that is here keeps the invariant, whether it ends the fetch or not.
LEMMA PageHereKeeps ==
  ASSUME NewsInv, nlFetch # NoNl, NEW page \in Seq(Nat), PageHere(page),
         Fed(Append(nlFetch.got, page), nlOld, nlNew), Complete(Append(nlFetch.got, page), nlOld, nlNew),
         nlOld' = nlOld, nlNew' = nlNew
  PROVE  NewsInv'
<1> DEFINE got == Append(nlFetch.got, page)
<1>1. nlFetch.got \in Seq(Seq(Nat))
  BY DEF NewsInv, NlFetches
<1>2. got \in Seq(Seq(Nat)) /\ got # <<>> /\ Len(got) \in Nat
  <2>1. got \in Seq(Seq(Nat)) /\ Len(got) = Len(nlFetch.got) + 1 /\ Len(nlFetch.got) \in Nat
    BY <1>1
  <2> HIDE DEF got
  <2>2. Len(got) # 0 /\ Len(got) \in Nat
    BY <2>1
  <2> QED BY <2>1, <2>2
<1>3. Fed(got, nlOld, nlNew) /\ Complete(got, nlOld, nlNew)
  OBVIOUS
<1> HIDE DEF got
<1>4. CASE nlFetch' = Fetching("first", got, NextOffset(got)) /\ NextOffset(got) # NoNl
           /\ UNCHANGED <<nlPages, nlErr, nlStale>>
  <2>1. Len(got[Len(got)]) = NlPage /\ NextOffset(got) = Len(got) * NlPage
    BY <1>4 DEF NextOffset
  <2>2. Full(got)
    BY <1>2, <1>3, <2>1 DEF Full, Fed
  <2>3. Len(got) * NlPage \in Nat
    BY <1>2, PageIsPositive
  <2>4. /\ nlFetch' \in NlFetches /\ nlFetch'.got = got /\ nlFetch'.offset = Len(got) * NlPage
        /\ nlFetch'.stage = "feed"
    BY <1>2, <1>4, <2>1, <2>3 DEF Fetching, NlFetches
  <2>5. nlFetch' # NoNl
    BY <2>4, NlNothing
  <2> QED BY <1>3, <1>4, <2>2, <2>4, <2>5 DEF NewsInv
<1>5. CASE nlPages' = got /\ nlFetch' = NoNl /\ nlErr' = FALSE /\ nlStale' = FALSE
  BY <1>2, <1>3, <1>5 DEF NewsInv
<1> QED BY <1>4, <1>5 DEF PageHere, got

\* A search has added news of either age: what was read stays as it was.
LEMMA SearchKeeps == NewsInv /\ CrawlAnswered => NewsInv'
<1> SUFFICES ASSUME NewsInv, CrawlAnswered PROVE NewsInv'
  OBVIOUS
<1>1. /\ nlOld \in Nat /\ nlNew \in Int /\ nlOld' \in Nat /\ nlNew' \in Int
      /\ nlOld' <= nlOld /\ nlNew <= nlNew' /\ nlOld' <= nlNew' + 1
  BY NlAssumption DEF NewsInv, CrawlAnswered
<1>2. nlPages' # NoNl => nlPages' # <<>> /\ Fed(nlPages', nlOld', nlNew')
  BY <1>1, FedStays DEF NewsInv, CrawlAnswered
<1>3. /\ nlFetch' \in NlFetches /\ nlFetch'.got = nlFetch.got /\ nlFetch'.offset = nlFetch.offset
      /\ nlFetch'.existing = nlFetch.existing
  BY DEF NewsInv, CrawlAnswered, NlFetches
<1>4. Fed(nlFetch.got, nlOld', nlNew') /\ Fed(Append(nlFetch.got, nlFetch.existing), nlOld', nlNew')
  <2>1. Fed(nlFetch.got, nlOld, nlNew) /\ Fed(Append(nlFetch.got, nlFetch.existing), nlOld, nlNew)
    BY DEF NewsInv, CrawlAnswered
  <2> QED BY <1>1, <2>1, FedStays
<1>5. nlFetch' # NoNl
  BY <1>3, NlNothing
<1> QED BY <1>1, <1>2, <1>3, <1>4, <1>5 DEF NewsInv, CrawlAnswered

\* The feed has answered: the page is here, or the card has the server look for more first.
LEMMA FeedKeeps == NewsInv /\ FeedAnswered => NewsInv'
<1> SUFFICES ASSUME NewsInv, FeedAnswered PROVE NewsInv'
  OBVIOUS
<1> DEFINE existing == Feed(nlFetch.offset)
<1>1. /\ nlFetch # NoNl /\ nlFetch \in NlFetches /\ nlOld' = nlOld /\ nlNew' = nlNew
      /\ nlOld \in Nat /\ nlNew \in Int /\ nlOld <= nlNew + 1
  BY DEF NewsInv, FeedAnswered
<1>2. /\ existing \in Seq(Nat) /\ Fed(Append(nlFetch.got, existing), nlOld, nlNew)
      /\ Complete(Append(nlFetch.got, existing), nlOld, nlNew)
  BY <1>1, FeedGoesOn DEF NewsInv
<1> HIDE DEF existing
<1>3. CASE PageHere(existing)
  BY <1>1, <1>2, <1>3, PageHereKeeps
<1>4. CASE nlFetch' = [nlFetch EXCEPT !.stage = "crawl", !.existing = existing]
           /\ UNCHANGED <<nlPages, nlErr, nlStale>>
  <2>1. /\ nlFetch' \in NlFetches /\ nlFetch'.got = nlFetch.got /\ nlFetch'.offset = nlFetch.offset
        /\ nlFetch'.existing = existing
    BY <1>1, <1>2, <1>4 DEF NlFetches
  <2>2. nlFetch' # NoNl
    BY <2>1, NlNothing
  <2> QED BY <1>1, <1>2, <1>4, <2>1, <2>2 DEF NewsInv
<1> QED BY <1>3, <1>4 DEF FeedAnswered, existing

\* The feed has answered after a search.  If it is empty now, so was the page read before it.
LEMMA FeedAgainKeeps == NewsInv /\ FeedAnsweredAgain => NewsInv'
<1> SUFFICES ASSUME NewsInv, FeedAnsweredAgain PROVE NewsInv'
  OBVIOUS
<1> DEFINE refreshed == Feed(nlFetch.offset)
           existing == nlFetch.existing
           got == nlFetch.got
<1>1. /\ nlFetch # NoNl /\ nlFetch \in NlFetches /\ nlOld' = nlOld /\ nlNew' = nlNew
      /\ nlOld \in Nat /\ nlNew \in Int /\ nlOld <= nlNew + 1
      /\ Fed(got, nlOld, nlNew) /\ Full(got) /\ nlFetch.offset = Len(got) * NlPage
      /\ Fed(Append(got, existing), nlOld, nlNew)
  BY DEF NewsInv, FeedAnsweredAgain
<1>2. /\ refreshed \in Seq(Nat) /\ Fed(Append(got, refreshed), nlOld, nlNew)
      /\ Complete(Append(got, refreshed), nlOld, nlNew)
      /\ refreshed = <<>> /\ (got = <<>> \/ Begins(got, nlNew)) => nlFetch.offset = nlNew - nlOld + 1
  BY <1>1, FeedGoesOn
<1>3. existing \in Seq(Nat) /\ got \in Seq(Seq(Nat)) /\ Len(got) \in Nat
  BY <1>1 DEF NlFetches
<1> HIDE DEF refreshed, existing, got
<1>4. CASE refreshed # <<>>
  <2>1. PageHere(refreshed)
    BY <1>4 DEF FeedAnsweredAgain, Refreshed, refreshed
  <2> QED BY <1>1, <1>2, <2>1, PageHereKeeps DEF got
<1>5. CASE refreshed = <<>>
  <2> DEFINE pages == Append(got, existing)
  <2>1. PageHere(existing)
    BY <1>5 DEF FeedAnsweredAgain, Refreshed, refreshed, existing
  <2>2. /\ Len(pages) = Len(got) + 1 /\ pages[Len(pages)] = existing /\ Len(pages) - 1 = Len(got)
        /\ Len(pages) \in DOMAIN pages /\ (got # <<>> => pages[1] = got[1])
    BY <1>3
  <2>3. Fed(pages, nlOld, nlNew)
    BY <1>1
  <2> HIDE DEF pages
  <2>4. ASSUME Begins(pages, nlNew), existing # <<>> PROVE FALSE
    <3>1. got = <<>> \/ Begins(got, nlNew)
      BY <2>2, <2>4 DEF Begins
    <3>2. Len(got) * NlPage = nlNew - nlOld + 1
      BY <1>1, <1>2, <1>5, <3>1
    <3>3. 1 \in DOMAIN existing
      BY <1>3, <2>4
    <3>4. existing[1] = nlNew - Len(got) * NlPage - 1 + 1 /\ nlOld <= existing[1]
      BY <2>2, <2>3, <2>4, <3>3 DEF Fed, Follows
    <3> QED BY <1>1, <3>2, <3>4
  <2>5. Complete(pages, nlOld, nlNew)
    <3> SUFFICES ASSUME Begins(pages, nlNew) PROVE Len(got) * NlPage + Len(existing) = nlNew - nlOld + 1
      BY <2>2 DEF Complete
    <3>1. existing = <<>> /\ (got = <<>> \/ Begins(got, nlNew))
      BY <2>2, <2>4 DEF Begins
    <3>2. Len(got) * NlPage = nlNew - nlOld + 1 /\ Len(existing) = 0
      BY <1>1, <1>2, <1>5, <3>1
    <3> QED BY <1>1, <3>2
  <2> QED BY <1>1, <1>3, <2>1, <2>3, <2>5, PageHereKeeps DEF pages, got
<1> QED BY <1>4, <1>5

LEMMA NewsInitially == NlInit => NewsInv
<1> SUFFICES ASSUME NlInit PROVE NewsInv
  OBVIOUS
<1>1. nlOld \in Nat /\ nlNew \in Int /\ nlOld <= nlNew + 1
  BY NlAssumption DEF NlInit
<1>2. <<>> \in Seq(Seq(Nat)) /\ <<>> \in Seq(Nat)
  OBVIOUS
<1>3. /\ nlFetch \in NlFetches /\ nlFetch.got = <<>> /\ nlFetch.offset = 0 /\ nlFetch.stage = "feed"
      /\ nlPages = NoNl
  BY <1>2 DEF NlInit, Fetching, NlFetches
<1>4. nlFetch # NoNl
  BY <1>3, NlNothing
<1> QED BY <1>1, <1>3, <1>4, EmptyIsFed DEF NewsInv

\* The invariant of the list is kept by every step.
LEMMA NewsKept == NewsInv /\ [NlNext]_nlVars => NewsInv'
<1> SUFFICES ASSUME NewsInv, [NlNext]_nlVars PROVE NewsInv'
  OBVIOUS
<1>1. CASE LoadMore
  <2>1. /\ nlPages # NoNl /\ nlPages # <<>> /\ Fed(nlPages, nlOld, nlNew)
        /\ NextOffset(nlPages) # NoNl /\ nlFetch' = Fetching("next", nlPages, NextOffset(nlPages))
    BY <1>1 DEF LoadMore, HasNext, NewsInv
  <2>2. NextOffset(nlPages) = Len(nlPages) * NlPage /\ Len(nlPages[Len(nlPages)]) = NlPage
    BY <2>1 DEF NextOffset
  <2>3. Full(nlPages) /\ Len(nlPages) * NlPage \in Nat /\ nlPages \in Seq(Seq(Nat))
    BY <2>1, <2>2, PageIsPositive DEF Full, Fed
  <2>4. /\ nlFetch' \in NlFetches /\ nlFetch'.got = nlPages
        /\ nlFetch'.offset = Len(nlPages) * NlPage /\ nlFetch'.stage = "feed"
    BY <2>1, <2>2, <2>3 DEF Fetching, NlFetches
  <2>5. nlFetch' # NoNl
    BY <2>4, NlNothing
  <2> QED BY <1>1, <2>1, <2>3, <2>4, <2>5 DEF LoadMore, NewsInv
<1>2. CASE LeaveNews
  BY <1>2 DEF LeaveNews, NewsInv, Complete, Begins
<1>3. CASE NewsAges
  BY <1>3 DEF NewsAges, NewsInv
<1>4. CASE ReturnToNews
  <2>1. CASE nlFetch' = nlFetch
    BY <1>4, <2>1 DEF ReturnToNews, NewsInv
  <2>2. CASE nlFetch' = Fetching("first", <<>>, 0)
    <3>1. /\ nlFetch' \in NlFetches /\ nlFetch'.got = <<>> /\ nlFetch'.offset = 0
          /\ nlFetch'.stage = "feed"
      BY <2>2 DEF Fetching, NlFetches
    <3>2. nlFetch' # NoNl
      BY <3>1, NlNothing
    <3> QED BY <1>4, <3>1, <3>2, EmptyIsFed DEF ReturnToNews, NewsInv
  <2> QED BY <1>4, <2>1, <2>2 DEF ReturnToNews
<1>5. CASE FeedAnswered
  BY <1>5, FeedKeeps
<1>6. CASE CrawlAnswered
  BY <1>6, SearchKeeps
<1>7. CASE FeedAnsweredAgain
  BY <1>7, FeedAgainKeeps
<1>8. CASE FetchFailed
  BY <1>8 DEF FetchFailed, NewsInv
<1>9. CASE NewsArrives
  <2>1. /\ nlOld \in Nat /\ nlNew \in Int /\ nlOld' = nlOld /\ nlNew' = nlNew + 1
        /\ nlNew' \in Int /\ nlOld' <= nlNew' + 1 /\ nlNew <= nlNew'
        /\ nlPages' = nlPages /\ nlFetch' = nlFetch /\ nlErr' = nlErr
    BY <1>9 DEF NewsArrives, NewsInv
  <2>2. nlPages # NoNl => nlPages # <<>> /\ Fed(nlPages, nlOld', nlNew')
    BY <2>1, FedStays DEF NewsInv
  <2>3. nlFetch # NoNl =>
          /\ Fed(nlFetch.got, nlOld', nlNew')
          /\ nlFetch.stage # "feed" => Fed(Append(nlFetch.got, nlFetch.existing), nlOld', nlNew')
    BY <2>1, FedStays DEF NewsInv
  <2>4. nlPages # NoNl => ~ Begins(nlPages, nlNew')
    <3> SUFFICES ASSUME nlPages # NoNl, Begins(nlPages, nlNew') PROVE FALSE
      OBVIOUS
    <3>1. Fed(nlPages, nlOld, nlNew)
      BY DEF NewsInv
    <3>2. 1 \in DOMAIN nlPages /\ 1 \in DOMAIN nlPages[1] /\ nlPages[1][1] = nlNew'
      BY <3>1 DEF Begins, Fed
    <3>3. nlPages[1][1] <= nlNew
      BY <3>1, <3>2 DEF Fed
    <3> QED BY <2>1, <3>2, <3>3
  <2> QED BY <2>1, <2>2, <2>3, <2>4 DEF NewsInv, Complete
<1>10. CASE UNCHANGED nlVars
  BY <1>10 DEF nlVars, NewsInv
<1> QED BY <1>1, <1>2, <1>3, <1>4, <1>5, <1>6, <1>7, <1>8, <1>9, <1>10 DEF NlNext

\* The invariant gives the property: only the first article of the first page has the first place.
LEMMA NewsInvWhole == NewsInv => NewsIsWhole
<1> SUFFICES ASSUME NewsInv, <<1, nlNew>> \in ShownNews
             PROVE  /\ \A i \in 1..(Len(nlPages) - 1) : Len(nlPages[i]) = NlPage
                    /\ \A shown \in ShownNews : shown[2] = nlNew - shown[1] + 1 /\ shown[2] >= nlOld
                    /\ nlFetch = NoNl /\ ~ nlErr /\ ~ HasNext => \E shown \in ShownNews : shown[2] = nlOld
  BY DEF NewsIsWhole
<1>1. nlPages # NoNl
  BY DEF ShownNews
<1>2. nlPages \in Seq(Seq(Nat)) /\ nlPages # <<>> /\ Fed(nlPages, nlOld, nlNew)
  BY <1>1 DEF NewsInv, Fed
<1>3. PICK n : n = Len(nlPages)
  OBVIOUS
<1>4. n \in Nat \ {0} /\ DOMAIN nlPages = 1..n /\ n \in DOMAIN nlPages
  BY <1>2, <1>3
<1>5. \A i \in DOMAIN nlPages : \A j \in DOMAIN nlPages[i] :
        i \in Nat /\ j \in Nat /\ i >= 1 /\ j >= 1 /\ <<(i - 1) * NlPage + j, nlPages[i][j]>> \in ShownNews
  <2> TAKE i \in DOMAIN nlPages
  <2> TAKE j \in DOMAIN nlPages[i]
  <2>1. i \in Nat /\ i >= 1 /\ nlPages[i] \in Seq(Nat)
    BY <1>2, <1>4
  <2>2. j \in Nat /\ j >= 1
    BY <2>1
  <2>3. <<(i - 1) * NlPage + j, nlPages[i][j]>> \in ShownNews
    BY <1>1 DEF ShownNews
  <2> QED BY <2>1, <2>2, <2>3
<1>6. \A shown \in ShownNews : \E i \in DOMAIN nlPages : \E j \in DOMAIN nlPages[i] :
        shown = <<(i - 1) * NlPage + j, nlPages[i][j]>>
  BY <1>1 DEF ShownNews
<1>7. Begins(nlPages, nlNew)
  <2>0. PICK i \in DOMAIN nlPages : \E j \in DOMAIN nlPages[i] :
          (i - 1) * NlPage + j = 1 /\ nlPages[i][j] = nlNew
    BY <1>6
  <2>1. PICK j \in DOMAIN nlPages[i] : (i - 1) * NlPage + j = 1 /\ nlPages[i][j] = nlNew
    BY <2>0
  <2>2. i \in Nat /\ j \in Nat /\ i >= 1 /\ j >= 1
    BY <1>5, <2>1
  <2>3. i > 1 => (i - 1) * NlPage >= 1
    BY <2>2, PageIsPositive
  <2>4. i = 1 /\ j = 1
    BY <2>1, <2>2, <2>3, PageIsPositive
  <2> QED BY <1>2, <2>1, <2>4 DEF Begins
<1>8. Follows(nlPages, nlNew)
  BY <1>2, <1>7 DEF Fed
<1>9. \A i \in 1..(Len(nlPages) - 1) : Len(nlPages[i]) = NlPage
  <2> TAKE i \in 1..(Len(nlPages) - 1)
  <2>1. i \in 1..n /\ i < Len(nlPages)
    BY <1>3, <1>4
  <2> QED BY <1>2, <1>4, <2>1 DEF Fed
<1>10. \A shown \in ShownNews : shown[2] = nlNew - shown[1] + 1 /\ shown[2] >= nlOld
  <2> TAKE shown \in ShownNews
  <2>0. PICK i \in DOMAIN nlPages : \E j \in DOMAIN nlPages[i] :
          shown = <<(i - 1) * NlPage + j, nlPages[i][j]>>
    BY <1>6
  <2>1. PICK j \in DOMAIN nlPages[i] : shown = <<(i - 1) * NlPage + j, nlPages[i][j]>>
    BY <2>0
  <2>2. nlPages[i][j] = nlNew - (i - 1) * NlPage - j + 1
    BY <1>8, <2>1 DEF Follows
  <2>3. i \in Nat /\ j \in Nat /\ nlNew \in Int
    BY <1>5, <2>1 DEF NewsInv
  <2>4. (i - 1) * NlPage \in Int
    BY <2>3, PageIsPositive
  <2>5. nlOld <= nlPages[i][j] /\ nlPages[i][j] \in Int /\ nlOld \in Nat
    BY <1>2, <2>1, <2>2, <2>3, <2>4 DEF Fed, NewsInv
  <2> QED BY <2>1, <2>2, <2>3, <2>4, <2>5
<1>11. ASSUME nlFetch = NoNl, ~ nlErr, ~ HasNext PROVE \E shown \in ShownNews : shown[2] = nlOld
  <2>1. PICK m : m = Len(nlPages[n])
    OBVIOUS
  <2>2. m \in Nat /\ m <= NlPage /\ nlPages[n] \in Seq(Nat)
    <3>1. nlPages[n] \in Seq(Nat)
      BY <1>2, <1>4
    <3>2. \A i \in DOMAIN nlPages : Len(nlPages[i]) <= NlPage
      BY <1>2 DEF Fed
    <3>3. m \in Nat
      BY <2>1, <3>1
    <3> QED BY <1>4, <2>1, <3>1, <3>2, <3>3
  <2>3. m # NlPage
    <3>1. n * NlPage \in Nat
      BY <1>4, PageIsPositive
    <3> QED BY <1>1, <1>3, <1>11, <2>1, <3>1, NlNothing DEF HasNext, NextOffset
  <2>4. (n - 1) * NlPage + m = nlNew - nlOld + 1 /\ nlNew \in Int /\ nlOld \in Nat
    BY <1>1, <1>3, <1>7, <1>11, <2>1, <2>2, <2>3, PageIsPositive DEF NewsInv, Complete
  <2>5. CASE m > 0
    <3>1. m \in DOMAIN nlPages[n]
      BY <2>1, <2>2, <2>5
    <3>2. nlPages[n][m] = nlNew - (n - 1) * NlPage - m + 1
      BY <1>4, <1>8, <3>1 DEF Follows
    <3>3. (n - 1) * NlPage \in Int
      BY <1>4, PageIsPositive
    <3>4. nlPages[n][m] = nlOld
      BY <2>2, <2>4, <3>2, <3>3
    <3>5. <<(n - 1) * NlPage + m, nlPages[n][m]>> \in ShownNews
      BY <1>4, <1>5, <3>1
    <3> QED BY <3>4, <3>5
  <2>6. CASE m = 0
    <3>1. n > 1
      <4>1. nlPages[1] # <<>>
        BY <1>7 DEF Begins
      <4>2. nlPages[n] = <<>>
        <5>1. PICK last \in Seq(Nat) : last = nlPages[n]
          BY <2>2
        <5>2. Len(last) = 0
          BY <2>1, <2>6, <5>1
        <5>3. last = <<>>
          BY <5>2
        <5> QED BY <5>1, <5>3
      <4> QED BY <1>4, <4>1, <4>2
    <3>2. n - 1 \in DOMAIN nlPages /\ Len(nlPages[n - 1]) = NlPage /\ nlPages[n - 1] \in Seq(Nat)
      <4>1. n - 1 \in 1..n /\ n - 1 < n
        BY <1>4, <3>1
      <4>2. nlPages[n - 1] \in Seq(Nat)
        BY <1>2, <1>4, <4>1
      <4> QED BY <1>2, <1>3, <1>4, <4>1, <4>2 DEF Fed
    <3>3. NlPage \in DOMAIN nlPages[n - 1]
      BY <3>2, PageIsPositive
    <3>4. nlPages[n - 1][NlPage] = nlNew - ((n - 1) - 1) * NlPage - NlPage + 1
      BY <1>8, <3>2, <3>3 DEF Follows
    <3>5. ((n - 1) - 1) * NlPage + NlPage = (n - 1) * NlPage /\ ((n - 1) - 1) * NlPage \in Int
      BY <1>4, PageIsPositive
    <3>6. nlPages[n - 1][NlPage] = nlOld
      BY <2>4, <2>6, <3>4, <3>5, PageIsPositive
    <3>7. <<((n - 1) - 1) * NlPage + NlPage, nlPages[n - 1][NlPage]>> \in ShownNews
      BY <1>5, <3>2, <3>3
    <3> QED BY <3>6, <3>7
  <2> QED BY <2>2, <2>5, <2>6
<1> QED BY <1>9, <1>10, <1>11

\* The list of news (page.tsx, StockDetailModal.tsx): whenever it starts with the newest article it
\* has every article once and in order, and if it says it has ended it has them all, whatever is
\* stored while it is read, by a search or by the server on its own.
THEOREM NewsIsAlwaysWhole == NlSpec => []NewsIsWhole
<1>1. NlSpec => []NewsInv
  BY NewsInitially, NewsKept, PTL DEF NlSpec
<1> QED BY <1>1, NewsInvWhole, PTL

-----------------------------------------------------------------------------
(* The list of cases.                                                      *)

\* A fork is stored whose answer is still to come.
ForkOwed == \E p \in cfPosts : p.phase = "served"

\* What is known of the list, unless an answer was lost or a read outlived its page: before a fork
\* is stored there is one case; once it is answered the list has it, is reading it or is stale;
\* and the list on screen is not stale without being read.
ListInv ==
  ~ cfUnsure =>
    /\ cfFork = NoCf => cfList.data = {"root"} /\ cfList.asked \in {NoCf, {"root"}}
    /\ cfFork # NoCf /\ ~ ForkOwed =>
         IF cfList.asked = NoCf THEN cfList.stale \/ cfList.data = {"root", "fork"}
         ELSE cfList.asked = {"root", "fork"}
    /\ cfHere = "list" /\ cfList.asked = NoCf => ~ cfList.stale

CfListed == [data : SUBSET {"root", "fork"}, asked : {NoCf} \cup SUBSET {"root", "fork"}, stale : BOOLEAN]
ListKept == cfList \in CfListed /\ ListInv

LEMMA StoredIs ==
  /\ cfFork = NoCf => CfStored = {"root"}
  /\ cfFork # NoCf => CfStored = {"root", "fork"}
  /\ CfStored \in SUBSET {"root", "fork"} /\ CfStored # NoCf
BY CfAssumption DEF CfStored

\* Acts that touch neither the list nor what is stored keep what is known.
LEMMA ListStays ==
  ASSUME ListKept, UNCHANGED <<cfHere, cfFork, cfList>>, cfUnsure => cfUnsure',
         ~ cfUnsure' => (ForkOwed => ForkOwed')
  PROVE  ListKept'
<1>1. cfList' \in CfListed
  BY DEF ListKept
<1>2. ListInv'
  <2> SUFFICES ASSUME ~ cfUnsure' PROVE ListInv'
    BY DEF ListInv
  <2>1. ~ cfUnsure /\ (~ ForkOwed' => ~ ForkOwed)
    OBVIOUS
  <2> HIDE DEF ForkOwed
  <2> QED BY <2>1 DEF ListKept, ListInv
<1> QED BY <1>1, <1>2 DEF ListKept

LEMMA ListInitially == CfInit => ListKept
BY CfAssumption DEF CfInit, ListKept, CfListed, ListInv

\* A page is opened: the list asks for what is stored now, if it has to.
LEMMA ListOpened ==
  ASSUME NEW stored \in {{"root"}, {"root", "fork"}}, stored = CfStored, NEW list \in CfListed,
         NEW target, NEW old \in BOOLEAN, FormOpened(target, list, old)
  PROVE  /\ cfHere' = target /\ cfList' \in CfListed
         /\ cfList'.data = list.data /\ cfList'.stale = list.stale
         /\ cfList'.asked \in {list.asked, stored}
         /\ list.asked # NoCf => cfList' = list
         /\ target = "list" /\ cfList'.asked = NoCf => ~ list.stale
<1>1. stored # NoCf /\ stored \in SUBSET {"root", "fork"}
  BY CfAssumption
<1>2. CASE target = "list" /\ list.asked = NoCf /\ (list.stale \/ old)
  BY <1>1, <1>2 DEF FormOpened, CfListed
<1>3. CASE ~ (target = "list" /\ list.asked = NoCf /\ (list.stale \/ old))
  <2>1. cfList' = list /\ cfHere' = target
    BY <1>3 DEF FormOpened
  <2> QED BY <1>3, <2>1
<1> QED BY <1>2, <1>3

LEMMA ForkAnswerKeeps == ASSUME ListKept, NEW p \in cfPosts, ForkAnswered(p) PROVE ListKept'
<1> DEFINE list == ListInvalidated
<1>1. PICK stored \in {{"root"}, {"root", "fork"}} : stored = CfStored
  BY StoredIs
<1>2. /\ list \in CfListed /\ list.stale /\ list.data = cfList.data
      /\ list.asked = IF cfHere = "list" THEN stored ELSE cfList.asked
  BY <1>1 DEF ListInvalidated, ListKept, CfListed
<1> HIDE DEF list
<1>3. /\ cfHere' = "fork" /\ cfList' \in CfListed /\ cfList'.data = list.data /\ cfList'.stale = list.stale
      /\ cfList'.asked \in {list.asked, stored} /\ (list.asked # NoCf => cfList' = list)
      /\ cfFork' = cfFork /\ cfUnsure' = (cfUnsure \/ (cfHere # "list" /\ cfList.asked # NoCf))
  BY <1>1, <1>2, ListOpened DEF ForkAnswered, list
<1>4. ListInv'
  <2> SUFFICES ASSUME ~ cfUnsure' PROVE ListInv'
    BY DEF ListInv
  <2>1. ~ cfUnsure /\ (cfHere = "list" \/ cfList.asked = NoCf)
    BY <1>3
  <2>2. stored # NoCf
    BY <1>1, StoredIs
  <2>3. cfFork' = NoCf => stored = {"root"} /\ cfList'.data = {"root"} /\ cfList'.asked \in {NoCf, {"root"}}
    BY <1>1, <1>2, <1>3, <2>1, StoredIs DEF ListKept, ListInv
  <2>4. cfFork' # NoCf => (IF cfList'.asked = NoCf THEN cfList'.stale ELSE cfList'.asked = {"root", "fork"})
    BY <1>1, <1>2, <1>3, <2>1, <2>2, StoredIs
  <2> QED BY <1>3, <2>3, <2>4 DEF ListInv
<1> QED BY <1>3, <1>4 DEF ListKept

LEMMA OpenKeeps ==
  ASSUME ListKept, NEW to, NEW old \in BOOLEAN, OpenCasePage(to, old)
  PROVE  ListKept'
<1>1. PICK stored \in {{"root"}, {"root", "fork"}} : stored = CfStored
  BY StoredIs
<1>2. /\ cfHere' = to /\ cfList' \in CfListed /\ cfList'.data = cfList.data /\ cfList'.stale = cfList.stale
      /\ cfList'.asked \in {cfList.asked, stored} /\ (cfList.asked # NoCf => cfList' = cfList)
      /\ (to = "list" /\ cfList'.asked = NoCf => ~ cfList.stale)
      /\ cfFork' = cfFork /\ cfUnsure' = cfUnsure /\ cfPosts' = cfPosts
  BY <1>1, ListOpened DEF OpenCasePage, ListKept
<1>3. ListInv'
  <2> SUFFICES ASSUME ~ cfUnsure' PROVE ListInv'
    BY DEF ListInv
  <2>1. ForkOwed' <=> ForkOwed
    BY <1>2 DEF ForkOwed
  <2>2. stored # NoCf
    BY <1>1, StoredIs
  <2>3. cfFork' = NoCf => cfList'.data = {"root"} /\ cfList'.asked \in {NoCf, {"root"}}
    BY <1>1, <1>2, StoredIs DEF ListKept, ListInv
  <2>4. cfFork' # NoCf /\ ~ ForkOwed =>
          IF cfList'.asked = NoCf THEN cfList'.stale \/ cfList'.data = {"root", "fork"}
          ELSE cfList'.asked = {"root", "fork"}
    BY <1>1, <1>2, <2>2, StoredIs DEF ListKept, ListInv
  <2> QED BY <1>2, <2>1, <2>3, <2>4 DEF ListInv
<1> QED BY <1>2, <1>3 DEF ListKept

\* A request under way has a phase.
PostsHavePhases == \A p \in cfPosts : "phase" \in DOMAIN p

LEMMA PhasesKept == PostsHavePhases /\ [CfNext]_cfVars => PostsHavePhases'
<1> SUFFICES ASSUME PostsHavePhases, [CfNext]_cfVars PROVE PostsHavePhases'
  OBVIOUS
<1>1. ASSUME NEW p \in cfPosts, NEW phase, NEW why, Becomes(p, phase, why) PROVE PostsHavePhases'
  <2>1. "phase" \in DOMAIN [p EXCEPT !.phase = phase, !.why = why]
    BY DEF PostsHavePhases
  <2> QED BY <1>1, <2>1 DEF Becomes, PostsHavePhases
<1>2. CASE CfSubmit
  <2>1. \A p \in cfPosts' : p \in cfPosts \/
          p = [form |-> cfVisit, parent |-> cfHere, overrides |-> ForkRequest, asked |-> AskedOnScreen,
               count |-> ChangedCount, phase |-> "sent", why |-> NoCf]
    BY <1>2 DEF CfSubmit
  <2> QED BY <2>1 DEF PostsHavePhases
<1>3. cfPosts' \subseteq cfPosts => PostsHavePhases'
  BY DEF PostsHavePhases
<1> QED BY <1>1, <1>2, <1>3
      DEF CfNext, cfVars, CfEdit, AddRow, NameFork, RemoveRow, UpdateRow, ForkServed, ForkAnswered,
          RefusalAnswered, ForkFailed, ForkRefused, CaseListRead, OpenCasePage

LEMMA CasesAreKept == PostsHavePhases /\ ListKept /\ [CfNext]_cfVars => ListKept'
<1> SUFFICES ASSUME PostsHavePhases, ListKept, [CfNext]_cfVars PROVE ListKept'
  OBVIOUS
<1>e. ASSUME CfEdit PROVE ListKept'
  BY <1>e, ListStays DEF CfEdit, ForkOwed
<1>1. CASE AddRow
  BY <1>1, <1>e DEF AddRow
<1>2. CASE NameFork
  BY <1>2, <1>e DEF NameFork
<1>3. CASE CfSubmit
  <2>1. cfPosts \subseteq cfPosts'
    BY <1>3 DEF CfSubmit
  <2> QED BY <1>3, <2>1, ListStays DEF CfSubmit, ForkOwed
<1>4. ASSUME NEW id \in 1..cfNextId, RemoveRow(id) PROVE ListKept'
  BY <1>4, <1>e DEF RemoveRow
<1>5. ASSUME NEW id \in 1..cfNextId, NEW key \in Pickable, NEW value \in CfTyped \cup {NoCf},
             NEW claim \in BOOLEAN, UpdateRow(id, key, value, claim)
      PROVE  ListKept'
  BY <1>5, <1>e DEF UpdateRow
<1>6. ASSUME NEW p \in cfPosts, ForkServed(p) PROVE ListKept'
  <2>1. ForkOwed'
    <3>1. [p EXCEPT !.phase = "served", !.why = NoCf].phase = "served"
      BY DEF PostsHavePhases
    <3>2. [p EXCEPT !.phase = "served", !.why = NoCf] \in cfPosts'
      BY <1>6 DEF ForkServed, Becomes
    <3> QED BY <3>1, <3>2 DEF ForkOwed
  <2>2. cfFork = NoCf /\ UNCHANGED <<cfHere, cfList, cfUnsure>>
    BY <1>6 DEF ForkServed
  <2> QED BY <2>1, <2>2 DEF ListKept, ListInv
<1>7. ASSUME NEW p \in cfPosts, ForkAnswered(p) PROVE ListKept'
  BY <1>7, ForkAnswerKeeps
<1>8. ASSUME NEW p \in cfPosts, RefusalAnswered(p) PROVE ListKept'
  <2>1. \A q \in cfPosts : q.phase = "served" => q \in cfPosts'
    BY <1>8 DEF RefusalAnswered, IsRefusal
  <2> QED BY <1>8, <2>1, ListStays DEF RefusalAnswered, ForkOwed
<1>9. ASSUME NEW p \in cfPosts, ForkFailed(p) PROVE ListKept'
  <2>1. ~ cfUnsure' => \A q \in cfPosts : q.phase = "served" => q \in cfPosts'
    BY <1>9 DEF ForkFailed
  <2> QED BY <1>9, <2>1, ListStays DEF ForkFailed, ForkOwed
<1>10. ASSUME NEW p \in cfPosts, NEW why \in CfField \cup {"name"}, ForkRefused(p, why) PROVE ListKept'
  <2>1. \A q \in cfPosts : q.phase = "served" => q \in cfPosts'
    BY <1>10 DEF ForkRefused, Becomes
  <2> QED BY <1>10, <2>1, ListStays DEF ForkRefused, ForkOwed
<1>11. ASSUME NEW now \in SUBSET {"root", "fork"}, CaseListRead(now) PROVE ListKept'
  <2>1. /\ cfList.asked # NoCf /\ now \in {cfList.asked, CfStored}
        /\ cfList' = [data |-> now, asked |-> NoCf, stale |-> FALSE]
        /\ UNCHANGED <<cfHere, cfPosts, cfFork, cfUnsure>>
    BY <1>11 DEF CaseListRead
  <2>2. cfList' \in CfListed /\ cfList'.data = now /\ cfList'.asked = NoCf /\ ~ cfList'.stale
    BY <2>1 DEF CfListed
  <2>3. ForkOwed' <=> ForkOwed
    BY <2>1 DEF ForkOwed
  <2>4. ~ cfUnsure => (cfFork = NoCf => now = {"root"})
                      /\ (cfFork # NoCf /\ ~ ForkOwed => now = {"root", "fork"})
    BY <2>1, StoredIs DEF ListKept, ListInv
  <2> QED BY <2>1, <2>2, <2>3, <2>4 DEF ListKept, ListInv
<1>12. ASSUME NEW to \in {"list"} \cup CfStored, NEW old \in BOOLEAN, OpenCasePage(to, old) PROVE ListKept'
  BY <1>12, OpenKeeps
<1>13. CASE UNCHANGED cfVars
  BY <1>13, ListStays DEF cfVars, ForkOwed
<1> QED BY <1>1, <1>2, <1>3, <1>4, <1>5, <1>6, <1>7, <1>8, <1>9, <1>10, <1>11, <1>12, <1>13 DEF CfNext

\* The list of cases (app/cases/page.tsx): the one on screen that is not being read shows every
\* case once a fork is answered, whichever page the answer finds and whatever was being read,
\* unless the answer was lost or a read of the list outlived its page.
THEOREM ListIsAlwaysWhole == CfSpec => []ListIsWhole
<1>0. CfInit => PostsHavePhases
  BY DEF CfInit, PostsHavePhases
<1>1. CfSpec => []ListKept
  BY <1>0, PhasesKept, ListInitially, CasesAreKept, PTL DEF CfSpec
<1>2. ListKept => ListIsWhole
  <2> SUFFICES ASSUME ListKept, cfHere = "list", cfList.asked = NoCf, cfPosts = {}, ~ cfUnsure
               PROVE  cfList.data = CfStored
    BY DEF ListIsWhole
  <2>1. ~ ForkOwed
    BY DEF ForkOwed
  <2> QED BY <2>1, StoredIs DEF ListKept, ListInv
<1> QED BY <1>1, <1>2, PTL
=============================================================================
