--------------------------- MODULE CaseSimulation ---------------------------
(***************************************************************************)
(* The page of one valuation case (app/cases/[id]/page.tsx): the reads its *)
(* sections stand on, and its simulation (components/SimulateSection.tsx): *)
(* rows of distributions, the request, the result with the request that    *)
(* made it, and "rerun with this seed".                                    *)
(*                                                                         *)
(* The server draws from the seed it is given, or one of its own, so equal *)
(* distributions and an equal seed give an equal result.                   *)
(***************************************************************************)
EXTENDS Integers, Sequences, FiniteSets

CONSTANTS
  CxKey,       \* the inputs a row can name
  CxNarrated,  \* those that need a claim
  CxShape,     \* the shapes of a distribution
  CxParams,    \* SHAPE_PARAMS: the parameters of each
  CxSeeds,     \* seeds
  CxWithheld,  \* seeds under which too many draws are refused
  NoCx,        \* nothing chosen, typed, asked or read
  CxMaxRows,   \* bound: rows of the form
  CxMaxEdits,  \* bound: edits after a request was sent
  CxMaxSends,  \* bound: requests
  CxMaxFaults  \* bound: reads and requests that fail

ASSUME CxAssumption ==
  /\ CxNarrated \subseteq CxKey /\ CxWithheld \subseteq CxSeeds /\ CxParams \in [CxShape -> SUBSET STRING]
  /\ CxMaxRows \in Nat /\ CxMaxEdits \in Nat /\ CxMaxSends \in Nat /\ CxMaxFaults \in Nat

VARIABLES
  cxQuery,   \* the page's queries: [data, asked, said]
  cxRows,    \* rows
  cxNextId,  \* nextId
  cxSeed,    \* seed, as typed
  cxSaid,    \* submitted, refusal, failed
  cxResult,  \* result
  cxLast,    \* lastRequest
  cxAsked,   \* the mutation that is pending
  cxUsed     \* bounds

cxVars == <<cxQuery, cxRows, cxNextId, cxSeed, cxSaid, cxResult, cxLast, cxAsked, cxUsed>>
cxForm == <<cxRows, cxNextId, cxSeed>>

CxSection == {"case", "run", "pricing", "diff"}
CxRow == [id : Nat, key : CxKey \cup {NoCx}, shape : CxShape, params : SUBSET STRING, claim : BOOLEAN]
CxQuiet == [submitted |-> FALSE, refusal |-> FALSE, failed |-> FALSE]
Distributions == UNION {[keys -> CxShape] : keys \in SUBSET CxKey}
CxRequest == [dist : Distributions, seed : CxSeeds \cup {NoCx}]

CxTypeOK ==
  /\ cxQuery \in [CxSection -> [data : BOOLEAN, asked : BOOLEAN, said : {"", "refused", "failed"}]]
  /\ Len(cxRows) <= CxMaxRows
  /\ \A i \in DOMAIN cxRows : /\ cxRows[i].id \in 1..(cxNextId - 1) /\ cxRows[i].shape \in CxShape
                              /\ cxRows[i].key \in CxKey \cup {NoCx} /\ cxRows[i].claim \in BOOLEAN
                              /\ cxRows[i].params \subseteq CxParams[cxRows[i].shape]
  /\ cxSeed \in CxSeeds \cup {NoCx}
  /\ cxSaid \in [submitted : BOOLEAN, refusal : BOOLEAN, failed : BOOLEAN]
  /\ cxResult = NoCx \/ cxResult \in [dist : Distributions, seed : CxSeeds, stats : BOOLEAN]
  /\ cxLast = NoCx \/ cxLast \in CxRequest
  /\ cxAsked = NoCx \/ cxAsked \in CxRequest
  /\ cxUsed \in [edits : 0..CxMaxEdits, sends : 0..CxMaxSends, faults : 0..CxMaxFaults]

CxInit ==
  /\ cxQuery = [s \in CxSection |-> [data |-> FALSE, asked |-> s = "case", said |-> ""]]
  /\ cxRows = <<>> /\ cxNextId = 1 /\ cxSeed = NoCx
  /\ cxSaid = CxQuiet /\ cxResult = NoCx /\ cxLast = NoCx /\ cxAsked = NoCx
  /\ cxUsed = [edits |-> 0, sends |-> 0, faults |-> 0]

-----------------------------------------------------------------------------
(* The reads.                                                              *)

\* What a section says and whether its figures are there.  An error says so even beside them.
Loading(s) == ~ cxQuery[s].data /\ cxQuery[s].said = ""
CxFigures(s) == cxQuery["case"].data /\ cxQuery[s].data

\* The valuation is read once the case is; the other sections are mounted with it.
AskedBy(query, s) ==
  IF s = "case" /\ query["case"].said = ""
  THEN [q \in CxSection |-> IF q # "case" /\ ~ query[q].data /\ query[q].said = ""
                            THEN [query[q] EXCEPT !.asked = TRUE] ELSE query[q]]
  ELSE query

SectionRead(s, how) ==
  /\ cxQuery[s].asked
  /\ how \in {"", "refused", "failed"}
  /\ (how # "" => cxUsed.faults < CxMaxFaults)
  /\ cxQuery' = AskedBy([cxQuery EXCEPT ![s] = [data |-> how = "" \/ cxQuery[s].data, asked |-> FALSE,
                                                said |-> how]], s)
  /\ cxUsed' = IF how = "" THEN cxUsed ELSE [cxUsed EXCEPT !.faults = @ + 1]
  /\ UNCHANGED <<cxForm, cxSaid, cxResult, cxLast, cxAsked>>

\* The browser is online again: every query of the page that failed or is old is read again,
\* the valuation only while the case is not in error.
BackOnline ==
  /\ cxUsed.sends = 0 /\ cxRows = <<>>
  /\ \A s \in CxSection : ~ cxQuery[s].asked
  /\ \E s \in CxSection : cxQuery[s].said = "failed"
  /\ cxQuery' = [s \in CxSection |->
                   IF s = "case" \/ (cxQuery["case"].data /\ (s = "run" => cxQuery["case"].said = ""))
                   THEN [cxQuery[s] EXCEPT !.asked = TRUE,
                                           !.said = IF cxQuery[s].data THEN @ ELSE ""]
                   ELSE cxQuery[s]]
  /\ UNCHANGED <<cxForm, cxSaid, cxResult, cxLast, cxAsked, cxUsed>>

-----------------------------------------------------------------------------
(* buildSimulateRequest                                                    *)

CxFirst(i) == \A j \in 1..(i - 1) : cxRows[j].key # cxRows[i].key
CxProblem(i) ==
  \/ cxRows[i].key = NoCx \/ ~ CxFirst(i)
  \/ cxRows[i].params # CxParams[cxRows[i].shape]
  \/ cxRows[i].key \in CxNarrated /\ ~ cxRows[i].claim

\* The distributions of the rows without a problem, and the seed that was typed.
Built ==
  LET good == {i \in DOMAIN cxRows : ~ CxProblem(i)} IN
  [dist |-> [k \in {cxRows[i].key : i \in good} |->
               cxRows[CHOOSE i \in good : cxRows[i].key = k].shape],
   seed |-> cxSeed]
CanSend == cxRows # <<>> /\ \A i \in DOMAIN cxRows : ~ CxProblem(i)

-----------------------------------------------------------------------------
(* The form.                                                               *)

\* Bounds: the form is filled in once every section is read, and edits after a request was
\* sent are counted.
CxEdit ==
  /\ \A s \in CxSection : cxQuery[s] = [data |-> TRUE, asked |-> FALSE, said |-> ""]
  /\ (cxUsed.sends > 0 => cxUsed.edits < CxMaxEdits)
  /\ cxUsed' = IF cxUsed.sends > 0 THEN [cxUsed EXCEPT !.edits = @ + 1] ELSE cxUsed
  /\ UNCHANGED <<cxQuery, cxSaid, cxResult, cxLast, cxAsked>>

CxAddRow ==
  /\ Len(cxRows) < CxMaxRows /\ cxNextId <= CxMaxRows + 1
  /\ \E shape \in {CHOOSE s \in CxShape : TRUE} :
       cxRows' = Append(cxRows, [id |-> cxNextId, key |-> NoCx, shape |-> shape, params |-> {}, claim |-> FALSE])
  /\ cxNextId' = cxNextId + 1
  /\ CxEdit /\ UNCHANGED cxSeed

CxRemoveRow(id) ==
  /\ \E i \in DOMAIN cxRows : cxRows[i].id = id
  /\ cxRows' = SelectSeq(cxRows, LAMBDA r : r.id # id)
  /\ CxEdit /\ UNCHANGED <<cxNextId, cxSeed>>

SetRow(id, row) ==
  /\ cxRows' = [i \in DOMAIN cxRows |-> IF cxRows[i].id = id THEN row ELSE cxRows[i]]
  /\ CxEdit /\ UNCHANGED <<cxNextId, cxSeed>>

PickInput(i, key) == key # cxRows[i].key /\ SetRow(cxRows[i].id, [cxRows[i] EXCEPT !.key = key])
\* Another shape has other parameters: none is typed.
PickShape(i, shape) ==
  shape # cxRows[i].shape /\ SetRow(cxRows[i].id, [cxRows[i] EXCEPT !.shape = shape, !.params = {}])
TypeParam(i, name) ==
  /\ name \in CxParams[cxRows[i].shape] \ cxRows[i].params
  /\ SetRow(cxRows[i].id, [cxRows[i] EXCEPT !.params = @ \cup {name}])
GiveClaim(i) ==
  cxRows[i].key \in CxNarrated /\ ~ cxRows[i].claim /\ SetRow(cxRows[i].id, [cxRows[i] EXCEPT !.claim = TRUE])

TypeSeed(seed) ==
  /\ seed # cxSeed /\ cxSeed' = seed
  /\ CxEdit /\ UNCHANGED <<cxRows, cxNextId>>

\* send: the button is disabled while a request is pending.
CxSend ==
  /\ \A s \in CxSection : cxQuery[s].data /\ ~ cxQuery[s].asked
  /\ cxAsked = NoCx
  /\ (CanSend => cxUsed.sends < CxMaxSends)
  /\ cxSaid' = [CxQuiet EXCEPT !.submitted = TRUE]
  /\ cxAsked' = IF CanSend THEN Built ELSE NoCx
  /\ cxUsed' = IF CanSend THEN [cxUsed EXCEPT !.sends = @ + 1] ELSE cxUsed
  /\ UNCHANGED <<cxQuery, cxForm, cxResult, cxLast>>

\* rerun: the request of the result that is shown, with the seed it was drawn from.
CxRerun ==
  /\ cxResult # NoCx /\ cxLast # NoCx /\ cxAsked = NoCx
  /\ cxUsed.sends < CxMaxSends
  /\ cxSeed' = cxResult.seed
  /\ cxSaid' = [cxSaid EXCEPT !.refusal = FALSE, !.failed = FALSE]
  /\ cxAsked' = [cxLast EXCEPT !.seed = cxResult.seed]
  /\ cxUsed' = [cxUsed EXCEPT !.sends = @ + 1]
  /\ UNCHANGED <<cxQuery, cxRows, cxNextId, cxResult, cxLast>>

\* simulate_case: a summary, unless too many draws were refused.
Simulated(request, seed) ==
  [dist |-> request.dist, seed |-> seed, stats |-> seed \notin CxWithheld]

\* onSuccess
CxAnswered(seed) ==
  /\ cxAsked # NoCx
  /\ seed \in (IF cxAsked.seed = NoCx THEN CxSeeds ELSE {cxAsked.seed})
  /\ cxResult' = Simulated(cxAsked, seed)
  /\ cxLast' = cxAsked
  /\ cxAsked' = NoCx
  /\ UNCHANGED <<cxQuery, cxForm, cxSaid, cxUsed>>

\* onError: the result that was shown is gone.
CxFailed(refused) ==
  /\ cxAsked # NoCx /\ cxUsed.faults < CxMaxFaults
  /\ cxResult' = NoCx /\ cxAsked' = NoCx
  /\ cxSaid' = [cxSaid EXCEPT !.refusal = refused \/ @, !.failed = ~ refused \/ @]
  /\ cxUsed' = [cxUsed EXCEPT !.faults = @ + 1]
  /\ UNCHANGED <<cxQuery, cxForm, cxLast>>

CxNext ==
  \/ \E s \in CxSection, how \in {"", "refused", "failed"} : SectionRead(s, how)
  \/ BackOnline \/ CxAddRow \/ CxSend \/ CxRerun
  \/ \E id \in 1..(cxNextId - 1) : CxRemoveRow(id)
  \/ \E i \in DOMAIN cxRows :
       \/ \E key \in CxKey \cup {NoCx} : PickInput(i, key)
       \/ \E shape \in CxShape : PickShape(i, shape)
       \/ \E name \in UNION {CxParams[s] : s \in CxShape} : TypeParam(i, name)
       \/ GiveClaim(i)
  \/ \E seed \in CxSeeds \cup {NoCx} : TypeSeed(seed)
  \/ \E seed \in CxSeeds : CxAnswered(seed)
  \/ \E refused \in BOOLEAN : CxFailed(refused)

CxSpec == CxInit /\ [][CxNext]_cxVars

-----------------------------------------------------------------------------
(* SimulateResults                                                         *)

\* The bins of a histogram, by their edges: each is open above but the last.
HoldsPoint(edges, i, point) ==
  /\ edges[i] <= point
  /\ IF i = Len(edges) - 1 THEN point <= edges[i + 1] ELSE point < edges[i + 1]

-----------------------------------------------------------------------------
\* "Rerun with this seed" draws the result that is on screen once more, whatever was typed,
\* refused or sent since.
RerunReproduces ==
  /\ cxResult # NoCx =>
       cxLast # NoCx /\ Simulated([cxLast EXCEPT !.seed = cxResult.seed], cxResult.seed) = cxResult
  /\ cxResult # NoCx /\ cxLast.seed # NoCx => cxLast.seed = cxResult.seed

\* A result never stands beside the refusal or the failure of a later request.
OneVerdict ==
  /\ (cxSaid.refusal \/ cxSaid.failed) => cxResult = NoCx /\ cxAsked = NoCx
  /\ ~ (cxSaid.refusal /\ cxSaid.failed)

\* A section without figures says why or is being read; nothing is read before its case.
SectionsSpeak ==
  /\ \A s \in CxSection : Loading(s) /\ (s = "case" \/ cxQuery["case"].data) => cxQuery[s].asked
  /\ \A s \in CxSection : CxFigures(s) \/ cxQuery[s].asked => s = "case" \/ cxQuery["case"].data

\* The value of the case falls into one bin, into none outside the histogram.
PointIsInOneBin ==
  \A n \in 2..4 : \A edges \in {e \in [1..n -> 0..5] : \A i \in 1..(n - 1) : e[i] < e[i + 1]} :
    \A point \in -1..6 :
      Cardinality({i \in 1..(n - 1) : HoldsPoint(edges, i, point)})
        = IF edges[1] <= point /\ point <= edges[n] THEN 1 ELSE 0

\* The page of a case holds together.
CaseHolds == RerunReproduces /\ OneVerdict /\ SectionsSpeak /\ PointIsInOneBin
=============================================================================
