------------------------- MODULE SimulationResults -------------------------
(***************************************************************************)
(* What the simulation worker works out (app/monte-carlo/lib/              *)
(* simulation-core.ts, valuation-core.ts, correlation-core.ts) and what    *)
(* the page makes of it before it is drawn (lib/resultNormalization.ts).   *)
(*                                                                         *)
(* Returns are small integers; a percentile is given in hundredths and a   *)
(* bin boundary in multiples of one bin's width, so that nothing is        *)
(* rounded.  A row of a result is known by its time and by whether its     *)
(* numbers are finite: a path that overflows stays infinite.  The states   *)
(* are the samples a run may have drawn, the lengths it may have, the rows *)
(* it may send, and the matrices the user may have typed.                  *)
(***************************************************************************)
EXTENDS Integers, Sequences, FiniteSets, SequencesExt

CONSTANTS
  Return,           \* terminal returns a path may have
  Bins,             \* bars of the histogram (32)
  Target,           \* checkpoints aimed at (41 and 81)
  SiMaxPaths,       \* bound: paths
  SiMaxSteps,       \* bound: steps of a run
  SiMaxRows,        \* bound: rows of a result
  SiMaxCells        \* bound: cells of the matrix typed

ASSUME SiAssumption ==
  /\ Return \subseteq Int /\ Bins \in Nat \ {0}
  /\ Target \subseteq Nat \ {0, 1}
  /\ SiMaxPaths \in Nat /\ SiMaxSteps \in Nat \ {0}
  /\ SiMaxRows \in Nat /\ SiMaxCells \in Nat

VARIABLES
  siReturns,    \* terminalReturns
  siSteps,      \* steps of the run
  siRows,       \* the rows the worker sends: is the cone's row finite, the path's
  siMatrix,     \* correlationInput.correlationMatrix, in halves
  siCells       \* bound: cells typed

siVars == <<siReturns, siSteps, siRows, siMatrix, siCells>>

Lowest(a, b) == IF a < b THEN a ELSE b
Highest(a, b) == IF a > b THEN a ELSE b
Ascending(s) == SortSeq(s, LAMBDA a, b : a < b)

-----------------------------------------------------------------------------
(* The worker's numbers.                                                   *)

\* percentile, a hundred times
Percentile(s, pct) ==
  LET sorted == Ascending(s)
      index == pct * (Len(s) - 1)
      lower == index \div 100
      weight == index % 100
  IN IF weight = 0 THEN 100 * sorted[lower + 1]
     ELSE (100 - weight) * sorted[lower + 1] + weight * sorted[lower + 2]

\* Defect: the maximum is counted in a bin past the last.
BinPastEnd(s, v) ==
  LET low == Ascending(s)[1]
      high == Ascending(s)[Len(s)]
  IN IF high = low THEN 0 ELSE ((v - low) * Bins) \div (high - low)

\* histogram: the bin a value is counted in.
BinOf(s, v) ==
  LET low == Ascending(s)[1]
      high == Ascending(s)[Len(s)]
  IN IF high = low THEN 0
     ELSE Highest(0, Lowest(Bins - 1, ((v - low) * Bins) \div (high - low)))

\* losses, var95 and the values the conditional one averages.
Losses(s) == [i \in DOMAIN s |-> -s[i]]
ValueAtRisk(s, pct) == Percentile(Losses(s), pct)
TailLosses(s, pct) == {i \in DOMAIN s : 100 * Losses(s)[i] >= ValueAtRisk(s, pct)}

\* checkpointStride and checkpointSteps
Stride(steps, target) == Highest(1, steps \div (target - 1))
Checkpoints(steps, target) ==
  {k \in 0 .. steps - 1 : k % Stride(steps, target) = 0} \cup {steps}

-----------------------------------------------------------------------------
(* The valuation tab.  A sample stands for the fair values of a run; a     *)
(* rate is in thousandths.                                                 *)

\* What is drawn for one run, held within the bounds of the engine.
DrawnRates(growth, discount, terminal, per) ==
  LET held == Highest(discount, 30)
  IN [growth |-> Highest(growth, -800), discount |-> held,
      terminal |-> Lowest(terminal, held - 5), per |-> Highest(per, 1)]

\* appliedGrowth of the years: the last one grows at the terminal rate only.
GrowthOfYears(rates, years) ==
  [y \in 1 .. Highest(1, years) |-> IF y = Highest(1, years) THEN rates.terminal ELSE rates.growth]

Percents == {1, 5, 10, 25, 50, 75, 90, 95, 99}

\* fair_value_summary: the shares in numbers of runs, the upside a hundred times the price.
FairValueSummary(s, price) ==
  [undervalued |-> Cardinality({i \in DOMAIN s : s[i] > price}),
   position |-> Cardinality({i \in DOMAIN s : s[i] <= price}),
   upside |-> IF price > 0 THEN Percentile(s, 50) - 100 * price ELSE 0,
   bands |-> [p \in Percents |-> Percentile(s, p)]]

-----------------------------------------------------------------------------
(* The correlation tab.                                                    *)

\* rank, of a sort that keeps equal values in their order.
RankOf(s) ==
  [i \in DOMAIN s |-> Cardinality({j \in DOMAIN s : s[j] < s[i] \/ (s[j] = s[i] /\ j <= i)})]

\* Twice the distance of a rank from the mean rank.
Deviation(s) == [i \in DOMAIN s |-> 2 * RankOf(s)[i] - Len(s) - 1]
Product(a, b) == MapThenSumSet(LAMBDA i : a[i] * b[i], DOMAIN a)

\* spearmanRho: its numerator, and the square of its denominator.
SpearmanRho(x, y) ==
  [over |-> Product(Deviation(x), Deviation(y)),
   square |-> Product(Deviation(x), Deviation(x)) * Product(Deviation(y), Deviation(y))]

\* optimal: the first of the points with the highest ratio.
Optimal(points) ==
  CHOOSE k \in DOMAIN points :
    \A j \in DOMAIN points : /\ points[j].sharpe <= points[k].sharpe
                             /\ j < k => points[j].sharpe < points[k].sharpe

\* efficient_frontier: the points by risk, the optimal one marked.
Frontier(points) ==
  SortSeq([k \in DOMAIN points |-> [at |-> k, risk |-> points[k].risk, sharpe |-> points[k].sharpe,
                                    finite |-> points[k].finite, optimal |-> k = Optimal(points)]],
          LAMBDA a, b : a.risk < b.risk \/ (a.risk = b.risk /\ a.at < b.at))

OptimalSummary(points) == [risk |-> points[Optimal(points)].risk, sharpe |-> points[Optimal(points)].sharpe]

-----------------------------------------------------------------------------
(* Normalization.  A result is its cone rows and its path rows; a row is   *)
(* its time and whether every number of it is finite.                      *)

Raw == [cone |-> [i \in DOMAIN siRows |-> [time |-> i, finite |-> siRows[i].cone]],
        paths |-> [i \in DOMAIN siRows |-> [time |-> i, finite |-> siRows[i].path]]]

Finite(rows) == SelectSeq(rows, LAMBDA r : r.finite)

\* sanitizePathSummary and sanitizeSamplePaths: without a finite path row there
\* are no series at all; the rest is trimmed to the length both have.
Normalized(result) ==
  LET cone == Finite(result.cone)
      kept == Finite(result.paths)
      shared == Lowest(Len(cone), Len(kept))
  IN [cone |-> cone, paths |-> SubSeq(kept, 1, shared)]

\* normalizeCorrelationResult: rows are dropped, the summary is kept.
NormalizedCorrelation(result) == [result EXCEPT !.frontier = Finite(@)]

\* pathChartData: row i of the paths is drawn with the mean of row i of the cone.
ChartRows(result) ==
  [i \in DOMAIN Normalized(result).paths |->
     [time |-> Normalized(result).paths[i].time,
      meanOf |-> Normalized(result).cone[i].time]]

-----------------------------------------------------------------------------
(* The matrix of the correlation tab: whole numbers are halves.            *)

Asset == 1..3
Clamped(v) == Highest(-2, Lowest(2, v))

\* updateCorrelationCell
TypeCell(row, column, value) ==
  /\ siCells < SiMaxCells
  /\ siMatrix' = [r \in Asset |-> [c \in Asset |->
       IF {r, c} = {row, column} /\ (r = row \/ r = column)
       THEN IF r = c THEN 2 ELSE Clamped(value)
       ELSE siMatrix[r][c]]]
  /\ siCells' = siCells + 1
  /\ UNCHANGED <<siReturns, siSteps, siRows>>

-----------------------------------------------------------------------------
SiTypeOK ==
  /\ siReturns \in Seq(Return) /\ Len(siReturns) <= SiMaxPaths
  /\ siSteps \in 1..SiMaxSteps
  /\ siRows \in Seq([cone : BOOLEAN, path : BOOLEAN]) /\ Len(siRows) <= SiMaxRows
  /\ siMatrix \in [Asset -> [Asset -> -2..2]]
  /\ siCells \in 0..SiMaxCells

SiInit ==
  /\ siReturns = <<>> /\ siSteps = 1 /\ siRows = <<>>
  /\ siMatrix = [r \in Asset |-> [c \in Asset |-> IF r = c THEN 2 ELSE 1]]
  /\ siCells = 0

\* One more path has ended with return v.
PathEnds(v) ==
  /\ siSteps = 1 /\ siRows = <<>> /\ siCells = 0 /\ Len(siReturns) < SiMaxPaths
  /\ siReturns' = Append(siReturns, v)
  /\ UNCHANGED <<siSteps, siRows, siMatrix, siCells>>

\* A run of one step more.
LongerRun ==
  /\ siReturns = <<>> /\ siRows = <<>> /\ siCells = 0 /\ siSteps < SiMaxSteps
  /\ siSteps' = siSteps + 1
  /\ UNCHANGED <<siReturns, siRows, siMatrix, siCells>>

\* One more row; what has overflowed once stays infinite.
RowSent(cone, path) ==
  /\ siReturns = <<>> /\ siSteps = 1 /\ siCells = 0 /\ Len(siRows) < SiMaxRows
  /\ siRows # <<>> => /\ cone => siRows[Len(siRows)].cone
                      /\ path => siRows[Len(siRows)].path
  /\ siRows' = Append(siRows, [cone |-> cone, path |-> path])
  /\ UNCHANGED <<siReturns, siSteps, siMatrix, siCells>>

SiNext ==
  \/ \E v \in Return : PathEnds(v)
  \/ LongerRun
  \/ \E cone, path \in BOOLEAN : RowSent(cone, path)
  \/ /\ siReturns = <<>> /\ siSteps = 1 /\ siRows = <<>>
     /\ \E r, c \in Asset, v \in -3..3 : TypeCell(r, c, v)

SiSpec == SiInit /\ [][SiNext]_siVars

-----------------------------------------------------------------------------
\* The bands of the percentile cone never cross, for any number of paths: a higher
\* percentile is never below a lower one, and all lie within the sample.
PercentilesOrdered ==
  siReturns # <<>> =>
    /\ \A p, q \in Percents :
         p < q => Percentile(siReturns, p) <= Percentile(siReturns, q)
    /\ \A p \in Percents : \E i, j \in DOMAIN siReturns :
         /\ 100 * siReturns[i] <= Percentile(siReturns, p)
         /\ Percentile(siReturns, p) <= 100 * siReturns[j]

\* Every path is counted in the bin whose bounds hold its return, the best one in
\* the last bin and not past it.
HistogramCounts ==
  siReturns # <<>> =>
    LET low == Ascending(siReturns)[1]
        span == Ascending(siReturns)[Len(siReturns)] - low
    IN \A i \in DOMAIN siReturns :
         LET b == BinOf(siReturns, siReturns[i])
             x == (siReturns[i] - low) * Bins
         IN b \in 0 .. Bins - 1 /\ span * b <= x /\ x <= span * (b + 1)

\* Some path is in the tail whatever the sample, so the conditional value at risk
\* averages at least one loss, and none below the value at risk.
TailHasLosses ==
  siReturns # <<>> => \A pct \in {95, 99} : TailLosses(siReturns, pct) # {}

\* The checkpoints start at 0, end at the last step, leave no gap wider than the
\* stride, and are never more than twice as many as aimed at.
CheckpointsCover ==
  \A target \in Target :
    LET points == Checkpoints(siSteps, target)
    IN /\ 0 \in points /\ siSteps \in points
       /\ \A p \in points \ {siSteps} :
            \E q \in points : p < q /\ q <= p + Stride(siSteps, target)
       /\ Cardinality(points) <= 2 * target

\* Normalizing twice, as the page does, is normalizing once, and every row of the
\* chart shows the mean of its own time.
RowsAgree ==
  /\ Normalized(Normalized(Raw)) = Normalized(Raw)
  /\ \A i \in DOMAIN ChartRows(Raw) : ChartRows(Raw)[i].time = ChartRows(Raw)[i].meanOf

\* Whatever cells are typed, the matrix stays symmetric with ones on its diagonal.
MatrixIsCorrelation ==
  \A r, c \in Asset : siMatrix[r][c] = siMatrix[c][r] /\ siMatrix[r][r] = 2

\* What the valuation tab says of one price never contradicts itself: every run is
\* either above the price or counted in its position; an upside means that half of
\* the runs are above, more than half above means no downside, and the bands lie
\* around the median.  The terminal growth stays below the discount rate.
ValuationSpeaksOnce ==
  /\ \A growth \in {-900, 50}, discount \in {-10, 30, 90}, terminal \in {20, 200}, years \in 0..3 :
       LET rates == DrawnRates(growth, discount, terminal, 0)
           path == GrowthOfYears(rates, years)
       IN /\ path # <<>> /\ path[Len(path)] < rates.discount
          /\ \A y \in DOMAIN path : path[y] > -1000
  /\ siReturns # <<>> => \A price \in Return :
       LET of == FairValueSummary(siReturns, price)
       IN /\ of.undervalued + of.position = Len(siReturns)
          /\ of.upside > 0 => 2 * of.undervalued >= Len(siReturns)
          /\ price > 0 /\ 2 * of.undervalued > Len(siReturns) => of.upside > 0
          /\ \A p \in Percents : IF p <= 50 THEN of.bands[p] <= of.bands[50] ELSE of.bands[50] <= of.bands[p]

\* A sensitivity lies between -1 and 1 and is that of the ranks' differences, with
\* ties and without; the frontier marks one point, none has a better ratio, and the
\* summary beside it is of that point, for as long as normalization lets it stay.
CorrelationHolds ==
  siReturns # <<>> /\ Len(siReturns) <= 3 =>
    LET n == Len(siReturns)
    IN /\ \A other \in [1..n -> Return] :
            LET rho == SpearmanRho(siReturns, other)
                gap == [i \in 1..n |-> RankOf(siReturns)[i] - RankOf(other)[i]]
            IN /\ rho.over * rho.over <= rho.square
               /\ 3 * rho.over = n * (n * n - 1) - 6 * Product(gap, gap)
       /\ \A risk \in [1..n -> 1..2], finite \in [1..n -> BOOLEAN] :
            LET points == [k \in 1..n |-> [risk |-> risk[k], sharpe |-> siReturns[k], finite |-> finite[k]]]
                whole == [frontier |-> Frontier(points), summary |-> OptimalSummary(points)]
                shown == NormalizedCorrelation(whole)
            IN /\ Cardinality({k \in 1..n : whole.frontier[k].optimal}) = 1
               /\ \A k \in 1..n : whole.frontier[k].sharpe <= whole.summary.sharpe
               /\ NormalizedCorrelation(shown) = shown
               /\ \A k \in DOMAIN shown.frontier : shown.frontier[k].optimal =>
                    shown.summary = [risk |-> shown.frontier[k].risk, sharpe |-> shown.frontier[k].sharpe]

\* The results drawn on the five tabs hold together.
ResultsSound ==
  PercentilesOrdered /\ HistogramCounts /\ TailHasLosses /\ CheckpointsCover
    /\ RowsAgree /\ MatrixIsCorrelation /\ ValuationSpeaksOnce /\ CorrelationHolds
=============================================================================
