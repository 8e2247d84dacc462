--------------------------- MODULE PortfolioProofs ---------------------------
(***************************************************************************)
(* The portfolio page, the simulation lab and the developer monitor, for   *)
(* any values of their constants.  What a page keeps whatever its server   *)
(* and its user do needs no fairness, so the theorems are about its        *)
(* initial states and its steps.  Each page has an inductive invariant of  *)
(* its own (AllocInv, SyncInv, GridInv, AnalysisInv and so on), which says *)
(* what the page may still owe.                                            *)
(***************************************************************************)
EXTENDS AllocationEditor, HoldingsView, StockEditor, PortfolioAnalysis, StockGrid,
        PriceLookup, MonteCarloRuns, PerformanceStream, MonitorClient, RequestProfile,
        StockFigures, PortfolioPanels,
        FiniteSetTheorems, SequenceTheorems, WellFoundedInduction, TLAPS

-----------------------------------------------------------------------------
(* The allocation editor.                                                  *)

\* A row is no NoRow, whatever its fields.
RowsAreRows == \A w, g : NoRow # [weight |-> w, group |-> g]

RowShape(rows) ==
  /\ rows = [s \in Stock |-> rows[s]]
  /\ \A s \in Stock : rows[s] # NoRow =>
       rows[s] = [weight |-> rows[s].weight, group |-> rows[s].group]

\* A request in flight is of a kind and about a stock.
ActKind == {"follow", "delete", "add"}
ActShape(a) ==
  \E k \in ActKind, s \in Stock : \E w, g, v :
    a = [kind |-> k, stock |-> s, weight |-> w, group |-> g, served |-> v]

AllocShape == RowShape(row) /\ \A a \in acts : ActShape(a)

LEMMA RowWritten ==
  ASSUME NEW rows, RowShape(rows), NEW s, NEW w, NEW g
  PROVE  RowShape([rows EXCEPT ![s] = [weight |-> w, group |-> g]])
BY DEF RowShape

LEMMA ActOnRowShape ==
  ASSUME AllocShape, NEW a \in acts
  PROVE  /\ ActOnRow(a) # NoRow => ActOnRow(a) = [weight |-> ActOnRow(a).weight,
                                                  group |-> ActOnRow(a).group]
         /\ a.kind = "follow" /\ row[a.stock] # NoRow => ActOnRow(a).weight = row[a.stock].weight
         /\ a.kind = "follow" /\ row[a.stock] = NoRow => ActOnRow(a) = NoRow
<1>1. a.stock \in Stock
  BY DEF AllocShape, ActShape
<1>2. CASE a.kind = "follow"
  <2>1. CASE row[a.stock] = NoRow
    BY <1>2, <2>1 DEF ActOnRow
  <2>2. CASE row[a.stock] # NoRow
    <3>1. row[a.stock] = [weight |-> row[a.stock].weight, group |-> row[a.stock].group]
      BY <1>1, <2>2 DEF AllocShape, RowShape
    <3>2. ActOnRow(a) = [row[a.stock] EXCEPT !.group = a.group]
      BY <1>2, <2>2 DEF ActOnRow
    <3>3. ActOnRow(a) = [weight |-> row[a.stock].weight, group |-> a.group]
      BY <3>1, <3>2
    <3> QED BY <2>2, <3>3
  <2> QED BY <2>1, <2>2
<1>3. CASE a.kind \in {"delete", "add"}
  BY <1>3 DEF ActOnRow
<1>4. a.kind \in ActKind
  BY DEF AllocShape, ActShape
<1> QED BY <1>2, <1>3, <1>4 DEF ActKind

LEMMA ServedActShape ==
  ASSUME NEW a, ActShape(a), NEW b, b = [a EXCEPT !.served = TRUE]
  PROVE  ActShape(b)
<1>1. PICK k \in ActKind, s \in Stock :
        \E w, g, v : a = [kind |-> k, stock |-> s, weight |-> w, group |-> g, served |-> v]
  BY DEF ActShape
<1>2. PICK w, g, v : a = [kind |-> k, stock |-> s, weight |-> w, group |-> g, served |-> v]
  BY <1>1
<1>3. b = [kind |-> k, stock |-> s, weight |-> w, group |-> g, served |-> TRUE]
  BY <1>2
<1> QED BY <1>3 DEF ActShape

\* A request that writes one row by its answer, one that is sent, one that is done.
LEMMA AllocShapeStep ==
  ASSUME AllocShape, [AllocNext]_allocVars
  PROVE  AllocShape'
<1>1. CASE SaveServed
  <2>1. PICK r : r = Head(loop.rows) /\ row' = [row EXCEPT ![r.stock] = [weight |-> r.weight,
                                                                        group |-> r.group]]
    BY <1>1 DEF SaveServed
  <2>2. RowShape(row')
    BY <2>1, RowWritten DEF AllocShape
  <2> QED BY <1>1, <2>2 DEF SaveServed, AllocShape, RowShape
<1>2. ASSUME NEW kind \in ActKind, NEW s \in Stock, NEW w, NEW g, Ask(kind, s, w, g) PROVE AllocShape'
  BY <1>2 DEF Ask, AllocShape, RowShape, ActShape
<1>3. ASSUME NEW a \in acts, ActServed(a) PROVE AllocShape'
  <2>1. PICK new : new = ActOnRow(a)
    OBVIOUS
  <2>2. row' = [row EXCEPT ![a.stock] = new]
    BY <1>3, <2>1 DEF ActServed
  <2>3. RowShape(row')
    BY <2>1, <2>2, ActOnRowShape DEF AllocShape, RowShape
  <2>4. ActShape([a EXCEPT !.served = TRUE])
    <3>1. ActShape(a)
      BY DEF AllocShape
    <3> QED BY <3>1, ServedActShape
  <2>5. \A b \in acts' : ActShape(b)
    BY <1>3, <2>4 DEF ActServed, AllocShape
  <2> QED BY <2>3, <2>5 DEF AllocShape, RowShape
<1>4. ASSUME NEW a \in acts, ActAnswered(a) PROVE AllocShape'
  BY <1>4 DEF ActAnswered, AllocShape, RowShape
<1>5. CASE UNCHANGED <<row, acts>>
  BY <1>5 DEF AllocShape, RowShape
<1> DEFINE Asks == \E kind \in ActKind, s \in Stock : \E w, g : Ask(kind, s, w, g)
<1>6. ASSUME AllocUser PROVE UNCHANGED <<row, acts>> \/ Asks
  <2>1. ASSUME NEW s \in Stock, NEW p \in TypedPercent, TypeDraft(s, p)
        PROVE  UNCHANGED <<row, acts>>
    BY <2>1 DEF TypeDraft
  <2>2. ASSUME ToggleApply \/ Normalize PROVE UNCHANGED <<row, acts>>
    BY <2>2 DEF ToggleApply, Normalize
  <2>3. ASSUME NEW s \in Stock, ToggleFollow(s) PROVE Asks
    BY <2>3 DEF ToggleFollow, ActKind
  <2>4. ASSUME NEW s \in Stock, DeleteHolding(s) PROVE Asks
    BY <2>4 DEF DeleteHolding, ActKind
  <2>5. ASSUME NEW s \in Stock, NEW w \in TypedPercent, NEW only \in BOOLEAN,
               AddHolding(s, w, only)
        PROVE  Asks
    BY <2>5 DEF AddHolding, ActKind
  <2>6. ASSUME NEW s \in Stock, AddCandidate(s) PROVE Asks
    BY <2>6 DEF AddCandidate, ActKind
  <2> HIDE DEF Asks
  <2> QED BY <1>6, <2>1, <2>2, <2>3, <2>4, <2>5, <2>6 DEF AllocUser
<1>7. ASSUME AllocBrowser \/ ReadList \/ SaveFails PROVE UNCHANGED <<row, acts>>
  BY <1>7 DEF AllocBrowser, Settle, AutoSave, ReadList, SaveFails
<1>8. ASSUME ReadServed \/ ReadAnswered \/ SaveAnswered \/ SnapshotAnswered
      PROVE  UNCHANGED <<row, acts>>
  BY <1>8 DEF ReadServed, ReadAnswered, SaveAnswered, SnapshotAnswered
<1>9. CASE UNCHANGED allocVars
  BY <1>5, <1>9 DEF allocVars
<1> QED BY <1>1, <1>2, <1>3, <1>4, <1>5, <1>6, <1>7, <1>8, <1>9 DEF AllocNext, AllocServer

-----------------------------------------------------------------------------
(* What the patient user sees is what the server has.                      *)

ListAgrees(rows, other) ==
  \A s \in Stock : /\ rows[s] = NoRow <=> other[s] = NoRow
                   /\ rows[s] # NoRow => rows[s].group = other[s].group

Resting == draft = NoDrafts /\ settled = NoDrafts /\ loop.phase = "idle"

LoopShape ==
  loop = [phase |-> loop.phase, rows |-> loop.rows, all |-> loop.all, served |-> loop.served,
          normal |-> loop.normal, snapshot |-> loop.snapshot]

\* The rows of a save were on the list, and are as the list has them but for the weight.
Taken(rows, known) ==
  /\ \E T : rows \in Seq(T)
  /\ rows # <<>>
  /\ \A i \in 1..Len(rows) : /\ rows[i].stock \in Stock /\ known[rows[i].stock] # NoRow
                             /\ rows[i].group = known[rows[i].stock].group

\* A request or a read of the list is under way only while nothing else is, one at a time; otherwise
\* the list is the server's, weights aside.
AllocInv ==
  /\ AllocShape /\ RowShape(list) /\ LoopShape
  /\ read \in {NoRead, [asked |-> TRUE, rows |-> <<>>], [asked |-> TRUE, rows |-> <<row>>]}
  /\ acts # {} \/ read # NoRead => Resting
  /\ acts # {} => read = NoRead
  /\ \A a, b \in acts : a = b
  /\ acts = {} /\ read = NoRead => ListAgrees(list, row)
  /\ loop.phase = "save" => Taken(loop.rows, list)

\* One row of the loop is served; the next is sent; the snapshot is asked for.
LEMMA LoopFields ==
  ASSUME NEW l, l = [phase |-> l.phase, rows |-> l.rows, all |-> l.all, served |-> l.served,
                     normal |-> l.normal, snapshot |-> l.snapshot],
         NEW rows, NEW new
  PROVE  /\ new = [l EXCEPT !.served = TRUE] =>
              new = [phase |-> l.phase, rows |-> l.rows, all |-> l.all, served |-> TRUE,
                     normal |-> l.normal, snapshot |-> l.snapshot]
         /\ new = [l EXCEPT !.rows = rows, !.served = FALSE] =>
              new = [phase |-> l.phase, rows |-> rows, all |-> l.all, served |-> FALSE,
                     normal |-> l.normal, snapshot |-> l.snapshot]
         /\ new = [l EXCEPT !.phase = "snapshot", !.rows = <<>>] =>
              new = [phase |-> "snapshot", rows |-> <<>>, all |-> l.all, served |-> l.served,
                     normal |-> l.normal, snapshot |-> l.snapshot]
<1>1. PICK p, r, a, d, n, s : /\ l = [phase |-> p, rows |-> r, all |-> a, served |-> d,
                                      normal |-> n, snapshot |-> s]
                              /\ p = l.phase /\ r = l.rows /\ a = l.all /\ d = l.served
                              /\ n = l.normal /\ s = l.snapshot
  OBVIOUS
<1>2. ASSUME new = [l EXCEPT !.served = TRUE]
      PROVE  new = [phase |-> p, rows |-> r, all |-> a, served |-> TRUE,
                    normal |-> n, snapshot |-> s]
  BY <1>1, <1>2
<1>3. ASSUME new = [l EXCEPT !.rows = rows, !.served = FALSE]
      PROVE  new = [phase |-> p, rows |-> rows, all |-> a, served |-> FALSE,
                    normal |-> n, snapshot |-> s]
  BY <1>1, <1>3
<1>4. ASSUME new = [l EXCEPT !.phase = "snapshot", !.rows = <<>>]
      PROVE  new = [phase |-> "snapshot", rows |-> <<>>, all |-> a, served |-> d,
                    normal |-> n, snapshot |-> s]
  BY <1>1, <1>4
<1> QED BY <1>1, <1>2, <1>3, <1>4

LEMMA CapturedRows ==
  ASSUME NEW stocks, stocks \subseteq OnList(list), stocks # {}, NEW weight
  PROVE  Taken(Captured(stocks, weight), list)
<1> DEFINE ordered == SetToSeq(stocks)
           n == Cardinality(stocks)
           rows == Captured(stocks, weight)
           T == {rows[i] : i \in 1..n}
<1>1. IsFiniteSet(stocks)
  <2>1. stocks \in SUBSET Stock
    BY DEF OnList
  <2> QED BY <2>1, AllocAssumption, FS_Subset
<1>2. n \in Nat /\ n > 0 /\ ExistsBijection(1..n, stocks)
  <2>1. n \in Nat /\ ExistsBijection(1..n, stocks)
    BY <1>1, FS_CardinalityType
  <2>2. n # 0
    BY <1>1, FS_EmptySet
  <2> HIDE DEF n
  <2> QED BY <2>1, <2>2
<1>3. \E f \in [1..n -> stocks] : IsInjective(f)
  BY <1>2 DEF ExistsBijection, Bijection, Injection
<1>4. ordered \in [1..n -> stocks]
  BY <1>3 DEF SetToSeq
<1> HIDE DEF ordered, n
<1>5. /\ DOMAIN rows = 1..n
      /\ \A i \in 1..n : rows[i].stock = ordered[i] /\ rows[i].group = list[ordered[i]].group
      /\ rows = [i \in 1..n |-> rows[i]]
  <2>1. rows = [i \in DOMAIN ordered |->
                  [stock |-> ordered[i], weight |-> weight[ordered[i]],
                   group |-> list[ordered[i]].group]]
    BY DEF Captured, ordered
  <2> HIDE DEF rows
  <2> QED BY <1>4, <2>1
<1> HIDE DEF rows
<1>6. rows \in [1..n -> T]
  BY <1>5
<1> HIDE DEF T
<1>7. rows \in Seq(T) /\ Len(rows) = n
  BY <1>2, <1>6
<1>8. \A i \in 1..n : ordered[i] \in Stock /\ list[ordered[i]] # NoRow
  BY <1>4 DEF OnList
<1> QED BY <1>2, <1>5, <1>7, <1>8 DEF Taken, rows

LEMMA AskStep ==
  ASSUME AllocInv, AllocPatient = TRUE, NEW kind \in ActKind, NEW s \in Stock, NEW w, NEW g,
         MayAct, Ask(kind, s, w, g)
  PROVE  AllocInv'
<1>1. acts = {} /\ read = NoRead /\ Resting
  BY DEF MayAct, Quiet, ShownSaving, AllocInv, NoRead, Resting
<1>2. AllocShape'
  BY DEF Ask, AllocInv, AllocShape, RowShape, ActShape
<1>3. \A a, b \in acts' : a = b
  BY <1>1 DEF Ask
<1>4. acts' # {}
  BY <1>1 DEF Ask
<1>5. Resting' /\ LoopShape' /\ RowShape(list)' /\ read' = NoRead /\ loop'.phase = "idle"
  BY <1>1 DEF Ask, Resting, AllocInv, LoopShape, RowShape
<1> QED BY <1>2, <1>3, <1>4, <1>5 DEF AllocInv

LEMMA SaveServedStep ==
  ASSUME AllocInv, RowsAreRows, SaveServed
  PROVE  /\ AllocInv'
         /\ LET s == Head(loop.rows).stock
            IN row[s] # NoRow /\ row'[s].group = row[s].group
<1>1. PICK r : r = Head(loop.rows)
  OBVIOUS
<1>2. Taken(loop.rows, list) /\ acts = {} /\ read = NoRead /\ ListAgrees(list, row)
  BY DEF SaveServed, AllocInv, Resting
<1>3. r.stock \in Stock /\ list[r.stock] # NoRow /\ r.group = list[r.stock].group
  <2>1. PICK T : loop.rows \in Seq(T)
    BY <1>2 DEF Taken
  <2>2. Len(loop.rows) \in Nat /\ Len(loop.rows) >= 1 /\ r = loop.rows[1]
    BY <1>1, <1>2, <2>1 DEF Taken
  <2> QED BY <1>2, <2>2 DEF Taken
<1>4. row' = [row EXCEPT ![r.stock] = [weight |-> r.weight, group |-> r.group]]
  BY <1>1 DEF SaveServed
<1>5. row[r.stock] # NoRow /\ row[r.stock].group = r.group
  BY <1>2, <1>3 DEF ListAgrees
<1>6. /\ \A s \in Stock : s # r.stock => row'[s] = row[s]
      /\ row'[r.stock] = [weight |-> r.weight, group |-> r.group]
  BY <1>3, <1>4 DEF AllocInv, AllocShape, RowShape
<1>7. row'[r.stock] # NoRow /\ row'[r.stock].group = r.group
  BY <1>6 DEF RowsAreRows
<1>8. ListAgrees(list, row')
  BY <1>2, <1>3, <1>6, <1>7 DEF ListAgrees
<1>9. AllocShape'
  <2>1. RowShape(row')
    BY <1>4, RowWritten DEF AllocInv, AllocShape
  <2> QED BY <2>1 DEF SaveServed, AllocInv, AllocShape, RowShape
<1>10. /\ loop'.phase = "save" /\ loop'.rows = loop.rows /\ LoopShape'
  <2>1. loop' = [loop EXCEPT !.served = TRUE] /\ loop.phase = "save"
    BY DEF SaveServed
  <2>2. loop' = [phase |-> loop.phase, rows |-> loop.rows, all |-> loop.all, served |-> TRUE,
                 normal |-> loop.normal, snapshot |-> loop.snapshot]
    BY <2>1, LoopFields DEF AllocInv, LoopShape
  <2> QED BY <2>1, <2>2 DEF LoopShape
<1>11. UNCHANGED <<list, read, acts>>
  BY DEF SaveServed
<1>12. AllocInv'
  BY <1>2, <1>8, <1>9, <1>10, <1>11 DEF AllocInv, RowShape, Taken, ListAgrees
<1> QED BY <1>1, <1>5, <1>7, <1>12

\* What keeps AllocInv when the rows, the list and the requests stay: the loop and the drafts may
\* change while nothing is asked.
LEMMA LoopChanges ==
  ASSUME AllocInv, UNCHANGED <<row, list, acts, read>>, LoopShape',
         acts # {} \/ read # NoRead => Resting',
         loop'.phase = "save" => Taken(loop'.rows, list)
  PROVE  AllocInv'
<1>1. AllocShape' /\ RowShape(list)'
  BY DEF AllocInv, AllocShape, RowShape
<1> QED BY <1>1 DEF AllocInv, ListAgrees

LEMMA LoopStarts ==
  ASSUME AllocInv, UNCHANGED <<row, list, acts, read>>, acts = {}, read = NoRead,
         NEW stocks, stocks \subseteq OnList(list), stocks # {}, NEW weight,
         LoopShape', loop'.rows = Captured(stocks, weight)
  PROVE  AllocInv'
<1>1. Taken(loop'.rows, list)
  BY CapturedRows
<1> QED BY <1>1, LoopChanges

LEMMA PageStep ==
  ASSUME AllocInv, AllocPatient = TRUE
  PROVE  /\ \A s \in Stock, p \in TypedPercent : TypeDraft(s, p) => AllocInv'
         /\ ToggleApply \/ Normalize \/ Settle \/ AutoSave \/ SaveFails \/ SnapshotAnswered
              => AllocInv'
<1> DEFINE Calm == acts = {} /\ read = NoRead
<1>0. ~ read.asked => read = NoRead
  BY DEF AllocInv, NoRead
<1>1. ASSUME NEW s \in Stock, NEW p \in TypedPercent, TypeDraft(s, p) PROVE AllocInv'
  <2>1. Calm /\ UNCHANGED <<row, list, acts, read, loop>>
    BY <1>0, <1>1 DEF TypeDraft
  <2> QED BY <2>1, LoopChanges DEF AllocInv, LoopShape
<1>2. CASE ToggleApply
  BY <1>2, LoopChanges DEF ToggleApply, AllocInv, LoopShape, Resting
<1>3. CASE Normalize
  <2>1. Calm /\ UNCHANGED <<row, list, acts, read>>
    BY <1>0, <1>3 DEF Normalize, Quiet
  <2>2. Shares \subseteq OnList(list) /\ Shares # {}
    BY <1>3 DEF Normalize, Shares
  <2>3. PICK weight : weight = [s \in Shares |-> Share(s)]
    OBVIOUS
  <2>4. loop'.rows = Captured(Shares, weight) /\ LoopShape'
    BY <1>3, <2>3 DEF Normalize, LoopShape
  <2> QED BY <2>1, <2>2, <2>4, LoopStarts
<1>4. CASE Settle
  <2>1. UNCHANGED <<row, list, acts, read, loop>> /\ settled # draft
    BY <1>4 DEF Settle
  <2>2. Calm
    BY <2>1 DEF AllocInv, Resting
  <2> QED BY <2>1, <2>2, LoopChanges DEF AllocInv, LoopShape
<1>5. CASE AutoSave
  <2>1. UNCHANGED <<row, list, acts, read, draft, settled>>
    BY <1>5 DEF AutoSave
  <2>2. CASE loop' = loop
    BY <2>1, <2>2, LoopChanges DEF AllocInv, LoopShape, Resting
  <2>3. CASE loop' # loop
    <3>1. /\ Pending # {}
          /\ loop' = [phase |-> "save", rows |-> Captured(Pending, settled), all |-> Pending,
                      served |-> FALSE, normal |-> FALSE, snapshot |-> apply]
      BY <1>5, <2>3 DEF AutoSave
    <3>2. Pending \subseteq OnList(list)
      BY DEF Pending, Changed, OnList
    <3>3. PICK s \in Stock : settled[s] # NoDraft
      BY <3>1 DEF Pending, Changed
    <3>4. Calm
      BY <3>3 DEF AllocInv, Resting, NoDrafts
    <3>5. LoopShape' /\ loop'.rows = Captured(Pending, settled)
      BY <3>1 DEF LoopShape
    <3> QED BY <2>1, <3>1, <3>2, <3>4, <3>5, LoopStarts
  <2> QED BY <2>2, <2>3
<1>6. CASE SaveFails
  <2>1. Calm /\ UNCHANGED <<row, list, acts, read>> /\ loop' = Idle
    BY <1>6 DEF SaveFails, AllocInv, Resting
  <2> QED BY <2>1, LoopChanges DEF LoopShape, Idle
<1>7. CASE SnapshotAnswered
  <2>1. Calm /\ UNCHANGED <<row, list, acts, read>> /\ loop' = Idle
    BY <1>7 DEF SnapshotAnswered, AllocInv, Resting
  <2> QED BY <2>1, LoopChanges DEF LoopShape, Idle
<1> QED BY <1>1, <1>2, <1>3, <1>4, <1>5, <1>6, <1>7

\* The answer to a row puts it on the page as the server has it.
LEMMA SaveAnsweredStep ==
  ASSUME AllocInv, RowsAreRows, SaveAnswered
  PROVE  AllocInv'
<1>1. PICK r : r = Head(loop.rows)
  OBVIOUS
<1>2. Taken(loop.rows, list) /\ acts = {} /\ read = NoRead /\ ListAgrees(list, row)
  BY DEF SaveAnswered, AllocInv, Resting
<1>3. PICK T : loop.rows \in Seq(T) /\ loop.rows # <<>>
  BY <1>2 DEF Taken
<1>4. r.stock \in Stock /\ list[r.stock] # NoRow /\ r.group = list[r.stock].group
  <2>1. Len(loop.rows) \in Nat /\ Len(loop.rows) >= 1 /\ r = loop.rows[1]
    BY <1>1, <1>3
  <2> QED BY <1>2, <2>1 DEF Taken
<1>5. list' = [list EXCEPT ![r.stock] = [weight |-> r.weight, group |-> r.group]]
  BY <1>1, <1>4 DEF SaveAnswered, Patched
<1>6. /\ \A s \in Stock : s # r.stock => list'[s] = list[s]
      /\ list'[r.stock] = [weight |-> r.weight, group |-> r.group]
  BY <1>4, <1>5 DEF AllocInv, RowShape
<1>7. \A s \in Stock : /\ list'[s] = NoRow <=> list[s] = NoRow
                       /\ list'[s] # NoRow => list'[s].group = list[s].group
  BY <1>4, <1>6 DEF RowsAreRows
<1>8. ListAgrees(list', row)
  BY <1>2, <1>7 DEF ListAgrees
<1>9. RowShape(list')
  BY <1>5, RowWritten DEF AllocInv
<1>10. UNCHANGED <<row, read, acts>>
  BY DEF SaveAnswered
<1>11. AllocShape'
  BY <1>10 DEF AllocInv, AllocShape, RowShape
<1>12. LoopShape' /\ (loop'.phase = "save" => Taken(loop'.rows, list'))
  <2>1. CASE Len(loop.rows) > 1
    <3>1. PICK rest : rest = Tail(loop.rows)
      OBVIOUS
    <3>2. loop' = [loop EXCEPT !.rows = rest, !.served = FALSE]
      BY <2>1, <3>1 DEF SaveAnswered
    <3>3. loop' = [phase |-> loop.phase, rows |-> rest, all |-> loop.all, served |-> FALSE,
                   normal |-> loop.normal, snapshot |-> loop.snapshot]
      BY <3>2, LoopFields DEF AllocInv, LoopShape
    <3>4. PICK rows : rows = loop.rows
      OBVIOUS
    <3>5. rows \in Seq(T) /\ rows # <<>> /\ Len(rows) > 1 /\ rest = Tail(rows) /\ Taken(rows, list)
      BY <1>2, <1>3, <2>1, <3>1, <3>4
    <3>6. rest \in Seq(T) /\ Len(rest) = Len(rows) - 1 /\ Len(rows) \in Nat
      BY <3>5
    <3>7. rest # <<>>
      <4>1. Len(rest) > 0
        BY <3>5, <3>6
      <4>2. Len(<<>>) = 0
        OBVIOUS
      <4> QED BY <4>1, <4>2
    <3>8. ASSUME NEW i \in 1..Len(rest)
          PROVE  /\ rest[i].stock \in Stock /\ list[rest[i].stock] # NoRow
                 /\ rest[i].group = list[rest[i].stock].group
      <4>1. i + 1 \in 1..Len(rows)
        BY <3>6
      <4>2. rest[i] = rows[i + 1]
        BY <3>5, <3>6
      <4> QED BY <3>5, <4>1, <4>2 DEF Taken
    <3>9. Taken(rest, list)
      BY <3>6, <3>7, <3>8 DEF Taken
    <3>10. Taken(rest, list')
      BY <1>7, <3>9 DEF Taken
    <3> QED BY <3>3, <3>10 DEF LoopShape
  <2>2. CASE ~ (Len(loop.rows) > 1)
    <3>1. CASE loop' = [loop EXCEPT !.phase = "snapshot", !.rows = <<>>]
      <4>1. loop' = [phase |-> "snapshot", rows |-> <<>>, all |-> loop.all,
                     served |-> loop.served, normal |-> loop.normal,
                     snapshot |-> loop.snapshot]
        BY <3>1, LoopFields DEF AllocInv, LoopShape
      <4> QED BY <4>1 DEF LoopShape
    <3>2. CASE loop' = Idle
      BY <3>2 DEF LoopShape, Idle
    <3> QED BY <2>2, <3>1, <3>2 DEF SaveAnswered
  <2> QED BY <2>1, <2>2
<1> QED BY <1>2, <1>8, <1>9, <1>10, <1>11, <1>12 DEF AllocInv

LEMMA AnswerStep ==
  ASSUME AllocInv, RowsAreRows
  PROVE  /\ SaveAnswered => AllocInv'
         /\ ReadServed \/ ReadAnswered => AllocInv'
         /\ \A a \in acts : ActServed(a) \/ ActAnswered(a) => AllocInv'
<1>1. CASE ReadServed
  <2>0. read = [asked |-> TRUE, rows |-> <<>>]
    BY <1>1 DEF ReadServed, AllocInv, NoRead
  <2>1. read' = [asked |-> TRUE, rows |-> <<row>>] /\ read # NoRead
    BY <1>1, <2>0 DEF ReadServed, NoRead
  <2>2. UNCHANGED <<row, list, acts, loop, draft, settled>>
    BY <1>1 DEF ReadServed
  <2> QED BY <2>1, <2>2 DEF AllocInv, AllocShape, RowShape, LoopShape, Resting, ListAgrees, NoRead
<1>2. CASE ReadAnswered
  <2>1. read = [asked |-> TRUE, rows |-> <<row>>] /\ read # NoRead
    BY <1>2 DEF ReadAnswered, AllocInv, NoRead
  <2>2. list' = row /\ read' = NoRead /\ UNCHANGED <<row, acts, loop, draft, settled>>
    BY <1>2, <2>1 DEF ReadAnswered
  <2>3. acts = {} /\ loop.phase = "idle"
    BY <2>1 DEF AllocInv, Resting
  <2> QED BY <2>2, <2>3 DEF AllocInv, AllocShape, RowShape, LoopShape, Resting, ListAgrees
<1>3. ASSUME NEW a \in acts, ActServed(a) PROVE AllocInv'
  <2>1. AllocShape'
    BY <1>3, AllocShapeStep DEF AllocInv, AllocNext, AllocServer
  <2>2. acts = {a} /\ read = NoRead /\ Resting
    BY DEF AllocInv
  <2>3. acts' = {[a EXCEPT !.served = TRUE]} /\ UNCHANGED <<list, read, draft, settled, loop>>
    BY <1>3, <2>2 DEF ActServed
  <2>4. RowShape(list)' /\ LoopShape' /\ Resting' /\ read' = NoRead
    BY <2>2, <2>3 DEF AllocInv, RowShape, LoopShape, Resting
  <2> QED BY <2>1, <2>3, <2>4 DEF AllocInv, Resting
<1>4. ASSUME NEW a \in acts, ActAnswered(a) PROVE AllocInv'
  <2>1. acts = {a} /\ Resting
    BY DEF AllocInv
  <2>2. acts' = {} /\ read' = [asked |-> TRUE, rows |-> <<>>]
        /\ UNCHANGED <<row, list, draft, settled, loop>>
    BY <1>4, <2>1 DEF ActAnswered
  <2>3. AllocShape' /\ RowShape(list)' /\ LoopShape' /\ Resting' /\ read' # NoRead
    BY <2>1, <2>2 DEF AllocInv, AllocShape, RowShape, LoopShape, Resting, NoRead
  <2> QED BY <2>2, <2>3 DEF AllocInv, Resting
<1> QED BY <1>1, <1>2, <1>3, <1>4, SaveAnsweredStep
LEMMA AllocStep ==
  ASSUME AllocInv, AllocPatient = TRUE, RowsAreRows, [AllocNext]_allocVars
  PROVE  AllocInv'
<1>1. CASE UNCHANGED allocVars
  BY <1>1 DEF allocVars, AllocInv, AllocShape, RowShape, LoopShape, Resting, ListAgrees
<1>2. CASE ReadList
  <2>1. acts = {} /\ read = NoRead /\ Resting
    BY <1>2 DEF ReadList, Quiet, ShownSaving, AllocInv, NoRead, Resting
  <2>2. read' = [asked |-> TRUE, rows |-> <<>>]
        /\ UNCHANGED <<row, list, acts, draft, settled, loop>>
    BY <1>2 DEF ReadList
  <2>3. AllocShape' /\ RowShape(list)' /\ LoopShape' /\ Resting' /\ read' # NoRead
    BY <2>1, <2>2 DEF AllocInv, AllocShape, RowShape, LoopShape, Resting, NoRead
  <2> QED BY <2>1, <2>2, <2>3 DEF AllocInv, Resting
<1>3. ASSUME NEW s \in Stock, ToggleFollow(s) PROVE AllocInv'
  BY <1>3, AskStep DEF ToggleFollow, ActKind
<1>4. ASSUME NEW s \in Stock, DeleteHolding(s) PROVE AllocInv'
  BY <1>4, AskStep DEF DeleteHolding, ActKind
<1>5. ASSUME NEW s \in Stock, NEW w \in TypedPercent, NEW only \in BOOLEAN, AddHolding(s, w, only)
      PROVE  AllocInv'
  BY <1>5, AskStep DEF AddHolding, ActKind
<1>6. ASSUME NEW s \in Stock, AddCandidate(s) PROVE AllocInv'
  BY <1>6, AskStep DEF AddCandidate, ActKind
<1> HIDE DEF AllocInv
<1>7. CASE AllocUser
  BY <1>3, <1>4, <1>5, <1>6, <1>7, PageStep DEF AllocUser
<1>8. CASE AllocBrowser \/ SaveFails
  BY <1>8, PageStep DEF AllocBrowser
<1>9. CASE AllocServer
  BY <1>9, PageStep, AnswerStep, SaveServedStep DEF AllocServer
<1> QED BY <1>1, <1>2, <1>7, <1>8, <1>9 DEF AllocNext

LEMMA AllocStart == ASSUME AllocInit PROVE AllocInv
<1>1. RowShape(row)
  BY DEF AllocInit, RowShape
<1> QED BY <1>1 DEF AllocInit, AllocInv, AllocShape, LoopShape, Idle, ListAgrees

\* A request to follow a stock never touches a saved weight, nor brings back a deleted row
\* (toggleFollow): of the page as a whole, whatever else is on its way.
THEOREM FollowAlwaysKeepsWeight == AllocInit /\ [][AllocNext]_allocVars => FollowKeepsWeight
<1>1. AllocInit => AllocShape
  <2> SUFFICES ASSUME AllocInit PROVE AllocShape
    OBVIOUS
  <2>1. RowShape(row)
    BY DEF AllocInit, RowShape
  <2> QED BY <2>1 DEF AllocInit, AllocShape
<1>2. ASSUME AllocShape, [AllocNext]_allocVars
      PROVE  [\A a \in acts : ActServed(a) /\ a.kind = "follow" =>
                \/ row'[a.stock] = NoRow /\ row[a.stock] = NoRow
                \/ row'[a.stock].weight = row[a.stock].weight]_allocVars
  <2>1. ASSUME NEW a \in acts, ActServed(a), a.kind = "follow"
        PROVE  \/ row'[a.stock] = NoRow /\ row[a.stock] = NoRow
               \/ row'[a.stock].weight = row[a.stock].weight
    <3>1. PICK new : new = ActOnRow(a)
      OBVIOUS
    <3>2. row' = [row EXCEPT ![a.stock] = new]
      BY <2>1, <3>1 DEF ActServed
    <3>3. row'[a.stock] = new
      BY <1>2, <3>2 DEF AllocShape, RowShape, ActShape
    <3>4. /\ row[a.stock] # NoRow => new.weight = row[a.stock].weight
          /\ row[a.stock] = NoRow => new = NoRow
      BY <1>2, <2>1, <3>1, ActOnRowShape
    <3> QED BY <3>3, <3>4
  <2> QED BY <2>1
<1> QED BY <1>1, <1>2, AllocShapeStep, PTL DEF FollowKeepsWeight

\* With a user who waits for an answer before touching its row, the auto-save writes only rows the
\* user still has on the list and leaves their group as it stands, whatever is typed, normalized,
\* added, deleted and read meanwhile, for any stocks and any number of each.
THEOREM SaveAlwaysKeepsRest ==
  ASSUME AllocPatient = TRUE, RowsAreRows
  PROVE  AllocInit /\ [][AllocNext]_allocVars => SaveKeepsRest
<1>1. AllocInit => AllocInv
  BY AllocStart
<1>2. ASSUME AllocInv, [AllocNext]_allocVars
      PROVE  [SaveServed => LET s == Head(loop.rows).stock
                            IN row[s] # NoRow /\ row'[s].group = row[s].group]_allocVars
  BY <1>2, SaveServedStep
<1>3. AllocInv /\ [AllocNext]_allocVars => AllocInv'
  BY AllocStep
<1> QED BY <1>1, <1>2, <1>3, PTL DEF SaveKeepsRest

-----------------------------------------------------------------------------
(* At rest, nothing that was typed is unsaved.                             *)

UsedShape ==
  /\ used = [typed |-> used.typed, acts |-> used.acts, faults |-> used.faults, reads |-> used.reads]
  /\ used.faults \in Nat

LEMMA CountStep ==
  ASSUME UsedShape, NEW k \in {"typed", "acts", "reads"}, Count(k)
  PROVE  UsedShape' /\ used'.faults = used.faults
  BY DEF UsedShape, Count
LEMMA CountedFault ==
  ASSUME UsedShape, Count("faults")
  PROVE  UsedShape' /\ used'.faults # 0
<1>1. PICK more : more = used.faults + 1
  OBVIOUS
<1>2. used' = [typed |-> used.typed, acts |-> used.acts, faults |-> more, reads |-> used.reads]
  BY <1>1 DEF UsedShape, Count
<1>3. more \in Nat /\ more # 0
  BY <1>1 DEF UsedShape
<1> QED BY <1>2, <1>3 DEF UsedShape

\* Each row of a save still differs from the list, and no stock has two.
Wakes(rows, known) ==
  \A i \in 1..Len(rows) :
    /\ rows[i].weight # known[rows[i].stock].weight
    /\ \A j \in 1..Len(rows) : i # j => rows[i].stock # rows[j].stock
\* The rows of a save are the settled drafts that differ from the list.
Covers(rows, stocks) ==
  /\ \A i \in 1..Len(rows) : rows[i].weight = settled[rows[i].stock]
  /\ \A s \in Stock : Changed(settled, s) => s \in stocks /\ \E i \in 1..Len(rows) : rows[i].stock = s
AsListed(drafts) == \A s \in Stock : ~ Changed(drafts, s)

SyncParts ==
  /\ ~ ShownSaving /\ ~ due => AsListed(settled)
  /\ loop.phase = "save" /\ ~ loop.normal => Wakes(loop.rows, list)
  /\ ShownSaving /\ loop.normal => settled = NoDrafts /\ draft = NoDrafts /\ ~ loop.snapshot
  /\ loop.phase = "save" /\ loop.snapshot => settled = draft /\ Covers(loop.rows, loop.all)
  /\ loop.phase = "snapshot" => loop.snapshot /\ AsListed(draft) /\ AsListed(settled)
  /\ apply /\ ShownSaving => loop.normal \/ loop.snapshot
  /\ apply /\ ~ ShownSaving => settled = draft \/ AsListed(settled)
SyncInv ==
  /\ AllocInv /\ UsedShape /\ loop.phase \in {"idle", "save", "snapshot"}
  /\ used.faults = 0 => SyncParts

LEMMA CapturedWeights ==
  ASSUME NEW stocks, stocks \subseteq OnList(list), stocks # {}, NEW weight, NEW rows,
         rows = Captured(stocks, weight)
  PROVE  /\ \A i \in 1..Len(rows) :
              /\ rows[i].stock \in stocks /\ rows[i].weight = weight[rows[i].stock]
              /\ \A j \in 1..Len(rows) : i # j => rows[i].stock # rows[j].stock
         /\ \A s \in stocks : \E i \in 1..Len(rows) : rows[i].stock = s
<1>1. IsFiniteSet(stocks)
  <2>1. stocks \in SUBSET Stock
    BY DEF OnList
  <2> QED BY <2>1, AllocAssumption, FS_Subset
<1>2. PICK n : n = Cardinality(stocks)
  OBVIOUS
<1>3. n \in Nat /\ ExistsBijection(1..n, stocks)
  BY <1>1, <1>2, FS_CardinalityType
<1>4. PICK ordered : ordered = SetToSeq(stocks)
  OBVIOUS
<1>5. \E f \in [1..n -> stocks] : IsInjective(f)
  BY <1>3 DEF ExistsBijection, Bijection, Injection
<1>6. ordered \in [1..n -> stocks] /\ IsInjective(ordered)
  BY <1>2, <1>4, <1>5 DEF SetToSeq
<1>7. IsFiniteSet(1..n) /\ Cardinality(1..n) = n
  BY <1>3, FS_Interval
<1>8. \A s \in stocks : \E i \in 1..n : ordered[i] = s
  <2>1. ordered \in Injection(1..n, stocks)
    BY <1>6 DEF Injection
  <2>2. ordered \in Surjection(1..n, stocks)
    BY <1>1, <1>2, <1>7, <2>1, FS_Injection
  <2> QED BY <2>2 DEF Surjection
<1>9. rows = [i \in 1..n |-> [stock |-> ordered[i], weight |-> weight[ordered[i]],
                              group |-> list[ordered[i]].group]]
  BY <1>4, <1>6 DEF Captured
<1>10. Len(rows) = n
  BY <1>3, <1>9
<1>11. \A i \in 1..n : rows[i].stock = ordered[i] /\ rows[i].weight = weight[ordered[i]]
  BY <1>9
<1>12. ASSUME NEW i \in 1..n, NEW j \in 1..n, ordered[i] = ordered[j] PROVE i = j
  BY <1>6, <1>12 DEF IsInjective
<1> QED BY <1>6, <1>8, <1>10, <1>11, <1>12

\* What leaves the page and the loop as they are.
LEMMA Untouched ==
  ASSUME SyncInv, AllocInv', UsedShape', used'.faults = used.faults,
         UNCHANGED <<list, draft, settled, due, apply>>,
         loop'.phase = loop.phase, loop'.rows = loop.rows, loop'.all = loop.all,
         loop'.normal = loop.normal, loop'.snapshot = loop.snapshot
  PROVE  SyncInv'
<1>1. used.faults = 0 => SyncParts'
  BY DEF SyncInv, SyncParts, ShownSaving, AsListed, Changed, Wakes, Covers
<1> QED BY <1>1 DEF SyncInv

LEMMA DraftsGone == ASSUME NEW drafts, drafts = NoDrafts, NEW s \in Stock PROVE ~ Changed(drafts, s)
BY DEF NoDrafts, Changed

LEMMA SyncTypes ==
  ASSUME SyncInv, AllocInv', AllocPatient = TRUE, NEW s \in Stock, NEW p, TypeDraft(s, p)
  PROVE  SyncInv'
<1>1. UsedShape' /\ used'.faults = used.faults
  BY CountStep DEF TypeDraft, SyncInv
<1>2. /\ ~ due /\ (ShownSaving => ~ loop.normal /\ ~ loop.snapshot)
      /\ UNCHANGED <<list, settled, due, loop, apply>>
  BY DEF TypeDraft
<1>3. used.faults = 0 => SyncParts'
  BY <1>2 DEF SyncInv, SyncParts, ShownSaving, AsListed, Changed
<1> QED BY <1>1, <1>2, <1>3 DEF SyncInv

LEMMA SyncSettles == ASSUME SyncInv, AllocInv', Settle PROVE SyncInv'
<1>1. /\ settled # draft /\ settled' = draft /\ due' = TRUE
      /\ UNCHANGED <<list, draft, loop, apply, used>>
  BY DEF Settle
<1>2. used.faults = 0 => SyncParts'
  BY <1>1 DEF SyncInv, SyncParts, ShownSaving, AsListed, Changed
<1> QED BY <1>1, <1>2 DEF SyncInv, UsedShape

LEMMA SyncToggles == ASSUME SyncInv, AllocInv', AllocPatient = TRUE, ToggleApply PROVE SyncInv'
<1>1. /\ ~ ShownSaving /\ settled = draft /\ due' = TRUE
      /\ UNCHANGED <<list, draft, settled, loop, used>>
  BY DEF ToggleApply
<1>2. used.faults = 0 => SyncParts'
  BY <1>1 DEF SyncInv, SyncParts, ShownSaving
<1> QED BY <1>1, <1>2 DEF SyncInv, UsedShape

LEMMA SyncSaves == ASSUME SyncInv, AllocInv', AutoSave PROVE SyncInv'
<1>1. due' = FALSE /\ UNCHANGED <<list, draft, settled, apply, used>>
  BY DEF AutoSave
<1>2. CASE ShownSaving \/ Pending = {}
  <2>1. loop' = loop
    BY <1>2 DEF AutoSave
  <2>2. ~ ShownSaving => AsListed(settled)
    BY <1>2 DEF AsListed, Pending
  <2>3. used.faults = 0 => SyncParts'
    <3>1. SUFFICES ASSUME used.faults = 0 PROVE SyncParts'
      OBVIOUS
    <3>2. SyncParts
      BY <3>1 DEF SyncInv
    <3>3. /\ ShownSaving' = ShownSaving /\ AsListed(settled)' = AsListed(settled) /\ AsListed(draft)' = AsListed(draft)
          /\ Covers(loop.rows, loop.all)' = Covers(loop.rows, loop.all)
      BY <1>1, <2>1 DEF ShownSaving, AsListed, Changed, Covers
    <3> QED BY <1>1, <2>1, <2>2, <3>2, <3>3 DEF SyncParts
  <2> QED BY <1>1, <2>1, <2>3 DEF SyncInv, UsedShape
<1>3. CASE ~ ShownSaving /\ Pending # {}
  <2>1. PICK rows : rows = Captured(Pending, settled)
    OBVIOUS
  <2>2. loop' = [phase |-> "save", rows |-> rows, all |-> Pending, served |-> FALSE, normal |-> FALSE,
                 snapshot |-> apply]
    BY <1>3, <2>1 DEF AutoSave
  <2>3. Pending \subseteq OnList(list)
    BY DEF Pending, Changed, OnList
  <2>4. /\ \A i \in 1..Len(rows) :
              /\ rows[i].stock \in Pending /\ rows[i].weight = settled[rows[i].stock]
              /\ \A j \in 1..Len(rows) : i # j => rows[i].stock # rows[j].stock
        /\ \A s \in Pending : \E i \in 1..Len(rows) : rows[i].stock = s
    BY <1>3, <2>1, <2>3, CapturedWeights
  <2>5. Wakes(rows, list)
    BY <2>4 DEF Wakes, Pending, Changed
  <2>6. Covers(rows, Pending)
    BY <2>4 DEF Covers, Pending
  <2>7. used.faults = 0 => (apply => settled = draft)
    BY <1>3 DEF SyncInv, SyncParts, AsListed, Pending
  <2>8. /\ loop'.phase = "save" /\ loop'.rows = rows /\ loop'.all = Pending /\ ~ loop'.normal
        /\ loop'.snapshot = apply
    BY <2>2
  <2>9. used.faults = 0 => SyncParts'
    <3>1. SUFFICES ASSUME used.faults = 0 PROVE SyncParts'
      OBVIOUS
    <3>2. ShownSaving'
      BY <2>8 DEF ShownSaving
    <3>3. Wakes(loop'.rows, list') /\ (loop'.snapshot => settled' = draft' /\ Covers(loop.rows, loop.all)')
      <4>1. Covers(loop.rows, loop.all)'
        BY <1>1, <2>6, <2>8 DEF Covers, Changed
      <4> QED BY <1>1, <2>5, <2>7, <2>8, <3>1, <4>1
    <3> QED BY <1>1, <2>8, <3>2, <3>3 DEF SyncParts
  <2> QED BY <1>1, <2>8, <2>9 DEF SyncInv, UsedShape
<1> QED BY <1>2, <1>3

LEMMA SyncNormalizes == ASSUME SyncInv, AllocInv', AllocPatient = TRUE, Normalize PROVE SyncInv'
<1>1. UsedShape' /\ used'.faults = used.faults
  BY CountStep DEF Normalize, SyncInv
<1>2. draft = NoDrafts /\ settled = NoDrafts /\ UNCHANGED <<list, draft, settled, due, apply>>
  BY DEF Normalize, Quiet
<1>3. loop'.phase = "save" /\ loop'.normal /\ ~ loop'.snapshot
  BY DEF Normalize
<1>4. used.faults = 0 => SyncParts'
  BY <1>2, <1>3 DEF SyncParts, ShownSaving
<1> QED BY <1>1, <1>3, <1>4 DEF SyncInv

LEMMA SyncReads == ASSUME SyncInv, AllocInv', ReadAnswered PROVE SyncInv'
<1>1. settled = NoDrafts /\ loop.phase = "idle" /\ UNCHANGED <<draft, settled, loop, apply, used>>
  BY DEF ReadAnswered, SyncInv, AllocInv, Resting, NoRead
<1>2. AsListed(settled)'
  BY <1>1, DraftsGone DEF AsListed, Changed, NoDrafts
<1>3. used.faults = 0 => SyncParts'
  BY <1>1, <1>2 DEF SyncParts, ShownSaving
<1> QED BY <1>1, <1>3 DEF SyncInv, UsedShape

LEMMA SyncSnapshots == ASSUME SyncInv, AllocInv', SnapshotAnswered PROVE SyncInv'
<1>1. loop.phase = "snapshot" /\ loop' = Idle /\ UNCHANGED <<list, draft, settled, due, apply, used>>
  BY DEF SnapshotAnswered
<1>2. loop'.phase = "idle"
  BY <1>1 DEF Idle
<1>3. used.faults = 0 => SyncParts'
  BY <1>1, <1>2 DEF SyncInv, SyncParts, ShownSaving, AsListed, Changed
<1> QED BY <1>1, <1>2, <1>3 DEF SyncInv, UsedShape

LEMMA SyncFails == ASSUME SyncInv, AllocInv', SaveFails PROVE SyncInv'
<1>1. UsedShape' /\ used'.faults # 0 /\ loop'.phase = "idle"
  BY CountedFault DEF SaveFails, SyncInv, Idle
<1> QED BY <1>1 DEF SyncInv

LEMMA SyncAnswers == ASSUME SyncInv, RowsAreRows, AllocInv', SaveAnswered PROVE SyncInv'
<1>1. /\ ~ due /\ loop.phase = "save" /\ list' = Patched /\ due' = (list' # list)
      /\ UNCHANGED <<settled, apply, used>>
  BY DEF SaveAnswered
<1>2. PICK rows : rows = loop.rows
  OBVIOUS
<1>3. PICK T : rows \in Seq(T) /\ rows # <<>>
  BY <1>1, <1>2 DEF SyncInv, AllocInv, Taken
<1>4. PICK n : n = Len(rows)
  OBVIOUS
<1>5. n \in Nat /\ n >= 1
  BY <1>3, <1>4
<1>6. PICK r : r = rows[1]
  OBVIOUS
<1>7. r = Head(loop.rows)
  BY <1>2, <1>3, <1>4, <1>5, <1>6
<1>8. r.stock \in Stock /\ list[r.stock] # NoRow
  BY <1>1, <1>2, <1>4, <1>5, <1>6 DEF SyncInv, AllocInv, Taken
<1>9. /\ \A s \in Stock : s # r.stock => list'[s] = list[s]
      /\ list'[r.stock].weight = r.weight
  <2>1. list' = [list EXCEPT ![r.stock] = [weight |-> r.weight, group |-> r.group]]
    BY <1>1, <1>7, <1>8 DEF Patched
  <2> QED BY <1>8, <2>1 DEF SyncInv, AllocInv, RowShape
<1>10. CASE used.faults # 0
  <2>1. loop'.phase \in {"idle", "save", "snapshot"}
    <3>1. LoopShape
      BY DEF SyncInv, AllocInv
    <3>2. CASE Len(loop.rows) > 1
      <4>1. PICK rest : rest = Tail(loop.rows)
        OBVIOUS
      <4>2. loop' = [phase |-> loop.phase, rows |-> rest, all |-> loop.all, served |-> FALSE,
                     normal |-> loop.normal, snapshot |-> loop.snapshot]
        BY <3>1, <3>2, <4>1, LoopFields DEF SaveAnswered, LoopShape
      <4> QED BY <1>1, <4>2
    <3>3. CASE ~ (Len(loop.rows) > 1)
      <4>1. loop' = IF loop.snapshot THEN [loop EXCEPT !.phase = "snapshot", !.rows = <<>>] ELSE Idle
        BY <3>3 DEF SaveAnswered
      <4>2. CASE loop.snapshot
        <5>1. loop' = [phase |-> "snapshot", rows |-> <<>>, all |-> loop.all, served |-> loop.served,
                       normal |-> loop.normal, snapshot |-> loop.snapshot]
          BY <3>1, <4>1, <4>2, LoopFields DEF LoopShape
        <5> QED BY <5>1
      <4> QED BY <4>1, <4>2 DEF Idle
    <3> QED BY <3>2, <3>3
  <2> QED BY <1>1, <1>10, <2>1 DEF SyncInv, UsedShape
<1>11. CASE used.faults = 0
  <2>1. SyncParts
    BY <1>11 DEF SyncInv
  <2>2. LoopShape
    BY DEF SyncInv, AllocInv
  <2>3. CASE n > 1
    <3>1. PICK rest : rest = Tail(rows)
      OBVIOUS
    <3>2. loop' = [phase |-> loop.phase, rows |-> rest, all |-> loop.all, served |-> FALSE,
                   normal |-> loop.normal, snapshot |-> loop.snapshot]
      BY <1>2, <1>4, <2>2, <2>3, <3>1, LoopFields DEF SaveAnswered, LoopShape
    <3>3. /\ loop'.phase = "save" /\ loop'.rows = rest /\ loop'.all = loop.all
          /\ loop'.normal = loop.normal /\ loop'.snapshot = loop.snapshot
      BY <1>1, <3>2
    <3>4. draft' = draft
      BY <1>2, <1>4, <2>3 DEF SaveAnswered
    <3>5. Len(rest) = n - 1 /\ \A i \in 1..(n - 1) : rest[i] = rows[i + 1]
      BY <1>3, <1>4, <1>5, <3>1
    <3>6. \A i \in 1..Len(rest) : i + 1 \in 1..Len(rows) /\ rest[i] = rows[i + 1] /\ i + 1 # 1
      BY <1>4, <1>5, <3>5
    <3>7. ~ loop.normal => Wakes(rest, list')
      <4> SUFFICES ASSUME ~ loop.normal PROVE Wakes(rest, list')
        OBVIOUS
      <4>1. Wakes(rows, list)
        BY <1>1, <1>2, <2>1 DEF SyncParts
      <4>2. \A i \in 1..Len(rows) : i # 1 => rows[i].stock # r.stock
        BY <1>4, <1>5, <1>6, <4>1 DEF Wakes
      <4>3. \A i \in 1..Len(rows) : rows[i].stock \in Stock
        BY <1>1, <1>2 DEF SyncInv, AllocInv, Taken
      <4>4. ASSUME NEW i \in 1..Len(rest) PROVE rest[i].weight # list'[rest[i].stock].weight
        BY <1>9, <3>6, <4>1, <4>2, <4>3 DEF Wakes
      <4>5. ASSUME NEW i \in 1..Len(rest), NEW j \in 1..Len(rest), i # j
            PROVE  rest[i].stock # rest[j].stock
        <5>1. i + 1 # j + 1
          BY <3>5, <1>5, <4>5
        <5> QED BY <3>6, <4>1, <5>1 DEF Wakes
      <4> QED BY <4>4, <4>5 DEF Wakes
    <3>8. loop.snapshot => settled' = draft' /\ Covers(loop.rows, loop.all)'
      <4> SUFFICES ASSUME loop.snapshot PROVE settled = draft /\ Covers(loop.rows, loop.all)'
        BY <1>1, <3>4
      <4>1. settled = draft /\ Covers(rows, loop.all)
        BY <1>1, <1>2, <2>1 DEF SyncParts
      <4>2. \A i \in 1..Len(rest) : rest[i].weight = settled[rest[i].stock]
        BY <3>6, <4>1 DEF Covers
      <4>3. ASSUME NEW s \in Stock, Changed(settled, s)'
            PROVE  s \in loop.all /\ \E i \in 1..Len(rest) : rest[i].stock = s
        <5>1. s # r.stock
          <6>1. r.weight = settled[r.stock]
            BY <1>4, <1>5, <1>6, <4>1 DEF Covers
          <6> QED BY <1>1, <1>9, <4>3, <6>1 DEF Changed
        <5>2. Changed(settled, s)
          BY <1>1, <1>9, <4>3, <5>1 DEF Changed
        <5>3. PICK i \in 1..Len(rows) : rows[i].stock = s
          BY <4>1, <5>2 DEF Covers
        <5>4. i # 1
          BY <1>6, <5>1, <5>3
        <5>5. i - 1 \in 1..(n - 1) /\ (i - 1) + 1 = i
          BY <1>4, <1>5, <5>4
        <5>6. rest[i - 1] = rows[i]
          BY <3>5, <5>5
        <5>7. i - 1 \in 1..Len(rest) /\ rest[i - 1].stock = s
          BY <3>5, <5>3, <5>5, <5>6
        <5> QED BY <4>1, <5>2, <5>7 DEF Covers
      <4> QED BY <1>1, <3>3, <4>1, <4>2, <4>3 DEF Covers
    <3>9. ShownSaving' /\ ShownSaving
      BY <1>1, <3>3 DEF ShownSaving
    <3>10. SyncParts'
      BY <1>1, <2>1, <3>3, <3>4, <3>7, <3>8, <3>9 DEF SyncParts
    <3> QED BY <1>1, <3>3, <3>10 DEF SyncInv, UsedShape
  <2>4. CASE ~ (n > 1)
    <3>1. n = 1
      BY <1>5, <2>4
    <3>2. draft' = DraftsLeft /\ loop' = IF loop.snapshot
                                         THEN [loop EXCEPT !.phase = "snapshot", !.rows = <<>>] ELSE Idle
      BY <1>2, <1>4, <2>4 DEF SaveAnswered
    <3>3. CASE loop.snapshot
      <4>1. loop' = [phase |-> "snapshot", rows |-> <<>>, all |-> loop.all, served |-> loop.served,
                     normal |-> loop.normal, snapshot |-> loop.snapshot]
        BY <2>2, <3>2, <3>3, LoopFields DEF LoopShape
      <4>2. loop'.phase = "snapshot" /\ loop'.normal = loop.normal /\ loop'.snapshot = loop.snapshot
        BY <4>1
      <4>3. settled = draft /\ Covers(rows, loop.all) /\ ~ loop.normal
        BY <1>1, <1>2, <2>1, <3>3 DEF SyncParts, ShownSaving
      <4>4. ASSUME NEW s \in Stock PROVE ~ Changed(settled, s)'
        <5>1. r.weight = settled[r.stock]
          BY <1>4, <1>5, <1>6, <4>3 DEF Covers
        <5>2. CASE s = r.stock
          BY <1>1, <1>9, <5>1, <5>2 DEF Changed
        <5>3. CASE s # r.stock
          <6>1. ~ Changed(settled, s)
            <7>1. \A i \in 1..Len(rows) : rows[i].stock = r.stock
              BY <1>4, <1>6, <3>1
            <7> QED BY <4>3, <5>3, <7>1 DEF Covers
          <6> QED BY <1>1, <1>9, <5>3, <6>1 DEF Changed
        <5> QED BY <5>2, <5>3
      <4>5. ASSUME NEW s \in Stock PROVE ~ Changed(draft, s)'
        <5>1. draft'[s] = NoDraft \/ draft'[s] = settled[s]
          BY <3>2, <4>3 DEF DraftsLeft
        <5> QED BY <1>1, <4>4, <5>1 DEF Changed
      <4>6. ShownSaving' /\ AsListed(settled)' /\ AsListed(draft)'
        BY <4>2, <4>4, <4>5 DEF ShownSaving, AsListed
      <4>7. SyncParts'
        BY <1>1, <2>1, <3>3, <4>2, <4>3, <4>6 DEF SyncParts
      <4> QED BY <1>1, <4>2, <4>7 DEF SyncInv, UsedShape
    <3>4. CASE ~ loop.snapshot
      <4>1. loop'.phase = "idle"
        BY <3>2, <3>4 DEF Idle
      <4>2. loop.normal => AsListed(settled)'
        <5> SUFFICES ASSUME loop.normal PROVE AsListed(settled)'
          OBVIOUS
        <5>1. settled' = NoDrafts
          BY <1>1, <2>1 DEF SyncParts, ShownSaving
        <5> QED BY <5>1 DEF AsListed, Changed, NoDrafts
      <4>3. ~ loop.normal => due'
        <5> SUFFICES ASSUME ~ loop.normal PROVE list' # list
          BY <1>1
        <5>1. r.weight # list[r.stock].weight
          BY <1>1, <1>2, <1>4, <1>5, <1>6, <2>1 DEF SyncParts, Wakes
        <5> QED BY <1>9, <5>1
      <4>4. apply => loop.normal
        BY <1>1, <2>1, <3>4 DEF SyncParts, ShownSaving
      <4>5. ~ ShownSaving'
        BY <4>1 DEF ShownSaving
      <4>6. SyncParts'
        BY <1>1, <4>1, <4>2, <4>3, <4>4, <4>5 DEF SyncParts
      <4> QED BY <1>1, <4>1, <4>6 DEF SyncInv, UsedShape
    <3> QED BY <3>3, <3>4
  <2> QED BY <2>3, <2>4
<1> QED BY <1>10, <1>11

LEMMA SyncStep ==
  ASSUME SyncInv, RowsAreRows, AllocPatient = TRUE, [AllocNext]_allocVars
  PROVE  SyncInv'
<1>1. AllocInv'
  BY AllocStep DEF SyncInv
<1>2. CASE UNCHANGED allocVars
  <2>1. UsedShape' /\ UNCHANGED <<list, draft, settled, due, apply, loop, used>>
    BY <1>2 DEF allocVars, SyncInv, UsedShape
  <2> QED BY <1>1, <2>1, Untouched
<1>3. CASE ReadList
  <2>1. UsedShape' /\ used'.faults = used.faults
    BY <1>3, CountStep DEF ReadList, SyncInv
  <2>2. UNCHANGED <<list, draft, settled, due, apply, loop>>
    BY <1>3 DEF ReadList
  <2> QED BY <1>1, <2>1, <2>2, Untouched
<1>4. ASSUME NEW s \in Stock, NEW k, NEW w, NEW g, Ask(k, s, w, g) PROVE SyncInv'
  <2>1. UsedShape' /\ used'.faults = used.faults
    BY <1>4, CountStep DEF Ask, SyncInv
  <2>2. UNCHANGED <<list, draft, settled, due, apply, loop>>
    BY <1>4 DEF Ask
  <2> QED BY <1>1, <2>1, <2>2, Untouched
<1>5. ASSUME NEW s \in Stock, ToggleFollow(s) PROVE SyncInv'
  BY <1>4, <1>5 DEF ToggleFollow
<1>6. ASSUME NEW s \in Stock, DeleteHolding(s) PROVE SyncInv'
  BY <1>4, <1>6 DEF DeleteHolding
<1>7. ASSUME NEW s \in Stock, NEW w \in TypedPercent, NEW only \in BOOLEAN, AddHolding(s, w, only)
      PROVE  SyncInv'
  BY <1>4, <1>7 DEF AddHolding
<1>8. ASSUME NEW s \in Stock, AddCandidate(s) PROVE SyncInv'
  BY <1>4, <1>8 DEF AddCandidate
<1>9. CASE AllocUser
  BY <1>1, <1>5, <1>6, <1>7, <1>8, <1>9, SyncTypes, SyncToggles, SyncNormalizes DEF AllocUser
<1>10. CASE AllocBrowser
  BY <1>1, <1>10, SyncSettles, SyncSaves DEF AllocBrowser
<1>11. CASE ReadServed
  <2>1. UsedShape' /\ UNCHANGED <<list, draft, settled, due, apply, loop, used>>
    BY <1>11 DEF ReadServed, SyncInv, UsedShape
  <2> QED BY <1>1, <2>1, Untouched
<1>12. CASE SaveServed
  <2>1. UsedShape' /\ UNCHANGED <<list, draft, settled, due, apply, used>>
    BY <1>12 DEF SaveServed, SyncInv, UsedShape
  <2>2. /\ loop'.phase = loop.phase /\ loop'.rows = loop.rows /\ loop'.all = loop.all
        /\ loop'.normal = loop.normal /\ loop'.snapshot = loop.snapshot
    BY <1>12 DEF SaveServed
  <2> QED BY <1>1, <2>1, <2>2, Untouched
<1>13. ASSUME NEW a \in acts, ActServed(a) \/ ActAnswered(a) PROVE SyncInv'
  <2>1. UsedShape' /\ UNCHANGED <<list, draft, settled, due, apply, loop, used>>
    BY <1>13 DEF ActServed, ActAnswered, SyncInv, UsedShape
  <2> QED BY <1>1, <2>1, Untouched
<1>14. CASE AllocServer
  BY <1>1, <1>11, <1>12, <1>13, <1>14, SyncReads, SyncAnswers, SyncSnapshots DEF AllocServer
<1>15. CASE SaveFails
  BY <1>1, <1>15, SyncFails
<1> QED BY <1>2, <1>3, <1>9, <1>10, <1>14, <1>15 DEF AllocNext

\* With that user, "Synced" at rest tells the truth: no timer runs, no effect is due, no row is being
\* saved and none has failed, so no draft differs from what the list holds (the auto-save effect,
\* which nothing wakes when its loop ends), for any stocks and any number of key strokes.
THEOREM SyncedIsAlwaysSaved ==
  ASSUME AllocPatient = TRUE, RowsAreRows
  PROVE  AllocInit /\ [][AllocNext]_allocVars => []SyncedIsSaved
<1>1. AllocInit => SyncInv
  <2> SUFFICES ASSUME AllocInit PROVE SyncInv
    OBVIOUS
  <2>1. AllocInv
    BY AllocStart
  <2>2. UsedShape
    BY DEF AllocInit, UsedShape
  <2>3. /\ loop.phase = "idle" /\ ~ apply /\ settled = NoDrafts
    BY DEF AllocInit, Idle
  <2>4. AsListed(settled)
    BY <2>3, DraftsGone DEF AsListed
  <2>5. SyncParts
    BY <2>3, <2>4 DEF SyncParts, ShownSaving
  <2> QED BY <2>1, <2>2, <2>3, <2>5 DEF SyncInv
<1>2. SyncInv /\ [AllocNext]_allocVars => SyncInv'
  BY SyncStep
<1>3. SyncInv => SyncedIsSaved
  BY DEF SyncInv, SyncParts, SyncedIsSaved, AsListed
<1> QED BY <1>1, <1>2, <1>3, PTL

-----------------------------------------------------------------------------
(* The holdings panel of the portfolio page.                               *)

HvImports == [armed : BOOLEAN, state : {"idle", "sent", "served", "reading"}]

\* A list no read is to follow is the saved one, unless an import has just replaced that.
ListIsStored ==
  hvRead = NoHv /\ ~ hvMissed => hvList.rows = hvStored \/ hvImport.state = "served"

HoldingsInv ==
  /\ hvStored \in HvRows /\ hvImport \in HvImports
  /\ hvImport.state = "reading" => hvRead # NoHv
  /\ ListIsStored

LEMMA HoldingsStep == HoldingsInv /\ [HvNext]_hvVars => HoldingsInv'
<1> SUFFICES ASSUME HoldingsInv, [HvNext]_hvVars PROVE HoldingsInv'
  OBVIOUS
<1> USE DEF HoldingsInv, ListIsStored
<1>1. ASSUME \/ UNCHANGED hvVars \/ SyncSwitched \/ PeerStatusRead \/ PeerStatusFailed \/ ResizeWindow
             \/ \E view \in {"chart", "table"} : ShowAs(view)
             \/ \E label \in HvLabel \cup {"All Sectors"} : FilterSector(label) \/ CollapseSector(label)
      PROVE  HoldingsInv'
  <2>1. UNCHANGED <<hvStored, hvImport, hvRead, hvList, hvMissed>>
    BY <1>1 DEF hvVars, SyncSwitched, PeerStatusRead, PeerStatusFailed, ResizeWindow, ShowAs, FilterSector, CollapseSector
  <2> QED BY <2>1
<1>2. CASE ArmImport \/ ImportJson \/ ImportRefused \/ ImportFailed
  <2>1. UNCHANGED <<hvStored, hvRead, hvList>>
    BY <1>2 DEF ArmImport, ImportJson, ImportRefused, ImportFailed
  <2>2. hvImport' \in HvImports /\ hvImport'.state \notin {"served", "reading"}
    BY <1>2 DEF ArmImport, ImportJson, ImportRefused, ImportFailed, HvImports
  <2>3. ~ hvMissed' => ~ hvMissed /\ hvImport.state # "served"
    <3>1. CASE ArmImport \/ ImportJson \/ ImportRefused
      BY <3>1 DEF ArmImport, ImportJson, ImportRefused
    <3>2. CASE ImportFailed
      BY <3>2, Zenon DEF ImportFailed
    <3> QED BY <1>2, <3>1, <3>2
  <2> QED BY <2>1, <2>2, <2>3
<1>6. CASE ImportServed
  <2>1. hvStored' = HvFile /\ hvStored' \in HvRows
    BY <1>6, HvAssumption DEF ImportServed
  <2>2. hvImport' \in HvImports /\ hvImport'.state = "served"
    BY <1>6 DEF ImportServed, HvImports
  <2> QED BY <2>1, <2>2
<1>7. CASE ImportAnswered
  <2>1. hvImport' \in HvImports
    BY <1>7 DEF ImportAnswered, HvImports
  <2>2. UNCHANGED hvStored /\ hvRead' = hvStored
    BY <1>7 DEF ImportAnswered
  <2>3. hvRead' # NoHv
    BY <2>2, HvNothing
  <2> QED BY <2>1, <2>2, <2>3
<1>3. ASSUME NEW rows \in HvRows, OthersChange(rows) PROVE HoldingsInv'
  BY <1>3 DEF OthersChange
<1>4. CASE ReadWatchlist
  BY <1>4, HvNothing DEF ReadWatchlist
<1>5. CASE WatchlistRead \/ WatchlistFailed
  <2>1. ImportDone /\ UNCHANGED hvStored
    BY <1>5 DEF WatchlistRead, WatchlistFailed
  <2>2. hvImport' \in HvImports /\ hvImport'.state # "reading"
    <3>1. CASE hvImport.state = "reading"
      BY <2>1, <3>1 DEF ImportDone, HvImports
    <3>2. CASE hvImport.state # "reading"
      BY <2>1, <3>2 DEF ImportDone
    <3> QED BY <3>1, <3>2
  <2>3. hvMissed' \/ hvList'.rows = hvStored
    <3>1. CASE WatchlistRead
      <4>1. PICK rows \in {hvRead, hvStored} :
              hvList' = [rows |-> rows, failed |-> FALSE] /\ hvMissed' = (hvMissed \/ rows # hvStored)
        BY <3>1 DEF WatchlistRead
      <4>2. hvList'.rows = rows
        BY <4>1
      <4>3. hvMissed' \/ rows = hvStored
        BY <4>1, Zenon
      <4> QED BY <4>2, <4>3
    <3>2. CASE WatchlistFailed
      BY <3>2 DEF WatchlistFailed
    <3> QED BY <1>5, <3>1, <3>2
  <2> QED BY <2>1, <2>2, <2>3
<1> QED BY <1>1, <1>2, <1>3, <1>4, <1>5, <1>6, <1>7 DEF HvNext

\* A filter never hides every holding: it is off when no holding has its sector.
LEMMA SomeHoldingIsShown ==
  ASSUME Body \in {"cards", "tables"}
  PROVE  HoldingCards \cup HoldingRows # {} \/ SectorGroups \cap hvCollapsed # {}
<1>1. DOMAIN Holdings # {}
  BY DEF Body
<1>2. PICK t \in DOMAIN Holdings : TRUE
  BY <1>1
<1>3. PICK s \in AvailableSectors : s \in SectorGroups
  BY <1>2 DEF AvailableSectors, ActiveSectorFilter, SectorGroups
<1>4. InGroup(s) # {}
  BY <1>3 DEF AvailableSectors, InGroup
<1> QED BY <1>3, <1>4 DEF HoldingCards, HoldingRows

\* A filter never shows a list with holdings as none, a synced list keeps the import away, and a list
\* that was read is the one saved (the holdings panel of portfolio/page.tsx).
THEOREM HoldingsAlwaysHold == HvSpec => []HoldingsHold
<1>1. HvInit => HoldingsInv
  <2> SUFFICES ASSUME HvInit PROVE HoldingsInv
    OBVIOUS
  <2>1. [t \in HvTicker |-> NoHv] \in HvRows
    <3>1. [t \in HvTicker |-> NoHv] \in [HvTicker -> HvSector]
      BY HvAssumption
    <3> QED BY <3>1 DEF HvRows
  <2> QED BY <2>1, HvAssumption, HvNothing DEF HvInit, HoldingsInv, ListIsStored, HvImports
<1>2. HoldingsInv => HoldingsHold
  BY SomeHoldingIsShown DEF HoldingsInv, ListIsStored, HoldingsHold, ImportOffered, PeerStatus
<1> QED BY <1>1, <1>2, HoldingsStep, PTL DEF HvSpec

-----------------------------------------------------------------------------
(* The sector and theme of a stock.                                        *)

\* Of each kind one save is under way, a removal alone, and either a row or a company has its sector saved.
SavesAreFew ==
  \A a, b \in seSaves :
    /\ a.kind = b.kind => a = b
    /\ a.kind = "remove" => a = b /\ ~ a.mine
    /\ ~ (a.kind = "sector" /\ b.kind = "company")

\* What was saved is what was sent, until the page has made something of the answer.
ServedIsSaved ==
  \A save \in seSaves : save.stage \in {"served", "patched"} =>
    /\ save.kind = "sector" => seRow # NoSe /\ seRow.sector = save.to.sector
    /\ save.kind = "company" => seCompany = save.to.sector

\* A row known, or read, that is not the saved one is made so by what a save that was done will do.
Explained(kept) ==
  \/ kept = seRow
  \/ \E save \in seSaves :
       /\ save.stage = "served"
       /\ \/ save.kind \in {"theme", "remove"}
          \/ save.kind = "sector" /\ (kept = NoSe \/ WithSector(kept, save.to) = seRow)

KnownIsExplained == IF seRead.asked THEN Explained(seRead.row) ELSE Explained(seKnown)

\* "Saved" is said until the next save of the sector, in the card it was pressed in.
SavedIsSaved ==
  seMessage["sector"] = "saved" /\ seContext # NoSe =>
    /\ seRow = NoSe => seContext.sector = seCompany
    /\ \A save \in seSaves : save.kind = "theme"

EditorTypes ==
  /\ seRow \in SeFields \cup {NoSe} /\ seKnown \in SeFields \cup {NoSe}
  /\ seRead \in [asked : BOOLEAN, row : SeFields \cup {NoSe}]
  /\ seCompany \in SeSector /\ seListed \in SeSector
  /\ seContext \in SeStock \cup {NoSe} /\ seDraft \in SeFields
  /\ seSaves \subseteq SeSave
  /\ seMessage \in [{"sector", "theme"} -> {"none", "same", "saved", "failed"}]

EditorInv ==
  /\ EditorTypes /\ seMissed \in BOOLEAN
  /\ ~ seMissed => SavesAreFew /\ ServedIsSaved /\ KnownIsExplained /\ SavedIsSaved

LEMMA StocksAreStocks ==
  ASSUME NEW known \in SeFields \cup {NoSe}, NEW context \in SeStock \cup {NoSe}
  PROVE  Stocked(known, context) \in SeStock \cup {NoSe}
BY SeNothing DEF Stocked, WithId, SeFields, SeStock

LEMMA FieldsAreFields ==
  ASSUME NEW stock \in SeStock
  PROVE  Fields(stock) \in SeFields
BY DEF Fields, SeStock, SeFields

LEMMA DraftsAreTyped ==
  ASSUME EditorTypes, seKnown' \in SeFields \cup {NoSe}, seContext' \in SeStock \cup {NoSe}, DraftsFollow
  PROVE  seDraft' \in SeFields
<1> DEFINE stock == Stocked(seKnown', seContext')
<1>1. stock \in SeStock \cup {NoSe}
  BY StocksAreStocks
<1>2. stock # NoSe => Fields(stock) \in SeFields
  BY <1>1, FieldsAreFields
<1> QED BY <1>2 DEF DraftsFollow, EditorTypes

LEMMA SelectedIsStock == EditorTypes => SelectedStock \in SeStock \cup {NoSe}
BY StocksAreStocks DEF SelectedStock, EditorTypes

LEMMA LeftAreSaves == ASSUME NEW saves \in SUBSET SeSave PROVE LeftBehind(saves) \subseteq SeSave
BY DEF LeftBehind, SeSave

LEMMA EditorTypesStep == EditorTypes /\ [SeNext]_seVars => EditorTypes'
<1> SUFFICES ASSUME EditorTypes, [SeNext]_seVars PROVE EditorTypes'
  OBVIOUS
<1> USE DEF EditorTypes
<1>1. CASE UNCHANGED seVars
  BY <1>1 DEF seVars
<1>2. CASE OpenStock
  <2>1. BrowserStock \in SeStock
    BY SeNothing, SeAssumption DEF BrowserStock, WithId, SeStock, SeFields
  <2>2. NoMessages \in [{"sector", "theme"} -> {"none", "same", "saved", "failed"}]
    BY DEF NoMessages
  <2> QED BY <1>2, <2>1, <2>2, FieldsAreFields DEF OpenStock
<1>3. CASE CloseStock
  BY <1>3, LeftAreSaves DEF CloseStock
<1>4. CASE SaveSector \/ SaveTheme
  <2>1. PICK field \in {"sector", "theme"}, kind \in {"sector", "company", "theme"} :
          /\ Press(field, kind, seDraft)
          /\ UNCHANGED <<seRow, seCompany, seKnown, seListed, seRead, seContext, seDraft>>
    BY <1>4 DEF SaveSector, SaveTheme
  <2>2. [kind |-> kind, to |-> seDraft, stage |-> "sent", mine |-> TRUE] \in SeSave
    BY DEF SeSave
  <2>3. seSaves' \subseteq SeSave
    BY <2>1, <2>2 DEF Press
  <2>4. PICK word \in {"same", "none"} : seMessage' = [seMessage EXCEPT ![field] = word]
    BY <2>1 DEF Press
  <2>5. seMessage' \in [{"sector", "theme"} -> {"none", "same", "saved", "failed"}]
    BY <2>4
  <2> QED BY <2>1, <2>3, <2>5
<1>5. CASE RemoveStock
  <2>1. [kind |-> "remove", to |-> seDraft, stage |-> "sent", mine |-> FALSE] \in SeSave
    BY DEF SeSave
  <2> QED BY <1>5, <2>1, LeftAreSaves DEF RemoveStock
<1>6. ASSUME \/ \E s \in SeSector : TypeSector(s)
             \/ \E t \in SeTheme : PickTheme(t)
      PROVE  EditorTypes'
  BY <1>6 DEF TypeSector, PickTheme, SeFields
<1>7. ASSUME NEW save \in seSaves, EditServed(save) PROVE EditorTypes'
  <2>1. save \in SeSave /\ save.to \in SeFields
    BY DEF SeSave
  <2>2. [save EXCEPT !.stage = "served"] \in SeSave
    BY <2>1 DEF SeSave
  <2>3. seSaves' \subseteq SeSave
    BY <1>7, <2>2 DEF EditServed
  <2>4. Upserted(seRow, save.to) \in SeFields
    BY <2>1, SeAssumption DEF Upserted, SeFields
  <2>5. seRow # NoSe => [seRow EXCEPT !.theme = save.to.theme] \in SeFields
    BY <2>1 DEF SeFields
  <2>6. seRow' \in SeFields \cup {NoSe}
    BY <1>7, <2>4, <2>5 DEF EditServed, Serve
  <2>7. seCompany' \in SeSector
    BY <1>7, <2>1 DEF EditServed, Serve, SeFields
  <2> QED BY <1>7, <2>3, <2>6, <2>7 DEF EditServed
<1>8. ASSUME NEW save \in seSaves, EditFailed(save) \/ ThemeRefused(save) PROVE EditorTypes'
  <2>1. PICK field \in {"sector", "theme"} :
          seMessage' = IF save.mine THEN [seMessage EXCEPT ![field] = "failed"] ELSE seMessage
    BY <1>8 DEF EditFailed, ThemeRefused, FieldOf
  <2>2. seMessage' \in [{"sector", "theme"} -> {"none", "same", "saved", "failed"}]
    BY <2>1
  <2>3. seSaves' \subseteq SeSave
    BY <1>8 DEF EditFailed, ThemeRefused
  <2>4. UNCHANGED <<seRow, seCompany, seKnown, seListed, seRead, seContext, seDraft>>
    BY <1>8 DEF EditFailed, ThemeRefused
  <2> QED BY <2>2, <2>3, <2>4
<1>9. ASSUME NEW save \in seSaves, EditAnswered(save) PROVE EditorTypes'
  <2>1. save \in SeSave /\ save.to \in SeFields
    BY DEF SeSave
  <2>2. [save EXCEPT !.stage = "patched"] \in SeSave
    BY <2>1 DEF SeSave
  <2>3. seSaves' \subseteq SeSave
    BY <1>9, <2>2 DEF EditAnswered
  <2>4. WithSector(seKnown, save.to) \in SeFields \cup {NoSe}
    BY <2>1 DEF WithSector, SeFields
  <2>5. seKnown' \in SeFields \cup {NoSe}
    BY <1>9, <2>4 DEF EditAnswered
  <2>6. seRead' \in [asked : BOOLEAN, row : SeFields \cup {NoSe}]
    <3>1. seRead' = [asked |-> TRUE, row |-> seRow] \/ UNCHANGED seRead
      BY <1>9, Zenon DEF EditAnswered
    <3>2. [asked |-> TRUE, row |-> seRow] \in [asked : BOOLEAN, row : SeFields \cup {NoSe}]
      OBVIOUS
    <3> QED BY <3>1, <3>2, Zenon
  <2>7. UNCHANGED <<seRow, seCompany, seListed, seContext, seMessage>> /\ DraftsFollow
    BY <1>9 DEF EditAnswered
  <2>8. seDraft' \in SeFields
    BY <2>5, <2>7, DraftsAreTyped
  <2> QED BY <2>3, <2>5, <2>6, <2>7, <2>8
<1>10. ASSUME NEW save \in seSaves, CompaniesRead(save) PROVE EditorTypes'
  <2>1. save \in SeSave /\ save.to \in SeFields
    BY DEF SeSave
  <2>2. seContext' \in SeStock \cup {NoSe}
    BY <1>10, <2>1 DEF CompaniesRead, SeStock, SeFields
  <2>3. seMessage' \in [{"sector", "theme"} -> {"none", "same", "saved", "failed"}]
    BY <1>10 DEF CompaniesRead
  <2>4. UNCHANGED <<seRow, seCompany, seKnown, seRead>> /\ DraftsFollow /\ seListed' = seCompany
    BY <1>10 DEF CompaniesRead
  <2>5. seDraft' \in SeFields
    BY <2>2, <2>4, DraftsAreTyped
  <2>6. seSaves' \subseteq SeSave
    BY <1>10 DEF CompaniesRead
  <2> QED BY <2>2, <2>3, <2>4, <2>5, <2>6
<1>11. CASE ListReadAgain
  BY <1>11 DEF ListReadAgain
<1>12. CASE ListRead
  <2>1. seKnown' \in SeFields \cup {NoSe}
    BY <1>12 DEF ListRead
  <2>2. UNCHANGED <<seRow, seCompany, seListed, seContext>> /\ DraftsFollow
    BY <1>12 DEF ListRead
  <2>3. seDraft' \in SeFields
    BY <2>1, <2>2, DraftsAreTyped
  <2>4. seMessage' \in [{"sector", "theme"} -> {"none", "same", "saved", "failed"}]
    BY <1>12 DEF ListRead
  <2>5. seRead' \in [asked : BOOLEAN, row : SeFields \cup {NoSe}]
    BY <1>12 DEF ListRead
  <2>6. seSaves' \subseteq SeSave
    BY <1>12 DEF ListRead
  <2> QED BY <2>1, <2>2, <2>3, <2>4, <2>5, <2>6
<1> QED
  BY <1>1, <1>2, <1>3, <1>4, <1>5, <1>6, <1>7, <1>8, <1>9, <1>10, <1>11, <1>12 DEF SeNext

\* Once something is missed it stays so.
LEMMA MissedStays ==
  seMissed \in BOOLEAN /\ [SeNext]_seVars => seMissed' \in BOOLEAN /\ (seMissed => seMissed')
<1> SUFFICES ASSUME seMissed \in BOOLEAN, [SeNext]_seVars PROVE seMissed' \in BOOLEAN /\ (seMissed => seMissed')
  OBVIOUS
<1>1. CASE UNCHANGED seVars
  BY <1>1 DEF seVars
<1>2. ASSUME \/ OpenStock \/ CloseStock \/ ListReadAgain \/ ListRead
             \/ \E s \in SeSector : TypeSector(s)
             \/ \E t \in SeTheme : PickTheme(t)
             \/ \E save \in seSaves : EditServed(save) \/ ThemeRefused(save)
      PROVE  UNCHANGED seMissed
  BY <1>2 DEF OpenStock, CloseStock, ListReadAgain, ListRead, TypeSector, PickTheme, EditServed, ThemeRefused
<1>3. CASE SaveSector \/ SaveTheme
  BY <1>3, Zenon DEF SaveSector, SaveTheme, Press
<1>4. CASE RemoveStock
  BY <1>4, Zenon DEF RemoveStock
<1>5. ASSUME NEW save \in seSaves, EditFailed(save) \/ EditAnswered(save) \/ CompaniesRead(save)
      PROVE  seMissed' \in BOOLEAN /\ (seMissed => seMissed')
  BY <1>5, Zenon DEF EditFailed, EditAnswered, CompaniesRead
<1> QED BY <1>1, <1>2, <1>3, <1>4, <1>5, Zenon DEF SeNext

SavesAreKept == SavesAreFew /\ ServedIsSaved /\ KnownIsExplained /\ SavedIsSaved

\* Saves lose members only that explain nothing.
LEMMA FewerSaves ==
  ASSUME EditorInv, SavesAreKept, seSaves' \subseteq seSaves, UNCHANGED <<seRow, seCompany, seKnown, seRead>>,
         \A save \in seSaves \ seSaves' : save.stage # "served"
  PROVE  SavesAreFew' /\ ServedIsSaved' /\ KnownIsExplained'
<1>1. SavesAreFew'
  BY DEF SavesAreKept, SavesAreFew
<1>2. ServedIsSaved'
  BY DEF SavesAreKept, ServedIsSaved
<1>3. ASSUME NEW kept, Explained(kept) PROVE Explained(kept)'
  BY <1>3 DEF Explained
<1>4. KnownIsExplained'
  BY <1>3 DEF SavesAreKept, KnownIsExplained, Explained
<1> QED BY <1>1, <1>2, <1>4

\* The saves of a card that is closed.
LEMMA LeftBehindIsKept == EditorInv /\ SavesAreKept /\ CloseStock => SavesAreKept'
<1> SUFFICES ASSUME EditorInv, SavesAreKept, CloseStock PROVE SavesAreKept'
  OBVIOUS
<1> USE DEF EditorInv, EditorTypes, SavesAreKept
<1>1. seSaves' = LeftBehind(seSaves) /\ seContext' = NoSe /\ UNCHANGED <<seRow, seCompany, seKnown, seRead, seMessage>>
  BY DEF CloseStock
<1>2. ASSUME NEW a \in seSaves'
      PROVE  \E b \in seSaves : a = [b EXCEPT !.mine = FALSE] /\ a.kind = b.kind /\ a.to = b.to /\ a.stage = b.stage /\ ~ a.mine
  BY <1>1 DEF LeftBehind, SeSave
<1>3. ASSUME NEW b \in seSaves
      PROVE  \E a \in seSaves' : a.kind = b.kind /\ a.to = b.to /\ a.stage = b.stage
  <2>1. [b EXCEPT !.mine = FALSE] \in seSaves'
    BY <1>1 DEF LeftBehind
  <2>2. [b EXCEPT !.mine = FALSE].kind = b.kind /\ [b EXCEPT !.mine = FALSE].to = b.to
        /\ [b EXCEPT !.mine = FALSE].stage = b.stage
    BY DEF SeSave
  <2> QED BY <2>1, <2>2, Zenon
<1>4. SavesAreFew'
  <2> SUFFICES ASSUME NEW a \in seSaves', NEW b \in seSaves'
               PROVE  /\ a.kind = b.kind => a = b
                      /\ a.kind = "remove" => a = b /\ ~ a.mine
                      /\ ~ (a.kind = "sector" /\ b.kind = "company")
    BY DEF SavesAreFew
  <2>1. PICK x \in seSaves : a = [x EXCEPT !.mine = FALSE] /\ a.kind = x.kind /\ ~ a.mine
    BY <1>2
  <2>2. PICK y \in seSaves : b = [y EXCEPT !.mine = FALSE] /\ b.kind = y.kind
    BY <1>2
  <2>3. x = y => a = b
    BY <2>1, <2>2
  <2> HIDE DEF EditorInv, EditorTypes
  <2> QED BY <2>1, <2>2, <2>3, Zenon DEF SavesAreFew
<1>5. ServedIsSaved'
  <2> SUFFICES ASSUME NEW a \in seSaves', a.stage \in {"served", "patched"}
               PROVE  /\ a.kind = "sector" => seRow' # NoSe /\ seRow'.sector = a.to.sector
                      /\ a.kind = "company" => seCompany' = a.to.sector
    BY Zenon DEF ServedIsSaved
  <2>1. PICK x \in seSaves : a.kind = x.kind /\ a.to = x.to /\ a.stage = x.stage
    BY <1>2
  <2> QED BY <1>1, <2>1 DEF ServedIsSaved
<1>6. ASSUME NEW kept, Explained(kept) PROVE Explained(kept)'
  BY <1>1, <1>3, <1>6 DEF Explained
<1>7. KnownIsExplained'
  BY <1>1, <1>6 DEF KnownIsExplained, Explained
<1>8. SavedIsSaved'
  BY <1>1 DEF SavedIsSaved
<1> QED BY <1>4, <1>5, <1>7, <1>8

\* A save that is pressed.
LEMMA SavePressIsKept ==
  EditorInv /\ SavesAreKept /\ ~ seMissed' /\ (SaveSector \/ SaveTheme) => SavesAreKept'
<1> SUFFICES ASSUME EditorInv, SavesAreKept, ~ seMissed', SaveSector \/ SaveTheme PROVE SavesAreKept'
  OBVIOUS
<1> USE DEF EditorInv, EditorTypes, SavesAreKept
<1>1. PICK field \in {"sector", "theme"}, kind \in {"sector", "company", "theme"} :
        /\ Press(field, kind, seDraft) /\ UNCHANGED <<seRow, seCompany, seKnown, seRead, seContext>>
        /\ field = "theme" => kind = "theme" /\ ~ SavingField({"theme"})
        /\ field = "sector" => kind \in {"sector", "company"} /\ ~ SavingField({"sector", "company"})
  BY DEF SaveSector, SaveTheme
<1>2. CASE seDraft[field] = SelectedStock[field]
  <2>1. UNCHANGED seSaves /\ seMessage' = [seMessage EXCEPT ![field] = "same"]
    BY <1>1, <1>2 DEF Press
  <2>2. SavesAreFew' /\ ServedIsSaved' /\ KnownIsExplained'
    BY <1>1, <2>1 DEF SavesAreFew, ServedIsSaved, KnownIsExplained, Explained
  <2> QED BY <1>1, <2>1, <2>2 DEF SavedIsSaved
<1>3. CASE seDraft[field] # SelectedStock[field]
  <2> DEFINE n == [kind |-> kind, to |-> seDraft, stage |-> "sent", mine |-> TRUE]
  <2>1. seSaves' = seSaves \cup {n} /\ seMessage' = [seMessage EXCEPT ![field] = "none"]
    BY <1>1, <1>3 DEF Press
  <2>2. \A save \in seSaves : save.mine
    BY <1>1, <1>3, Zenon DEF Press
  <2>3. \A save \in seSaves : save.kind # kind /\ save.kind # "remove" /\ ~ {save.kind, kind} = {"sector", "company"}
    BY <1>1, <2>2 DEF SavingField, SavesAreFew
  <2>4. n.kind = kind /\ n.stage = "sent" /\ n.mine
    OBVIOUS
  <2> HIDE DEF n
  <2>5. SavesAreFew'
    BY <2>1, <2>3, <2>4 DEF SavesAreFew
  <2>6. ServedIsSaved'
    BY <1>1, <2>1, <2>4 DEF ServedIsSaved
  <2>7. ASSUME NEW kept, Explained(kept) PROVE Explained(kept)'
    BY <1>1, <2>1, <2>7 DEF Explained
  <2>8. KnownIsExplained'
    BY <1>1, <2>7 DEF KnownIsExplained, Explained
  <2>9. SavedIsSaved'
    BY <1>1, <2>1, <2>4 DEF SavedIsSaved
  <2> QED BY <2>5, <2>6, <2>8, <2>9
<1> QED BY <1>2, <1>3

\* A save that is done.
LEMMA ServedIsKept ==
  ASSUME EditorInv, SavesAreKept, NEW save \in seSaves, EditServed(save)
  PROVE  SavesAreKept'
<1> USE DEF EditorInv, EditorTypes, SavesAreKept
<1> DEFINE done == [save EXCEPT !.stage = "served"]
<1>1. save.stage = "sent" /\ Serve(save) /\ (save.kind = "theme" => seRow # NoSe)
      /\ seSaves' = (seSaves \ {save}) \cup {done}
      /\ UNCHANGED <<seKnown, seRead, seContext, seMessage>>
  BY DEF EditServed
<1>2. done.kind = save.kind /\ done.to = save.to /\ done.stage = "served" /\ done.mine = save.mine
  BY DEF SeSave
<1>3. save.kind \in {"sector", "company", "theme", "remove"} /\ save.to \in SeFields
  BY DEF SeSave
<1> HIDE DEF done
<1>4. SavesAreFew'
  BY <1>1, <1>2 DEF SavesAreFew
<1>5. CASE save.kind = "sector"
  <2>1. seRow' = Upserted(seRow, save.to) /\ UNCHANGED seCompany
    BY <1>1, <1>5 DEF Serve
  <2>2. seRow' # NoSe /\ seRow'.sector = save.to.sector
    BY <2>1, <1>3, SeNothing, SeAssumption DEF Upserted, SeFields
  <2>3. ServedIsSaved'
    BY <1>1, <1>2, <1>5, <2>1, <2>2 DEF ServedIsSaved, SavesAreFew
  <2>4. ASSUME NEW kept, Explained(kept) PROVE Explained(kept)'
    <3>1. CASE kept = seRow
      <4>1. kept = NoSe \/ WithSector(kept, save.to) = seRow'
        BY <2>1, <3>1 DEF WithSector, Upserted
      <4> QED BY <1>1, <1>2, <1>5, <4>1 DEF Explained
    <3>2. CASE \E w \in seSaves : w.stage = "served" /\ w.kind \in {"theme", "remove"}
      BY <1>1, <3>2 DEF Explained
    <3>3. ~ \E w \in seSaves : w.stage = "served" /\ w.kind = "sector"
      BY <1>1, <1>5 DEF SavesAreFew
    <3> QED BY <2>4, <3>1, <3>2, <3>3 DEF Explained
  <2>5. KnownIsExplained'
    BY <1>1, <2>4 DEF KnownIsExplained, Explained
  <2>6. SavedIsSaved'
    BY <1>1, <1>5 DEF SavedIsSaved
  <2> QED BY <1>4, <2>3, <2>5, <2>6
<1>6. CASE save.kind = "company"
  <2>1. seCompany' = save.to.sector /\ UNCHANGED seRow
    BY <1>1, <1>6 DEF Serve
  <2>2. ServedIsSaved'
    BY <1>1, <1>2, <1>6, <2>1 DEF ServedIsSaved, SavesAreFew
  <2>3. ASSUME NEW kept, Explained(kept) PROVE Explained(kept)'
    BY <1>1, <2>1, <2>3 DEF Explained
  <2>4. KnownIsExplained'
    BY <1>1, <2>3 DEF KnownIsExplained, Explained
  <2>5. SavedIsSaved'
    BY <1>1, <1>6 DEF SavedIsSaved
  <2> QED BY <1>4, <2>2, <2>4, <2>5
<1>7. CASE save.kind \in {"theme", "remove"}
  <2>1. ASSUME NEW kept PROVE Explained(kept)'
    BY <1>1, <1>2, <1>7 DEF Explained
  <2>2. KnownIsExplained'
    BY <2>1 DEF KnownIsExplained, Explained
  <2>3. UNCHANGED seCompany
    BY <1>1, <1>7 DEF Serve
  <2>4. save.kind = "theme" => seRow' # NoSe /\ seRow'.sector = seRow.sector
    BY <1>1, <1>3, SeNothing DEF Serve, SeFields
  <2>5. ServedIsSaved'
    <3>1. CASE save.kind = "theme"
      BY <1>1, <1>2, <2>3, <2>4, <3>1 DEF ServedIsSaved
    <3>2. CASE save.kind = "remove"
      BY <1>1, <1>2, <3>2 DEF ServedIsSaved, SavesAreFew
    <3> QED BY <1>7, <3>1, <3>2
  <2>6. SavedIsSaved'
    BY <1>1, <1>2, <1>7, <2>3, <2>4 DEF SavedIsSaved
  <2> QED BY <1>4, <2>2, <2>5, <2>6
<1> QED BY <1>3, <1>5, <1>6, <1>7

\* What the page makes of an answer.
LEMMA SaveAnsweredIsKept ==
  ASSUME EditorInv, EditorTypes', SavesAreKept, ~ seMissed', NEW save \in seSaves, EditAnswered(save)
  PROVE  SavesAreKept'
<1> USE DEF EditorInv, EditorTypes, SavesAreKept
<1> DEFINE patched == [save EXCEPT !.stage = "patched"]
<1>1. save.stage = "served" /\ seSaves' \subseteq (seSaves \ {save}) \cup {patched}
      /\ seSaves \ {save} \subseteq seSaves' /\ (patched \in seSaves' => save.kind # "remove" \/ patched \in seSaves)
      /\ UNCHANGED <<seRow, seCompany, seContext, seMessage>>
  BY DEF EditAnswered
<1>2. patched.kind = save.kind /\ patched.to = save.to /\ patched.stage = "patched" /\ patched.mine = save.mine
  BY DEF SeSave
<1>3. save.kind \in {"sector", "company", "theme", "remove"} /\ save.to \in SeFields
  BY DEF SeSave
<1>4. IF save.kind \in {"theme", "remove"}
      THEN seRead' = [asked |-> TRUE, row |-> seRow]
      ELSE /\ seKnown' = IF save.kind = "sector" THEN WithSector(seKnown, save.to) ELSE seKnown
           /\ ~ seRead.asked /\ ~ (save.kind = "sector" /\ seKnown = NoSe)
           /\ UNCHANGED seRead
  BY Zenon DEF EditAnswered
<1> HIDE DEF patched
<1>5. SavesAreFew'
  BY <1>1, <1>2 DEF SavesAreFew
<1>6. ServedIsSaved'
  BY <1>1, <1>2 DEF ServedIsSaved
<1>7. SavedIsSaved'
  BY <1>1, <1>2 DEF SavedIsSaved
<1>8. KnownIsExplained'
  <2>1. CASE save.kind \in {"theme", "remove"}
    BY <1>1, <1>4, <2>1 DEF KnownIsExplained, Explained
  <2>2. CASE save.kind = "sector"
    <3>1. seKnown # NoSe /\ ~ seRead.asked /\ seKnown' = WithSector(seKnown, save.to) /\ UNCHANGED seRead
      BY <1>4, <2>2
    <3>2. seRow # NoSe /\ seRow.sector = save.to.sector
      BY <1>1, <2>2 DEF ServedIsSaved
    <3>3. WithSector(seRow, save.to) = seRow
      BY <3>2 DEF WithSector, SeFields
    <3>4. Explained(seKnown)
      BY <3>1 DEF KnownIsExplained
    <3>5. \A w \in seSaves : w.kind = "sector" => w = save
      BY <2>2 DEF SavesAreFew
    <3>6. \/ seKnown' = seRow
          \/ \E w \in seSaves : w.stage = "served" /\ w.kind \in {"theme", "remove"}
      BY <3>1, <3>3, <3>4, <3>5 DEF Explained
    <3>7. Explained(seKnown)'
      BY <1>1, <2>2, <3>6 DEF Explained
    <3> QED BY <3>1, <3>7 DEF KnownIsExplained
  <2>3. CASE save.kind = "company"
    <3>1. ~ seRead.asked /\ UNCHANGED <<seKnown, seRead>>
      BY <1>4, <2>3
    <3>2. Explained(seKnown)
      BY <3>1 DEF KnownIsExplained
    <3>3. Explained(seKnown)'
      BY <1>1, <2>3, <3>1, <3>2 DEF Explained
    <3> QED BY <3>1, <3>3 DEF KnownIsExplained
  <2> QED BY <1>3, <2>1, <2>2, <2>3
<1> QED BY <1>5, <1>6, <1>7, <1>8

LEMMA CompaniesAreKept ==
  ASSUME EditorInv, SavesAreKept, NEW save \in seSaves, CompaniesRead(save)
  PROVE  SavesAreKept'
<1> USE DEF EditorInv, EditorTypes
<1>1. save.stage = "patched" /\ save.kind \in {"sector", "company"} /\ seSaves' = seSaves \ {save}
      /\ UNCHANGED <<seRow, seCompany, seKnown, seRead>>
      /\ seContext' = (IF seContext = NoSe THEN NoSe ELSE [seContext EXCEPT !.sector = save.to.sector])
      /\ seMessage' = (IF save.mine THEN [seMessage EXCEPT !["sector"] = "saved"] ELSE seMessage)
  BY DEF CompaniesRead
<1>2. SavesAreFew' /\ ServedIsSaved' /\ KnownIsExplained'
  BY <1>1, FewerSaves
<1>3. \A b \in seSaves' : b.kind = "theme"
  <2>1. \A b \in seSaves : b.kind \in {"sector", "company", "theme", "remove"}
    BY DEF SeSave
  <2> QED BY <1>1, <2>1 DEF SavesAreKept, SavesAreFew
<1>4. SavedIsSaved'
  <2> SUFFICES ASSUME seMessage'["sector"] = "saved", seContext' # NoSe, seRow' = NoSe
               PROVE  seContext'.sector = seCompany'
    BY <1>3 DEF SavedIsSaved
  <2>1. seContext # NoSe /\ seContext'.sector = save.to.sector
    BY <1>1 DEF SeStock
  <2>2. save.kind = "company"
    BY <1>1 DEF SavesAreKept, ServedIsSaved
  <2>3. seCompany = save.to.sector
    BY <1>1, <2>2 DEF SavesAreKept, ServedIsSaved
  <2> QED BY <1>1, <2>1, <2>3
<1> QED BY <1>2, <1>4 DEF SavesAreKept

LEMMA ReadIsKept == EditorInv /\ SavesAreKept /\ ListRead => SavesAreKept'
<1> SUFFICES ASSUME EditorInv, SavesAreKept, ListRead PROVE SavesAreKept'
  OBVIOUS
<1> USE DEF EditorInv, EditorTypes, SavesAreKept
<1>1. seRead.asked /\ seRead' = [asked |-> FALSE, row |-> NoSe] /\ seKnown' \in {seRead.row, seRow}
      /\ seSaves' = {save \in seSaves : ~ (save.kind = "theme" /\ save.stage = "patched")}
      /\ UNCHANGED <<seRow, seCompany, seContext>>
  BY DEF ListRead
<1>2. seMessage'["sector"] = seMessage["sector"]
  BY DEF ListRead
<1>3. SavesAreFew'
  BY <1>1 DEF SavesAreFew
<1>4. ServedIsSaved'
  BY <1>1 DEF ServedIsSaved
<1>5. ASSUME NEW kept, Explained(kept) PROVE Explained(kept)'
  BY <1>1, <1>5 DEF Explained
<1>6. Explained(seRead.row) /\ Explained(seRow)
  BY <1>1 DEF KnownIsExplained, Explained
<1>7. KnownIsExplained'
  <2>1. PICK kept : kept = seKnown'
    OBVIOUS
  <2>2. Explained(kept)
    BY <1>1, <1>6, <2>1
  <2>3. Explained(kept)'
    BY <1>5, <2>2
  <2> QED BY <1>1, <2>1, <2>3 DEF KnownIsExplained, Explained
<1>8. SavedIsSaved'
  BY <1>1, <1>2 DEF SavedIsSaved
<1> QED BY <1>3, <1>4, <1>7, <1>8

LEMMA EditorStep == EditorInv /\ [SeNext]_seVars => EditorInv'
<1> SUFFICES ASSUME EditorInv, [SeNext]_seVars PROVE EditorInv'
  OBVIOUS
<1>1. EditorTypes' /\ seMissed' \in BOOLEAN
  BY EditorTypesStep, MissedStays DEF EditorInv
<1>2. SUFFICES ASSUME ~ seMissed' PROVE SavesAreKept'
  BY <1>1 DEF EditorInv, SavesAreKept
<1>3. SavesAreKept
  BY <1>2, MissedStays DEF EditorInv, SavesAreKept
<1>4. CASE UNCHANGED seVars
  BY <1>3, <1>4 DEF seVars, SavesAreKept, SavesAreFew, ServedIsSaved, KnownIsExplained, Explained, SavedIsSaved
<1>5. ASSUME \/ OpenStock \/ ListReadAgain
             \/ \E s \in SeSector : TypeSector(s)
             \/ \E t \in SeTheme : PickTheme(t)
      PROVE  SavesAreKept'
  <2>1. UNCHANGED <<seRow, seCompany, seKnown, seSaves>>
    BY <1>5 DEF OpenStock, ListReadAgain, TypeSector, PickTheme
  <2>2. UNCHANGED seRead \/ seRead' = [asked |-> TRUE, row |-> seRow]
    BY <1>5 DEF OpenStock, ListReadAgain, TypeSector, PickTheme
  <2>3. UNCHANGED <<seContext, seMessage>> \/ seMessage'["sector"] = "none"
    BY <1>5 DEF OpenStock, ListReadAgain, TypeSector, PickTheme, NoMessages
  <2>4. KnownIsExplained'
    BY <1>3, <2>1, <2>2 DEF SavesAreKept, KnownIsExplained, Explained
  <2>5. SavedIsSaved'
    BY <1>3, <2>1, <2>3 DEF SavesAreKept, SavedIsSaved
  <2> QED BY <1>3, <2>1, <2>4, <2>5 DEF SavesAreKept, SavesAreFew, ServedIsSaved
<1>6. CASE CloseStock
  BY <1>3, <1>6, LeftBehindIsKept
<1>7. CASE SaveSector \/ SaveTheme
  BY <1>2, <1>3, <1>7, SavePressIsKept
<1>8. CASE RemoveStock
  <2> DEFINE removal == [kind |-> "remove", to |-> seDraft, stage |-> "sent", mine |-> FALSE]
  <2>1. seSaves = {}
    BY <1>2, <1>8, Zenon DEF RemoveStock
  <2>2. seSaves' = {removal} /\ seContext' = NoSe /\ UNCHANGED <<seRow, seCompany, seKnown, seRead>>
    BY <1>8, <2>1 DEF RemoveStock, LeftBehind
  <2>3. SavesAreFew' /\ ServedIsSaved' /\ SavedIsSaved'
    BY <2>2 DEF SavesAreFew, ServedIsSaved, SavedIsSaved
  <2>4. KnownIsExplained'
    BY <1>3, <2>1, <2>2 DEF SavesAreKept, KnownIsExplained, Explained
  <2> QED BY <2>3, <2>4 DEF SavesAreKept
<1>9. ASSUME NEW save \in seSaves, EditFailed(save) \/ ThemeRefused(save) PROVE SavesAreKept'
  <2>1. seSaves' = seSaves \ {save} /\ UNCHANGED <<seRow, seCompany, seKnown, seRead, seContext>>
    BY <1>9 DEF EditFailed, ThemeRefused
  <2>2. save.stage # "served"
    <3>1. CASE EditFailed(save)
      BY <1>2, <3>1, Zenon DEF EditFailed
    <3>2. CASE ThemeRefused(save)
      BY <3>2 DEF ThemeRefused
    <3> QED BY <1>9, <3>1, <3>2
  <2>3. SavesAreFew' /\ ServedIsSaved' /\ KnownIsExplained'
    BY <1>3, <2>1, <2>2, FewerSaves
  <2>4. seMessage'["sector"] \in {seMessage["sector"], "failed"}
    BY <1>9 DEF EditFailed, ThemeRefused, FieldOf, EditorInv, EditorTypes
  <2>5. SavedIsSaved'
    BY <1>3, <2>1, <2>4 DEF SavesAreKept, SavedIsSaved
  <2> QED BY <2>3, <2>5 DEF SavesAreKept
<1>10. ASSUME NEW save \in seSaves, EditServed(save) \/ EditAnswered(save) \/ CompaniesRead(save)
       PROVE  SavesAreKept'
  BY <1>1, <1>2, <1>3, <1>10, ServedIsKept, SaveAnsweredIsKept, CompaniesAreKept
<1>11. CASE ListRead
  BY <1>3, <1>11, ReadIsKept
<1> QED BY <1>4, <1>5, <1>6, <1>7, <1>8, <1>9, <1>10, <1>11 DEF SeNext

\* When nothing is on its way, a stock's card shows the row or the sector that is saved, unless an answer
\* was lost or overtook another (StockDetailModal.tsx), for any sectors, themes and stocks.
THEOREM CardAlwaysShowsSaved == SeSpec => []CardShowsSaved
<1>1. SeInit => EditorInv
  <2> SUFFICES ASSUME SeInit PROVE EditorInv
    OBVIOUS
  <2>1. seCompany \in SeSector
    BY SeAssumption DEF SeInit
  <2>2. seRow \in SeFields \cup {NoSe}
    BY <2>1, SeAssumption DEF SeInit, SeFields
  <2>3. seDraft \in SeFields
    BY <2>1, SeAssumption DEF SeInit, SeFields
  <2>4. seRead \in [asked : BOOLEAN, row : SeFields \cup {NoSe}] /\ ~ seRead.asked
    BY DEF SeInit
  <2>5. seMessage \in [{"sector", "theme"} -> {"none", "same", "saved", "failed"}] /\ seMessage["sector"] = "none"
    BY DEF SeInit, NoMessages
  <2>6. seKnown = seRow /\ seListed = seCompany /\ seContext = NoSe /\ seSaves = {} /\ seMissed \in BOOLEAN
    BY DEF SeInit
  <2>7. EditorTypes
    BY <2>1, <2>2, <2>3, <2>4, <2>5, <2>6 DEF EditorTypes
  <2>8. SavesAreFew /\ ServedIsSaved /\ KnownIsExplained /\ SavedIsSaved
    BY <2>4, <2>5, <2>6 DEF SavesAreFew, ServedIsSaved, KnownIsExplained, Explained, SavedIsSaved
  <2> QED BY <2>6, <2>7, <2>8 DEF EditorInv
<1>2. EditorInv => CardShowsSaved
  <2> SUFFICES ASSUME EditorInv, seContext # NoSe, seSaves = {}, ~ seRead.asked, ~ seMissed
               PROVE  /\ seKnown = seRow
                      /\ seRow = NoSe /\ seMessage.sector = "saved" => SelectedStock.sector = seCompany
    BY DEF CardShowsSaved
  <2>1. KnownIsExplained /\ SavedIsSaved
    BY DEF EditorInv
  <2>2. seKnown = seRow
    BY <2>1 DEF KnownIsExplained, Explained
  <2> QED BY <2>1, <2>2 DEF SavedIsSaved, SelectedStock, Stocked
<1> QED BY <1>1, <1>2, EditorStep, PTL DEF SeSpec

-----------------------------------------------------------------------------
(* The analyses of the portfolio page.                                     *)

AnResults == [of : AnRequests, lists : SUBSET SnapshotVersion]
AnKeys == AnRequests \X Int
AnQueries ==
  [key : AnKeys \cup {NoAnalysis}, status : {"idle", "asked", "done", "failed"},
   data : AnResults \cup {NoAnalysis}, since : SUBSET SnapshotVersion, late : BOOLEAN]
AnFilings == [snapshot : AnRequests \cup {NoAnalysis}, result : AnResults \cup {NoAnalysis}]
AnPhases == {"no", "asked", "served"}
AnCounters == {"changes", "refreshes", "visits", "writes", "faults"}

AnalysisTypes ==
  /\ anOpen \in BOOLEAN /\ anInput \in Inputs /\ anSettled \in Benchmark
  /\ anAsked \in [Analysis -> AnRequests \cup {NoAnalysis}] /\ anToken \in Int
  /\ anQuery \in [Analysis -> AnQueries]
  /\ anSession \in [Analysis -> AnFilings] /\ anCached \in [Analysis -> AnFilings]
  /\ anSelected \in SnapshotVersion \cup {NoAnalysis} /\ anSaved \in SUBSET SnapshotVersion
  /\ anDelete \in [SnapshotVersion -> [phase : AnPhases, selected : BOOLEAN]]
  /\ anSaving \in [phase : AnPhases, page : BOOLEAN]
  /\ anCut \in BOOLEAN /\ anUsed \in [AnCounters -> Nat]

\* A query without a key is idle, and what it has is of its key, but for the placeholder of an attribution.
Told(kind, query) ==
  /\ query.key = NoAnalysis <=> query.status = "idle"
  /\ query.data = NoAnalysis => query.status # "done"
  /\ query.data # NoAnalysis /\ (kind = "attribution" => query.status = "done") =>
       query.key # NoAnalysis /\ query.data.of = query.key[1]

QueriesAreTold ==
  /\ \A kind \in Analysis : Told(kind, anQuery[kind])
  /\ anOpen => \A kind \in Analysis : anQuery[kind].key = KeyOf(kind, anAsked, anToken, anInput, anSettled)
  /\ ~ anOpen => anQuery = Unstarted
  /\ anQuery["attribution"].status = "idle" => anQuery["attribution"].data = NoAnalysis \/ anCut

FilingIsTrue(filed) ==
  IF filed.snapshot = NoAnalysis THEN filed.result = NoAnalysis
  ELSE filed.result # NoAnalysis /\ filed.result.of = filed.snapshot

\* What is filed answers the request it is filed under; a placeholder does not, and is replaced.
FilingsAreTrue ==
  \A kind \in Analysis :
    /\ FilingIsTrue(anCached[kind]) \/ (kind = "attribution" /\ anCut /\ anCached[kind].snapshot # NoAnalysis)
    /\ \/ FilingIsTrue(anSession[kind])
       \/ /\ kind = "attribution" /\ anSession[kind].snapshot # NoAnalysis
          /\ anCut \/ (anOpen /\ anQuery[kind].status = "asked")

\* A list is of what is saved, up to the writes that are served and not yet answered.
UpToWrites(stored) ==
  /\ \A v \in stored \ anSaved : anDelete[v].phase = "served"
  /\ anSaved \subseteq stored \/ anSaving.phase = "served"
HistoryIsTold ==
  LET history == anQuery["history"]
  IN  ~ history.late =>
        /\ history.status = "asked" => UpToWrites(history.since)
        /\ history.status = "done" => UpToWrites(history.data.lists)

SelectionIsSaved ==
  anOpen /\ anSelected # NoAnalysis =>
    /\ anSelected \in anSaved \/ anDelete[anSelected].phase = "served"
    /\ anDelete[anSelected].phase # "no" => anDelete[anSelected].selected

\* Only a page that is open will turn to the snapshot it saves.
SaverIsOpen == anSaving.page => anOpen

AnalysisCore == AnalysisTypes /\ QueriesAreTold /\ FilingsAreTrue /\ SaverIsOpen
AnalysisInv ==
  /\ AnalysisCore
  /\ anUsed["faults"] = 0 => HistoryIsTold /\ SelectionIsSaved

LEMMA CurrentIsRequest ==
  ASSUME NEW kind \in Analysis, NEW entry \in Inputs, NEW bench \in Benchmark
  PROVE  Current(kind, entry, bench) \in AnRequests /\ Current(kind, entry, bench) # NoAnalysis
<1>1. Current(kind, entry, bench) \in AnRequests
  BY DEF AnRequests
<1> QED BY <1>1, AnNothing

LEMMA KeyOfIsKey ==
  ASSUME NEW kind \in Analysis, NEW asked \in [Analysis -> AnRequests \cup {NoAnalysis}],
         NEW token \in Int, NEW entry \in Inputs, NEW bench \in Benchmark
  PROVE  /\ KeyOf(kind, asked, token, entry, bench) \in AnKeys \cup {NoAnalysis}
         /\ KeyOf(kind, asked, token, entry, bench) # NoAnalysis =>
              /\ Effective(kind, asked, entry, bench) # NoAnalysis
              /\ KeyOf(kind, asked, token, entry, bench)[1] = Effective(kind, asked, entry, bench)
<1> DEFINE request == Effective(kind, asked, entry, bench)
<1>1. request \in AnRequests \cup {NoAnalysis}
  <2>1. asked[kind] \in AnRequests \cup {NoAnalysis}
    OBVIOUS
  <2> QED BY <2>1, CurrentIsRequest DEF Effective
<1> HIDE DEF request
<1>2. PICK t \in Int :
        KeyOf(kind, asked, token, entry, bench) =
          IF request = NoAnalysis \/ (kind # "comparison" /\ token = 0) THEN NoAnalysis ELSE <<request, t>>
  <2>1. -1 \in Int /\ token \in Int
    OBVIOUS
  <2> QED BY <2>1 DEF KeyOf, request
<1>3. CASE request = NoAnalysis \/ (kind # "comparison" /\ token = 0)
  BY <1>2, <1>3
<1>4. CASE ~ (request = NoAnalysis \/ (kind # "comparison" /\ token = 0))
  <2>1. KeyOf(kind, asked, token, entry, bench) = <<request, t>>
    BY <1>2, <1>4
  <2>2. <<request, t>> \in AnKeys /\ <<request, t>>[1] = request
    BY <1>1, <1>4 DEF AnKeys
  <2> QED BY <1>4, <2>1, <2>2 DEF request
<1> QED BY <1>3, <1>4

LEMMA NoQueryIsTold ==
  /\ NoQuery \in AnQueries /\ NoQuery.key = NoAnalysis /\ NoQuery.status = "idle" /\ NoQuery.data = NoAnalysis
  /\ ~ NoQuery.late /\ NoQuery.since = {}
  /\ \A kind \in Analysis : Told(kind, NoQuery)
BY DEF NoQuery, AnQueries, Told

LEMMA AskedIsAsked ==
  ASSUME AnalysisTypes, NEW kind \in Analysis, NEW key \in AnKeys, NEW data \in AnResults \cup {NoAnalysis}
  PROVE  /\ AskedFor(kind, key, data) \in AnQueries
         /\ AskedFor(kind, key, data).key = key /\ AskedFor(kind, key, data).status = "asked"
         /\ AskedFor(kind, key, data).data = data /\ ~ AskedFor(kind, key, data).late
         /\ kind = "history" => AskedFor(kind, key, data).since = anSaved
BY DEF AskedFor, NoQuery, AnQueries, AnalysisTypes

\* useQuery after a render: the query that was observed goes on under the same key only.
LEMMA ObservedIsTold ==
  ASSUME AnalysisTypes, NEW kind \in Analysis, NEW query \in AnQueries, Told(kind, query),
         NEW key \in AnKeys \cup {NoAnalysis}
  PROVE  /\ Observed(kind, query, key) \in AnQueries /\ Told(kind, Observed(kind, query, key))
         /\ Observed(kind, query, key).key = key
         /\ key = query.key => Observed(kind, query, key) = query
         /\ key # query.key => Observed(kind, query, key).status \in {"idle", "asked"} /\ ~ Observed(kind, query, key).late
         /\ key # query.key /\ kind = "history" /\ Observed(kind, query, key).status = "asked" =>
              Observed(kind, query, key).since = anSaved
<1> DEFINE kept == IF kind = "attribution" THEN query.data ELSE NoAnalysis
<1>1. kept \in AnResults \cup {NoAnalysis} /\ (kept # NoAnalysis => kind = "attribution")
  BY DEF AnQueries
<1>2. Observed(kind, query, key) =
        IF key = query.key THEN query
        ELSE IF key = NoAnalysis THEN [NoQuery EXCEPT !.data = kept] ELSE AskedFor(kind, key, kept)
  BY DEF Observed
<1> HIDE DEF kept
<1>3. CASE key = query.key
  BY <1>2, <1>3
<1>4. CASE key # query.key /\ key = NoAnalysis
  <2>1. Observed(kind, query, key) = [NoQuery EXCEPT !.data = kept]
    BY <1>2, <1>4
  <2>2. [NoQuery EXCEPT !.data = kept] \in AnQueries
    BY <1>1 DEF NoQuery, AnQueries
  <2>3. /\ [NoQuery EXCEPT !.data = kept].key = NoAnalysis /\ [NoQuery EXCEPT !.data = kept].status = "idle"
        /\ [NoQuery EXCEPT !.data = kept].data = kept /\ ~ [NoQuery EXCEPT !.data = kept].late
    BY DEF NoQuery
  <2>4. Told(kind, [NoQuery EXCEPT !.data = kept])
    BY <1>1, <2>3 DEF Told
  <2> QED BY <1>4, <2>1, <2>2, <2>3, <2>4
<1>5. CASE key # query.key /\ key # NoAnalysis
  <2>1. Observed(kind, query, key) = AskedFor(kind, key, kept)
    BY <1>2, <1>5
  <2>2. Told(kind, AskedFor(kind, key, kept))
    BY <1>1, <1>5, AskedIsAsked DEF Told
  <2> QED BY <1>1, <1>5, <2>1, <2>2, AskedIsAsked
<1> QED BY <1>3, <1>4, <1>5

\* A render of the page keeps each query under its key and files what answers it.
LEMMA RenderStep ==
  ASSUME AnalysisTypes, NEW asked \in [Analysis -> AnRequests \cup {NoAnalysis}], NEW token \in Int,
         NEW entry \in Inputs, NEW bench \in Benchmark, NEW query \in [Analysis -> AnQueries],
         Render(asked, token, entry, bench, query), anOpen' = TRUE,
         \A kind \in Analysis : Told(kind, query[kind]),
         query["attribution"].status = "idle" => query["attribution"].data = NoAnalysis \/ anCut',
         KeyOf("attribution", asked, token, entry, bench) = NoAnalysis =>
           query["attribution"].key = NoAnalysis \/ anCut',
         \A kind \in Analysis :
           FilingIsTrue(anCached'[kind]) \/ (kind = "attribution" /\ anCut' /\ anCached'[kind].snapshot # NoAnalysis),
         \A kind \in Analysis :
           \/ FilingIsTrue(anSession[kind])
           \/ /\ kind = "attribution" /\ anSession[kind].snapshot # NoAnalysis
              /\ \/ anCut'
                 \/ /\ query[kind].status \in {"asked", "done"}
                    /\ query[kind].key = KeyOf(kind, asked, token, entry, bench)
  PROVE  /\ anAsked' = asked /\ anToken' = token /\ anInput' = entry /\ anSettled' = bench
         /\ anQuery' \in [Analysis -> AnQueries] /\ anSession' \in [Analysis -> AnFilings]
         /\ QueriesAreTold' /\ FilingsAreTrue'
         /\ \A kind \in Analysis :
              anQuery'[kind] = Observed(kind, query[kind], KeyOf(kind, asked, token, entry, bench))
<1> DEFINE key(kind) == KeyOf(kind, asked, token, entry, bench)
           request(kind) == Effective(kind, asked, entry, bench)
<1>1. anAsked' = asked /\ anToken' = token /\ anInput' = entry /\ anSettled' = bench
  BY DEF Render
<1>2. anQuery' = [kind \in Analysis |-> Observed(kind, query[kind], key(kind))]
  BY DEF Render
<1>3. \A kind \in Analysis : anQuery'[kind] = Observed(kind, query[kind], key(kind))
  BY <1>2
<1>4. anSession' = [kind \in Analysis |-> Filed(kind, anQuery'[kind], asked, entry, bench, anSession[kind])]
  <2>1. anSession' = [kind \in Analysis |->
           Filed(kind, [k \in Analysis |-> Observed(k, query[k], key(k))][kind], asked, entry, bench, anSession[kind])]
    BY DEF Render
  <2> QED BY <1>2, <2>1
<1>5. \A kind \in Analysis :
        /\ key(kind) \in AnKeys \cup {NoAnalysis}
        /\ key(kind) # NoAnalysis => request(kind) # NoAnalysis /\ key(kind)[1] = request(kind)
  BY KeyOfIsKey
<1> HIDE DEF key
<1>6. \A kind \in Analysis :
        /\ anQuery'[kind] \in AnQueries /\ Told(kind, anQuery'[kind]) /\ anQuery'[kind].key = key(kind)
        /\ key(kind) = query[kind].key => anQuery'[kind] = query[kind]
        /\ key(kind) # query[kind].key => anQuery'[kind].status \in {"idle", "asked"}
  BY <1>3, <1>5, ObservedIsTold
<1>7. anQuery' \in [Analysis -> AnQueries]
  BY <1>2, <1>3, <1>6
<1>8. \A kind \in Analysis : request(kind) \in AnRequests \cup {NoAnalysis}
  BY CurrentIsRequest DEF Effective
<1>9. QueriesAreTold'
  <2>1. \A kind \in Analysis : anQuery'[kind].key = KeyOf(kind, anAsked, anToken, anInput, anSettled)'
    BY <1>1, <1>6 DEF key, KeyOf, Effective, Current
  <2>2. anQuery'["attribution"].status = "idle" => anQuery'["attribution"].data = NoAnalysis \/ anCut'
    <3>1. "attribution" \in Analysis
      BY DEF Analysis
    <3>2. SUFFICES ASSUME anQuery'["attribution"].status = "idle", ~ anCut' PROVE anQuery'["attribution"].data = NoAnalysis
      OBVIOUS
    <3>3. key("attribution") = NoAnalysis
      BY <1>6, <3>1, <3>2 DEF Told
    <3>4. query["attribution"].key = NoAnalysis
      BY <3>2, <3>3 DEF key
    <3>5. anQuery'["attribution"] = query["attribution"]
      BY <1>6, <3>1, <3>3, <3>4
    <3> QED BY <3>2, <3>5
  <2> QED BY <1>6, <2>1, <2>2 DEF QueriesAreTold
<1> HIDE DEF request
<1>10. ASSUME NEW kind \in Analysis
       PROVE  /\ anSession'[kind] \in AnFilings
              /\ \/ FilingIsTrue(anSession'[kind])
                 \/ /\ kind = "attribution" /\ anSession'[kind].snapshot # NoAnalysis
                    /\ anCut' \/ anQuery'[kind].status = "asked"
  <2>1. PICK q \in AnQueries : q = anQuery'[kind]
    BY <1>6
  <2>2. Told(kind, q) /\ q.key = key(kind)
    BY <1>6, <2>1
  <2>3. anSession[kind] \in AnFilings
    BY DEF AnalysisTypes
  <2>4. anSession'[kind] =
          IF Data(kind, q) # NoAnalysis /\ request(kind) # NoAnalysis
          THEN [snapshot |-> request(kind), result |-> q.data] ELSE anSession[kind]
    BY <1>4, <2>1 DEF Filed, request
  <2>5. CASE Data(kind, q) # NoAnalysis /\ request(kind) # NoAnalysis
    <3>1. anSession'[kind] = [snapshot |-> request(kind), result |-> q.data]
      BY <2>4, <2>5
    <3>2. q.data \in AnResults /\ q.data # NoAnalysis
      BY <2>5, AnNothing DEF Data, AnQueries
    <3>3. anSession'[kind] \in AnFilings /\ anSession'[kind].snapshot = request(kind) /\ anSession'[kind].result = q.data
      BY <1>8, <2>5, <3>1, <3>2 DEF AnFilings
    <3>4. CASE kind = "attribution" /\ q.status # "done"
      <4>1. q.status \in {"idle", "asked"}
        BY <2>5, <3>4 DEF Data, AnQueries
      <4>2. q.status = "idle" => anCut'
        BY <1>9, <2>1, <3>2, <3>4 DEF QueriesAreTold
      <4> QED BY <2>1, <2>5, <3>3, <3>4, <4>1, <4>2
    <3>5. CASE ~ (kind = "attribution" /\ q.status # "done")
      <4>1. q.key # NoAnalysis /\ q.data.of = q.key[1]
        BY <2>2, <3>2, <3>5 DEF Told
      <4>2. q.data.of = request(kind)
        BY <1>5, <2>2, <4>1
      <4> QED BY <2>5, <3>2, <3>3, <4>2 DEF FilingIsTrue
    <3> QED BY <3>4, <3>5
  <2>6. CASE ~ (Data(kind, q) # NoAnalysis /\ request(kind) # NoAnalysis)
    <3>1. anSession'[kind] = anSession[kind]
      BY <2>4, <2>6
    <3>2. CASE FilingIsTrue(anSession[kind]) \/ anCut'
      BY <2>3, <3>1, <3>2
    <3>3. CASE ~ FilingIsTrue(anSession[kind]) /\ ~ anCut'
      <4>1. kind = "attribution" /\ anSession[kind].snapshot # NoAnalysis
            /\ query[kind].status \in {"asked", "done"} /\ query[kind].key = key(kind)
        BY <3>3 DEF key
      <4>2. q = query[kind]
        BY <1>6, <2>1, <4>1
      <4>3. q.status # "done"
        <5>1. SUFFICES ASSUME q.status = "done" PROVE FALSE
          OBVIOUS
        <5>2. q.data # NoAnalysis /\ q.key # NoAnalysis
          BY <2>2, <5>1 DEF Told
        <5>3. request(kind) # NoAnalysis
          BY <1>5, <2>2, <5>2
        <5> QED BY <2>6, <5>1, <5>2, <5>3 DEF Data
      <4> QED BY <2>1, <2>3, <3>1, <4>1, <4>2, <4>3
    <3> QED BY <3>2, <3>3
  <2> QED BY <2>5, <2>6
<1>11. anSession' \in [Analysis -> AnFilings]
  BY <1>4, <1>10
<1>12. FilingsAreTrue'
  BY <1>10 DEF FilingsAreTrue
<1> QED BY <1>1, <1>3, <1>7, <1>9, <1>11, <1>12 DEF key

\* A render that asks for nothing else, after an answer, a failure or a write: each query has the key it had.
LEMMA RenderAgain ==
  ASSUME AnalysisTypes, QueriesAreTold, FilingsAreTrue, anOpen = TRUE, anOpen' = TRUE, UNCHANGED anCached,
         NEW entry \in Inputs, NEW bench \in Benchmark, NEW query \in [Analysis -> AnQueries],
         Render(anAsked, anToken, entry, bench, query),
         \A kind \in Analysis : Told(kind, query[kind]),
         anCut => anCut',
         query["attribution"].key = anQuery["attribution"].key,
         query["attribution"].status = "idle" => query["attribution"] = anQuery["attribution"],
         anQuery["attribution"].status = "asked" => query["attribution"].status \in {"asked", "done"} \/ anCut'
  PROVE  /\ UNCHANGED <<anAsked, anToken>> /\ anInput' = entry /\ anSettled' = bench
         /\ anQuery' \in [Analysis -> AnQueries] /\ anSession' \in [Analysis -> AnFilings]
         /\ QueriesAreTold' /\ FilingsAreTrue'
         /\ \A kind \in Analysis :
              anQuery'[kind] = Observed(kind, query[kind], KeyOf(kind, anAsked, anToken, entry, bench))
<1>1. anAsked \in [Analysis -> AnRequests \cup {NoAnalysis}] /\ anToken \in Int
  BY DEF AnalysisTypes
<1>2. "attribution" \in Analysis
  BY DEF Analysis
<1>3. anQuery["attribution"].key = KeyOf("attribution", anAsked, anToken, entry, bench)
  <2>1. anQuery["attribution"].key = KeyOf("attribution", anAsked, anToken, anInput, anSettled)
    BY <1>2 DEF QueriesAreTold
  <2> QED BY <2>1 DEF KeyOf, Effective
<1>4. query["attribution"].status = "idle" => query["attribution"].data = NoAnalysis \/ anCut'
  BY DEF QueriesAreTold
<1>5. KeyOf("attribution", anAsked, anToken, entry, bench) = NoAnalysis =>
        query["attribution"].key = NoAnalysis \/ anCut'
  BY <1>3
<1>6. \A kind \in Analysis :
        FilingIsTrue(anCached'[kind]) \/ (kind = "attribution" /\ anCut' /\ anCached'[kind].snapshot # NoAnalysis)
  BY DEF FilingsAreTrue
<1>7. \A kind \in Analysis :
        \/ FilingIsTrue(anSession[kind])
        \/ /\ kind = "attribution" /\ anSession[kind].snapshot # NoAnalysis
           /\ \/ anCut'
              \/ /\ query[kind].status \in {"asked", "done"}
                 /\ query[kind].key = KeyOf(kind, anAsked, anToken, entry, bench)
  BY <1>3 DEF FilingsAreTrue
<1> QED BY <1>1, <1>4, <1>5, <1>6, <1>7, RenderStep

\* A write that is answered has the history read again.
LEMMA InvalidatedIsTold ==
  ASSUME AnalysisTypes, QueriesAreTold
  PROVE  /\ Invalidated(anQuery) \in [Analysis -> AnQueries]
         /\ \A kind \in Analysis : Told(kind, Invalidated(anQuery)[kind]) /\ Invalidated(anQuery)[kind].key = anQuery[kind].key
         /\ \A kind \in Analysis \ {"history"} : Invalidated(anQuery)[kind] = anQuery[kind]
         /\ LET history == Invalidated(anQuery)["history"]
            IN  ~ history.late => \/ history.status = "idle"
                                  \/ history.status = "asked" /\ history.since = anSaved
<1> DEFINE old == anQuery["history"]
           firstRead == old.status = "asked" /\ old.data = NoAnalysis
<1>1. "history" \in Analysis /\ old \in AnQueries /\ anQuery \in [Analysis -> AnQueries] /\ Told("history", old)
  BY DEF Analysis, AnalysisTypes, QueriesAreTold
<1>2. \A kind \in Analysis : Told(kind, anQuery[kind])
  BY DEF QueriesAreTold
<1>3. CASE old.key = NoAnalysis
  <2>1. Invalidated(anQuery) = anQuery
    BY <1>3 DEF Invalidated
  <2> QED BY <1>1, <1>2, <1>3, <2>1 DEF Told
<1>4. CASE old.key # NoAnalysis
  <2>1. old.key \in AnKeys /\ old.data \in AnResults \cup {NoAnalysis}
    BY <1>1, <1>4 DEF AnQueries
  <2>2. PICK new : new = IF firstRead THEN [old EXCEPT !.late = TRUE] ELSE AskedFor("history", old.key, old.data)
    OBVIOUS
  <2>3. Invalidated(anQuery) = [anQuery EXCEPT !["history"] = new]
    BY <1>4, <2>2 DEF Invalidated
  <2>4. new \in AnQueries /\ Told("history", new) /\ new.key = old.key
        /\ (~ new.late => new.status = "asked" /\ new.since = anSaved)
    <3>1. CASE firstRead
      <4>1. new = [old EXCEPT !.late = TRUE]
        BY <2>2, <3>1
      <4>2. new \in AnQueries /\ new.late = TRUE /\ new.key = old.key /\ new.status = old.status /\ new.data = old.data
        BY <1>1, <4>1 DEF AnQueries
      <4> QED BY <1>1, <4>2 DEF Told
    <3>2. CASE ~ firstRead
      <4>1. new = AskedFor("history", old.key, old.data)
        BY <2>2, <3>2
      <4>2. old.data # NoAnalysis => old.data.of = old.key[1]
        BY <1>1 DEF Told
      <4>3. Told("history", new)
        BY <1>1, <1>4, <2>1, <4>1, <4>2, AskedIsAsked DEF Told
      <4> QED BY <1>1, <2>1, <4>1, <4>3, AskedIsAsked
    <3> QED BY <3>1, <3>2
  <2>5. Invalidated(anQuery)["history"] = new /\ \A kind \in Analysis \ {"history"} : Invalidated(anQuery)[kind] = anQuery[kind]
    BY <1>1, <2>3
  <2>6. Invalidated(anQuery) \in [Analysis -> AnQueries]
    BY <1>1, <2>3, <2>4
  <2> QED BY <1>2, <2>4, <2>5, <2>6
<1> QED BY <1>3, <1>4

\* Without a render, with what is filed and asked untouched.
LEMMA AnalysisStays ==
  ASSUME QueriesAreTold, FilingsAreTrue,
         UNCHANGED <<anOpen, anInput, anSettled, anAsked, anToken, anQuery, anSession, anCached, anCut>>
  PROVE  QueriesAreTold' /\ FilingsAreTrue'
<1>1. QueriesAreTold'
  BY DEF QueriesAreTold, KeyOf, Effective, Current, Unstarted
<1>2. FilingsAreTrue'
  BY DEF FilingsAreTrue
<1> QED BY <1>1, <1>2

\* After a render the history that was observed goes on, or is asked for what is saved.
HistoryGoesOn ==
  \/ anQuery'["history"] = anQuery["history"]
  \/ ~ anQuery'["history"].late =>
       \/ anQuery'["history"].status = "idle"
       \/ anQuery'["history"].status = "asked" /\ anQuery'["history"].since = anSaved

LEMMA OpenIsKept == AnalysisCore /\ OpenPage => AnalysisCore'
<1> SUFFICES ASSUME AnalysisCore, OpenPage PROVE AnalysisCore'
  OBVIOUS
<1> USE DEF AnalysisCore
<1> DEFINE asked == [kind \in Analysis |-> anSession[kind].snapshot]
<1>1. /\ ~ anOpen /\ anOpen' = TRUE /\ anCached' = anSession /\ anSelected' = NoAnalysis
      /\ Render(asked, 0, anInput, anInput.benchmark, Unstarted)
      /\ UNCHANGED <<anSaved, anDelete, anSaving, anCut>>
  BY DEF OpenPage
<1>2. asked \in [Analysis -> AnRequests \cup {NoAnalysis}] /\ anInput \in Inputs /\ anInput.benchmark \in Benchmark
  BY DEF AnalysisTypes, AnFilings, Inputs
<1>3. Unstarted \in [Analysis -> AnQueries] /\ \A kind \in Analysis : Unstarted[kind] = NoQuery /\ Told(kind, Unstarted[kind])
  BY NoQueryIsTold DEF Unstarted
<1>4. "attribution" \in Analysis
  BY DEF Analysis
<1>5. \A kind \in Analysis :
        /\ anSession[kind] = anCached'[kind]
        /\ FilingIsTrue(anSession[kind]) \/ (kind = "attribution" /\ anCut' /\ anSession[kind].snapshot # NoAnalysis)
  BY <1>1 DEF FilingsAreTrue
<1>6. Unstarted["attribution"].key = NoAnalysis /\ Unstarted["attribution"].data = NoAnalysis
  BY <1>3, <1>4, NoQueryIsTold
<1> HIDE DEF asked
<1>7. /\ anAsked' = asked /\ anToken' = 0 /\ anInput' = anInput /\ anSettled' = anInput.benchmark
      /\ anQuery' \in [Analysis -> AnQueries] /\ anSession' \in [Analysis -> AnFilings]
      /\ QueriesAreTold' /\ FilingsAreTrue'
  BY <1>1, <1>2, <1>3, <1>5, <1>6, RenderStep
<1>8. anUsed' \in [AnCounters -> Nat]
  BY DEF OpenPage, Use, AnalysisTypes, AnCounters
<1> QED BY <1>1, <1>2, <1>7, <1>8 DEF AnalysisTypes, SaverIsOpen

LEMMA UsesAreCounted ==
  ASSUME AnalysisTypes, NEW what \in AnCounters, Use(what)
  PROVE  anUsed' \in [AnCounters -> Nat] /\ (what # "faults" => anUsed'["faults"] = anUsed["faults"])
         /\ (what = "faults" => anUsed'["faults"] > 0)
BY DEF AnalysisTypes, Use, AnCounters

LEMMA LeaveIsKept == AnalysisCore /\ LeavePage => AnalysisCore'
<1> SUFFICES ASSUME AnalysisCore, LeavePage PROVE AnalysisCore'
  OBVIOUS
<1> USE DEF AnalysisCore
<1>1. /\ anOpen' = FALSE /\ anQuery' = Unstarted
      /\ UNCHANGED <<anInput, anSettled, anAsked, anToken, anSession, anCached, anSelected, anSaved, anUsed>>
  BY DEF LeavePage
<1>2. anCut' \in BOOLEAN /\ (anCut \/ anQuery["attribution"].status = "asked" => anCut')
  BY Zenon DEF LeavePage, AnalysisTypes
<1>3. Unstarted \in [Analysis -> AnQueries] /\ \A kind \in Analysis : Unstarted[kind] = NoQuery /\ Told(kind, Unstarted[kind])
  BY NoQueryIsTold DEF Unstarted
<1>4. QueriesAreTold'
  BY <1>1, <1>3, NoQueryIsTold DEF QueriesAreTold, Unstarted, Analysis
<1>5. FilingsAreTrue'
  BY <1>1, <1>2 DEF FilingsAreTrue
<1>6. anDelete' \in [SnapshotVersion -> [phase : AnPhases, selected : BOOLEAN]]
  <2>1. \A v \in SnapshotVersion : [anDelete[v] EXCEPT !.selected = FALSE] \in [phase : AnPhases, selected : BOOLEAN]
    BY DEF AnalysisTypes
  <2> QED BY <2>1 DEF LeavePage
<1>7. anSaving' \in [phase : AnPhases, page : BOOLEAN]
  BY DEF LeavePage, AnalysisTypes
<1>8. SaverIsOpen'
  BY DEF LeavePage, SaverIsOpen, AnalysisTypes
<1> QED BY <1>1, <1>2, <1>3, <1>4, <1>5, <1>6, <1>7, <1>8 DEF AnalysisTypes

\* A control is moved, the benchmark settles or a snapshot is selected.
LEMMA ControlsAreKept ==
  ASSUME AnalysisCore, ChangeInput \/ SettleBenchmark \/ \E v \in SnapshotVersion : SelectSnapshot(v)
  PROVE  AnalysisCore' /\ HistoryGoesOn
<1> USE DEF AnalysisCore
<1>1. PICK entry \in Inputs, bench \in Benchmark : Render(anAsked, anToken, entry, bench, anQuery)
  <2>1. [anInput EXCEPT !.mode = "snapshot"] \in Inputs /\ anInput.benchmark \in Benchmark
    BY DEF AnalysisTypes, Inputs
  <2> QED BY <2>1 DEF ChangeInput, SettleBenchmark, SelectSnapshot, AnalysisTypes
<1>2. /\ anOpen = TRUE /\ anOpen' = TRUE /\ UNCHANGED <<anCached, anCut, anSaved, anDelete, anSaving>>
      /\ anSelected' \in SnapshotVersion \cup {NoAnalysis}
  BY DEF ChangeInput, SettleBenchmark, SelectSnapshot, AnalysisTypes
<1>3. anQuery \in [Analysis -> AnQueries] /\ \A kind \in Analysis : Told(kind, anQuery[kind])
  BY DEF AnalysisTypes, QueriesAreTold
<1>4. /\ UNCHANGED <<anAsked, anToken>> /\ anInput' = entry /\ anSettled' = bench
      /\ anQuery' \in [Analysis -> AnQueries] /\ anSession' \in [Analysis -> AnFilings]
      /\ QueriesAreTold' /\ FilingsAreTrue'
  BY <1>1, <1>2, <1>3, RenderAgain
<1>5. anUsed' \in [AnCounters -> Nat]
  <2>1. UNCHANGED anUsed \/ Use("changes")
    BY DEF ChangeInput, SettleBenchmark, SelectSnapshot
  <2> QED BY <2>1, UsesAreCounted DEF AnCounters, AnalysisTypes
<1>6. HistoryGoesOn
  <2>1. "history" \in Analysis
    BY DEF Analysis
  <2>2. anAsked \in [Analysis -> AnRequests \cup {NoAnalysis}] /\ anToken \in Int
    BY DEF AnalysisTypes
  <2>3. PICK key \in AnKeys \cup {NoAnalysis} : anQuery'["history"] = Observed("history", anQuery["history"], key)
    BY <1>1, <1>2, <1>3, <2>1, <2>2, KeyOfIsKey, RenderAgain
  <2> QED BY <1>3, <2>1, <2>3, ObservedIsTold DEF HistoryGoesOn
<1> QED BY <1>2, <1>4, <1>5, <1>6 DEF AnalysisTypes, SaverIsOpen

LEMMA RefreshIsKept == AnalysisCore /\ RefreshAnalysis => AnalysisCore' /\ HistoryGoesOn
<1> SUFFICES ASSUME AnalysisCore, RefreshAnalysis PROVE AnalysisCore' /\ HistoryGoesOn
  OBVIOUS
<1> USE DEF AnalysisCore
<1> DEFINE paused == anInput.book \in PausedBook
           asked == [kind \in Analysis |->
                       IF kind = "attribution" /\ paused THEN NoAnalysis ELSE Current(kind, anInput, anSettled)]
<1>1. /\ anOpen = TRUE /\ anOpen' = TRUE /\ anSelected' = NoAnalysis /\ Use("refreshes")
      /\ Render(asked, anUsed.refreshes + 1, anInput, anSettled, anQuery)
      /\ UNCHANGED <<anCached, anSaved, anDelete, anSaving>>
  BY DEF RefreshAnalysis, AnalysisTypes
<1>2. anCut' \in BOOLEAN /\ (anCut \/ paused \/ anQuery["attribution"].status = "asked" => anCut')
  BY Zenon DEF RefreshAnalysis, AnalysisTypes
<1>3. anInput \in Inputs /\ anSettled \in Benchmark /\ anUsed.refreshes + 1 \in Int /\ anUsed.refreshes + 1 # 0
  BY DEF AnalysisTypes, AnCounters
<1>4. \A kind \in Analysis : Current(kind, anInput, anSettled) \in AnRequests /\ Current(kind, anInput, anSettled) # NoAnalysis
  BY <1>3, CurrentIsRequest
<1>5. asked \in [Analysis -> AnRequests \cup {NoAnalysis}]
  BY <1>4
<1>6. anQuery \in [Analysis -> AnQueries] /\ \A kind \in Analysis : Told(kind, anQuery[kind])
  BY DEF AnalysisTypes, QueriesAreTold
<1>7. KeyOf("attribution", asked, anUsed.refreshes + 1, anInput, anSettled) = NoAnalysis => anCut'
  <2>1. SUFFICES ASSUME ~ paused PROVE KeyOf("attribution", asked, anUsed.refreshes + 1, anInput, anSettled) # NoAnalysis
    BY <1>2
  <2>2. "attribution" \in Analysis /\ asked["attribution"] = Current("attribution", anInput, anSettled)
    BY <2>1 DEF Analysis
  <2>3. asked["attribution"] \in AnRequests /\ asked["attribution"] # NoAnalysis
    BY <1>4, <2>2
  <2> HIDE DEF asked
  <2>4. KeyOf("attribution", asked, anUsed.refreshes + 1, anInput, anSettled) =
          <<asked["attribution"], anUsed.refreshes + 1>>
    BY <1>3, <2>3 DEF KeyOf, Effective
  <2>5. <<asked["attribution"], anUsed.refreshes + 1>> \in AnRequests \X Int
    BY <1>3, <2>3
  <2> QED BY <2>4, <2>5, AnNothing
<1>8. anQuery["attribution"].status = "idle" => anQuery["attribution"].data = NoAnalysis \/ anCut'
  BY <1>2 DEF QueriesAreTold
<1>9. \A kind \in Analysis :
        FilingIsTrue(anCached'[kind]) \/ (kind = "attribution" /\ anCut' /\ anCached'[kind].snapshot # NoAnalysis)
  BY <1>1, <1>2 DEF FilingsAreTrue
<1>10. \A kind \in Analysis :
         \/ FilingIsTrue(anSession[kind])
         \/ kind = "attribution" /\ anSession[kind].snapshot # NoAnalysis /\ anCut'
  BY <1>2 DEF FilingsAreTrue
<1> HIDE DEF asked, paused
<1>11. PICK token \in Int : token = anUsed.refreshes + 1
  BY <1>3
<1>12. /\ anAsked' = asked /\ anToken' = token /\ anInput' = anInput /\ anSettled' = anSettled
       /\ anQuery' \in [Analysis -> AnQueries] /\ anSession' \in [Analysis -> AnFilings]
       /\ QueriesAreTold' /\ FilingsAreTrue'
       /\ \A kind \in Analysis :
            anQuery'[kind] = Observed(kind, anQuery[kind], KeyOf(kind, asked, token, anInput, anSettled))
  BY <1>1, <1>3, <1>5, <1>6, <1>7, <1>8, <1>9, <1>10, <1>11, RenderStep
<1>13. anUsed' \in [AnCounters -> Nat]
  BY <1>1, UsesAreCounted DEF AnCounters
<1>14. HistoryGoesOn
  <2>1. "history" \in Analysis
    BY DEF Analysis
  <2>2. PICK key \in AnKeys \cup {NoAnalysis} : anQuery'["history"] = Observed("history", anQuery["history"], key)
    BY <1>3, <1>5, <1>12, <2>1, KeyOfIsKey
  <2> QED BY <1>6, <2>1, <2>2, ObservedIsTold DEF HistoryGoesOn
<1> QED BY <1>1, <1>2, <1>3, <1>5, <1>12, <1>13, <1>14 DEF AnalysisTypes, SaverIsOpen

\* An answer, or a failure: what is asked for stays, under the key it is asked for.
LEMMA AnswerIsKept ==
  ASSUME AnalysisCore, NEW kind \in Analysis, AnswerQuery(kind) \/ FailQuery(kind)
  PROVE  /\ AnalysisCore'
         /\ AnswerQuery(kind) /\ kind = "history" /\ ~ anQuery'[kind].late =>
                /\ anQuery'[kind].status = "done"
                /\ anQuery'[kind].data.lists = anSaved \/ (~ anQuery[kind].late /\ anQuery'[kind].data.lists = anQuery[kind].since)
         /\ AnswerQuery(kind) /\ kind # "history" => anQuery'["history"] = anQuery["history"]
<1> USE DEF AnalysisCore
<1> DEFINE old == anQuery[kind]
<1>1. /\ anOpen = TRUE /\ anOpen' = TRUE /\ old.status = "asked"
      /\ UNCHANGED <<anCached, anSelected, anSaved, anDelete, anSaving>>
  BY DEF AnswerQuery, FailQuery, AnalysisTypes
<1>2. old \in AnQueries /\ Told(kind, old) /\ old.key # NoAnalysis /\ old.key \in AnKeys
  BY <1>1 DEF AnalysisTypes, QueriesAreTold, Told, AnQueries
<1>3. anQuery \in [Analysis -> AnQueries] /\ \A k \in Analysis : Told(k, anQuery[k])
  BY DEF AnalysisTypes, QueriesAreTold
<1>4. anUsed' \in [AnCounters -> Nat]
  <2>1. UNCHANGED anUsed \/ Use("faults")
    BY DEF AnswerQuery, FailQuery
  <2> QED BY <2>1, UsesAreCounted DEF AnCounters, AnalysisTypes
<1>5. anInput \in Inputs /\ anSettled \in Benchmark
  BY DEF AnalysisTypes
<1>6. \A k \in Analysis : anQuery[k].key = KeyOf(k, anAsked, anToken, anInput, anSettled)
  BY <1>1 DEF QueriesAreTold
<1>7. ASSUME NEW new \in AnQueries, Told(kind, new), new.key = old.key, new.status \in {"done", "failed"},
             RenderData([anQuery EXCEPT ![kind] = new]), anCut' \in BOOLEAN, anCut => anCut',
             kind = "attribution" /\ new.status = "failed" => anCut'
      PROVE  AnalysisCore' /\ anQuery'[kind] = new /\ \A k \in Analysis \ {kind} : anQuery'[k] = anQuery[k]
  <2> DEFINE query == [anQuery EXCEPT ![kind] = new]
  <2>1. query \in [Analysis -> AnQueries] /\ query[kind] = new /\ \A k \in Analysis \ {kind} : query[k] = anQuery[k]
    BY <1>3, <1>7
  <2>2. Render(anAsked, anToken, anInput, anSettled, query)
    BY <1>1, <1>7 DEF RenderData
  <2>3. \A k \in Analysis : Told(k, query[k]) /\ query[k].key = anQuery[k].key
    BY <1>3, <1>7, <2>1
  <2>4. query["attribution"].status = "idle" => query["attribution"] = anQuery["attribution"]
    BY <1>7, <2>1 DEF Analysis
  <2>5. anQuery["attribution"].status = "asked" => query["attribution"].status \in {"asked", "done"} \/ anCut'
    BY <1>7, <2>1 DEF Analysis
  <2>6. "attribution" \in Analysis
    BY DEF Analysis
  <2> HIDE DEF query, AnalysisCore
  <2>7. /\ UNCHANGED <<anAsked, anToken>> /\ anInput' = anInput /\ anSettled' = anSettled
        /\ anQuery' \in [Analysis -> AnQueries] /\ anSession' \in [Analysis -> AnFilings]
        /\ QueriesAreTold' /\ FilingsAreTrue'
        /\ \A k \in Analysis :
             anQuery'[k] = Observed(k, query[k], KeyOf(k, anAsked, anToken, anInput, anSettled))
    BY <1>1, <1>5, <1>7, <2>1, <2>2, <2>3, <2>4, <2>5, <2>6, RenderAgain DEF AnalysisCore
  <2>8. \A k \in Analysis : anQuery'[k] = query[k]
    BY <1>6, <2>3, <2>7 DEF Observed
  <2> QED BY <1>1, <1>4, <1>5, <1>7, <2>1, <2>7, <2>8 DEF AnalysisCore, AnalysisTypes, SaverIsOpen
<1>8. CASE AnswerQuery(kind)
  <2>1. PICK listed \in IF kind = "history" THEN {old.since, anSaved} ELSE {{}} :
          RenderData([anQuery EXCEPT ![kind] =
            [NoQuery EXCEPT !.key = old.key, !.status = "done", !.data = [of |-> old.key[1], lists |-> listed],
                            !.late = old.late /\ listed # anSaved]])
    BY <1>8 DEF AnswerQuery
  <2>2. listed \in SUBSET SnapshotVersion /\ old.key[1] \in AnRequests
    BY <1>2 DEF AnQueries, AnKeys, AnalysisTypes
  <2>3. PICK data \in AnResults : data = [of |-> old.key[1], lists |-> listed]
    BY <2>2 DEF AnResults
  <2>4. data # NoAnalysis /\ data.of = old.key[1] /\ data.lists = listed
    BY <2>3, AnNothing DEF AnResults
  <2>5. PICK late \in BOOLEAN : late <=> (old.late /\ listed # anSaved)
    OBVIOUS
  <2>6. PICK new : new = [NoQuery EXCEPT !.key = old.key, !.status = "done", !.data = data, !.late = late]
    OBVIOUS
  <2>7. new \in AnQueries /\ new.key = old.key /\ new.status = "done" /\ new.data = data /\ (new.late <=> late)
    BY <1>2, <2>6 DEF NoQuery, AnQueries
  <2>8. new = [NoQuery EXCEPT !.key = old.key, !.status = "done", !.data = [of |-> old.key[1], lists |-> listed],
                              !.late = old.late /\ listed # anSaved]
    <3>1. late = (old.late /\ listed # anSaved)
      BY <2>5, Zenon
    <3> QED BY <2>3, <2>6, <3>1, Zenon
  <2>9. Told(kind, new)
    BY <1>2, <2>4, <2>7 DEF Told
  <2>10. UNCHANGED anCut /\ anCut \in BOOLEAN
    BY <1>8 DEF AnswerQuery, AnalysisTypes
  <2>11. RenderData([anQuery EXCEPT ![kind] = new])
    BY <2>1, <2>8, Zenon
  <2> HIDE DEF old, AnalysisCore
  <2>12. AnalysisCore' /\ anQuery'[kind] = new /\ \A k \in Analysis \ {kind} : anQuery'[k] = anQuery[k]
    BY <1>7, <2>7, <2>9, <2>10, <2>11
  <2>13. kind = "history" => listed \in {old.since, anSaved}
    OBVIOUS
  <2>14. kind # "history" => anQuery'["history"] = anQuery["history"]
    BY <2>12 DEF Analysis
  <2>15. kind = "history" /\ ~ anQuery'[kind].late =>
           /\ anQuery'[kind].status = "done"
           /\ anQuery'[kind].data.lists = anSaved \/ (~ anQuery[kind].late /\ anQuery'[kind].data.lists = anQuery[kind].since)
    BY <2>4, <2>5, <2>7, <2>12, <2>13 DEF old
  <2> QED BY <2>12, <2>14, <2>15
<1>9. CASE FailQuery(kind)
  <2>1. RenderData([anQuery EXCEPT ![kind].status = "failed"])
    BY <1>9 DEF FailQuery
  <2>2. PICK new : new = [old EXCEPT !.status = "failed"]
    OBVIOUS
  <2>3. new \in AnQueries /\ new.key = old.key /\ new.status = "failed" /\ new.data = old.data
    BY <1>2, <2>2 DEF AnQueries
  <2>4. Told(kind, new)
    BY <1>1, <1>2, <2>3 DEF Told
  <2>5. RenderData([anQuery EXCEPT ![kind] = new])
    BY <2>1, <2>2, Zenon
  <2>6. anCut' \in BOOLEAN /\ (anCut => anCut') /\ (kind = "attribution" => anCut')
    BY <1>9, Zenon DEF FailQuery, AnalysisTypes
  <2>7. anUsed' # anUsed
    BY <1>9, UsesAreCounted DEF FailQuery, Use, AnalysisTypes, AnCounters
  <2>8. ~ AnswerQuery(kind)
    BY <2>7 DEF AnswerQuery
  <2> HIDE DEF old, AnalysisCore
  <2> QED BY <1>7, <2>3, <2>4, <2>5, <2>6, <2>8
<1> QED BY <1>8, <1>9

LEMMA WritesAreKept ==
  ASSUME AnalysisCore,
         \/ SaveSnapshot \/ SnapshotServed
         \/ \E v \in SnapshotVersion : DeleteSnapshot(v) \/ DeleteServed(v) \/ DeleteLost(v)
  PROVE  AnalysisCore' /\ UNCHANGED <<anOpen, anQuery, anSelected>>
<1>1. UNCHANGED <<anOpen, anInput, anSettled, anAsked, anToken, anQuery, anSession, anCached, anCut, anSelected>>
  BY DEF SaveSnapshot, SnapshotServed, DeleteSnapshot, DeleteServed, DeleteLost
<1>2. QueriesAreTold' /\ FilingsAreTrue'
  BY <1>1, AnalysisStays DEF AnalysisCore
<1>3. anSaved' \in SUBSET SnapshotVersion
  BY DEF SaveSnapshot, SnapshotServed, DeleteSnapshot, DeleteServed, DeleteLost, AnalysisCore, AnalysisTypes
<1>4. anDelete' \in [SnapshotVersion -> [phase : AnPhases, selected : BOOLEAN]]
  <2>1. NoRequest \in [phase : AnPhases, selected : BOOLEAN]
    BY DEF NoRequest, AnPhases
  <2>2. CASE SaveSnapshot \/ SnapshotServed
    BY <2>2 DEF SaveSnapshot, SnapshotServed, AnalysisCore, AnalysisTypes
  <2>3. ASSUME NEW v \in SnapshotVersion, DeleteSnapshot(v) PROVE anDelete' \in [SnapshotVersion -> [phase : AnPhases, selected : BOOLEAN]]
    <3>1. PICK selected \in BOOLEAN : anDelete' = [anDelete EXCEPT ![v] = [phase |-> "asked", selected |-> selected]]
      <4>1. (anSelected = v) \in BOOLEAN
        OBVIOUS
      <4> QED BY <2>3, <4>1, Zenon DEF DeleteSnapshot
    <3> QED BY <3>1 DEF AnalysisCore, AnalysisTypes, AnPhases
  <2>4. ASSUME NEW v \in SnapshotVersion, DeleteServed(v) PROVE anDelete' \in [SnapshotVersion -> [phase : AnPhases, selected : BOOLEAN]]
    BY <2>4 DEF DeleteServed, AnalysisCore, AnalysisTypes, AnPhases
  <2>5. ASSUME NEW v \in SnapshotVersion, DeleteLost(v) PROVE anDelete' \in [SnapshotVersion -> [phase : AnPhases, selected : BOOLEAN]]
    BY <2>1, <2>5 DEF DeleteLost, AnalysisCore, AnalysisTypes
  <2> QED BY <2>2, <2>3, <2>4, <2>5
<1>5. anSaving' \in [phase : AnPhases, page : BOOLEAN]
  <2>1. anSaving \in [phase : AnPhases, page : BOOLEAN]
    BY DEF AnalysisCore, AnalysisTypes
  <2>2. CASE SaveSnapshot
    <3>1. [phase |-> "asked", page |-> TRUE] \in [phase : AnPhases, page : BOOLEAN]
      BY DEF AnPhases
    <3> QED BY <2>2, <3>1, Zenon DEF SaveSnapshot
  <2>3. CASE SnapshotServed
    BY <2>1, <2>3 DEF SnapshotServed, AnPhases
  <2> QED BY <2>1, <2>2, <2>3 DEF DeleteSnapshot, DeleteServed, DeleteLost
<1>6. anUsed' \in [AnCounters -> Nat]
  <2>1. UNCHANGED anUsed \/ Use("writes") \/ Use("faults")
    BY DEF SaveSnapshot, SnapshotServed, DeleteSnapshot, DeleteServed, DeleteLost
  <2> QED BY <2>1, UsesAreCounted DEF AnCounters, AnalysisCore, AnalysisTypes
<1>7. SaverIsOpen'
  BY DEF SaveSnapshot, SnapshotServed, DeleteSnapshot, DeleteServed, DeleteLost, AnalysisCore, AnalysisTypes, SaverIsOpen
<1> QED BY <1>1, <1>2, <1>3, <1>4, <1>5, <1>6, <1>7 DEF AnalysisCore, AnalysisTypes

\* Once a write is answered, a history that is not late was asked for what is saved.
LEMMA WriteAnswersAreKept ==
  ASSUME AnalysisCore, SnapshotSaved \/ \E v \in SnapshotVersion : DeleteAnswered(v)
  PROVE  /\ AnalysisCore' /\ UNCHANGED <<anOpen, anSaved, anUsed>>
         /\ ~ anQuery'["history"].late =>
              \/ anQuery'["history"].status = "idle"
              \/ anQuery'["history"].status = "asked" /\ anQuery'["history"].since = anSaved
<1> USE DEF AnalysisCore
<1>1. UNCHANGED <<anOpen, anCached, anSaved, anCut, anUsed>>
  BY DEF SnapshotSaved, DeleteAnswered
<1>2. anSelected' \in SnapshotVersion \cup {NoAnalysis}
  BY DEF SnapshotSaved, DeleteAnswered, AnalysisTypes
<1>3. anSaving' \in [phase : AnPhases, page : BOOLEAN]
  <2>1. [phase |-> "no", page |-> FALSE] \in [phase : AnPhases, page : BOOLEAN]
    BY DEF AnPhases
  <2>2. anSaving' = [phase |-> "no", page |-> FALSE] \/ UNCHANGED anSaving
    BY DEF SnapshotSaved, DeleteAnswered
  <2> QED BY <2>1, <2>2, Zenon DEF AnalysisTypes
<1>4. anDelete' \in [SnapshotVersion -> [phase : AnPhases, selected : BOOLEAN]]
  <2>1. NoRequest \in [phase : AnPhases, selected : BOOLEAN]
    BY DEF NoRequest, AnPhases
  <2> QED BY <2>1 DEF SnapshotSaved, DeleteAnswered, AnalysisTypes
<1>5. SaverIsOpen'
  BY DEF SnapshotSaved, DeleteAnswered, AnalysisTypes, SaverIsOpen
<1> DEFINE query == Invalidated(anQuery)
<1>6. /\ query \in [Analysis -> AnQueries]
      /\ \A kind \in Analysis : Told(kind, query[kind]) /\ query[kind].key = anQuery[kind].key
      /\ \A kind \in Analysis \ {"history"} : query[kind] = anQuery[kind]
      /\ ~ query["history"].late => \/ query["history"].status = "idle"
                                    \/ query["history"].status = "asked" /\ query["history"].since = anSaved
  BY InvalidatedIsTold
<1>7. anOpen => \E entry \in Inputs : Render(anAsked, anToken, entry, anSettled, query)
  <2>1. anInput \in Inputs /\ [anInput EXCEPT !.mode = "snapshot"] \in Inputs
    BY DEF AnalysisTypes, Inputs
  <2>2. CASE SnapshotSaved /\ anSaving.page
    BY <2>1, <2>2 DEF SnapshotSaved
  <2>3. CASE ~ (SnapshotSaved /\ anSaving.page)
    <3>1. RenderData(query)
      BY <2>3 DEF SnapshotSaved, DeleteAnswered
    <3> QED BY <2>1, <3>1 DEF RenderData
  <2> QED BY <2>2, <2>3
<1>8. CASE ~ anOpen
  <2>1. ~ (SnapshotSaved /\ anSaving.page)
    BY <1>8 DEF SaverIsOpen
  <2>2. RenderData(query)
    BY <2>1 DEF SnapshotSaved, DeleteAnswered
  <2>3. UNCHANGED <<anAsked, anToken, anInput, anSettled, anQuery, anSession>>
    BY <1>8, <2>2 DEF RenderData
  <2>4. QueriesAreTold' /\ FilingsAreTrue'
    BY <1>1, <2>3, AnalysisStays
  <2>5. anQuery["history"].status = "idle"
    BY <1>8, NoQueryIsTold DEF QueriesAreTold, Unstarted, Analysis
  <2> QED BY <1>1, <1>2, <1>3, <1>4, <1>5, <2>3, <2>4, <2>5 DEF AnalysisTypes
<1>9. CASE anOpen = TRUE
  <2>1. "attribution" \in Analysis /\ "history" \in Analysis /\ query["attribution"] = anQuery["attribution"]
    BY <1>6 DEF Analysis
  <2> HIDE DEF query
  <2>2. PICK entry \in Inputs : Render(anAsked, anToken, entry, anSettled, query)
    BY <1>7, <1>9
  <2>3. anSettled \in Benchmark
    BY DEF AnalysisTypes
  <2>4. query["attribution"].status \in {"idle", "asked", "done", "failed"}
    BY <1>6, <2>1 DEF AnQueries
  <2>5. anOpen' = TRUE /\ anCut => anCut'
    BY <1>1, <1>9
  <2>6. /\ UNCHANGED <<anAsked, anToken>> /\ anInput' = entry /\ anSettled' = anSettled
        /\ anQuery' \in [Analysis -> AnQueries] /\ anSession' \in [Analysis -> AnFilings]
        /\ QueriesAreTold' /\ FilingsAreTrue'
        /\ \A kind \in Analysis :
             anQuery'[kind] = Observed(kind, query[kind], KeyOf(kind, anAsked, anToken, entry, anSettled))
    BY <1>1, <1>6, <1>9, <2>1, <2>2, <2>3, <2>4, <2>5, RenderAgain
  <2>7. PICK key \in AnKeys \cup {NoAnalysis} : anQuery'["history"] = Observed("history", query["history"], key)
    BY <2>1, <2>2, <2>3, <2>6, KeyOfIsKey DEF AnalysisTypes
  <2>8. ~ anQuery'["history"].late =>
          \/ anQuery'["history"].status = "idle"
          \/ anQuery'["history"].status = "asked" /\ anQuery'["history"].since = anSaved
    BY <1>6, <2>1, <2>7, ObservedIsTold
  <2> QED BY <1>1, <1>2, <1>3, <1>4, <1>5, <2>2, <2>3, <2>6, <2>8 DEF AnalysisTypes
<1> QED BY <1>8, <1>9 DEF AnalysisTypes

LEMMA CoreStep == AnalysisCore /\ [AnNext]_anVars => AnalysisCore'
<1> SUFFICES ASSUME AnalysisCore, [AnNext]_anVars PROVE AnalysisCore'
  OBVIOUS
<1>1. CASE UNCHANGED anVars
  <2>1. QueriesAreTold' /\ FilingsAreTrue'
    BY <1>1, AnalysisStays DEF anVars, AnalysisCore
  <2> QED BY <1>1, <2>1 DEF anVars, AnalysisCore, AnalysisTypes, SaverIsOpen
<1>2. CASE OpenPage \/ LeavePage
  BY <1>2, OpenIsKept, LeaveIsKept
<1>3. CASE ChangeInput \/ SettleBenchmark \/ \E v \in SnapshotVersion : SelectSnapshot(v)
  BY <1>3, ControlsAreKept
<1>4. CASE RefreshAnalysis
  BY <1>4, RefreshIsKept
<1>5. CASE \E kind \in Analysis : AnswerQuery(kind) \/ FailQuery(kind)
  BY <1>5, AnswerIsKept
<1>6. CASE \/ SaveSnapshot \/ SnapshotServed
           \/ \E v \in SnapshotVersion : DeleteSnapshot(v) \/ DeleteServed(v) \/ DeleteLost(v)
  BY <1>6, WritesAreKept
<1>7. CASE SnapshotSaved \/ \E v \in SnapshotVersion : DeleteAnswered(v)
  BY <1>7, WriteAnswersAreKept
<1> QED BY <1>1, <1>2, <1>3, <1>4, <1>5, <1>6, <1>7 DEF AnNext

\* A history that goes on while nothing is written.
LEMMA HistoryStays ==
  ASSUME HistoryIsTold, HistoryGoesOn, UNCHANGED <<anSaved, anDelete, anSaving>>
  PROVE  HistoryIsTold'
<1>1. \A stored : UpToWrites(stored) <=> UpToWrites(stored)'
  BY DEF UpToWrites
<1>2. CASE anQuery'["history"] = anQuery["history"]
  BY <1>1, <1>2 DEF HistoryIsTold, UpToWrites
<1>3. CASE anQuery'["history"] # anQuery["history"]
  BY <1>3 DEF HistoryGoesOn, HistoryIsTold, UpToWrites
<1> QED BY <1>2, <1>3

HistoryKept == HistoryIsTold /\ SelectionIsSaved

LEMMA ControlsKeepHistory ==
  ASSUME AnPatient = TRUE, AnalysisCore, HistoryKept,
         ChangeInput \/ SettleBenchmark \/ RefreshAnalysis \/ \E v \in SnapshotVersion : SelectSnapshot(v)
  PROVE  HistoryKept'
<1>1. UNCHANGED <<anSaved, anDelete, anSaving>> /\ anOpen /\ anOpen'
  BY DEF ChangeInput, SettleBenchmark, RefreshAnalysis, SelectSnapshot
<1>2. HistoryIsTold'
  BY <1>1, HistoryStays, ControlsAreKept, RefreshIsKept DEF HistoryKept
<1>3. CASE ChangeInput \/ SettleBenchmark \/ RefreshAnalysis
  <2>1. anSelected' \in {anSelected, NoAnalysis}
    BY <1>3 DEF ChangeInput, SettleBenchmark, RefreshAnalysis
  <2> QED BY <1>1, <1>2, <2>1 DEF HistoryKept, SelectionIsSaved
<1>4. ASSUME NEW v \in SnapshotVersion, SelectSnapshot(v) PROVE HistoryKept'
  <2> DEFINE history == anQuery["history"]
  <2>1. /\ history.status = "done" /\ ~ history.late /\ anDelete[v].phase = "no"
        /\ v \in Listed /\ anSelected' = v
    BY <1>4 DEF SelectSnapshot
  <2>2. history.data # NoAnalysis
    BY <2>1 DEF AnalysisCore, QueriesAreTold, Told, Analysis
  <2>3. v \in history.data.lists
    BY <2>1, <2>2 DEF Listed, Shown, Data
  <2>4. v \in anSaved
    BY <2>1, <2>3 DEF HistoryKept, HistoryIsTold, UpToWrites
  <2> QED BY <1>1, <1>2, <2>1, <2>4 DEF HistoryKept, SelectionIsSaved
<1> QED BY <1>3, <1>4

LEMMA WritesKeepHistory ==
  ASSUME AnalysisCore, HistoryKept, anUsed["faults"] = 0, anUsed'["faults"] = 0,
         \/ SaveSnapshot \/ SnapshotServed
         \/ \E v \in SnapshotVersion : DeleteSnapshot(v) \/ DeleteServed(v) \/ DeleteLost(v)
  PROVE  HistoryKept'
<1>1. UNCHANGED <<anOpen, anQuery, anSelected>>
  BY WritesAreKept
<1>2. SUFFICES /\ \A stored \in SUBSET SnapshotVersion : UpToWrites(stored) => UpToWrites(stored)'
               /\ SelectionIsSaved'
  <2>1. anQuery["history"].since \in SUBSET SnapshotVersion
    BY DEF AnalysisCore, AnalysisTypes, AnQueries, Analysis
  <2>2. anQuery["history"].status = "done" => anQuery["history"].data.lists \in SUBSET SnapshotVersion
    <3>1. "history" \in Analysis
      BY DEF Analysis
    <3>2. anQuery["history"] \in AnQueries /\ Told("history", anQuery["history"])
      BY <3>1 DEF AnalysisCore, AnalysisTypes, QueriesAreTold
    <3> QED BY <3>2 DEF Told, AnQueries, AnResults
  <2> QED BY <1>1, <1>2, <2>1, <2>2 DEF HistoryKept, HistoryIsTold, UpToWrites
<1>3. anDelete \in [SnapshotVersion -> [phase : AnPhases, selected : BOOLEAN]] /\ anSaving \in [phase : AnPhases, page : BOOLEAN]
      /\ anSelected \in SnapshotVersion \cup {NoAnalysis}
  BY DEF AnalysisCore, AnalysisTypes
<1>4. CASE SaveSnapshot
  BY <1>1, <1>4 DEF SaveSnapshot, UpToWrites, HistoryKept, SelectionIsSaved
<1>5. CASE SnapshotServed
  <2>1. anSaved \subseteq anSaved' /\ anSaving'.phase = "served" /\ UNCHANGED anDelete
    BY <1>3, <1>5 DEF SnapshotServed
  <2> QED BY <1>1, <2>1 DEF UpToWrites, HistoryKept, SelectionIsSaved
<1>6. ASSUME NEW v \in SnapshotVersion, DeleteSnapshot(v)
      PROVE  (\A stored \in SUBSET SnapshotVersion : UpToWrites(stored) => UpToWrites(stored)') /\ SelectionIsSaved'
  <2>1. /\ anDelete[v].phase = "no" /\ anDelete'[v].phase = "asked" /\ (anSelected = v => anDelete'[v].selected)
        /\ \A w \in SnapshotVersion \ {v} : anDelete'[w] = anDelete[w]
        /\ UNCHANGED <<anSaved, anSaving>>
    BY <1>3, <1>6 DEF DeleteSnapshot
  <2>2. \A stored \in SUBSET SnapshotVersion : UpToWrites(stored) => UpToWrites(stored)'
    BY <2>1 DEF UpToWrites
  <2>3. SelectionIsSaved'
    BY <1>1, <1>3, <2>1 DEF HistoryKept, SelectionIsSaved
  <2> QED BY <2>2, <2>3
<1>7. ASSUME NEW v \in SnapshotVersion, DeleteServed(v)
      PROVE  (\A stored \in SUBSET SnapshotVersion : UpToWrites(stored) => UpToWrites(stored)') /\ SelectionIsSaved'
  <2>1. /\ anDelete[v].phase = "asked" /\ anDelete'[v].phase = "served" /\ anDelete'[v].selected = anDelete[v].selected
        /\ \A w \in SnapshotVersion \ {v} : anDelete'[w] = anDelete[w]
        /\ anSaved' = anSaved \ {v} /\ UNCHANGED anSaving
    BY <1>3, <1>7 DEF DeleteServed
  <2>2. \A stored \in SUBSET SnapshotVersion : UpToWrites(stored) => UpToWrites(stored)'
    BY <2>1 DEF UpToWrites
  <2>3. SelectionIsSaved'
    BY <1>1, <1>3, <2>1 DEF HistoryKept, SelectionIsSaved
  <2> QED BY <2>2, <2>3
<1>8. ASSUME NEW v \in SnapshotVersion, DeleteLost(v)
      PROVE  (\A stored \in SUBSET SnapshotVersion : UpToWrites(stored) => UpToWrites(stored)') /\ SelectionIsSaved'
  <2>1. anDelete[v].phase = "asked" /\ v \notin anSaved
    <3>1. ~ Use("faults")
      BY UsesAreCounted DEF AnalysisCore, AnCounters
    <3> QED BY <1>8, <3>1 DEF DeleteLost
  <2>2. /\ anDelete'[v] = NoRequest /\ \A w \in SnapshotVersion \ {v} : anDelete'[w] = anDelete[w]
        /\ UNCHANGED <<anSaved, anSaving>>
    BY <1>3, <1>8 DEF DeleteLost
  <2>3. \A stored \in SUBSET SnapshotVersion : UpToWrites(stored) => UpToWrites(stored)'
    BY <2>1, <2>2 DEF UpToWrites
  <2>4. SelectionIsSaved'
    BY <1>1, <1>3, <2>1, <2>2 DEF HistoryKept, SelectionIsSaved
  <2> QED BY <2>3, <2>4
<1> QED BY <1>4, <1>5, <1>6, <1>7, <1>8

LEMMA WriteAnswersKeepHistory ==
  ASSUME AnalysisCore, HistoryKept, SnapshotSaved \/ \E v \in SnapshotVersion : DeleteAnswered(v)
  PROVE  HistoryKept'
<1>1. /\ UNCHANGED <<anOpen, anSaved>>
      /\ ~ anQuery'["history"].late =>
           \/ anQuery'["history"].status = "idle"
           \/ anQuery'["history"].status = "asked" /\ anQuery'["history"].since = anSaved
  BY WriteAnswersAreKept
<1>2. HistoryIsTold'
  BY <1>1 DEF HistoryIsTold, UpToWrites
<1>3. CASE SnapshotSaved
  <2>1. anSelected' \in {anSelected, NoAnalysis} /\ UNCHANGED anDelete
    BY <1>3 DEF SnapshotSaved
  <2> QED BY <1>1, <1>2, <2>1 DEF HistoryKept, SelectionIsSaved
<1>4. ASSUME NEW v \in SnapshotVersion, DeleteAnswered(v) PROVE HistoryKept'
  <2>1. /\ anDelete[v].phase = "served" /\ \A w \in SnapshotVersion \ {v} : anDelete'[w] = anDelete[w]
        /\ anSelected' = IF anDelete[v].selected THEN NoAnalysis ELSE anSelected
    BY <1>4 DEF DeleteAnswered, AnalysisCore, AnalysisTypes
  <2>2. anSelected \in SnapshotVersion \cup {NoAnalysis}
    BY DEF AnalysisCore, AnalysisTypes
  <2> QED BY <1>1, <1>2, <2>1, <2>2 DEF HistoryKept, SelectionIsSaved
<1> QED BY <1>3, <1>4

LEMMA AnalysisStep ==
  ASSUME AnPatient = TRUE
  PROVE  AnalysisInv /\ [AnNext]_anVars => AnalysisInv'
<1> SUFFICES ASSUME AnalysisInv, [AnNext]_anVars PROVE AnalysisInv'
  OBVIOUS
<1>1. AnalysisCore /\ AnalysisCore'
  BY CoreStep DEF AnalysisInv
<1>2. SUFFICES ASSUME anUsed'["faults"] = 0 PROVE HistoryKept'
  BY <1>1, <1>2 DEF AnalysisInv, HistoryKept
<1>3. ~ Use("faults")
  BY <1>1, <1>2, UsesAreCounted DEF AnalysisCore, AnCounters
<1>4. anUsed["faults"] = 0
  <2>1. UNCHANGED anUsed \/ \E what \in AnCounters \ {"faults"} : Use(what)
    BY <1>3 DEF AnNext, OpenPage, LeavePage, ChangeInput, SettleBenchmark, RefreshAnalysis, AnswerQuery, FailQuery,
                SelectSnapshot, DeleteSnapshot, DeleteServed, DeleteAnswered, DeleteLost, SaveSnapshot,
                SnapshotServed, SnapshotSaved, AnCounters, anVars
  <2> QED BY <1>1, <1>2, <2>1, UsesAreCounted DEF AnalysisCore
<1>5. HistoryKept
  BY <1>4 DEF AnalysisInv, HistoryKept
<1>6. CASE UNCHANGED anVars
  <2>1. HistoryIsTold'
    BY <1>5, <1>6, HistoryStays DEF HistoryKept, HistoryGoesOn, anVars
  <2> QED BY <1>5, <1>6, <2>1 DEF HistoryKept, SelectionIsSaved, anVars
<1>7. CASE OpenPage
  <2>1. anSelected' = NoAnalysis /\ anToken' = 0 /\ anOpen' = TRUE
    BY <1>7 DEF OpenPage, Render
  <2>2. anQuery'["history"].key = NoAnalysis
    BY <1>1, <2>1 DEF AnalysisCore, QueriesAreTold, KeyOf, Analysis
  <2>3. anQuery'["history"].status = "idle"
    BY <1>1, <2>2 DEF AnalysisCore, QueriesAreTold, Told, Analysis
  <2> QED BY <2>1, <2>3 DEF HistoryKept, HistoryIsTold, SelectionIsSaved
<1>8. CASE LeavePage
  BY <1>8, NoQueryIsTold DEF LeavePage, HistoryKept, HistoryIsTold, SelectionIsSaved, Unstarted, Analysis
<1>9. CASE ChangeInput \/ SettleBenchmark \/ RefreshAnalysis \/ \E v \in SnapshotVersion : SelectSnapshot(v)
  BY <1>1, <1>5, <1>9, ControlsKeepHistory
<1>10. ASSUME NEW kind \in Analysis, AnswerQuery(kind) PROVE HistoryKept'
  <2>1. UNCHANGED <<anOpen, anSelected, anSaved, anDelete, anSaving>> /\ anQuery[kind].status = "asked"
    BY <1>10 DEF AnswerQuery
  <2>2. SelectionIsSaved'
    BY <1>5, <2>1 DEF HistoryKept, SelectionIsSaved
  <2>3. CASE kind = "history"
    <3>1. ~ anQuery'["history"].late =>
            /\ anQuery'["history"].status = "done"
            /\ \/ anQuery'["history"].data.lists = anSaved
               \/ ~ anQuery["history"].late /\ anQuery'["history"].data.lists = anQuery["history"].since
      BY <1>1, <1>10, <2>3, AnswerIsKept
    <3>2. HistoryIsTold'
      BY <1>5, <2>1, <2>3, <3>1 DEF HistoryKept, HistoryIsTold, UpToWrites
    <3> QED BY <2>2, <3>2 DEF HistoryKept
  <2>4. CASE kind # "history"
    <3>1. anQuery'["history"] = anQuery["history"]
      BY <1>1, <1>10, <2>4, AnswerIsKept
    <3>2. HistoryIsTold'
      BY <1>5, <2>1, <3>1, HistoryStays DEF HistoryKept, HistoryGoesOn
    <3> QED BY <2>2, <3>2 DEF HistoryKept
  <2> QED BY <2>3, <2>4
<1>11. ASSUME NEW kind \in Analysis PROVE ~ FailQuery(kind)
  BY <1>3 DEF FailQuery
<1>12. CASE \/ SaveSnapshot \/ SnapshotServed
            \/ \E v \in SnapshotVersion : DeleteSnapshot(v) \/ DeleteServed(v) \/ DeleteLost(v)
  BY <1>1, <1>2, <1>4, <1>5, <1>12, WritesKeepHistory
<1>13. CASE SnapshotSaved \/ \E v \in SnapshotVersion : DeleteAnswered(v)
  BY <1>1, <1>5, <1>13, WriteAnswersKeepHistory
<1> QED BY <1>6, <1>7, <1>8, <1>9, <1>10, <1>11, <1>12, <1>13 DEF AnNext

LEMMA AnalysisBegins == AnInit => AnalysisInv
<1> SUFFICES ASSUME AnInit PROVE AnalysisInv
  OBVIOUS
<1>1. anInput \in Inputs
  <2>1. PICK b \in Benchmark, k \in Book \ PausedBook, d \in DateFilter : TRUE
    BY AnAssumption
  <2>2. [mode |-> "snapshot", benchmark |-> b, book |-> k, dates |-> d] \in Inputs
    BY <2>1 DEF Inputs
  <2>3. [mode |-> "snapshot", benchmark |-> b, book |-> k, dates |-> d].mode = "snapshot"
        /\ [mode |-> "snapshot", benchmark |-> b, book |-> k, dates |-> d].book \notin PausedBook
    BY <2>1
  <2>4. \E i \in Inputs : i.mode = "snapshot" /\ i.book \notin PausedBook
    BY <2>2, <2>3, Zenon
  <2>5. (CHOOSE i \in Inputs : i.mode = "snapshot" /\ i.book \notin PausedBook) \in Inputs
    BY <2>4
  <2> QED BY <2>5 DEF AnInit
<1>2. anSettled \in Benchmark
  BY <1>1 DEF AnInit, Inputs
<1>3. NothingAsked \in [Analysis -> AnRequests \cup {NoAnalysis}] /\ \A kind \in Analysis : NothingAsked[kind] = NoAnalysis
  BY DEF NothingAsked
<1>4. Unstarted \in [Analysis -> AnQueries] /\ \A kind \in Analysis : Unstarted[kind] = NoQuery
  BY NoQueryIsTold DEF Unstarted
<1>5. NothingStored \in [Analysis -> AnFilings] /\ \A kind \in Analysis : FilingIsTrue(NothingStored[kind])
  BY DEF NothingStored, AnFilings, FilingIsTrue
<1>6. anSaved \in SUBSET SnapshotVersion
  BY AnAssumption DEF AnInit
<1>7. anDelete \in [SnapshotVersion -> [phase : AnPhases, selected : BOOLEAN]]
  <2>1. NoRequest \in [phase : AnPhases, selected : BOOLEAN]
    BY DEF NoRequest, AnPhases
  <2> QED BY <2>1 DEF AnInit
<1>8. anSaving \in [phase : AnPhases, page : BOOLEAN] /\ ~ anSaving.page
  <2>1. [phase |-> "no", page |-> FALSE] \in [phase : AnPhases, page : BOOLEAN]
    BY DEF AnPhases
  <2> QED BY <2>1 DEF AnInit
<1>9. anUsed \in [AnCounters -> Nat]
  BY DEF AnInit, AnCounters
<1>10. AnalysisTypes
  <2>1. /\ anOpen = FALSE /\ anAsked = NothingAsked /\ anToken = 0 /\ anQuery = Unstarted
        /\ anSession = NothingStored /\ anCached = NothingStored /\ anSelected = NoAnalysis /\ anCut = FALSE
    BY DEF AnInit
  <2>2. anOpen \in BOOLEAN /\ anCut \in BOOLEAN
    BY <2>1
  <2> QED BY <1>1, <1>2, <1>3, <1>4, <1>5, <1>6, <1>7, <1>8, <1>9, <2>1, <2>2 DEF AnalysisTypes
<1>11. QueriesAreTold
  BY <1>4, NoQueryIsTold DEF AnInit, QueriesAreTold, Analysis
<1>12. FilingsAreTrue /\ SaverIsOpen
  BY <1>5, <1>8 DEF AnInit, FilingsAreTrue, SaverIsOpen
<1>13. HistoryIsTold /\ SelectionIsSaved
  BY <1>4, NoQueryIsTold DEF AnInit, HistoryIsTold, SelectionIsSaved, Analysis
<1> QED BY <1>10, <1>11, <1>12, <1>13 DEF AnalysisInv, AnalysisCore

\* An analysis the portfolio page shows as neither calculating nor stale answers the inputs on screen, also
\* after the page was left and opened again (the queries and session caches of portfolio/page.tsx).
THEOREM AnalysisIsAlwaysCurrent == AnSpec => []FreshIsCurrent
<1>1. AnalysisCore => FreshIsCurrent
  <2> SUFFICES ASSUME AnalysisCore, anOpen, ~ ShownCalculating, ~ ShownStale, NEW kind \in Analysis,
                      Shown(kind) # NoAnalysis, kind = "attribution" => ~ anCut
               PROVE  Shown(kind).of = Current(kind, anInput, anSettled)
    BY DEF FreshIsCurrent
  <2> DEFINE query == anQuery[kind]
             current == Current(kind, anInput, anSettled)
  <2>1. query.status # "asked" /\ (anAsked[kind] # NoAnalysis => anAsked[kind] = current)
    BY DEF ShownCalculating, ShownStale, Outdated
  <2>2. query \in AnQueries /\ Told(kind, query) /\ query.key = KeyOf(kind, anAsked, anToken, anInput, anSettled)
    BY DEF AnalysisCore, AnalysisTypes, QueriesAreTold
  <2>3. CASE Data(kind, query) # NoAnalysis
    <3>1. Shown(kind) = query.data /\ query.data # NoAnalysis
      BY <2>3 DEF Shown, Data
    <3>2. kind = "attribution" => query.status = "done"
      BY <2>1, <2>2, <2>3, <3>1 DEF AnalysisCore, QueriesAreTold, AnQueries, Data
    <3>3. query.key # NoAnalysis /\ query.data.of = query.key[1]
      BY <2>2, <3>1, <3>2 DEF Told
    <3>4. query.key[1] = Effective(kind, anAsked, anInput, anSettled) /\ Effective(kind, anAsked, anInput, anSettled) # NoAnalysis
      BY <2>2, <3>3, KeyOfIsKey DEF AnalysisCore, AnalysisTypes
    <3>5. Effective(kind, anAsked, anInput, anSettled) = current
      BY <2>1, <3>4 DEF Effective
    <3> QED BY <3>1, <3>3, <3>4, <3>5
  <2>4. CASE Data(kind, query) = NoAnalysis
    <3>1. Shown(kind) = anCached[kind].result /\ ~ Outdated(anCached[kind].snapshot, current)
      BY <2>4 DEF Shown
    <3>2. FilingIsTrue(anCached[kind])
      BY DEF AnalysisCore, FilingsAreTrue
    <3> QED BY <3>1, <3>2 DEF FilingIsTrue, Outdated
  <2> QED BY <2>3, <2>4
<1>2. AnInit => AnalysisCore
  BY AnalysisBegins DEF AnalysisInv
<1> QED BY <1>1, <1>2, CoreStep, PTL DEF AnSpec

\* For a user who waits for a write before the next, the history lists the snapshots saved and the one
\* under review is saved (handleDeleteSnapshotVersion, handleRefreshPortfolioSnapshot).
THEOREM ListedAreAlwaysSaved ==
  ASSUME AnPatient = TRUE
  PROVE  AnSpec => []ListedAreSaved
<1>1. AnalysisInv => ListedAreSaved
  <2> DEFINE history == anQuery["history"]
  <2> SUFFICES ASSUME AnalysisInv, anUsed.faults = 0, history.status = "done", ~ history.late,
                      anSaving.phase = "no", \A v \in SnapshotVersion : anDelete[v].phase = "no"
               PROVE  /\ history.data.lists = anSaved /\ anSelected \in anSaved \cup {NoAnalysis}
                      /\ HistoryPanel = IF anSaved = {} THEN "empty" ELSE "list"
    BY DEF ListedAreSaved
  <2>1. HistoryIsTold /\ SelectionIsSaved /\ AnalysisCore
    BY DEF AnalysisInv
  <2>2. "history" \in Analysis
    BY DEF Analysis
  <2>3. history \in AnQueries /\ Told("history", history) /\ anOpen
    <3>1. ~ anOpen => history = NoQuery
      BY <2>1, <2>2 DEF AnalysisCore, QueriesAreTold, Unstarted
    <3> QED BY <2>1, <2>2, <3>1, NoQueryIsTold DEF AnalysisCore, AnalysisTypes, QueriesAreTold
  <2>4. history.data \in AnResults /\ history.data # NoAnalysis
    BY <2>3 DEF Told, AnQueries
  <2>5. history.data.lists = anSaved
    BY <2>1, <2>4 DEF HistoryIsTold, UpToWrites, AnResults
  <2>6. anSelected \in anSaved \cup {NoAnalysis}
    BY <2>1, <2>3 DEF SelectionIsSaved, AnalysisCore, AnalysisTypes
  <2>7. Shown("history") = history.data /\ Listed = anSaved
    BY <2>4, <2>5 DEF Shown, Data, Listed
  <2> QED BY <2>4, <2>5, <2>6, <2>7 DEF HistoryPanel
<1> QED BY <1>1, AnalysisBegins, AnalysisStep, PTL DEF AnSpec

-----------------------------------------------------------------------------
(* The tiles of the portfolio page.                                        *)

TickerNews(k) == [k -> 0..SgMaxNews]
SgQuery(k) ==
  [data : TickerNews(k) \cup {NoSg}, err : BOOLEAN, asked : TickerNews(k) \cup {NoSg},
   late : BOOLEAN, stale : BOOLEAN]

SgResults == UNION {[served -> SgOutcome] : served \in SUBSET SgStock}
SgSummaries ==
  [filter : SgGroups \cup {"all"}, search : SgSearch, asked : SUBSET SgStock, moved : BOOLEAN,
   qualified : BOOLEAN, error : BOOLEAN, counts : {Counts(result) : result \in SgResults}]

GridTypes ==
  /\ sgGroup \in [SgStock -> SgGroups] /\ sgList \in [SgStock -> SgGroups]
  /\ sgFollow \subseteq [stock : SgStock, to : {Followed, Unfollowed}]
  /\ sgFilter \in SgGroups \cup {"all"} /\ sgTyped \in SgSearch /\ sgSettled \in SgSearch
  /\ sgStore \in [SgStock -> 0..SgMaxNews]
  /\ sgNews \in [SgKeys -> UNION {SgQuery(k) : k \in SgKeys}]
  /\ \A k \in SgKeys : sgNews[k] \in SgQuery(k)
  /\ sgRefresh \in SgRefreshes \cup {NoSg} /\ sgSummary \in SgSummaries \cup {NoSg}
  /\ sgCut \subseteq SgKeys

\* News is what is stored, but for the tickers whose news the refresh under way has looked for.
UpToRefresh(k, news) ==
  \A s \in k : news[s] = sgStore[s] \/ (sgRefresh # NoSg /\ s \in DOMAIN sgRefresh.result)

\* A query that is not stale has its news, and so has the answer that a query waits for.
NewsIsStored ==
  \A k \in SgKeys :
    LET query == sgNews[k]
    IN  /\ ~ query.stale => query.data # NoSg
        /\ k \notin sgCut =>
             /\ ~ query.stale => UpToRefresh(k, query.data)
             /\ query.asked # NoSg /\ ~ query.late => UpToRefresh(k, query.asked)

\* What is on screen is asked for, has failed or is there.
ScreenIsServed ==
  NewsKey # {} =>
    sgNews[NewsKey].asked # NoSg \/ sgNews[NewsKey].err \/ ~ sgNews[NewsKey].stale

\* What a refresh, or a summary, is about: the tiles of its filter and search.
About(refresh) == Selected(sgList, Resolved(sgList, refresh.filter), refresh.search)

RefreshIsOfTiles ==
  sgRefresh # NoSg =>
    /\ ~ sgRefresh.moved => sgRefresh.asked = About(sgRefresh)
    /\ sgRefresh.todo \subseteq sgRefresh.asked
    /\ DOMAIN sgRefresh.result = sgRefresh.asked \ sgRefresh.todo

SummaryIsOfTiles ==
  sgSummary # NoSg =>
    /\ ~ sgSummary.moved => sgSummary.asked = About(sgSummary)
    /\ ~ sgSummary.qualified => sgSummary.filter = sgFilter /\ sgSummary.search = sgTyped
    /\ ~ sgSummary.error =>
         \E result \in [sgSummary.asked -> SgOutcome] : sgSummary.counts = Counts(result)

GridInv == GridTypes /\ NewsIsStored /\ ScreenIsServed /\ RefreshIsOfTiles /\ SummaryIsOfTiles

\* A group that is shown is one some stock has, or all of them.
LEMMA ResolvedIsUsed ==
  ASSUME NEW rows \in [SgStock -> SgGroups], NEW filter
  PROVE  Resolved(rows, filter) = "all" \/ \E s \in SgStock : rows[s] = Resolved(rows, filter)
<1> DEFINE places == {i \in DOMAIN SgOrder : SgOrder[i] \in AvailableGroups(rows)}
<1>1. CASE filter = "all" \/ filter \in AvailableGroups(rows)
  BY <1>1 DEF Resolved, AvailableGroups
<1>2. CASE ~ (filter = "all" \/ filter \in AvailableGroups(rows)) /\ places # {}
  <2>1. places \subseteq 1..3
    BY DEF SgOrder
  <2>2. \E i \in places : \A j \in places : i <= j
    <3>1. CASE 1 \in places
      BY <2>1, <3>1
    <3>2. CASE 1 \notin places /\ 2 \in places
      BY <2>1, <3>2
    <3>3. CASE 1 \notin places /\ 2 \notin places
      BY <1>2, <2>1, <3>3
    <3> QED BY <3>1, <3>2, <3>3
  <2>3. PICK i : i = CHOOSE x \in places : \A j \in places : x <= j
    OBVIOUS
  <2>4. i \in places
    BY <2>2, <2>3
  <2>5. Resolved(rows, filter) = SgOrder[i]
    BY <1>2, <2>3 DEF Resolved
  <2> QED BY <2>4, <2>5 DEF AvailableGroups
<1>3. CASE ~ (filter = "all" \/ filter \in AvailableGroups(rows)) /\ places = {}
  BY <1>3 DEF Resolved
<1> QED BY <1>1, <1>2, <1>3

LEMMA SelectedAreStocks ==
  ASSUME NEW rows, NEW filter, NEW search \in SgSearch
  PROVE  Selected(rows, filter, search) \in SUBSET SgStock /\ NewsTickers(rows, filter, search) \in SUBSET SgStock
BY SgAssumption DEF Selected, NewsTickers

LEMMA StoredIsNews ==
  ASSUME GridTypes, NEW k \in SgKeys
  PROVE  /\ StoredOf(k) \in TickerNews(k) /\ StoredOf(k) # NoSg
         /\ UpToRefresh(k, StoredOf(k))
<1>1. StoredOf(k) \in TickerNews(k)
  BY DEF StoredOf, TickerNews, GridTypes, SgKeys
<1>2. StoredOf(k) # NoSg
  BY <1>1, SgNothing DEF TickerNews
<1> QED BY <1>1, <1>2 DEF UpToRefresh, StoredOf

LEMMA SomeAreKeys == \A k \in SUBSET SgStock : k # {} => k \in SgKeys
BY DEF SgKeys

\* What is asked of tiles is not what the server or the query makes of them.
LEMMA TilesStay ==
  /\ UNCHANGED sgList => \A refresh : About(refresh)' = About(refresh)
  /\ UNCHANGED <<sgList, sgFilter, sgSettled>> => NewsKey' = NewsKey
BY DEF About, NewsKey

LEMMA ScreenIsKey == GridTypes => NewsKey \in SUBSET SgStock /\ (NewsKey # {} => NewsKey \in SgKeys)
<1> SUFFICES ASSUME GridTypes PROVE NewsKey \in SUBSET SgStock
  BY SomeAreKeys
<1> QED BY SelectedAreStocks DEF NewsKey, GridTypes

\* The news of a ticker that goes off screen or comes on screen.
LEMMA CameOnIsServed ==
  ASSUME GridTypes, NewsIsStored, ScreenIsServed, NEW k \in SUBSET SgStock, NewsCameOn(k),
         UNCHANGED <<sgStore, sgCut>>
  PROVE  /\ sgNews' \in [SgKeys -> UNION {SgQuery(x) : x \in SgKeys}]
         /\ \A x \in SgKeys : sgNews'[x] \in SgQuery(x)
         /\ \A x \in SgKeys :
              /\ ~ sgNews'[x].stale => sgNews'[x].data # NoSg
              /\ x \notin sgCut =>
                   /\ ~ sgNews'[x].stale => UpToRefresh(x, sgNews'[x].data)
                   /\ sgNews'[x].asked # NoSg /\ ~ sgNews'[x].late => UpToRefresh(x, sgNews'[x].asked)
         /\ k # {} => sgNews'[k].asked # NoSg \/ sgNews'[k].err \/ ~ sgNews'[k].stale
<1>1. CASE k = {} \/ k = NewsKey
  <2>1. sgNews' = sgNews
    BY <1>1 DEF NewsCameOn
  <2> QED BY <1>1, <2>1 DEF GridTypes, NewsIsStored, ScreenIsServed
<1>2. CASE k # {} /\ k # NewsKey
  <2> DEFINE old == sgNews[k]
  <2>1. k \in SgKeys /\ old \in SgQuery(k)
    <3>1. k \in SgKeys
      BY <1>2, SomeAreKeys
    <3> QED BY <3>1 DEF GridTypes
  <2>2. PICK asked : asked = IF old.stale /\ old.asked = NoSg THEN StoredOf(k) ELSE old.asked
    OBVIOUS
  <2>3. PICK new : new = [old EXCEPT !.asked = asked]
    OBVIOUS
  <2>4. sgNews' = [sgNews EXCEPT ![k] = new]
    <3>1. sgNews' = [sgNews EXCEPT ![k].asked = asked]
      BY <1>2, <2>2 DEF NewsCameOn
    <3> QED BY <2>3, <3>1, Zenon
  <2>5. asked \in TickerNews(k) \cup {NoSg}
    BY <2>1, <2>2, StoredIsNews DEF SgQuery
  <2>6. /\ new \in SgQuery(k) /\ new.asked = asked /\ new.data = old.data /\ new.err = old.err
        /\ new.late = old.late /\ new.stale = old.stale
    BY <2>1, <2>3, <2>5 DEF SgQuery
  <2>7. sgNews'[k] = new /\ \A x \in SgKeys \ {k} : sgNews'[x] = sgNews[x]
    BY <2>1, <2>4 DEF GridTypes
  <2>8. sgNews' \in [SgKeys -> UNION {SgQuery(x) : x \in SgKeys}]
    BY <2>1, <2>4, <2>6 DEF GridTypes
  <2>9. /\ ~ new.stale => new.data # NoSg
        /\ k \notin sgCut =>
             /\ ~ new.stale => UpToRefresh(k, new.data)
             /\ new.asked # NoSg /\ ~ new.late => UpToRefresh(k, new.asked)
    <3>1. asked = old.asked \/ asked = StoredOf(k)
      BY <2>2
    <3> QED BY <2>1, <2>6, <3>1, StoredIsNews DEF NewsIsStored
  <2>10. new.asked # NoSg \/ ~ new.stale
    BY <2>1, <2>2, <2>6, StoredIsNews
  <2> HIDE DEF old
  <2>11. \A x \in SgKeys : sgNews'[x] \in SgQuery(x)
    BY <2>6, <2>7 DEF GridTypes
  <2>12. \A x \in SgKeys :
              /\ ~ sgNews'[x].stale => sgNews'[x].data # NoSg
              /\ x \notin sgCut =>
                   /\ ~ sgNews'[x].stale => UpToRefresh(x, sgNews'[x].data)
                   /\ sgNews'[x].asked # NoSg /\ ~ sgNews'[x].late => UpToRefresh(x, sgNews'[x].asked)
    BY <2>7, <2>9 DEF NewsIsStored
  <2> QED BY <2>7, <2>8, <2>10, <2>11, <2>12
<1> QED BY <1>1, <1>2

LEMMA RefreshIsRefresh == NoSg \notin SgRefreshes
BY SgNothing

\* While no news changes, what is under way stays true of it.
LEMMA NewsStays ==
  ASSUME NewsIsStored, UNCHANGED <<sgStore, sgNews, sgCut, sgRefresh>>
  PROVE  NewsIsStored'
BY DEF NewsIsStored, UpToRefresh

LEMMA NewsAnsweredIsKept ==
  ASSUME GridInv, NEW k \in SgKeys, NewsAnswered(k)
  PROVE  GridInv'
<1> USE DEF GridInv
<1> DEFINE old == sgNews[k]
<1>1. /\ old.asked # NoSg /\ old \in SgQuery(k)
      /\ UNCHANGED <<sgGroup, sgList, sgListRead, sgFollow, sgFilter, sgTyped, sgSettled,
                     sgStore, sgRefresh, sgSummary>>
  BY DEF NewsAnswered, GridTypes
<1>2. ASSUME NEW new \in SgQuery(k), sgNews' = [sgNews EXCEPT ![k] = new], sgCut' \subseteq SgKeys,
             \A x \in SgKeys \ {k} : x \in sgCut <=> x \in sgCut',
             ~ new.stale => new.data # NoSg /\ (k \notin sgCut' => UpToRefresh(k, new.data)),
             new.asked = NoSg, new.err \/ ~ new.stale
      PROVE  GridInv'
  <2>1. sgNews'[k] = new /\ \A x \in SgKeys \ {k} : sgNews'[x] = sgNews[x]
    BY <1>2 DEF GridTypes
  <2>2. sgNews' \in [SgKeys -> UNION {SgQuery(x) : x \in SgKeys}] /\ \A x \in SgKeys : sgNews'[x] \in SgQuery(x)
    BY <1>2, <2>1 DEF GridTypes
  <2>3. \A x, news : UpToRefresh(x, news) <=> UpToRefresh(x, news)'
    BY <1>1 DEF UpToRefresh
  <2>4. NewsIsStored'
    <3>1. SUFFICES ASSUME NEW x \in SgKeys
                   PROVE  /\ ~ sgNews'[x].stale => sgNews'[x].data # NoSg
                          /\ x \notin sgCut' =>
                               /\ ~ sgNews'[x].stale => UpToRefresh(x, sgNews'[x].data)
                               /\ sgNews'[x].asked # NoSg /\ ~ sgNews'[x].late => UpToRefresh(x, sgNews'[x].asked)
      BY <1>1 DEF NewsIsStored, UpToRefresh
    <3> QED BY <1>2, <2>1 DEF NewsIsStored
  <2>5. NewsKey' = NewsKey /\ (NewsKey # {} => NewsKey \in SgKeys)
    BY <1>1, ScreenIsKey, TilesStay
  <2>6. ScreenIsServed'
    BY <1>2, <2>1, <2>5 DEF ScreenIsServed
  <2>7. RefreshIsOfTiles' /\ SummaryIsOfTiles'
    BY <1>1, TilesStay DEF RefreshIsOfTiles, SummaryIsOfTiles
  <2> QED BY <1>1, <1>2, <2>2, <2>4, <2>6, <2>7 DEF GridTypes
<1>3. ASSUME NEW value \in {old.asked, StoredOf(k)},
             sgNews' = [sgNews EXCEPT ![k] = [SgNoQuery EXCEPT !.data = value, !.stale = FALSE]],
             sgCut' = IF value = StoredOf(k) THEN sgCut \ {k} ELSE IF old.late THEN sgCut \cup {k} ELSE sgCut
      PROVE  GridInv'
  <2>1. PICK new : new = [SgNoQuery EXCEPT !.data = value, !.stale = FALSE]
    OBVIOUS
  <2>2. value \in TickerNews(k) /\ value # NoSg
    BY <1>1, StoredIsNews DEF SgQuery
  <2>3. new \in SgQuery(k) /\ new.data = value /\ ~ new.stale /\ new.asked = NoSg
    BY <2>1, <2>2 DEF SgNoQuery, SgQuery
  <2>4. sgCut' \subseteq SgKeys /\ \A x \in SgKeys \ {k} : x \in sgCut <=> x \in sgCut'
    BY <1>3 DEF GridTypes
  <2>5. k \notin sgCut' => UpToRefresh(k, value)
    <3>1. CASE value = StoredOf(k)
      BY <3>1, StoredIsNews
    <3>2. CASE value # StoredOf(k)
      BY <1>1, <1>3, <3>2 DEF NewsIsStored
    <3> QED BY <3>1, <3>2
  <2>6. sgNews' = [sgNews EXCEPT ![k] = new]
    BY <1>3, <2>1, Zenon
  <2> QED BY <1>2, <2>2, <2>3, <2>4, <2>5, <2>6
<1>4. ASSUME sgNews' = [sgNews EXCEPT ![k] = [SgNoQuery EXCEPT !.data = old.data, !.err = TRUE]], UNCHANGED sgCut
      PROVE  GridInv'
  <2>1. PICK new : new = [SgNoQuery EXCEPT !.data = old.data, !.err = TRUE]
    OBVIOUS
  <2>2. new \in SgQuery(k) /\ new.stale /\ new.asked = NoSg /\ new.err
    BY <1>1, <2>1 DEF SgNoQuery, SgQuery
  <2>3. sgNews' = [sgNews EXCEPT ![k] = new] /\ sgCut' \subseteq SgKeys
    BY <1>4, <2>1, Zenon DEF GridTypes
  <2> QED BY <1>2, <1>4, <2>2, <2>3
<1> HIDE DEF GridInv
<1> QED BY <1>3, <1>4 DEF NewsAnswered

\* What is on screen after a change of the list, the filter or the search.
LEMMA CameOnScreen ==
  ASSUME GridTypes, NewsIsStored, ScreenIsServed, NEW k \in SUBSET SgStock, NewsCameOn(k),
         NewsKey' = k, UNCHANGED <<sgStore, sgCut>>,
         \A x, news : UpToRefresh(x, news)' <=> UpToRefresh(x, news)
  PROVE  /\ sgNews' \in [SgKeys -> UNION {SgQuery(x) : x \in SgKeys}]
         /\ \A x \in SgKeys : sgNews'[x] \in SgQuery(x)
         /\ NewsIsStored' /\ ScreenIsServed'
<1>1. /\ sgNews' \in [SgKeys -> UNION {SgQuery(x) : x \in SgKeys}]
      /\ \A x \in SgKeys : sgNews'[x] \in SgQuery(x)
      /\ \A x \in SgKeys :
           /\ ~ sgNews'[x].stale => sgNews'[x].data # NoSg
           /\ x \notin sgCut =>
                /\ ~ sgNews'[x].stale => UpToRefresh(x, sgNews'[x].data)
                /\ sgNews'[x].asked # NoSg /\ ~ sgNews'[x].late => UpToRefresh(x, sgNews'[x].asked)
      /\ k # {} => sgNews'[k].asked # NoSg \/ sgNews'[k].err \/ ~ sgNews'[k].stale
  BY CameOnIsServed
<1>2. ASSUME NEW x \in SgKeys, NEW news PROVE UpToRefresh(x, news) => UpToRefresh(x, news)'
  OBVIOUS
<1>3. NewsIsStored'
  <2>1. SUFFICES ASSUME NEW x \in SgKeys
                 PROVE  /\ ~ sgNews'[x].stale => sgNews'[x].data # NoSg
                        /\ x \notin sgCut' =>
                             /\ ~ sgNews'[x].stale => UpToRefresh(x, sgNews[x].data)'
                             /\ sgNews'[x].asked # NoSg /\ ~ sgNews'[x].late => UpToRefresh(x, sgNews[x].asked)'
    BY DEF NewsIsStored
  <2>2. PICK data, asked : data = sgNews'[x].data /\ asked = sgNews'[x].asked
    OBVIOUS
  <2>3. (UpToRefresh(x, data) => UpToRefresh(x, data)') /\ (UpToRefresh(x, asked) => UpToRefresh(x, asked)')
    BY <1>2
  <2>4. /\ UpToRefresh(x, sgNews'[x].data) => UpToRefresh(x, sgNews[x].data)'
        /\ UpToRefresh(x, sgNews'[x].asked) => UpToRefresh(x, sgNews[x].asked)'
    BY <2>2, <2>3 DEF UpToRefresh
  <2> QED BY <1>1, <2>4
<1>4. ScreenIsServed'
  BY <1>1 DEF ScreenIsServed
<1> QED BY <1>1, <1>3, <1>4

LEMMA FilterIsKept ==
  ASSUME GridInv, NEW g \in SgGroups \cup {"all"}, ChooseFilter(g)
  PROVE  GridInv'
<1> USE DEF GridInv
<1>1. /\ sgFilter' = g /\ sgSummary' = NoSg /\ NewsCameOn(NewsTickers(sgList, g, sgSettled))
      /\ UNCHANGED <<sgGroup, sgList, sgListRead, sgFollow, sgTyped, sgSettled, sgStore, sgRefresh, sgCut>>
  BY DEF ChooseFilter, SummaryRetired
<1>2. NewsTickers(sgList, g, sgSettled) \in SUBSET SgStock /\ NewsKey' = NewsTickers(sgList, g, sgSettled)
  BY <1>1, SelectedAreStocks DEF NewsKey, GridTypes
<1>3. \A x, news : UpToRefresh(x, news)' <=> UpToRefresh(x, news)
  BY <1>1 DEF UpToRefresh
<1>4. /\ sgNews' \in [SgKeys -> UNION {SgQuery(x) : x \in SgKeys}]
      /\ \A x \in SgKeys : sgNews'[x] \in SgQuery(x)
      /\ NewsIsStored' /\ ScreenIsServed'
  BY <1>1, <1>2, <1>3, CameOnScreen
<1>5. GridTypes'
  BY <1>1, <1>4 DEF GridTypes
<1>6. RefreshIsOfTiles' /\ SummaryIsOfTiles'
  BY <1>1, TilesStay DEF RefreshIsOfTiles, SummaryIsOfTiles
<1> QED BY <1>4, <1>5, <1>6

LEMMA SettledIsKept == GridInv /\ GridSearchSettles => GridInv'
<1> SUFFICES ASSUME GridInv, GridSearchSettles PROVE GridInv'
  OBVIOUS
<1> USE DEF GridInv
<1>1. /\ sgSettled' = sgTyped /\ NewsCameOn(NewsTickers(sgList, sgFilter, sgTyped))
      /\ UNCHANGED <<sgGroup, sgList, sgListRead, sgFollow, sgFilter, sgTyped, sgStore, sgRefresh, sgSummary, sgCut>>
  BY DEF GridSearchSettles
<1>2. NewsTickers(sgList, sgFilter, sgTyped) \in SUBSET SgStock /\ NewsKey' = NewsTickers(sgList, sgFilter, sgTyped)
  BY <1>1, SelectedAreStocks DEF NewsKey, GridTypes
<1>3. \A x, news : UpToRefresh(x, news)' <=> UpToRefresh(x, news)
  BY <1>1 DEF UpToRefresh
<1>4. /\ sgNews' \in [SgKeys -> UNION {SgQuery(x) : x \in SgKeys}]
      /\ \A x \in SgKeys : sgNews'[x] \in SgQuery(x)
      /\ NewsIsStored' /\ ScreenIsServed'
  BY <1>1, <1>2, <1>3, CameOnScreen
<1>5. GridTypes'
  BY <1>1, <1>4 DEF GridTypes
<1>6. RefreshIsOfTiles' /\ SummaryIsOfTiles'
  BY <1>1, TilesStay DEF RefreshIsOfTiles, SummaryIsOfTiles
<1> QED BY <1>4, <1>5, <1>6

LEMMA ListIsKept == GridInv /\ ListAnswered => GridInv'
<1> SUFFICES ASSUME GridInv, ListAnswered PROVE GridInv'
  OBVIOUS
<1> USE DEF GridInv
<1>1. UNCHANGED <<sgGroup, sgFollow, sgFilter, sgTyped, sgSettled, sgStore, sgCut>>
  BY DEF ListAnswered
<1>2. CASE UNCHANGED <<sgList, sgNews, sgLast, sgRefresh, sgSummary>>
  <2>1. GridTypes' /\ NewsIsStored'
    BY <1>1, <1>2, NewsStays DEF GridTypes
  <2>2. ScreenIsServed' /\ RefreshIsOfTiles' /\ SummaryIsOfTiles'
    BY <1>1, <1>2, TilesStay DEF RefreshIsOfTiles, SummaryIsOfTiles, ScreenIsServed
  <2> QED BY <2>1, <2>2
<1>3. CASE /\ sgList' = sgGroup /\ NewsCameOn(NewsTickers(sgGroup, sgFilter, sgSettled))
           /\ sgRefresh' = IF sgRefresh = NoSg THEN NoSg
                           ELSE [sgRefresh EXCEPT !.moved = @ \/ sgGroup # sgList]
           /\ sgSummary' = IF sgSummary = NoSg THEN NoSg
                           ELSE [sgSummary EXCEPT !.moved = @ \/ sgGroup # sgList]
  <2>1. NewsTickers(sgGroup, sgFilter, sgSettled) \in SUBSET SgStock /\ NewsKey' = NewsTickers(sgGroup, sgFilter, sgSettled)
    BY <1>1, <1>3, SelectedAreStocks DEF NewsKey, GridTypes
  <2>2. ASSUME sgRefresh # NoSg
        PROVE  /\ sgRefresh' \in SgRefreshes
               /\ sgRefresh'.asked = sgRefresh.asked /\ sgRefresh'.todo = sgRefresh.todo
               /\ sgRefresh'.filter = sgRefresh.filter /\ sgRefresh'.search = sgRefresh.search
               /\ sgRefresh'.result = sgRefresh.result
               /\ ~ sgRefresh'.moved => ~ sgRefresh.moved /\ sgGroup = sgList
    <3>1. PICK moved \in BOOLEAN : moved <=> (sgRefresh.moved \/ sgGroup # sgList)
      OBVIOUS
    <3>2. sgRefresh \in SgRefreshes
      BY <2>2 DEF GridTypes
    <3>3. sgRefresh' = [sgRefresh EXCEPT !.moved = moved]
      <4>1. sgRefresh' = [sgRefresh EXCEPT !.moved = sgRefresh.moved \/ sgGroup # sgList]
        BY <1>3, <2>2
      <4>2. (sgRefresh.moved \/ sgGroup # sgList) = moved
        BY <3>1, <3>2, Zenon DEF SgRefreshes
      <4> QED BY <4>1, <4>2, Zenon
    <3> QED BY <3>1, <3>2, <3>3 DEF SgRefreshes
  <2>3. ASSUME sgSummary # NoSg
        PROVE  /\ sgSummary' \in SgSummaries
               /\ sgSummary'.asked = sgSummary.asked /\ sgSummary'.qualified = sgSummary.qualified
               /\ sgSummary'.filter = sgSummary.filter /\ sgSummary'.search = sgSummary.search
               /\ sgSummary'.error = sgSummary.error /\ sgSummary'.counts = sgSummary.counts
               /\ ~ sgSummary'.moved => ~ sgSummary.moved /\ sgGroup = sgList
    <3>1. PICK moved \in BOOLEAN : moved <=> (sgSummary.moved \/ sgGroup # sgList)
      OBVIOUS
    <3>2. sgSummary \in SgSummaries
      BY <2>3 DEF GridTypes
    <3>3. sgSummary' = [sgSummary EXCEPT !.moved = moved]
      <4>1. sgSummary' = [sgSummary EXCEPT !.moved = sgSummary.moved \/ sgGroup # sgList]
        BY <1>3, <2>3
      <4>2. (sgSummary.moved \/ sgGroup # sgList) = moved
        BY <3>1, <3>2, Zenon DEF SgSummaries
      <4> QED BY <4>1, <4>2, Zenon
    <3> QED BY <3>1, <3>2, <3>3 DEF SgSummaries
  <2>4. (sgRefresh = NoSg => sgRefresh' = NoSg) /\ (sgSummary = NoSg => sgSummary' = NoSg)
    BY <1>3
  <2>5. sgRefresh' # NoSg <=> sgRefresh # NoSg
    BY <2>2, <2>4, RefreshIsRefresh
  <2>6. \A x, news : UpToRefresh(x, news)' <=> UpToRefresh(x, news)
    BY <1>1, <2>2, <2>5 DEF UpToRefresh
  <2>7. /\ sgNews' \in [SgKeys -> UNION {SgQuery(x) : x \in SgKeys}]
        /\ \A x \in SgKeys : sgNews'[x] \in SgQuery(x)
        /\ NewsIsStored' /\ ScreenIsServed'
    BY <1>1, <1>3, <2>1, <2>6, CameOnScreen
  <2>8. GridTypes'
    <3>1. sgRefresh' \in SgRefreshes \cup {NoSg} /\ sgSummary' \in SgSummaries \cup {NoSg}
      BY <2>2, <2>3, <2>4
    <3> QED BY <1>1, <1>3, <2>7, <3>1 DEF GridTypes
  <2>9. RefreshIsOfTiles'
    <3>1. SUFFICES ASSUME sgRefresh # NoSg
                   PROVE  /\ ~ sgRefresh'.moved => sgRefresh'.asked = About(sgRefresh)'
                          /\ sgRefresh'.todo \subseteq sgRefresh'.asked
                          /\ DOMAIN sgRefresh'.result = sgRefresh'.asked \ sgRefresh'.todo
      BY <2>5 DEF RefreshIsOfTiles
    <3>2. sgGroup = sgList => About(sgRefresh)' = About(sgRefresh)
      BY <1>3, <2>2, <3>1 DEF About
    <3> QED BY <2>2, <3>1, <3>2 DEF RefreshIsOfTiles
  <2>10. SummaryIsOfTiles'
    <3>1. SUFFICES ASSUME sgSummary # NoSg
                   PROVE  /\ ~ sgSummary'.moved => sgSummary'.asked = About(sgSummary)'
                          /\ ~ sgSummary'.qualified => sgSummary'.filter = sgFilter' /\ sgSummary'.search = sgTyped'
                          /\ ~ sgSummary'.error =>
                               \E result \in [sgSummary'.asked -> SgOutcome] : sgSummary'.counts = Counts(result)
      BY <2>4 DEF SummaryIsOfTiles, Counts
    <3>2. sgGroup = sgList => About(sgSummary)' = About(sgSummary)
      BY <1>3, <2>3, <3>1 DEF About
    <3> QED BY <1>1, <2>3, <3>1, <3>2 DEF SummaryIsOfTiles
  <2> QED BY <2>7, <2>8, <2>9, <2>10
<1> QED BY <1>2, <1>3 DEF ListAnswered

\* The search that is typed and the follow control leave the news alone.
LEMMA ControlsAreStill ==
  ASSUME GridInv,
         \/ \E q \in SgSearch : TypeSearch(q)
         \/ \E s \in SgStock : FollowPressed(s)
         \/ \E f \in sgFollow : FollowAnswered(f)
  PROVE  GridInv'
<1> USE DEF GridInv
<1>1. /\ UNCHANGED <<sgList, sgFilter, sgSettled, sgStore, sgNews, sgLast, sgRefresh, sgCut>>
      /\ sgSummary' = NoSg \/ UNCHANGED <<sgTyped, sgSummary>>
  BY DEF TypeSearch, FollowPressed, FollowAnswered, SummaryRetired
<1>2. sgGroup' \in [SgStock -> SgGroups] /\ sgFollow' \subseteq [stock : SgStock, to : {Followed, Unfollowed}]
  <2>1. CASE \E q \in SgSearch : TypeSearch(q)
    BY <2>1 DEF TypeSearch, GridTypes
  <2>2. CASE \E s \in SgStock : FollowPressed(s)
    <3>1. PICK s \in SgStock : FollowPressed(s)
      BY <2>2
    <3>2. PICK to \in {Followed, Unfollowed} : to = IF sgList[s] = Followed THEN Unfollowed ELSE Followed
      OBVIOUS
    <3>3. sgFollow' = sgFollow \cup {[stock |-> s, to |-> to]} /\ UNCHANGED sgGroup
      BY <3>1, <3>2 DEF FollowPressed
    <3> QED BY <3>3 DEF GridTypes
  <2>3. CASE \E f \in sgFollow : FollowAnswered(f)
    <3>1. PICK f \in sgFollow : FollowAnswered(f)
      BY <2>3
    <3>2. f \in [stock : SgStock, to : SgGroups]
      BY DEF GridTypes, SgGroups, SgOrder, Followed, Unfollowed
    <3>3. /\ sgFollow' = sgFollow \ {f}
          /\ sgGroup' = sgGroup \/ sgGroup' = [sgGroup EXCEPT ![f.stock] = f.to]
      BY <3>1 DEF FollowAnswered
    <3> QED BY <3>2, <3>3 DEF GridTypes
  <2> QED BY <2>1, <2>2, <2>3
<1>3. sgTyped' \in SgSearch
  BY DEF TypeSearch, FollowPressed, FollowAnswered, GridTypes
<1>4. GridTypes'
  BY <1>1, <1>2, <1>3 DEF GridTypes
<1>5. NewsIsStored' /\ ScreenIsServed'
  BY <1>1, NewsStays, TilesStay DEF ScreenIsServed
<1>6. RefreshIsOfTiles' /\ SummaryIsOfTiles'
  BY <1>1, TilesStay DEF RefreshIsOfTiles, SummaryIsOfTiles
<1> QED BY <1>4, <1>5, <1>6

LEMMA RefreshPressIsKept == GridInv /\ PressRefresh => GridInv'
<1> SUFFICES ASSUME GridInv, PressRefresh PROVE GridInv'
  OBVIOUS
<1> USE DEF GridInv
<1>1. PICK none : none = [s \in {} |-> "fresh"]
  OBVIOUS
<1>2. /\ sgRefresh = NoSg /\ sgSummary' = NoSg
      /\ sgRefresh' = [asked |-> VisibleTickers, todo |-> VisibleTickers,
                       filter |-> sgFilter, search |-> sgTyped, moved |-> FALSE, result |-> none]
      /\ UNCHANGED <<sgGroup, sgList, sgListRead, sgFollow, sgFilter, sgTyped, sgSettled,
                     sgStore, sgNews, sgLast, sgCut>>
  BY <1>1 DEF PressRefresh, SummaryRetired
<1>3. none \in SgResults /\ DOMAIN none = {}
  <2>1. none \in [{} -> SgOutcome] /\ {} \in SUBSET SgStock
    BY <1>1
  <2> QED BY <1>1, <2>1 DEF SgResults
<1>4. VisibleTickers \in SUBSET SgStock
  BY SelectedAreStocks DEF VisibleTickers, GridTypes
<1>5. sgRefresh' \in SgRefreshes
  BY <1>2, <1>3, <1>4 DEF SgRefreshes, SgResults, GridTypes
<1>6. GridTypes'
  BY <1>2, <1>5 DEF GridTypes
<1>8. NewsIsStored'
  <2>1. \A x \in SgKeys : /\ UpToRefresh(x, sgNews[x].data) => UpToRefresh(x, sgNews[x].data)'
                          /\ UpToRefresh(x, sgNews[x].asked) => UpToRefresh(x, sgNews[x].asked)'
    BY <1>2 DEF UpToRefresh
  <2> QED BY <1>2, <2>1 DEF NewsIsStored
<1>9. ScreenIsServed'
  BY <1>2, TilesStay DEF ScreenIsServed
<1>10. RefreshIsOfTiles'
  BY <1>2, <1>3 DEF RefreshIsOfTiles, About, VisibleTickers
<1>11. SummaryIsOfTiles'
  BY <1>2 DEF SummaryIsOfTiles
<1> QED BY <1>6, <1>8, <1>9, <1>10, <1>11

\* What the server finds is news that the refresh under way has looked for.
LEMMA BatchIsKept ==
  ASSUME GridInv, NEW s \in SgStock, NEW outcome \in SgOutcome, BatchServed(s, outcome)
  PROVE  GridInv'
<1> USE DEF GridInv
<1>1. /\ sgRefresh # NoSg /\ s \in sgRefresh.todo /\ sgRefresh \in SgRefreshes
      /\ UNCHANGED <<sgGroup, sgList, sgListRead, sgFollow, sgFilter, sgTyped, sgSettled,
                     sgNews, sgLast, sgSummary, sgCut, sgUsed>>
  BY DEF BatchServed, GridTypes
<1>2. sgStore' \in [SgStock -> 0..SgMaxNews] /\ \A x \in SgStock \ {s} : sgStore'[x] = sgStore[x]
  <2>1. PICK stored : stored = IF outcome = "acquired" THEN IF sgStore[s] < 2 THEN 2 ELSE sgStore[s] + 1
                               ELSE IF outcome = "empty" /\ sgStore[s] = 0 THEN 1 ELSE sgStore[s]
    OBVIOUS
  <2>2. sgStore' = [sgStore EXCEPT ![s] = stored]
    BY <2>1 DEF BatchServed
  <2>3. stored \in 0..SgMaxNews
    BY <2>1, SgAssumption DEF BatchServed, GridTypes
  <2> QED BY <2>2, <2>3 DEF GridTypes
<1>3. PICK todo, result : todo = sgRefresh.todo \ {s} /\ result = [x \in {s} \cup DOMAIN sgRefresh.result |-> IF x = s THEN outcome ELSE sgRefresh.result[x]]
  OBVIOUS
<1>4. sgRefresh' = [sgRefresh EXCEPT !.todo = todo, !.result = result]
  BY <1>3 DEF BatchServed
<1>5. result \in SgResults /\ DOMAIN result = (DOMAIN sgRefresh.result) \cup {s}
  <2>1. PICK served \in SUBSET SgStock : sgRefresh.result \in [served -> SgOutcome]
    BY <1>1 DEF SgRefreshes
  <2>2. result = [x \in {s} \cup served |-> IF x = s THEN outcome ELSE sgRefresh.result[x]]
    BY <1>3, <2>1
  <2>3. result \in [{s} \cup served -> SgOutcome] /\ {s} \cup served \in SUBSET SgStock
    BY <2>1, <2>2
  <2> QED BY <2>1, <2>3 DEF SgResults
<1>6. todo \in SUBSET SgStock
  BY <1>1, <1>3 DEF SgRefreshes
<1>7. /\ sgRefresh' \in SgRefreshes /\ sgRefresh' # NoSg
      /\ sgRefresh'.todo = todo /\ sgRefresh'.result = result /\ sgRefresh'.asked = sgRefresh.asked
      /\ sgRefresh'.moved = sgRefresh.moved /\ sgRefresh'.filter = sgRefresh.filter
      /\ sgRefresh'.search = sgRefresh.search
  BY <1>1, <1>4, <1>5, <1>6, RefreshIsRefresh DEF SgRefreshes, SgResults
<1>8. GridTypes'
  BY <1>1, <1>2, <1>7 DEF GridTypes
<1>9. NewsIsStored'
  <2>1. \A k \in SgKeys : /\ UpToRefresh(k, sgNews[k].data) => UpToRefresh(k, sgNews[k].data)'
                          /\ UpToRefresh(k, sgNews[k].asked) => UpToRefresh(k, sgNews[k].asked)'
    <3>1. \A k \in SgKeys : k \subseteq SgStock
      BY DEF SgKeys
    <3> QED BY <1>1, <1>2, <1>5, <1>7, <3>1 DEF UpToRefresh
  <2> QED BY <1>1, <2>1 DEF NewsIsStored
<1>10. ScreenIsServed'
  BY <1>1, TilesStay DEF ScreenIsServed
<1>11. RefreshIsOfTiles'
  <2>1. About(sgRefresh)' = About(sgRefresh)
    BY <1>1, <1>7 DEF About
  <2>2. /\ ~ sgRefresh.moved => sgRefresh.asked = About(sgRefresh)
        /\ sgRefresh.todo \subseteq sgRefresh.asked
        /\ DOMAIN sgRefresh.result = sgRefresh.asked \ sgRefresh.todo
    BY <1>1 DEF RefreshIsOfTiles
  <2>3. todo \subseteq sgRefresh.asked /\ DOMAIN result = sgRefresh.asked \ todo
    BY <1>1, <1>3, <1>5, <2>2
  <2> QED BY <1>7, <2>1, <2>2, <2>3 DEF RefreshIsOfTiles
<1>12. SummaryIsOfTiles'
  BY <1>1, TilesStay DEF SummaryIsOfTiles
<1> QED BY <1>8, <1>9, <1>10, <1>11, <1>12

\* The line that tells of a refresh tells of the tiles it was about.
LEMMA SummaryIsMade ==
  ASSUME GridInv, sgRefresh # NoSg, NEW error \in BOOLEAN, sgSummary' = Summary(error),
         UNCHANGED <<sgList, sgFilter, sgTyped>>,
         ~ error => sgRefresh.todo = {}
  PROVE  sgSummary' \in SgSummaries /\ SummaryIsOfTiles'
<1> USE DEF GridInv
<1>1. sgRefresh \in SgRefreshes
  BY DEF GridTypes
<1>2. PICK counts : counts = Counts(sgRefresh.result)
  OBVIOUS
<1>3. PICK qualified \in BOOLEAN : qualified <=> QualifiedFor(sgRefresh)
  OBVIOUS
<1>4. QualifiedFor(sgRefresh) = qualified
  BY <1>3, Zenon DEF QualifiedFor
<1>5. sgSummary' = [filter |-> sgRefresh.filter, search |-> sgRefresh.search, asked |-> sgRefresh.asked,
                    moved |-> sgRefresh.moved, qualified |-> qualified, error |-> error, counts |-> counts]
  BY <1>2, <1>4, Zenon DEF Summary
<1>6. counts \in {Counts(result) : result \in SgResults}
  BY <1>1, <1>2 DEF SgRefreshes, SgResults
<1>7. sgSummary' \in SgSummaries
  BY <1>1, <1>5, <1>6 DEF SgSummaries, SgRefreshes
<1>8. /\ sgSummary'.filter = sgRefresh.filter /\ sgSummary'.search = sgRefresh.search
      /\ sgSummary'.asked = sgRefresh.asked /\ sgSummary'.moved = sgRefresh.moved
      /\ sgSummary'.qualified = qualified /\ sgSummary'.error = error /\ sgSummary'.counts = counts
  BY <1>5
<1>9. ~ sgSummary'.moved => sgSummary'.asked = About(sgSummary)'
  <2>1. About(sgSummary)' = About(sgRefresh)
    BY <1>8 DEF About
  <2> QED BY <1>8, <2>1 DEF RefreshIsOfTiles
<1>10. ~ sgSummary'.qualified => sgSummary'.filter = sgFilter' /\ sgSummary'.search = sgTyped'
  BY <1>3, <1>8 DEF QualifiedFor
<1>11. ~ error => sgRefresh.result \in [sgRefresh.asked -> SgOutcome]
  <2>1. PICK served \in SUBSET SgStock : sgRefresh.result \in [served -> SgOutcome]
    BY <1>1 DEF SgRefreshes
  <2>2. ~ error => served = sgRefresh.asked
    BY <2>1 DEF RefreshIsOfTiles
  <2> QED BY <2>1, <2>2
<1>12. ~ error => \E result \in [sgRefresh.asked -> SgOutcome] : counts = Counts(result)
  BY <1>2, <1>11
<1>13. ~ sgSummary'.error => \E result \in [sgSummary'.asked -> SgOutcome] : sgSummary'.counts = Counts(result)
  BY <1>8, <1>12
<1>14. SummaryIsOfTiles'
  BY <1>9, <1>10, <1>13 DEF SummaryIsOfTiles, Counts
<1> QED BY <1>7, <1>14

LEMMA RefreshedIsKept == GridInv /\ RefreshAnswered => GridInv'
<1> SUFFICES ASSUME GridInv, RefreshAnswered PROVE GridInv'
  OBVIOUS
<1> USE DEF GridInv
<1>1. /\ sgRefresh # NoSg /\ sgRefresh.todo = {} /\ sgSummary' = Summary(FALSE) /\ sgRefresh' = NoSg
      /\ UNCHANGED <<sgGroup, sgList, sgListRead, sgFollow, sgFilter, sgTyped, sgSettled,
                     sgStore, sgLast, sgCut, sgUsed>>
  BY DEF RefreshAnswered
<1>2. sgSummary' \in SgSummaries /\ SummaryIsOfTiles'
  BY <1>1, SummaryIsMade
<1>3. ASSUME NEW k \in SgKeys
      PROVE  /\ sgNews'[k] \in SgQuery(k) /\ sgNews'[k].stale
             /\ sgNews'[k].asked = sgNews[k].asked \/ sgNews'[k].asked = StoredOf(k)
             /\ ~ sgNews'[k].late => sgNews'[k].asked = NoSg \/ sgNews'[k].asked = StoredOf(k)
             /\ k = NewsKey => sgNews'[k].asked # NoSg
  <2>1. PICK goesOn \in BOOLEAN : goesOn <=> sgNews[k].asked # NoSg /\ (k # NewsKey \/ sgNews[k].data = NoSg)
    OBVIOUS
  <2>2. PICK asked : asked = IF k = NewsKey /\ ~ goesOn THEN StoredOf(k) ELSE sgNews[k].asked
    OBVIOUS
  <2>3. (sgNews[k].asked # NoSg /\ (k # NewsKey \/ sgNews[k].data = NoSg)) = goesOn
    BY <2>1, Zenon
  <2>4. sgNews'[k] = [sgNews[k] EXCEPT !.stale = TRUE, !.late = goesOn, !.asked = asked]
    <3>1. sgNews'[k] = [sgNews[k] EXCEPT !.stale = TRUE,
             !.late = sgNews[k].asked # NoSg /\ (k # NewsKey \/ sgNews[k].data = NoSg),
             !.asked = IF k = NewsKey /\ ~ (sgNews[k].asked # NoSg /\ (k # NewsKey \/ sgNews[k].data = NoSg))
                       THEN StoredOf(k) ELSE sgNews[k].asked]
      BY DEF RefreshAnswered, NewsInvalidated
    <3> QED BY <2>2, <2>3, <3>1, Zenon
  <2>5. sgNews[k] \in SgQuery(k) /\ StoredOf(k) \in TickerNews(k) /\ StoredOf(k) # NoSg
    BY StoredIsNews DEF GridTypes
  <2>6. asked \in TickerNews(k) \cup {NoSg}
    BY <2>2, <2>5 DEF SgQuery
  <2>7. sgNews'[k].stale /\ sgNews'[k].late = goesOn /\ sgNews'[k].asked = asked
    BY <2>4, <2>5 DEF SgQuery
  <2>8. sgNews'[k] \in SgQuery(k)
    BY <2>4, <2>5, <2>6 DEF SgQuery
  <2> QED BY <2>1, <2>2, <2>5, <2>7, <2>8
<1>4. sgNews' \in [SgKeys -> UNION {SgQuery(k) : k \in SgKeys}]
  <2>1. \A k \in SgKeys : sgNews'[k] \in UNION {SgQuery(x) : x \in SgKeys}
    BY <1>3
  <2> QED BY <2>1 DEF RefreshAnswered, NewsInvalidated
<1>5. GridTypes'
  BY <1>1, <1>2, <1>3, <1>4 DEF GridTypes
<1>6. NewsIsStored'
  <2>1. SUFFICES ASSUME NEW k \in SgKeys, sgNews'[k].asked # NoSg, ~ sgNews'[k].late
                 PROVE  UpToRefresh(k, sgNews[k].asked)'
    BY <1>3 DEF NewsIsStored
  <2>2. sgNews'[k].asked = StoredOf(k)
    BY <1>3, <2>1
  <2> QED BY <1>1, <2>2 DEF UpToRefresh, StoredOf
<1>7. ScreenIsServed'
  <2>1. NewsKey' = NewsKey /\ (NewsKey # {} => NewsKey \in SgKeys)
    BY <1>1, TilesStay, ScreenIsKey
  <2> QED BY <1>3, <2>1 DEF ScreenIsServed
<1>8. RefreshIsOfTiles'
  BY <1>1 DEF RefreshIsOfTiles
<1> QED BY <1>2, <1>5, <1>6, <1>7, <1>8

LEMMA BrokenRefreshIsKept == GridInv /\ RefreshFailed => GridInv'
<1> SUFFICES ASSUME GridInv, RefreshFailed PROVE GridInv'
  OBVIOUS
<1> USE DEF GridInv
<1>1. /\ sgRefresh # NoSg /\ sgSummary' = Summary(TRUE) /\ sgRefresh' = NoSg
      /\ sgCut' = sgCut \cup {k \in SgKeys : k \cap DOMAIN sgRefresh.result # {}}
      /\ UNCHANGED <<sgGroup, sgList, sgListRead, sgFollow, sgFilter, sgTyped, sgSettled,
                     sgStore, sgNews, sgLast>>
  BY DEF RefreshFailed
<1>2. sgSummary' \in SgSummaries /\ SummaryIsOfTiles'
  BY <1>1, SummaryIsMade
<1>3. GridTypes'
  BY <1>1, <1>2 DEF GridTypes
<1>4. NewsIsStored'
  <2>1. \A k \in SgKeys : k \notin sgCut' =>
          /\ k \notin sgCut
          /\ UpToRefresh(k, sgNews[k].data) => UpToRefresh(k, sgNews[k].data)'
          /\ UpToRefresh(k, sgNews[k].asked) => UpToRefresh(k, sgNews[k].asked)'
    <3>1. ASSUME NEW k \in SgKeys, k \notin sgCut', NEW s \in k PROVE s \notin DOMAIN sgRefresh.result
      BY <1>1, <3>1
    <3> QED BY <1>1, <3>1 DEF UpToRefresh
  <2> QED BY <1>1, <2>1 DEF NewsIsStored
<1>5. ScreenIsServed'
  BY <1>1, TilesStay DEF ScreenIsServed
<1>6. RefreshIsOfTiles'
  BY <1>1 DEF RefreshIsOfTiles
<1> QED BY <1>2, <1>3, <1>4, <1>5, <1>6

LEMMA GridStarts == SgInit => GridInv
<1> SUFFICES ASSUME SgInit PROVE GridInv
  OBVIOUS
<1>1. sgGroup \in [SgStock -> SgGroups] /\ sgList = sgGroup
  BY DEF SgInit, SgGroups, SgOrder, Followed
<1>2. sgStore \in [SgStock -> 0..SgMaxNews]
  BY SgAssumption DEF SgInit
<1>3. \A k \in SgKeys : StoredOf(k) \in TickerNews(k) /\ StoredOf(k) # NoSg
  <2>1. \A k \in SgKeys : StoredOf(k) \in TickerNews(k)
    BY <1>2 DEF StoredOf, TickerNews, SgKeys
  <2> QED BY <2>1, SgNothing DEF TickerNews
<1>4. NewsKey = NewsTickers(sgList, Followed, SgStock)
  BY DEF SgInit, NewsKey
<1>5. ASSUME NEW k \in SgKeys
      PROVE  /\ sgNews[k] \in SgQuery(k) /\ sgNews[k].stale
             /\ sgNews[k].asked = NoSg \/ sgNews[k].asked = StoredOf(k)
             /\ k = NewsKey => sgNews[k].asked # NoSg
  <2>1. PICK none : none = SgNoQuery
    OBVIOUS
  <2>2. none \in SgQuery(k) /\ none.asked = NoSg /\ none.stale
    BY <2>1 DEF SgNoQuery, SgQuery
  <2>3. sgNews[k] = IF k = NewsKey THEN [none EXCEPT !.asked = StoredOf(k)] ELSE none
    BY <1>4, <2>1, Zenon DEF SgInit
  <2>4. CASE k = NewsKey
    BY <1>3, <2>2, <2>3, <2>4 DEF SgQuery
  <2>5. CASE k # NewsKey
    BY <2>2, <2>3, <2>5
  <2> QED BY <2>4, <2>5
<1>6. sgNews \in [SgKeys -> UNION {SgQuery(k) : k \in SgKeys}]
  <2>1. \A k \in SgKeys : sgNews[k] \in UNION {SgQuery(x) : x \in SgKeys}
    BY <1>5
  <2> QED BY <2>1 DEF SgInit
<1>7. GridTypes
  <2>1. /\ sgFollow \subseteq [stock : SgStock, to : {Followed, Unfollowed}]
        /\ sgFilter \in SgGroups \cup {"all"} /\ sgTyped \in SgSearch /\ sgSettled \in SgSearch
        /\ sgRefresh \in SgRefreshes \cup {NoSg} /\ sgSummary \in SgSummaries \cup {NoSg}
        /\ sgCut \subseteq SgKeys
    BY SgAssumption DEF SgInit, SgGroups, SgOrder, Followed
  <2> QED BY <1>1, <1>2, <1>5, <1>6, <2>1 DEF GridTypes
<1>8. NewsIsStored
  <2>1. \A k \in SgKeys : UpToRefresh(k, StoredOf(k))
    BY DEF UpToRefresh, StoredOf
  <2> QED BY <1>5, <2>1 DEF NewsIsStored
<1>9. ScreenIsServed
  <2>1. NewsKey # {} => NewsKey \in SgKeys
    BY <1>7, ScreenIsKey
  <2> QED BY <1>5, <2>1 DEF ScreenIsServed
<1>10. RefreshIsOfTiles /\ SummaryIsOfTiles
  BY DEF SgInit, RefreshIsOfTiles, SummaryIsOfTiles
<1> QED BY <1>7, <1>8, <1>9, <1>10 DEF GridInv

LEMMA GridStep == GridInv /\ [SgNext]_sgVars => GridInv'
<1> SUFFICES ASSUME GridInv, [SgNext]_sgVars PROVE GridInv'
  OBVIOUS
<1>1. CASE UNCHANGED sgVars
  <2>1. UNCHANGED <<sgGroup, sgList, sgFollow, sgFilter, sgTyped, sgSettled, sgStore, sgNews,
                    sgRefresh, sgSummary, sgCut>>
    BY <1>1 DEF sgVars
  <2> QED BY <2>1, NewsStays, TilesStay
          DEF GridInv, GridTypes, ScreenIsServed, RefreshIsOfTiles, SummaryIsOfTiles
<1>2. CASE \E k \in SgKeys : NewsAnswered(k)
  BY <1>2, NewsAnsweredIsKept
<1>3. CASE \E g \in SgGroups \cup {"all"} : ChooseFilter(g)
  BY <1>3, FilterIsKept
<1>4. CASE \/ \E q \in SgSearch : TypeSearch(q)
           \/ \E s \in SgStock : FollowPressed(s)
           \/ \E f \in sgFollow : FollowAnswered(f)
  BY <1>4, ControlsAreStill
<1>5. CASE \E s \in SgStock : \E outcome \in SgOutcome : BatchServed(s, outcome)
  BY <1>5, BatchIsKept
<1> QED BY <1>1, <1>2, <1>3, <1>4, <1>5, SettledIsKept, ListIsKept, RefreshPressIsKept, RefreshedIsKept,
           BrokenRefreshIsKept DEF SgNext

\* The outcomes tell the tickers of a refresh apart, so that the counts add up to all of them.
LEMMA OutcomesAddUp ==
  ASSUME NEW asked \in SUBSET SgStock, NEW result \in [asked -> SgOutcome]
  PROVE  Counts(result).acquired + Counts(result).current
           + Cardinality(Counts(result).failed) + Cardinality(Counts(result).skipped)
         = Cardinality(asked)
<1> DEFINE With(outcomes) == {s \in asked : result[s] \in outcomes}
<1>1. IsFiniteSet(asked)
  BY SgAssumption, FS_Subset
<1>2. PICK a, c, f, u : a = With({"acquired"}) /\ c = With({"fresh", "empty"}) /\ f = With({"failed"}) /\ u = With({"unknown"})
  OBVIOUS
<1>3. /\ Counts(result).acquired = Cardinality(a) /\ Counts(result).current = Cardinality(c)
      /\ Counts(result).failed = f /\ Counts(result).skipped = u
  BY <1>2 DEF Counts
<1>4. \A s \in asked : result[s] \in {"acquired", "fresh", "empty", "failed", "unknown"}
  BY SgAssumption
<1>5. (a \cup c) \cup (f \cup u) = asked /\ (a \cup c) \cap (f \cup u) = {} /\ a \cap c = {} /\ f \cap u = {}
  BY <1>2, <1>4
<1>6. IsFiniteSet(a) /\ IsFiniteSet(c) /\ IsFiniteSet(f) /\ IsFiniteSet(u)
  <2>1. a \subseteq asked /\ c \subseteq asked /\ f \subseteq asked /\ u \subseteq asked
    BY <1>2
  <2> QED BY <1>1, <2>1, FS_Subset
<1>7. PICK ac, fu : ac = a \cup c /\ fu = f \cup u
  OBVIOUS
<1>8. IsFiniteSet(ac) /\ Cardinality(ac) = Cardinality(a) + Cardinality(c)
  <2>1. IsFiniteSet(a \cup c) /\ Cardinality(a \cup c) = Cardinality(a) + Cardinality(c) - Cardinality(a \cap c)
    BY <1>6, FS_Union
  <2>2. Cardinality(a) \in Nat /\ Cardinality(c) \in Nat
    BY <1>6, FS_CardinalityType
  <2>3. Cardinality(a \cap c) = 0
    BY <1>5, FS_EmptySet
  <2> QED BY <1>7, <2>1, <2>2, <2>3
<1>9. IsFiniteSet(fu) /\ Cardinality(fu) = Cardinality(f) + Cardinality(u)
  <2>1. IsFiniteSet(f \cup u) /\ Cardinality(f \cup u) = Cardinality(f) + Cardinality(u) - Cardinality(f \cap u)
    BY <1>6, FS_Union
  <2>2. Cardinality(f) \in Nat /\ Cardinality(u) \in Nat
    BY <1>6, FS_CardinalityType
  <2>3. Cardinality(f \cap u) = 0
    BY <1>5, FS_EmptySet
  <2> QED BY <1>7, <2>1, <2>2, <2>3
<1>10. Cardinality(asked) = Cardinality(ac) + Cardinality(fu)
  <2>1. Cardinality(ac \cup fu) = Cardinality(ac) + Cardinality(fu) - Cardinality(ac \cap fu)
    BY <1>8, <1>9, FS_Union
  <2>2. Cardinality(ac) \in Nat /\ Cardinality(fu) \in Nat
    BY <1>8, <1>9, FS_CardinalityType
  <2>3. ac \cup fu = asked /\ ac \cap fu = {}
    BY <1>5, <1>7
  <2>4. Cardinality(ac \cap fu) = 0
    BY <2>3, FS_EmptySet
  <2>5. Cardinality(ac \cup fu) = Cardinality(asked)
    BY <2>3, Zenon
  <2> QED BY <2>1, <2>2, <2>4, <2>5
<1>11. Cardinality(a) \in Nat /\ Cardinality(c) \in Nat /\ Cardinality(f) \in Nat /\ Cardinality(u) \in Nat
  BY <1>6, FS_CardinalityType
<1> QED BY <1>3, <1>8, <1>9, <1>10, <1>11

LEMMA GridGives == GridInv => GridHolds
<1> SUFFICES ASSUME GridInv PROVE GridHolds
  OBVIOUS
<1> USE DEF GridInv
<1>1. GridIsNeverBlank
  <2>1. SUFFICES ASSUME sgTyped = SgStock PROVE VisibleTickers # {}
    BY DEF GridIsNeverBlank
  <2>2. Resolved(sgList, sgFilter) = "all" \/ \E s \in SgStock : sgList[s] = Resolved(sgList, sgFilter)
    BY ResolvedIsUsed DEF GridTypes
  <2> QED BY <2>1, <2>2, SgAssumption DEF VisibleTickers, Selected
<1>2. TilesAreCurrent
  <2>1. SUFFICES ASSUME sgSettled = sgTyped, sgRefresh = NoSg, NEW s \in VisibleTickers,
                        NewsKey \notin sgCut, sgNews[NewsKey].asked = NoSg, ~ sgNews[NewsKey].err
                 PROVE  Tile(s).known = sgStore[s]
    BY DEF TilesAreCurrent
  <2>2. NewsKey = VisibleTickers
    BY <2>1 DEF NewsKey, VisibleTickers, NewsTickers
  <2>3. NewsKey # {} /\ NewsKey \in SgKeys
    BY <2>1, <2>2, ScreenIsKey
  <2>4. PICK data : data = sgNews[NewsKey].data
    OBVIOUS
  <2>5. data # NoSg /\ UpToRefresh(NewsKey, data) /\ data \in TickerNews(NewsKey)
    <3>1. ~ sgNews[NewsKey].stale
      BY <2>1, <2>3 DEF ScreenIsServed
    <3>2. data # NoSg /\ UpToRefresh(NewsKey, data)
      BY <2>1, <2>3, <2>4, <3>1 DEF NewsIsStored
    <3> QED BY <2>3, <2>4, <3>2 DEF GridTypes, SgQuery
  <2>6. NewsShown = data
    BY <2>3, <2>4, <2>5 DEF NewsShown
  <2>7. s \in DOMAIN data /\ data[s] = sgStore[s]
    BY <2>1, <2>2, <2>5 DEF UpToRefresh, TickerNews
  <2>8. Tile(s).known = data[s]
    BY <2>5, <2>6, <2>7 DEF Tile
  <2> QED BY <2>7, <2>8
<1>3. SummaryFits
  <2>1. SUFFICES ASSUME sgSummary # NoSg
                 PROVE  /\ ~ sgSummary.qualified /\ ~ sgSummary.moved => sgSummary.asked = VisibleTickers
                        /\ ~ sgSummary.error =>
                             sgSummary.counts.acquired + sgSummary.counts.current
                               + Cardinality(sgSummary.counts.failed) + Cardinality(sgSummary.counts.skipped)
                             = Cardinality(sgSummary.asked)
    BY DEF SummaryFits
  <2>2. ~ sgSummary.qualified /\ ~ sgSummary.moved => sgSummary.asked = VisibleTickers
    BY <2>1 DEF SummaryIsOfTiles, About, VisibleTickers
  <2>3. ASSUME ~ sgSummary.error
        PROVE  sgSummary.counts.acquired + sgSummary.counts.current
                 + Cardinality(sgSummary.counts.failed) + Cardinality(sgSummary.counts.skipped)
               = Cardinality(sgSummary.asked)
    <3>1. PICK result \in [sgSummary.asked -> SgOutcome] : sgSummary.counts = Counts(result)
      BY <2>1, <2>3 DEF SummaryIsOfTiles
    <3>2. sgSummary.asked \in SUBSET SgStock
      BY <2>1 DEF GridTypes, SgSummaries
    <3> QED BY <3>1, <3>2, OutcomesAddUp
  <2> QED BY <2>2, <2>3
<1> QED BY <1>1, <1>2, <1>3 DEF GridHolds

\* The tiles are never blank where there are stocks, show the news that is stored, and the summary of a
\* refresh is about the tiles it names and adds up (StockTileGrid.tsx, portfolioNews.ts).
THEOREM GridAlwaysHolds == SgSpec => []GridHolds
<1>1. SgInit => GridInv
  BY GridStarts
<1>2. GridInv /\ [SgNext]_sgVars => GridInv'
  BY GridStep
<1>3. GridInv => GridHolds
  BY GridGives
<1> QED BY <1>1, <1>2, <1>3, PTL DEF SgSpec

-----------------------------------------------------------------------------
(* The price lookup of the simulation lab.                                 *)

\* A lookup asked before the user's last edit of the price finds the user's price.
PriceInv ==
  /\ plLookup = [phase |-> plLookup.phase, ticker |-> plLookup.ticker,
                 edits |-> plLookup.edits, attempt |-> plLookup.attempt]
  /\ plLookup.phase # "none" /\ plLookup.edits # plEdits => plPrice = "user"

LEMMA PriceStep == PriceInv /\ [PlNext]_plVars => PriceInv'
<1> SUFFICES ASSUME PriceInv, [PlNext]_plVars PROVE PriceInv'
  OBVIOUS
<1> USE DEF PriceInv
<1>1. ASSUME NEW t \in Field, TypeTicker(t) PROVE PriceInv'
  BY <1>1 DEF TypeTicker
<1>2. CASE TypePrice
  BY <1>2 DEF TypePrice
<1>3. CASE LeaveTicker
  BY <1>3 DEF LeaveTicker
<1>4. CASE RetryDue
  <2>1. CASE plLookup' = NoLookup
    BY <1>4, <2>1 DEF RetryDue, NoLookup
  <2>2. CASE plLookup' = [plLookup EXCEPT !.phase = "asked", !.attempt = @ + 1]
    <3>1. plLookup.phase = "waiting" /\ UNCHANGED <<plPrice, plEdits>>
      BY <1>4 DEF RetryDue
    <3>2. plLookup' = [phase |-> "asked", ticker |-> plLookup.ticker,
                       edits |-> plLookup.edits, attempt |-> plLookup.attempt + 1]
      BY <2>2
    <3> QED BY <3>1, <3>2
  <2> QED BY <1>4, <2>1, <2>2 DEF RetryDue, Ends
<1>5. ASSUME NEW reply \in Reply, LookupAnswered(reply) PROVE PriceInv'
  BY <1>5 DEF LookupAnswered, Ends, NoLookup, StillWanted
<1>6. CASE UNCHANGED plVars
  BY <1>6 DEF plVars
<1> QED BY <1>1, <1>2, <1>3, <1>4, <1>5, <1>6 DEF PlNext

\* "Loaded" is only said of the price of the ticker in the field, and no answer replaces a price the
\* user typed after asking (runStockPriceLookup), for any tickers and any number of attempts.
THEOREM LoadedAlwaysShown == PlInit /\ [][PlNext]_plVars => LoadedIsShown
<1>1. PlInit => PriceInv
  BY DEF PlInit, PriceInv, NoLookup
<1>2. ASSUME PriceInv, [PlNext]_plVars
      PROVE  [/\ (plMessage' = "loaded" /\ plMessage # "loaded") =>
                   \/ plPrice' = plTicker
                   \/ plEdits # plLookup.edits /\ plPrice' = "user"
              /\ (plPrice = "user" /\ plPrice' # "user") => plLookup.edits = plEdits]_plVars
  <2>1. ASSUME NEW t \in Field, TypeTicker(t)
        PROVE  plMessage' # "loaded" /\ plPrice' = plPrice
    BY <2>1 DEF TypeTicker
  <2>2. CASE TypePrice
    BY <2>2 DEF TypePrice
  <2>3. CASE LeaveTicker
    BY <2>3 DEF LeaveTicker
  <2>4. CASE RetryDue
    BY <2>4 DEF RetryDue, Ends
  <2>5. ASSUME NEW reply \in Reply, LookupAnswered(reply)
        PROVE  /\ (plMessage' = "loaded" /\ plMessage # "loaded") =>
                   \/ plPrice' = plTicker
                   \/ plEdits # plLookup.edits /\ plPrice' = "user"
               /\ (plPrice = "user" /\ plPrice' # "user") => plLookup.edits = plEdits
    BY <1>2, <2>5 DEF LookupAnswered, Ends, StillWanted, PriceInv
  <2> QED BY <1>2, <2>1, <2>2, <2>3, <2>4, <2>5 DEF PlNext
<1> QED BY <1>1, <1>2, PriceStep, PTL DEF LoadedIsShown

-----------------------------------------------------------------------------
(* The runs of the simulation lab.                                         *)

Among(x, s) == \E i \in DOMAIN s : s[i] = x

LEMMA AppendedAmong ==
  ASSUME NEW S, NEW s \in Seq(S), NEW e \in S
  PROVE  /\ Append(s, e) \in Seq(S)
         /\ \A x : Among(x, Append(s, e)) <=> Among(x, s) \/ x = e
<1>1. PICK t : t = Append(s, e)
  OBVIOUS
<1>2. t \in Seq(S) /\ Len(t) = Len(s) + 1 /\ t[Len(s) + 1] = e /\ DOMAIN t = 1..Len(s) + 1
      /\ DOMAIN s = 1..Len(s) /\ Len(s) \in Nat /\ \A i \in 1..Len(s) : t[i] = s[i]
  BY <1>1
<1>3. ASSUME NEW x PROVE Among(x, t) <=> Among(x, s) \/ x = e
  BY <1>2 DEF Among
<1> QED BY <1>1, <1>2, <1>3

LEMMA TailAmong ==
  ASSUME NEW S, NEW s \in Seq(S), s # <<>>
  PROVE  /\ Head(s) \in S /\ Tail(s) \in Seq(S)
         /\ \A x : Among(x, s) <=> x = Head(s) \/ Among(x, Tail(s))
<1>1. PICK t, h : t = Tail(s) /\ h = Head(s)
  OBVIOUS
<1>2. t \in Seq(S) /\ h \in S /\ Len(s) \in Nat \ {0} /\ Len(t) = Len(s) - 1 /\ h = s[1]
      /\ DOMAIN t = 1..Len(s) - 1 /\ DOMAIN s = 1..Len(s) /\ \A i \in 1..Len(s) - 1 : t[i] = s[i + 1]
  BY <1>1
<1>3. ASSUME NEW x PROVE Among(x, s) <=> x = h \/ Among(x, t)
  <2>1. ASSUME NEW i \in DOMAIN s, s[i] = x, x # h PROVE Among(x, t)
    <3>1. i - 1 \in DOMAIN t /\ t[i - 1] = x
      BY <1>2, <2>1
    <3> QED BY <3>1 DEF Among
  <2>2. ASSUME NEW i \in DOMAIN t, t[i] = x PROVE Among(x, s)
    <3>1. i + 1 \in DOMAIN s /\ s[i + 1] = x
      BY <1>2, <2>2
    <3> QED BY <3>1 DEF Among
  <2>3. 1 \in DOMAIN s
    BY <1>2
  <2> QED BY <1>2, <2>1, <2>2, <2>3 DEF Among
<1> QED BY <1>1, <1>2, <1>3

RunsShape ==
  /\ mcTab \in McTab /\ mcAmount \in Amount
  /\ mcStatus \in [Kind -> {"idle", "loading", "error", "cancelled"}]
  /\ mcResult \in [Kind -> McMessage \cup {McNone}]
  /\ mcActive \in McMessage \cup {McNone} /\ mcJob \in McMessage \cup {McNone}
  /\ mcPending \in Figures \cup {McNone} /\ mcBefore \in Figures \cup {McNone}
  /\ mcInbox \in Seq(McMessage) /\ mcOutbox \in Seq(Answer)
  /\ mcUsed \in [runs : Nat, tabs : Nat, errors : Nat]

Started(id) == id \in 1..mcUsed.runs
\* A run in flight with the active run's id is the active run.
RunIsKnown(run) ==
  ~ run.cancel /\ Started(run.id) /\ (mcActive # McNone /\ run.id = mcActive.id => run = mcActive)
RunsAreKnown ==
  /\ \A m \in McMessage : Among(m, mcInbox) => IF m.cancel THEN m.id \in mcDropped ELSE RunIsKnown(m)
  /\ mcJob # McNone => RunIsKnown(mcJob)
  /\ \A a \in Answer : Among(a, mcOutbox) => RunIsKnown(a.run)
\* What the worker cancels was cancelled by the page.
CancelledAreDropped == mcCancelled \subseteq mcDropped /\ \A id \in mcDropped : Started(id)
OnTheWay(run) ==
  Among(run, mcInbox) \/ mcJob = run \/ \E a \in Answer : Among(a, mcOutbox) /\ a.run = run
ActiveIsKept ==
  mcActive # McNone =>
    /\ ~ mcActive.cancel /\ Started(mcActive.id) /\ mcActive.id \notin mcDropped
    /\ OnTheWay(mcActive)
    /\ mcStatus[mcActive.kind] = "loading"
    /\ mcPending \in {McNone, mcActive.shown}
LoadingIsOne == \A k \in Kind : mcStatus[k] = "loading" => mcActive # McNone /\ mcActive.kind = k
ResultsAreKept ==
  \A k \in Kind : mcResult[k] # McNone =>
    /\ Started(mcResult[k].id) /\ mcResult[k].id \notin mcDropped
    /\ mcActive # McNone => mcResult[k].id # mcActive.id
RunsInv ==
  /\ RunsShape /\ RunsAreKnown /\ CancelledAreDropped /\ ActiveIsKept /\ LoadingIsOne /\ ResultsAreKept
  /\ BeforeIsReplaced

LEMMA CancelFacts ==
  ASSUME NEW m \in McMessage
  PROVE  /\ [m EXCEPT !.cancel = TRUE] \in McMessage /\ [m EXCEPT !.cancel = TRUE].cancel
         /\ [m EXCEPT !.cancel = TRUE].id = m.id
  BY DEF McMessage

LEMMA RequestFacts ==
  ASSUME RunsShape, NEW k \in Kind, mcUsed.runs < McMaxRuns, NEW r,
         r = [cancel |-> FALSE, id |-> mcUsed.runs + 1, kind |-> k, amount |-> mcAmount, shown |-> FiguresOf(k)]
  PROVE  /\ r \in McMessage /\ ~ r.cancel /\ r.id = mcUsed.runs + 1 /\ r.kind = k
         /\ r.shown = FiguresOf(k) /\ FiguresOf(k) \in Figures \cup {McNone}
<1>1. FiguresOf(k) \in Figures \cup {McNone}
  <2>1. CASE mcResult[k] # McNone
    <3>1. mcResult[k] \in McMessage
      BY <2>1 DEF RunsShape
    <3>2. mcResult[k].id \in RunId /\ mcResult[k].amount \in Amount
      BY <3>1 DEF McMessage
    <3>3. PICK invested \in Amount : FiguresOf(k) = [tab |-> k, run |-> mcResult[k].id, amount |-> invested]
      BY <2>1, <3>2 DEF FiguresOf, RunsShape
    <3> QED BY <3>2, <3>3 DEF Figures
  <2> QED BY <2>1 DEF FiguresOf
<1>2. mcUsed.runs + 1 \in RunId
  BY McAssumption DEF RunId, RunsShape
<1> QED BY <1>1, <1>2 DEF McMessage, RunsShape

LEMMA EditAmountInv == ASSUME RunsInv, NEW a \in Amount, EditAmount(a) PROVE RunsInv'
  BY DEF EditAmount, RunsInv, RunsShape, RunsAreKnown, RunIsKnown, Started, CancelledAreDropped, ActiveIsKept,
     OnTheWay, LoadingIsOne, ResultsAreKept, BeforeIsReplaced

LEMMA ChangeTabInv == ASSUME RunsInv, NEW tab \in McTab, ChangeTab(tab) PROVE RunsInv'
<1> USE DEF RunsInv
<1>1. mcUsed' \in [runs : Nat, tabs : Nat, errors : Nat] /\ mcUsed'.runs = mcUsed.runs
  BY DEF ChangeTab, RunsShape
<1>2. RunsShape' /\ BeforeIsReplaced'
  BY <1>1 DEF ChangeTab, RunsShape, BeforeIsReplaced
<1>3. RunsAreKnown' /\ CancelledAreDropped'
  BY <1>1 DEF ChangeTab, RunsAreKnown, RunIsKnown, Started, CancelledAreDropped
<1>4. ActiveIsKept' /\ LoadingIsOne' /\ ResultsAreKept'
  BY <1>1 DEF ChangeTab, ActiveIsKept, Started, OnTheWay, LoadingIsOne, ResultsAreKept
<1> QED BY <1>2, <1>3, <1>4

LEMMA RunFacts ==
  ASSUME RunsInv, NEW k \in Kind, Run(k)
  PROVE  /\ mcActive' \in McMessage /\ ~ mcActive'.cancel /\ mcActive'.id = mcUsed.runs + 1
         /\ mcActive'.kind = k
         /\ mcPending' = mcActive'.shown /\ mcPending' \in Figures \cup {McNone}
         /\ mcUsed' \in [runs : Nat, tabs : Nat, errors : Nat] /\ mcUsed'.runs = mcUsed.runs + 1
         /\ mcDropped' = mcDropped \cup {m.id : m \in {mcActive} \ {McNone}}
         /\ mcStatus' \in [Kind -> {"idle", "loading", "error", "cancelled"}]
         /\ \A j \in Kind : mcStatus'[j] = "loading" <=> j = k
         /\ mcInbox' \in Seq(McMessage) /\ Among(mcActive', mcInbox')
         /\ \A x : Among(x, mcInbox') =>
              \/ Among(x, mcInbox) \/ x = mcActive'
              \/ mcActive # McNone /\ x.cancel /\ x.id = mcActive.id
         /\ UNCHANGED <<mcTab, mcAmount, mcResult, mcBefore, mcJob, mcCancelled, mcOutbox>>
<1>1. PICK r : r = [cancel |-> FALSE, id |-> mcUsed.runs + 1, kind |-> k, amount |-> mcAmount,
                    shown |-> FiguresOf(k)]
  OBVIOUS
<1>2. /\ r \in McMessage /\ ~ r.cancel /\ r.id = mcUsed.runs + 1 /\ r.kind = k
      /\ r.shown = FiguresOf(k) /\ FiguresOf(k) \in Figures \cup {McNone}
  BY <1>1, RequestFacts DEF Run, RunsInv
<1>3. mcActive' = r /\ mcPending' = FiguresOf(k)
  BY <1>1 DEF Run
<1>4. mcUsed' \in [runs : Nat, tabs : Nat, errors : Nat] /\ mcUsed'.runs = mcUsed.runs + 1
  <2>1. mcUsed \in [runs : Nat, tabs : Nat, errors : Nat] /\ mcUsed' = [mcUsed EXCEPT !.runs = @ + 1]
    BY DEF Run, RunsInv, RunsShape
  <2> QED BY <2>1
<1>5. /\ mcStatus' \in [Kind -> {"idle", "loading", "error", "cancelled"}]
      /\ \A j \in Kind : mcStatus'[j] = "loading" <=> j = k
  <2>1. PICK left : left = Superseded(mcStatus)
    OBVIOUS
  <2>2. /\ left \in [Kind -> {"idle", "loading", "error", "cancelled"}]
        /\ \A j \in Kind : left[j] # "loading"
    <3>1. CASE mcActive = McNone
      BY <2>1, <3>1 DEF Superseded, RunsInv, RunsShape, LoadingIsOne
    <3>2. CASE mcActive # McNone
      <4>1. mcActive.kind \in Kind
        BY <3>2 DEF RunsInv, RunsShape, McMessage
      <4> QED BY <2>1, <3>2, <4>1 DEF Superseded, RunsInv, RunsShape, LoadingIsOne
    <3> QED BY <3>1, <3>2
  <2>3. mcStatus' = [left EXCEPT ![k] = "loading"]
    BY <2>1 DEF Run
  <2> QED BY <2>2, <2>3
<1>6. /\ mcInbox' \in Seq(McMessage) /\ Among(r, mcInbox')
      /\ \A x : Among(x, mcInbox') =>
           \/ Among(x, mcInbox) \/ x = r
           \/ mcActive # McNone /\ x.cancel /\ x.id = mcActive.id
  <2>0. mcInbox \in Seq(McMessage)
    BY DEF RunsInv, RunsShape
  <2>1. CASE mcActive = McNone
    <3>1. mcInbox' = mcInbox \o <<>> \o <<r>>
      BY <1>1, <2>1 DEF Run
    <3>2. mcInbox' = Append(mcInbox, r)
      BY <1>2, <2>0, <3>1
    <3> QED BY <1>2, <2>0, <3>2, AppendedAmong
  <2>2. CASE mcActive # McNone
    <3>1. PICK c : c = CancelMessage
      OBVIOUS
    <3>2. c \in McMessage /\ c.cancel /\ c.id = mcActive.id
      BY <2>2, <3>1, CancelFacts DEF CancelMessage, RunsInv, RunsShape
    <3>3. mcInbox' = mcInbox \o <<c>> \o <<r>>
      BY <1>1, <2>2, <3>1 DEF Run
    <3>4. PICK mid : mid = Append(mcInbox, c)
      OBVIOUS
    <3>5. mid \in Seq(McMessage) /\ \A x : Among(x, mid) <=> Among(x, mcInbox) \/ x = c
      BY <2>0, <3>2, <3>4, AppendedAmong
    <3>6. mcInbox' = Append(mid, r)
      BY <1>2, <2>0, <3>2, <3>3, <3>4
    <3>7. mcInbox' \in Seq(McMessage) /\ \A x : Among(x, mcInbox') <=> Among(x, mid) \/ x = r
      BY <1>2, <3>5, <3>6, AppendedAmong
    <3> QED BY <2>2, <3>2, <3>5, <3>7
  <2> QED BY <2>1, <2>2
<1> QED BY <1>2, <1>3, <1>4, <1>5, <1>6 DEF Run

LEMMA RunInv == ASSUME RunsInv, NEW k \in Kind, Run(k) PROVE RunsInv'
<1> USE DEF RunsInv
<1>1. PICK r, runs : r = mcActive' /\ runs = mcUsed.runs
  OBVIOUS
<1>2. /\ r \in McMessage /\ ~ r.cancel /\ r.id = runs + 1 /\ r # McNone
      /\ runs \in Nat /\ mcUsed'.runs = runs + 1
      /\ mcJob' = mcJob /\ mcOutbox' = mcOutbox /\ mcCancelled' = mcCancelled /\ mcResult' = mcResult
  BY <1>1, RunFacts, NoneIsNone DEF RunsShape
<1>3. \A id : Started(id) <=> id \in 1..runs
  BY <1>1 DEF Started
<1>4. \A id : Started(id)' <=> id \in 1..runs \/ id = r.id
  BY <1>2 DEF Started
<1>5. r.id \notin 1..runs
  BY <1>2
<1>6. RunsShape'
  BY RunFacts DEF RunsShape
<1>7. /\ mcDropped \subseteq mcDropped' /\ \A id \in mcDropped' : id \in 1..runs
      /\ mcActive # McNone => mcActive.id \in mcDropped'
  BY <1>3, RunFacts DEF CancelledAreDropped, ActiveIsKept
<1>8. CancelledAreDropped'
  BY <1>2, <1>4, <1>7 DEF CancelledAreDropped
<1>9. RunsAreKnown'
  <2>1. ASSUME NEW run, RunIsKnown(run) PROVE RunIsKnown(run)'
    BY <1>1, <1>3, <1>4, <1>5, <2>1 DEF RunIsKnown
  <2>2. RunIsKnown(r)'
    BY <1>1, <1>2, <1>4 DEF RunIsKnown
  <2>3. ASSUME NEW m \in McMessage, Among(m, mcInbox')
        PROVE  IF m.cancel THEN m.id \in mcDropped' ELSE RunIsKnown(m)'
    <3>1. \/ Among(m, mcInbox) \/ m = r
          \/ mcActive # McNone /\ m.cancel /\ m.id = mcActive.id
      <4>1. \A x : Among(x, mcInbox') =>
              \/ Among(x, mcInbox) \/ x = mcActive'
              \/ mcActive # McNone /\ x.cancel /\ x.id = mcActive.id
        BY RunFacts
      <4> QED BY <1>1, <2>3, <4>1, Zenon
    <3>2. CASE Among(m, mcInbox)
      BY <1>7, <2>1, <3>2 DEF RunsAreKnown
    <3>3. CASE m = r
      BY <1>2, <2>2, <3>3
    <3>4. CASE mcActive # McNone /\ m.cancel /\ m.id = mcActive.id
      BY <1>7, <3>4
    <3> QED BY <3>1, <3>2, <3>3, <3>4
  <2>4. (mcJob # McNone => RunIsKnown(mcJob)) /\ \A a \in Answer : Among(a, mcOutbox) => RunIsKnown(a.run)
    BY DEF RunsAreKnown
  <2>5. PICK job, outbox : job = mcJob /\ outbox = mcOutbox
    OBVIOUS
  <2>6. (job # McNone => RunIsKnown(job)') /\ \A a \in Answer : Among(a, outbox) => RunIsKnown(a.run)'
    BY <2>1, <2>4, <2>5
  <2> QED BY <1>2, <2>3, <2>5, <2>6 DEF RunsAreKnown
<1>10. ActiveIsKept'
  BY <1>1, <1>2, <1>4, <1>5, <1>7, RunFacts DEF ActiveIsKept, OnTheWay
<1>11. LoadingIsOne'
  BY <1>1, <1>2, RunFacts DEF LoadingIsOne
<1>12. ResultsAreKept'
  BY <1>1, <1>2, <1>3, <1>4, <1>5, RunFacts DEF ResultsAreKept, ActiveIsKept
<1>13. BeforeIsReplaced'
  BY RunFacts DEF BeforeIsReplaced
<1> QED BY <1>6, <1>8, <1>9, <1>10, <1>11, <1>12, <1>13

LEMMA CancelInv == ASSUME RunsInv, NEW k \in Kind, Cancel(k) PROVE RunsInv'
<1> USE DEF RunsInv
<1>1. PICK c : c = CancelMessage
  OBVIOUS
<1>2. mcActive \in McMessage /\ c \in McMessage /\ c.cancel /\ c.id = mcActive.id
  BY <1>1, CancelFacts DEF Cancel, CancelMessage, RunsShape
<1>3. mcInbox' = Append(mcInbox, c) /\ mcInbox \in Seq(McMessage)
  BY <1>1 DEF Cancel, RunsShape
<1>4. mcInbox' \in Seq(McMessage) /\ \A x : Among(x, mcInbox') <=> Among(x, mcInbox) \/ x = c
  BY <1>2, <1>3, AppendedAmong
<1>5. RunsShape'
  BY <1>4 DEF Cancel, RunsShape
<1>6. CancelledAreDropped'
  BY DEF Cancel, CancelledAreDropped, ActiveIsKept, Started
<1>7. RunsAreKnown'
  <2>1. ASSUME NEW run, RunIsKnown(run) PROVE RunIsKnown(run)'
    BY <2>1 DEF Cancel, RunIsKnown, Started
  <2>2. \A m \in McMessage : Among(m, mcInbox') => IF m.cancel THEN m.id \in mcDropped' ELSE RunIsKnown(m)'
    BY <1>2, <1>4, <2>1 DEF Cancel, RunsAreKnown
  <2> QED BY <2>1, <2>2 DEF Cancel, RunsAreKnown
<1>8. LoadingIsOne'
  BY DEF Cancel, CanCancel, LoadingIsOne, RunsShape
<1>9. ActiveIsKept' /\ ResultsAreKept' /\ BeforeIsReplaced'
  BY DEF Cancel, ActiveIsKept, ResultsAreKept, Started, BeforeIsReplaced
<1> QED BY <1>5, <1>6, <1>7, <1>8, <1>9

LEMMA WorkerTakesInv == ASSUME RunsInv, WorkerTakes PROVE RunsInv'
<1> USE DEF RunsInv
<1>1. PICK m, rest : m = Head(mcInbox) /\ rest = Tail(mcInbox)
  OBVIOUS
<1>2. /\ mcInbox' = rest /\ mcJob = McNone
      /\ IF m.cancel THEN mcCancelled' = mcCancelled \cup {m.id} /\ UNCHANGED mcJob
         ELSE mcCancelled' = mcCancelled \ {m.id} /\ mcJob' = m
      /\ UNCHANGED <<mcTab, mcAmount, mcStatus, mcResult, mcActive, mcPending, mcBefore, mcOutbox,
                     mcDropped, mcUsed>>
  BY <1>1 DEF WorkerTakes
<1>3. m \in McMessage /\ rest \in Seq(McMessage) /\ \A x : Among(x, mcInbox) <=> x = m \/ Among(x, rest)
  BY <1>1, TailAmong DEF WorkerTakes, RunsShape
<1>4. IF m.cancel THEN m.id \in mcDropped ELSE RunIsKnown(m)
  BY <1>3 DEF RunsAreKnown
<1>5. RunsShape'
  BY <1>2, <1>3 DEF RunsShape
<1>6. CancelledAreDropped'
  BY <1>2, <1>4 DEF CancelledAreDropped, Started
<1>7. RunsAreKnown'
  <2>1. ASSUME NEW run, RunIsKnown(run) PROVE RunIsKnown(run)'
    BY <1>2, <2>1 DEF RunIsKnown, Started
  <2> QED BY <1>2, <1>3, <1>4, <2>1 DEF RunsAreKnown
<1>8. ActiveIsKept'
  BY <1>2, <1>3 DEF ActiveIsKept, OnTheWay, Started
<1>9. LoadingIsOne' /\ ResultsAreKept' /\ BeforeIsReplaced'
  BY <1>2 DEF LoadingIsOne, ResultsAreKept, Started, BeforeIsReplaced
<1> QED BY <1>5, <1>6, <1>7, <1>8, <1>9

LEMMA WorkerEndsInv == ASSUME RunsInv, NEW failed \in BOOLEAN, WorkerEnds(failed) PROVE RunsInv'
<1> USE DEF RunsInv
<1>1. PICK a : a = [failed |-> failed, run |-> mcJob]
  OBVIOUS
<1>2. mcJob \in McMessage /\ a \in Answer /\ a.run = mcJob
  BY <1>1 DEF WorkerEnds, RunsShape, Answer
<1>3. mcUsed' \in [runs : Nat, tabs : Nat, errors : Nat] /\ mcUsed'.runs = mcUsed.runs
  BY DEF WorkerEnds, RunsShape
<1>4. /\ mcOutbox' \in Seq(Answer)
      /\ mcJob.id \in mcCancelled => mcOutbox' = mcOutbox
      /\ mcJob.id \notin mcCancelled => \A x : Among(x, mcOutbox') <=> Among(x, mcOutbox) \/ x = a
  BY <1>1, <1>2, AppendedAmong DEF WorkerEnds, RunsShape
<1>5. RunsShape'
  BY <1>3, <1>4 DEF WorkerEnds, RunsShape
<1>6. CancelledAreDropped'
  BY <1>3 DEF WorkerEnds, CancelledAreDropped, Started
<1>7. RunsAreKnown'
  <2>1. ASSUME NEW run, RunIsKnown(run) PROVE RunIsKnown(run)'
    BY <1>3, <2>1 DEF WorkerEnds, RunIsKnown, Started
  <2> QED BY <1>2, <1>4, <2>1 DEF WorkerEnds, RunsAreKnown
<1>8. ActiveIsKept'
  <2>1. ASSUME mcActive # McNone PROVE OnTheWay(mcActive)'
    <3>1. mcActive = mcJob => mcJob.id \notin mcCancelled
      BY <2>1 DEF ActiveIsKept, CancelledAreDropped
    <3> QED BY <1>2, <1>4, <2>1, <3>1 DEF WorkerEnds, ActiveIsKept, OnTheWay
  <2> QED BY <1>3, <2>1 DEF WorkerEnds, ActiveIsKept, Started
<1>9. LoadingIsOne' /\ ResultsAreKept' /\ BeforeIsReplaced'
  BY <1>3 DEF WorkerEnds, LoadingIsOne, ResultsAreKept, Started, BeforeIsReplaced
<1> QED BY <1>5, <1>6, <1>7, <1>8, <1>9

LEMMA AnsweredInv == ASSUME RunsInv, Answered PROVE RunsInv'
<1> USE DEF RunsInv
<1>1. PICK a, rest : a = Head(mcOutbox) /\ rest = Tail(mcOutbox)
  OBVIOUS
<1>2. a \in Answer /\ rest \in Seq(Answer) /\ \A x : Among(x, mcOutbox) <=> x = a \/ Among(x, rest)
  BY <1>1, TailAmong DEF Answered, RunsShape
<1>3. a.run \in McMessage /\ a.run.kind \in Kind
  BY <1>2 DEF Answer, McMessage
<1>4. RunIsKnown(a.run)
  BY <1>2 DEF RunsAreKnown
<1>5. mcOutbox' = rest /\ UNCHANGED <<mcTab, mcAmount, mcPending, mcInbox, mcJob, mcCancelled, mcDropped, mcUsed>>
  BY <1>1 DEF Answered
<1>6. CASE ~ Expected(a)
  <2>1. UNCHANGED <<mcStatus, mcResult, mcActive, mcBefore>>
    BY <1>1, <1>6 DEF Answered
  <2>2. RunsShape' /\ CancelledAreDropped' /\ RunsAreKnown'
    BY <1>2, <1>5, <2>1 DEF RunsShape, CancelledAreDropped, RunsAreKnown, RunIsKnown, Started
  <2>3. ActiveIsKept'
    BY <1>2, <1>5, <1>6, <2>1 DEF ActiveIsKept, OnTheWay, Started, Expected
  <2>4. LoadingIsOne' /\ ResultsAreKept' /\ BeforeIsReplaced'
    BY <1>5, <2>1 DEF LoadingIsOne, ResultsAreKept, Started, BeforeIsReplaced
  <2> QED BY <2>2, <2>3, <2>4
<1>7. CASE Expected(a)
  <2>1. mcActive # McNone /\ a.run = mcActive /\ mcActive.kind \in Kind /\ mcActive' = McNone
    BY <1>1, <1>3, <1>4, <1>7 DEF Expected, RunIsKnown, Answered
  <2>2. CancelledAreDropped' /\ RunsAreKnown' /\ ActiveIsKept'
    BY <1>2, <1>5, <2>1 DEF CancelledAreDropped, RunsAreKnown, RunIsKnown, Started, ActiveIsKept
  <2>3. CASE a.failed
    <3>1. mcStatus' = [mcStatus EXCEPT ![mcActive.kind] = "error"] /\ UNCHANGED <<mcResult, mcBefore>>
      BY <1>1, <1>7, <2>3 DEF Answered
    <3>2. RunsShape' /\ LoadingIsOne'
      BY <1>2, <1>5, <2>1, <3>1 DEF RunsShape, LoadingIsOne
    <3>3. ResultsAreKept' /\ BeforeIsReplaced'
      BY <1>5, <2>1, <3>1 DEF ResultsAreKept, Started, BeforeIsReplaced
    <3> QED BY <2>2, <3>2, <3>3
  <2>4. CASE ~ a.failed
    <3>1. /\ mcStatus' = [mcStatus EXCEPT ![mcActive.kind] = "idle"]
          /\ mcResult' = [mcResult EXCEPT ![mcActive.kind] = mcActive]
          /\ mcBefore' = BeforeShown(mcActive.kind)
      BY <1>1, <1>7, <2>1, <2>4 DEF Answered
    <3>2. RunsShape' /\ LoadingIsOne'
      BY <1>2, <1>5, <2>1, <3>1 DEF RunsShape, LoadingIsOne, BeforeShown
    <3>3. ResultsAreKept'
      BY <1>5, <2>1, <3>1 DEF ResultsAreKept, Started, ActiveIsKept, RunsShape
    <3>4. BeforeIsReplaced'
      BY <1>5, <2>1, <3>1 DEF BeforeIsReplaced, BeforeShown, ActiveIsKept, RunsShape
    <3> QED BY <2>2, <3>2, <3>3, <3>4
  <2> QED BY <2>3, <2>4
<1> QED BY <1>6, <1>7

LEMMA RunsStep == RunsInv /\ [McNext]_mcVars => RunsInv'
<1> SUFFICES ASSUME RunsInv, [McNext]_mcVars PROVE RunsInv'
  OBVIOUS
<1>1. CASE UNCHANGED mcVars
  BY <1>1 DEF mcVars, RunsInv, RunsShape, RunsAreKnown, RunIsKnown, Started, CancelledAreDropped, ActiveIsKept,
     OnTheWay, LoadingIsOne, ResultsAreKept, BeforeIsReplaced
<1> QED
  BY <1>1, EditAmountInv, ChangeTabInv, RunInv, CancelInv, AnsweredInv, WorkerTakesInv, WorkerEndsInv DEF McNext

\* A tab of the lab says "Running" exactly while the run it asked for is the active one and its answer
\* is on its way, no cancelled or superseded run shows a result, and the values struck through are
\* those shown when the run was started (supersedeActiveRun and the worker), for any number of runs.
THEOREM RunsAreAlwaysTold == McSpec => []RunsAreTold
<1>1. McInit => RunsInv
  <2> SUFFICES ASSUME McInit PROVE RunsInv
    OBVIOUS
  <2>1. mcAmount \in Amount
    BY McAssumption DEF McInit
  <2>2. mcInbox = <<>> /\ mcOutbox = <<>> /\ \A x : ~ Among(x, <<>>)
    BY DEF McInit, Among
  <2>3. RunsShape
    BY <2>1, <2>2 DEF McInit, RunsShape, McTab, Kind
  <2>4. RunsAreKnown /\ CancelledAreDropped
    BY <2>2 DEF McInit, RunsAreKnown, CancelledAreDropped
  <2>5. ActiveIsKept /\ LoadingIsOne /\ ResultsAreKept /\ BeforeIsReplaced
    BY DEF McInit, ActiveIsKept, LoadingIsOne, ResultsAreKept, BeforeIsReplaced
  <2> QED BY <2>3, <2>4, <2>5 DEF RunsInv
<1>2. RunsInv => RunsAreTold
  <2> SUFFICES ASSUME RunsInv PROVE RunsAreTold
    OBVIOUS
  <2>1. ASSUME NEW run, OnTheWay(run) PROVE OnItsWay(run)
    BY <2>1 DEF OnTheWay, OnItsWay, Among
  <2>2. LoadingIsActive
    BY <2>1 DEF RunsInv, LoadingIsActive, LoadingIsOne, ActiveIsKept
  <2>3. CancelledNeverShows /\ BeforeIsReplaced
    BY DEF RunsInv, ResultsAreKept, CancelledNeverShows
  <2> QED BY <2>2, <2>3 DEF RunsAreTold
<1> QED BY <1>1, <1>2, RunsStep, PTL DEF McSpec

-----------------------------------------------------------------------------
(* The event stream of the developer monitor.                              *)

\* What the handlers of the last effects hold on to is what those effects set up.
StreamIsSetUp ==
  /\ psStreams \in {0, 1}
  /\ Active(psSeen) => (psStreams = 1 <=> ~ psTimer)
  /\ ~ Active(psSeen) => psStreams = 0 /\ ~ psTimer

StreamInv ==
  /\ psWanted \in Wish /\ psSeen \in Wish /\ psTimer \in BOOLEAN
  /\ psGot \subseteq Event /\ psSeeds \subseteq Event /\ psLog \in 0..PsMaxEvents /\ psCutoff \in 0..PsMaxEvents
  /\ StreamIsSetUp

LEMMA EventsAre == PsMaxEvents \in Nat /\ Event \subseteq Nat /\ \A e \in Event : e <= PsMaxEvents
<1>1. PsMaxEvents \in Nat
  BY PsAssumption, Zenon
<1> QED BY <1>1 DEF Event

LEMMA FirstOfEvents ==
  ASSUME NEW S \in SUBSET Event, S # {}
  PROVE  \E e \in S : \A f \in S : e <= f
<1> DEFINE R == {pair \in Nat \X Nat : pair[1] < pair[2]}
<1>1. S \subseteq Nat
  BY EventsAre
<1>2. IsWellFoundedOn(R, Nat)
  BY NatLessThanWellFounded DEF OpToRel
<1>3. PICK e \in S : \A f \in S : <<f, e>> \notin R
  <2> HIDE DEF R
  <2> QED BY <1>1, <1>2, WFMin
<1>4. \A f \in S : e <= f
  <2> TAKE f \in S
  <2>1. e \in Nat /\ f \in Nat
    BY <1>1
  <2>2. ~ (f < e)
    BY <1>3, <2>1
  <2> QED BY <2>1, <2>2
<1> QED BY <1>4

LEMMA LastOfEvents ==
  ASSUME NEW S \in SUBSET Event, S # {}
  PROVE  \E e \in S : \A f \in S : f <= e
<1> DEFINE Mirror == {PsMaxEvents + 1 - e : e \in S}
<1>1. Mirror \subseteq Event /\ Mirror # {}
  <2>1. ASSUME NEW e \in S PROVE PsMaxEvents + 1 - e \in Event
    <3>1. e \in 1..PsMaxEvents /\ PsMaxEvents \in Nat
      BY EventsAre DEF Event
    <3> QED BY <3>1 DEF Event
  <2> QED BY <2>1
<1>2. PICK m \in Mirror : \A f \in Mirror : m <= f
  <2> HIDE DEF Mirror
  <2> QED BY <1>1, FirstOfEvents
<1>3. PICK e \in S : m = PsMaxEvents + 1 - e
  OBVIOUS
<1>4. \A f \in S : f <= e
  <2> TAKE f \in S
  <2>1. m <= PsMaxEvents + 1 - f
    BY <1>2
  <2>2. e \in Nat /\ f \in Nat /\ PsMaxEvents \in Nat
    BY EventsAre
  <2> QED BY <1>3, <2>1, <2>2
<1> QED BY <1>4

LEMMA LaterAre ==
  ASSUME NEW S \in SUBSET Event, NEW e
  PROVE  /\ IsFiniteSet(S)
         /\ IsFiniteSet({f \in S : f > e}) /\ Cardinality({f \in S : f > e}) \in Nat
<1>1. IsFiniteSet(S)
  BY EventsAre, FS_BoundedSetOfNaturals
<1>2. {f \in S : f > e} \in SUBSET S
  OBVIOUS
<1>3. IsFiniteSet({f \in S : f > e})
  BY <1>1, <1>2, FS_Subset
<1> QED BY <1>1, <1>3, FS_CardinalityType

\* What does not fit is left out only when the buffer is full.
LEMMA NewestIsFull ==
  ASSUME NEW S \in SUBSET Event, NEW n \in Nat \ {0}, NEW e \in S, e \notin Newest(S, n)
  PROVE  Cardinality(Newest(S, n)) = n
<1> DEFINE Later(x) == {f \in S : f > x}
           Old == {x \in S : ~ Cardinality(Later(x)) < n}
<1>1. \A x \in S : Cardinality(Later(x)) \in Nat /\ IsFiniteSet(Later(x)) /\ x \in Nat
  BY LaterAre, EventsAre
<1>2. e \in Old /\ Old \in SUBSET Event
  BY DEF Newest
<1>3. PICK m \in Old : \A x \in Old : x <= m
  <2> HIDE DEF Old
  <2> QED BY <1>2, LastOfEvents
<1>4. Newest(S, n) = Later(m)
  <2>1. ASSUME NEW x \in Newest(S, n) PROVE x \in Later(m)
    <3>1. x \in S /\ x \notin Old
      BY <2>1 DEF Newest
    <3>2. SUFFICES ASSUME ~ x > m PROVE FALSE
      BY <3>1
    <3>3. Later(m) \in SUBSET Later(x)
      <4>1. \A f \in S : f > m => f > x
        <5> TAKE f \in S
        <5>1. f \in Nat /\ m \in Nat /\ x \in Nat
          BY <1>1, <3>1
        <5> QED BY <3>2, <5>1
      <4> QED BY <4>1
    <3>4. Cardinality(Later(m)) <= Cardinality(Later(x))
      <4> HIDE DEF Later
      <4> QED BY <1>1, <3>1, <3>3, FS_Subset
    <3>7. m \in S /\ ~ Cardinality(Later(m)) < n
      BY Zenon
    <3>8. Cardinality(Later(x)) < n
      BY <2>1, Zenon DEF Newest
    <3>5. m \in S /\ ~ Cardinality(Later(m)) < n /\ Cardinality(Later(x)) < n
      BY <3>7, <3>8
    <3>6. Cardinality(Later(m)) \in Nat /\ Cardinality(Later(x)) \in Nat
      BY <1>1, <3>1, <3>5
    <3> HIDE DEF Later
    <3> QED BY <3>4, <3>5, <3>6
  <2>2. ASSUME NEW x \in Later(m) PROVE x \in Newest(S, n)
    <3>1. x \in S /\ x \notin Old
      BY <1>1, <1>3, <2>2
    <3> QED BY <3>1 DEF Newest
  <2> QED BY <2>1, <2>2
<1>5. Cardinality(Later(m)) = n
  <2>1. m \in S /\ Cardinality(Later(m)) \in Nat /\ Cardinality(Later(m)) >= n /\ IsFiniteSet(Later(m))
    BY <1>1
  <2>2. SUFFICES ASSUME Cardinality(Later(m)) # n PROVE FALSE
    BY <2>1
  <2>3. Later(m) # {} /\ Later(m) \in SUBSET Event
    <3>1. Cardinality(Later(m)) # 0
      BY <2>1
    <3>2. Later(m) # {}
      <4> HIDE DEF Later
      <4> QED BY <3>1, FS_EmptySet
    <3> QED BY <3>2
  <2>4. PICK next \in Later(m) : \A f \in Later(m) : next <= f
    <3> HIDE DEF Later
    <3> QED BY <2>3, FirstOfEvents
  <2>5. next \in S /\ next > m
    OBVIOUS
  <2>6. Later(next) = Later(m) \ {next}
    <3>1. \A f \in S : f > next <=> f > m /\ f # next
      <4> TAKE f \in S
      <4>1. f \in Nat /\ m \in Nat /\ next \in Nat
        BY <1>1, <2>1, <2>5
      <4>2. f > m => next <= f
        BY <2>4
      <4> QED BY <2>5, <4>1, <4>2
    <3>2. Later(next) = {f \in S : f > m /\ f # next}
      BY <3>1, Zenon
    <3>3. {f \in S : f > m /\ f # next} = {f \in S : f > m} \ {next}
      OBVIOUS
    <3> QED BY <3>2, <3>3, Zenon
  <2>7. Cardinality(Later(next)) = Cardinality(Later(m)) - 1
    <3> HIDE DEF Later
    <3>1. IsFiniteSet(Later(m)) /\ next \in Later(m)
      BY <2>1, <2>4
    <3>2. Cardinality(Later(m) \ {next}) = Cardinality(Later(m)) - 1
      BY <3>1, FS_RemoveElement
    <3> QED BY <2>6, <3>2
  <2>8. next \notin Old
    BY <1>1, <1>3, <2>5
  <2>9. Cardinality(Later(next)) < n
    BY <2>5, <2>8, Zenon
  <2> HIDE DEF Later
  <2> QED BY <2>1, <2>2, <2>7, <2>9
<1> QED BY <1>4, <1>5

LEMMA NewestAre == ASSUME NEW S, NEW n PROVE Newest(S, n) \subseteq S
BY DEF Newest

LEMMA StreamStep == StreamInv /\ [PsNext]_psVars => StreamInv'
<1> SUFFICES ASSUME StreamInv, [PsNext]_psVars PROVE StreamInv'
  OBVIOUS
<1> USE DEF StreamInv, StreamIsSetUp
<1>1. CASE Opened
  BY <1>1 DEF Opened
<1>2. ASSUME NEW malformed \in BOOLEAN, EventHappens(malformed) PROVE StreamInv'
  <2>1. psLog + 1 \in Event /\ psLog' \in 0..PsMaxEvents
    BY <1>2, EventsAre DEF EventHappens, Event
  <2>2. psGot' \subseteq Event
    BY <1>2, <2>1, NewestAre DEF EventHappens, Merge
  <2> QED BY <1>2, <2>1, <2>2 DEF EventHappens
<1>3. CASE StreamBreaks
  <2>1. psStreams' = 0 /\ psTimer' = TRUE /\ Active(psSeen)
        /\ UNCHANGED <<psWanted, psSeen, psLog, psGot, psSeeds, psCutoff>>
    BY <1>3 DEF StreamBreaks
  <2>2. psTimer' \in BOOLEAN
    BY <2>1
  <2>3. StreamIsSetUp'
    BY <2>1
  <2> QED BY <2>1, <2>2, <2>3
<1>4. CASE ReconnectDue
  BY <1>4 DEF ReconnectDue, StreamsAfterOpen
<1>5. CASE EffectRuns
  BY <1>5 DEF EffectRuns, StreamsAfterOpen, TimerAfterCleanup
<1>6. CASE Pause \/ Resume
  <2>1. psWanted' \in Wish
    BY <1>6 DEF Pause, Resume, Wish
  <2> QED BY <1>6, <2>1 DEF Pause, Resume
<1>7. CASE Clear
  BY <1>7 DEF Clear
<1>8. ASSUME NEW on \in BOOLEAN, RecentAnswered(on) PROVE StreamInv'
  <2>1. psSeeds' \subseteq Event
    <3>1. 1..psLog \subseteq Event
      BY EventsAre DEF Event
    <3> QED BY <1>8, <3>1, NewestAre DEF RecentAnswered
  <2>2. psWanted' \in Wish
    BY <1>8 DEF RecentAnswered, Wish
  <2> QED BY <1>8, <2>1, <2>2 DEF RecentAnswered
<1>9. CASE UNCHANGED psVars
  BY <1>9 DEF psVars
<1> QED BY <1>1, <1>2, <1>3, <1>4, <1>5, <1>6, <1>7, <1>8, <1>9 DEF PsNext

\* The monitor has the stream or the timer it wants and no other, shows no event that was cleared, and
\* leaves out none that came since while there is room (usePerformanceStream.ts), for any events and buffer.
THEOREM StreamAlwaysHolds == PsSpec => []StreamHolds
<1>1. PsInit => StreamInv
  <2> SUFFICES ASSUME PsInit PROVE StreamInv
    OBVIOUS
  <2>1. psWanted \in Wish /\ psSeen \in Wish /\ Active(psSeen)
    BY DEF PsInit, Wish, Active
  <2>2. psTimer = FALSE /\ psTimer \in BOOLEAN
    BY DEF PsInit
  <2> QED BY EventsAre, <2>1, <2>2 DEF PsInit, StreamInv, StreamIsSetUp
<1>2. StreamInv => StreamHolds
  <2> SUFFICES ASSUME StreamInv PROVE StreamHolds
    OBVIOUS
  <2>1. StreamIsWanted
    <3>1. psTimer \in BOOLEAN /\ (psStreams = 1) \in BOOLEAN
      BY DEF StreamInv
    <3>2. Active(psSeen) => (psStreams = 1) # psTimer
      BY <3>1, Zenon DEF StreamInv, StreamIsSetUp
    <3> QED BY <3>2 DEF StreamInv, StreamIsSetUp, StreamIsWanted
  <2>2. PICK S \in SUBSET Event : S = {e \in psSeeds : e > psCutoff} \cup {e \in psGot : e > psCutoff}
    BY DEF StreamInv
  <2>3. MonitorShown = Newest(S, PsMaxBuffer) /\ PsMaxBuffer \in Nat \ {0}
    BY <2>2, PsAssumption, Zenon DEF MonitorShown, Merge
  <2>4. \A e \in MonitorShown : e > psCutoff
    BY <2>2, <2>3, NewestAre
  <2>5. \A e \in psGot : e > psCutoff /\ e \notin MonitorShown => Cardinality(MonitorShown) = PsMaxBuffer
    BY <2>2, <2>3, NewestIsFull
  <2> QED BY <2>1, <2>4, <2>5 DEF StreamHolds, ClearedStaysCleared
<1> QED BY <1>1, <1>2, StreamStep, PTL DEF PsSpec

-----------------------------------------------------------------------------
(* Reporting to the developer monitor.                                     *)

MeReports == [at : {"none", "asking", "posting", "ended"}, event : Reported, to : Backend]
MeUses == [checks : Nat, expiries : Nat]

\* A check that is not out has been answered, and its answer grown old, unless none was sent.
ChecksAreCounted ==
  /\ meUsed.checks <= 1 + meUsed.expiries
  /\ meCheck = "none" /\ ~ meFresh => meUsed.checks <= meUsed.expiries
  /\ meFresh => meKnown # "unknown"

\* What is known, or being asked, is of the backend the page has, unless that changed meanwhile.
KnownIsOfBackend ==
  /\ meKnown = "on" /\ ~ meMoved => meMonitor[meBackend] = "on"
  /\ meCheck # "none" /\ ~ meMoved => meCheck = meBackend
  /\ meBackend = "default" => ~ meMoved

\* A call has a report once its caller has an answer.
CallIsReported == meCall \in {"new", "out"} => meReport["call"].at = "none"

ClientInv ==
  /\ meMonitor \in [Backend -> {"on", "off", "down"}] /\ meBackend \in Backend
  /\ meCheck \in Backend \cup {"none"} /\ meReport \in [Reporter -> MeReports]
  /\ meKnown \in {"unknown", "on", "off"} /\ meFresh \in BOOLEAN
  /\ meUsed \in MeUses /\ meStored \subseteq Reporter
  /\ ChecksAreCounted /\ KnownIsOfBackend /\ CallIsReported /\ PostsAreWelcome /\ EventsTellTheTruth

LEMMA DecidedIs ==
  ASSUME meBackend \in Backend, NEW report \in MeReports, NEW on \in BOOLEAN
  PROVE  /\ Decided(report, on) \in MeReports /\ Decided(report, on).event = report.event
         /\ Decided(report, on).at \in {"posting", "ended"}
         /\ Decided(report, on).at = "posting" => on /\ Decided(report, on).to = meBackend
<1>1. Decided(report, on) = [report EXCEPT !.at = "posting", !.to = meBackend]
      \/ Decided(report, on) = [report EXCEPT !.at = "ended"]
  BY DEF Decided
<1>2. on \/ Decided(report, on) = [report EXCEPT !.at = "ended"]
  BY DEF Decided
<1> QED BY <1>1, <1>2 DEF MeReports

\* A reporter that has its event: it had none before.
LEMMA EmitStep ==
  ASSUME ClientInv, NEW r \in Reporter, NEW event \in Reported, Emit(r, event), meReport[r].at = "none",
         UNCHANGED <<meMonitor, meBackend, meMoved, meKnown, meFresh, meStored>>,
         r = "call" => meCall' = IF event \in {"success", "slow"} THEN "returned" ELSE "threw",
         r # "call" => meCall' = meCall
  PROVE  ClientInv'
<1>1. PICK knows \in BOOLEAN : knows <=> meKnown # "unknown" /\ meFresh
  OBVIOUS
<1>2. PICK asking : asking = [at |-> "asking", event |-> event, to |-> "default"]
  OBVIOUS
<1>3. asking \in MeReports /\ asking.at = "asking" /\ asking.event = event
  BY <1>2 DEF MeReports, Backend
<1>4. PICK on \in BOOLEAN : on <=> meKnown = "on"
  OBVIOUS
<1>5. PICK report \in MeReports : report = IF knows THEN Decided(asking, on) ELSE asking
  BY <1>3, DecidedIs DEF ClientInv
<1>6. report.at # "none"
  BY <1>3, <1>5, DecidedIs DEF ClientInv
<1>13. report.event = event /\ (report.at = "posting" => on /\ report.to = meBackend)
  BY <1>3, <1>5, DecidedIs DEF ClientInv
<1>7. meReport' = [meReport EXCEPT ![r] = report]
  <2>1. knows = (meKnown # "unknown" /\ meFresh) /\ on = (meKnown = "on")
    BY <1>1, <1>4
  <2> QED BY <1>2, <1>5, <2>1, Zenon DEF Emit
<1>8. /\ meReport' \in [Reporter -> MeReports] /\ meReport'[r] = report
      /\ \A s \in Reporter \ {r} : meReport'[s] = meReport[s]
  BY <1>7 DEF ClientInv
<1>9. /\ meCheck' \in Backend \cup {"none"} /\ meUsed' \in MeUses /\ ChecksAreCounted'
      /\ meCheck' # "none" => meCheck' = meCheck \/ meCheck' = meBackend
  <2>1. CASE ~ knows /\ meCheck = "none"
    <3>1. meCheck' = meBackend /\ meUsed' = [meUsed EXCEPT !.checks = @ + 1]
      BY <1>1, <2>1 DEF Emit, SendsCheck
    <3>2. ~ meFresh
      BY <1>1, <2>1 DEF ClientInv, ChecksAreCounted
    <3>3. meCheck' # "none"
      BY <3>1 DEF ClientInv, Backend
    <3>4. meUsed.checks \in Nat /\ meUsed.expiries \in Nat /\ meUsed.checks <= meUsed.expiries
      BY <2>1, <3>2 DEF ClientInv, ChecksAreCounted, MeUses
    <3>5. PICK more \in Nat : more = meUsed.checks + 1 /\ more <= 1 + meUsed.expiries
      BY <3>4
    <3>6. meUsed' \in MeUses /\ meUsed'.checks = more /\ meUsed'.expiries = meUsed.expiries
      BY <3>1, <3>5 DEF ClientInv, MeUses
    <3> QED BY <3>1, <3>2, <3>3, <3>5, <3>6 DEF ClientInv, ChecksAreCounted
  <2>2. CASE knows \/ meCheck # "none"
    <3>1. UNCHANGED <<meCheck, meUsed>>
      BY <1>1, <2>2 DEF Emit, SendsCheck
    <3> QED BY <3>1 DEF ClientInv, ChecksAreCounted
  <2> QED BY <2>1, <2>2
<1>10. KnownIsOfBackend'
  BY <1>9 DEF ClientInv, KnownIsOfBackend
<1>11. CallIsReported' /\ EventsTellTheTruth'
  <2>1. CASE r = "call"
    BY <1>6, <1>13, <1>8, <2>1 DEF ClientInv, CallIsReported, EventsTellTheTruth, Reporter, Reported
  <2>2. CASE r # "call"
    BY <1>8, <2>2 DEF ClientInv, CallIsReported, EventsTellTheTruth, Reporter
  <2> QED BY <2>1, <2>2
<1>12. PostsAreWelcome'
  BY <1>4, <1>13, <1>8 DEF ClientInv, PostsAreWelcome, KnownIsOfBackend
<1> QED BY <1>8, <1>9, <1>10, <1>11, <1>12 DEF ClientInv

LEMMA CheckAnsweredStep == ASSUME ClientInv, CheckAnswered PROVE ClientInv'
<1>1. PICK on \in BOOLEAN : on <=> meMonitor[meCheck] = "on"
  OBVIOUS
<1>2. /\ meKnown' = (IF on THEN "on" ELSE "off") /\ meFresh' /\ meCheck' = "none" /\ meCheck # "none"
      /\ UNCHANGED <<meMonitor, meBackend, meMoved, meCall, meStored, meUsed>>
  BY <1>1 DEF CheckAnswered
<1>3. on = (meKnown' = "on")
  BY <1>2
<1>4. meReport' = [r \in Reporter |-> IF meReport[r].at = "asking" THEN Decided(meReport[r], on) ELSE meReport[r]]
  BY <1>3, Zenon DEF CheckAnswered
<1>5. ASSUME NEW r \in Reporter
      PROVE  /\ meReport'[r] \in MeReports /\ meReport'[r].event = meReport[r].event
             /\ meReport'[r] = meReport[r]
                \/ /\ meReport[r].at = "asking" /\ meReport'[r].at \in {"posting", "ended"}
                   /\ meReport'[r].at = "posting" => on /\ meReport'[r].to = meBackend
  <2>1. meReport[r] \in MeReports /\ meBackend \in Backend
    BY DEF ClientInv
  <2>2. CASE meReport[r].at = "asking"
    BY <1>4, <2>1, <2>2, DecidedIs
  <2>3. CASE meReport[r].at # "asking"
    BY <1>4, <2>1, <2>3
  <2> QED BY <2>2, <2>3
<1>6. meReport' \in [Reporter -> MeReports]
  BY <1>4, <1>5
<1>7. ChecksAreCounted' /\ meFresh' \in BOOLEAN
  BY <1>2 DEF ClientInv, ChecksAreCounted, CheckAnswered
<1>8. KnownIsOfBackend'
  BY <1>1, <1>2 DEF ClientInv, KnownIsOfBackend
<1>9. PostsAreWelcome'
  <2> SUFFICES ASSUME NEW r \in Reporter, meReport'[r].at = "posting"
               PROVE  meMonitor'[meReport'[r].to] = "on" \/ meMoved'
    BY DEF PostsAreWelcome
  <2>1. CASE meReport'[r] = meReport[r]
    BY <1>2, <2>1 DEF ClientInv, PostsAreWelcome
  <2>2. CASE on /\ meReport'[r].to = meBackend
    BY <1>1, <1>2, <2>2 DEF ClientInv, KnownIsOfBackend
  <2> QED BY <1>5, <2>1, <2>2
<1>10. CallIsReported' /\ EventsTellTheTruth'
  BY <1>2, <1>5 DEF ClientInv, CallIsReported, EventsTellTheTruth, Reporter
<1> QED BY <1>2, <1>6, <1>7, <1>8, <1>9, <1>10 DEF ClientInv

LEMMA PostAnsweredStep == ASSUME ClientInv, NEW r \in Reporter, NEW lost \in BOOLEAN, PostAnswered(r, lost) PROVE ClientInv'
<1>1. /\ meReport[r].at = "posting" /\ meReport' = [meReport EXCEPT ![r].at = "ended"]
      /\ UNCHANGED <<meMonitor, meBackend, meMoved, meCheck, meCall, meUsed>>
      /\ meStored' \subseteq meStored \cup {r}
      /\ UNCHANGED <<meKnown, meFresh>> \/ (meKnown' = "off" /\ meFresh' = TRUE)
  BY DEF PostAnswered
<1>2. PICK report : report = [meReport[r] EXCEPT !.at = "ended"]
  OBVIOUS
<1>3. report \in MeReports /\ report.at = "ended" /\ report.event = meReport[r].event
  BY <1>2 DEF ClientInv, MeReports
<1>4. /\ meReport' \in [Reporter -> MeReports] /\ meReport'[r] = report
      /\ \A s \in Reporter \ {r} : meReport'[s] = meReport[s]
  BY <1>1, <1>2, <1>3 DEF ClientInv
<1>5. ChecksAreCounted' /\ meKnown' \in {"unknown", "on", "off"}
  BY <1>1 DEF ClientInv, ChecksAreCounted
<1>5a. meFresh' \in BOOLEAN
  BY <1>1 DEF ClientInv
<1>6. KnownIsOfBackend'
  BY <1>1 DEF ClientInv, KnownIsOfBackend
<1>7. PostsAreWelcome'
  BY <1>1, <1>3, <1>4 DEF ClientInv, PostsAreWelcome
<1>8. CallIsReported' /\ EventsTellTheTruth'
  BY <1>1, <1>3, <1>4 DEF ClientInv, CallIsReported, EventsTellTheTruth, Reporter
<1> QED BY <1>1, <1>4, <1>5, <1>5a, <1>6, <1>7, <1>8 DEF ClientInv

LEMMA ExpiresStep == ASSUME ClientInv, Expires PROVE ClientInv'
<1>1. meUsed.checks \in Nat /\ meUsed.expiries \in Nat
  BY DEF ClientInv, MeUses
<1>2. PICK more \in Nat : more = meUsed.expiries + 1
  BY <1>1
<1>3. meUsed' = [meUsed EXCEPT !.expiries = more]
  BY <1>2 DEF Expires
<1>4. meUsed' \in MeUses /\ meUsed'.expiries = more /\ meUsed'.checks = meUsed.checks
  BY <1>3 DEF ClientInv, MeUses
<1>5. ChecksAreCounted'
  BY <1>1, <1>2, <1>4 DEF ClientInv, ChecksAreCounted, Expires
<1>6. meFresh' \in BOOLEAN
  BY DEF Expires
<1> QED BY <1>4, <1>5, <1>6 DEF Expires, ClientInv, KnownIsOfBackend, CallIsReported, PostsAreWelcome, EventsTellTheTruth

LEMMA SetDynamicPortStep == ASSUME ClientInv, SetDynamicPort PROVE ClientInv'
<1>1. /\ meBackend' = "found" /\ (~ meMoved' => meKnown = "unknown" /\ meCheck = "none")
      /\ UNCHANGED <<meMonitor, meKnown, meFresh, meCheck, meCall, meReport, meStored, meUsed>>
  BY DEF SetDynamicPort
<1>2. PostsAreWelcome'
  BY <1>1 DEF ClientInv, KnownIsOfBackend, PostsAreWelcome, SetDynamicPort
<1>3. KnownIsOfBackend'
  BY <1>1 DEF KnownIsOfBackend
<1> QED BY <1>1, <1>2, <1>3 DEF ClientInv, ChecksAreCounted, CallIsReported, EventsTellTheTruth, Backend

LEMMA ClientStep == ClientInv /\ [MeNext]_meVars => ClientInv'
<1> SUFFICES ASSUME ClientInv, [MeNext]_meVars PROVE ClientInv'
  OBVIOUS
<1>1. CASE CheckAnswered \/ Expires \/ SetDynamicPort
  BY <1>1, CheckAnsweredStep, ExpiresStep, SetDynamicPortStep
<1>2. CASE \E r \in Reporter, lost \in BOOLEAN : PostAnswered(r, lost)
  BY <1>2, PostAnsweredStep
<1>3. ASSUME NEW event \in Reported, FetchAnswered(event) PROVE ClientInv'
  <2>1. meReport["call"].at = "none"
    BY <1>3 DEF ClientInv, CallIsReported, FetchAnswered
  <2> QED BY <1>3, <2>1, EmitStep DEF FetchAnswered, Reporter
<1>4. ASSUME NEW event \in {"success", "slow"}, LoadFrameRuns(event) PROVE ClientInv'
  BY <1>4, EmitStep DEF LoadFrameRuns, Reporter, Reported
<1>5. CASE UNCHANGED meVars \/ FetchSent \/ FetchUnreadable \/ PageMounts \/ PageUnmounts
  BY <1>5 DEF meVars, FetchSent, FetchUnreadable, PageMounts, PageUnmounts, ClientInv, ChecksAreCounted,
              KnownIsOfBackend, CallIsReported, PostsAreWelcome, EventsTellTheTruth
<1> QED BY <1>1, <1>2, <1>3, <1>4, <1>5 DEF MeNext

\* Whether a backend has a monitor is asked once in a while, events are posted only where they are
\* welcome, and a report says how its call ended (lib/api.ts), for any number of calls and backends.
THEOREM ReportsAreAlwaysTrue == MeSpec => []ReportsAreTrue
<1>1. MeInit => ClientInv
  <2> SUFFICES ASSUME MeInit PROVE ClientInv
    OBVIOUS
  <2>1. NoReport \in MeReports /\ NoReport.at = "none"
    BY DEF NoReport, MeReports, Reported, Backend
  <2>2. meReport \in [Reporter -> MeReports] /\ \A r \in Reporter : meReport[r].at = "none"
    BY <2>1 DEF MeInit
  <2>3. meUsed \in MeUses /\ meUsed.checks = 0 /\ meUsed.expiries = 0
    BY DEF MeInit, MeUses
  <2>4. meFresh = FALSE /\ meFresh \in BOOLEAN
    BY DEF MeInit
  <2> QED BY <2>2, <2>3, <2>4 DEF MeInit, ClientInv, ChecksAreCounted, KnownIsOfBackend, CallIsReported,
             PostsAreWelcome, EventsTellTheTruth, Reporter, Backend
<1>2. ClientInv => ReportsAreTrue
  BY DEF ClientInv, ReportsAreTrue, ChecksAreCounted, ChecksAreRare
<1> QED BY <1>1, <1>2, ClientStep, PTL DEF MeSpec

-----------------------------------------------------------------------------
(* The performance page of the developer monitor.                          *)

RpAnswers == [of : Subject, says : {"unread", "running", "done", "empty", "all"}]

RpLists == [asked : BOOLEAN, read : BOOLEAN, error : {"none", "missing", "other"}, rows : SUBSET RpRequest]

\* Every answer is filed under the request it is about, and says what became of it or had then.
AnswersAreFiled ==
  \A q \in PanelQuery, s \in Subject :
    /\ rpCache[<<q, s>>] # NoAnswer => rpCache[<<q, s>>].of = s
    /\ rpCache[<<q, s>>].says = "empty" => q = "tickers" /\ s \in RpRequest /\ rpServer[s] \in {"old", "gone"}

ProfileInv ==
  /\ rpServer \in [RpRequest -> {"running", "done", "old", "gone"}] /\ rpCache \in [RpKey -> RpAnswers]
  /\ rpSelected \in Subject /\ rpList \in RpLists
  /\ AnswersAreFiled

LEMMA PanelReadStep == ASSUME ProfileInv, NEW k \in RpKey, NEW ok \in BOOLEAN, PanelRead(k, ok) PROVE ProfileInv'
<1>1. PICK q \in PanelQuery, s \in Subject : k = <<q, s>>
  BY DEF RpKey
<1>2. PICK says : says = Says(q, s)
  OBVIOUS
<1>3. /\ UNCHANGED <<rpServer, rpList, rpSelected>>
      /\ \/ rpCache' = rpCache
         \/ says # "missing" /\ rpCache' = [rpCache EXCEPT ![<<q, s>>] = [of |-> s, says |-> says]]
  BY <1>1, <1>2 DEF PanelRead, PanelKey
<1>4. CASE rpCache' = rpCache
  BY <1>3, <1>4 DEF ProfileInv, AnswersAreFiled
<1>5. CASE says # "missing" /\ rpCache' = [rpCache EXCEPT ![<<q, s>>] = [of |-> s, says |-> says]]
  <2>1. /\ says \in {"running", "done", "empty", "all"}
        /\ says = "empty" => q = "tickers" /\ s \in RpRequest /\ rpServer[s] \in {"old", "gone"}
    BY <1>2, <1>5 DEF Says, ProfileInv, Subject, PanelQuery
  <2>2. PICK answer : answer = [of |-> s, says |-> says]
    OBVIOUS
  <2>3. answer \in RpAnswers /\ answer.of = s /\ answer.says = says
    BY <2>1, <2>2 DEF RpAnswers
  <2>4. /\ rpCache' \in [RpKey -> RpAnswers] /\ rpCache'[<<q, s>>] = answer
        /\ \A p \in PanelQuery, r \in Subject : <<p, r>> # <<q, s>> => rpCache'[<<p, r>>] = rpCache[<<p, r>>]
    BY <1>5, <2>2, <2>3 DEF ProfileInv, RpKey
  <2>5. AnswersAreFiled'
    <3>1. ASSUME NEW p \in PanelQuery, NEW r \in Subject
          PROVE  /\ rpCache'[<<p, r>>] # NoAnswer => rpCache'[<<p, r>>].of = r
                 /\ rpCache'[<<p, r>>].says = "empty" =>
                      p = "tickers" /\ r \in RpRequest /\ rpServer[r] \in {"old", "gone"}
      <4>1. CASE <<p, r>> = <<q, s>>
        <5>1. p = q /\ r = s
          BY <4>1
        <5> QED BY <2>1, <2>3, <2>4, <5>1
      <4>2. CASE <<p, r>> # <<q, s>>
        BY <2>4, <4>2 DEF ProfileInv, AnswersAreFiled
      <4> QED BY <4>1, <4>2
    <3> QED BY <1>3, <3>1 DEF AnswersAreFiled
  <2> QED BY <1>3, <2>4, <2>5 DEF ProfileInv
<1> QED BY <1>3, <1>4, <1>5

LEMMA ServerMovesStep == ASSUME ProfileInv, NEW r \in RpRequest, ServerMoves(r) PROVE ProfileInv'
<1>1. /\ rpServer' \in [RpRequest -> {"running", "done", "old", "gone"}]
      /\ \A s \in RpRequest : rpServer[s] \in {"old", "gone"} => rpServer'[s] \in {"old", "gone"}
      /\ UNCHANGED <<rpList, rpSelected, rpCache>>
  BY DEF ServerMoves, ProfileInv
<1> QED BY <1>1 DEF ProfileInv, AnswersAreFiled

LEMMA ListOnlyStep ==
  ASSUME ProfileInv, UNCHANGED <<rpServer, rpCache>>, rpSelected' \in Subject, rpList' \in RpLists
  PROVE  ProfileInv'
BY DEF ProfileInv, AnswersAreFiled

LEMMA ProfileStep == ProfileInv /\ [RpNext]_rpVars => ProfileInv'
<1> SUFFICES ASSUME ProfileInv, [RpNext]_rpVars PROVE ProfileInv'
  OBVIOUS
<1>1. CASE \E r \in RpRequest : ServerMoves(r)
  BY <1>1, ServerMovesStep
<1>2. CASE \E k \in RpKey, ok \in BOOLEAN : PanelRead(k, ok)
  BY <1>2, PanelReadStep
<1>3. CASE UNCHANGED rpVars \/ \E r \in RpRequest : SelectRequest(r)
  BY <1>3, ListOnlyStep DEF rpVars, SelectRequest, ProfileInv, Subject
<1>4. ASSUME NEW outcome \in {"none", "missing", "other"}, RequestsAnswered(outcome) PROVE ProfileInv'
  BY <1>4, ListOnlyStep DEF RequestsAnswered, ProfileInv, RpLists
<1>5. CASE RefreshAll
  BY <1>5, ListOnlyStep DEF RefreshAll, ProfileInv, RpLists
<1>6. CASE RetryList
  <2>1. PICK error \in {"none", "missing", "other"} : error = IF rpList.read THEN rpList.error ELSE "none"
    BY DEF ProfileInv, RpLists
  <2>2. rpList' = [rpList EXCEPT !.asked = TRUE, !.error = error]
    BY <1>6, <2>1, Zenon DEF RetryList
  <2>3. rpList' \in RpLists
    BY <2>2 DEF ProfileInv, RpLists
  <2> QED BY <1>6, <2>3, ListOnlyStep DEF RetryList, ProfileInv
<1> QED BY <1>1, <1>2, <1>3, <1>4, <1>5, <1>6 DEF RpNext

LEMMA BarsAreInTrack == BarsStayInTrack
<1> SUFFICES ASSUME NEW offset \in -1..4, NEW total \in 0..3, NEW root \in 0..3
             PROVE  /\ SpanBar(offset, total, root).left \in 0..1000
                    /\ SpanBar(offset, total, root).width \in 0..(1000 - SpanBar(offset, total, root).left)
  BY DEF BarsStayInTrack
<1>1. PICK left \in 0..1000 : left = IF root = 0 THEN 0 ELSE Clamp(0, (1000 * offset) \div root, 1000)
  <2>1. CASE root = 0
    BY <2>1
  <2>2. CASE root # 0
    <3>1. PICK x \in Int : x = (1000 * offset) \div root
      BY <2>2
    <3>2. PICK left \in 0..1000 : left = Clamp(0, x, 1000)
      BY DEF Clamp
    <3>3. left = IF root = 0 THEN 0 ELSE Clamp(0, (1000 * offset) \div root, 1000)
      BY <2>2, <3>1, <3>2, SMT
    <3> QED BY <3>3
  <2> QED BY <2>1, <2>2
<1>2. PICK raw \in Int : raw = IF root = 0 THEN 0 ELSE Clamp(5, (1000 * total) \div root, 1000 * (total + 1))
  <2>1. CASE root = 0
    BY <2>1
  <2>2. CASE root # 0
    <3>1. PICK x \in Int : x = (1000 * total) \div root
      BY <2>2
    <3>2. PICK most \in Int : most = 1000 * (total + 1)
      OBVIOUS
    <3>3. PICK raw \in Int : raw = Clamp(5, x, most)
      BY DEF Clamp
    <3>4. raw = IF root = 0 THEN 0 ELSE Clamp(5, (1000 * total) \div root, 1000 * (total + 1))
      BY <2>2, <3>1, <3>2, <3>3, SMT
    <3> QED BY <3>4
  <2> QED BY <2>1, <2>2
<1>3. SpanBar(offset, total, root) = [left |-> left, width |-> Clamp(0, raw, 1000 - left)]
  BY <1>1, <1>2 DEF SpanBar
<1>4. Clamp(0, raw, 1000 - left) \in 0..(1000 - left)
  BY DEF Clamp
<1> QED BY <1>3, <1>4

\* The panels of the performance page tell of the request selected, say "empty" only of what is gone, and
\* keep their bars inside the track (app/dev/performance/page.tsx).
THEOREM ProfileAlwaysHolds == RpSpec => []ProfileHolds
<1>1. RpInit => ProfileInv
  <2> SUFFICES ASSUME RpInit PROVE ProfileInv
    OBVIOUS
  <2>1. NoAnswer \in RpAnswers /\ [of |-> NoRp, says |-> "all"] \in RpAnswers
    BY DEF NoAnswer, RpAnswers, Subject
  <2>2. rpCache \in [RpKey -> RpAnswers]
    BY <2>1, Zenon DEF RpInit
  <2>3. \A q \in PanelQuery, s \in Subject : /\ rpCache[<<q, s>>] # NoAnswer => rpCache[<<q, s>>].of = s
                                             /\ rpCache[<<q, s>>].says # "empty"
    BY DEF RpInit, RpKey, NoAnswer
  <2> QED BY <2>2, <2>3 DEF RpInit, ProfileInv, AnswersAreFiled, Subject, RpLists
<1>2. ProfileInv => ProfileHolds
  <2> SUFFICES ASSUME ProfileInv PROVE ProfileHolds
    OBVIOUS
  <2>1. PanelsTellSelected
    BY DEF PanelsTellSelected, PanelShown, PanelKey, ProfileInv, AnswersAreFiled
  <2>2. ASSUME NEW k \in RpKey, rpCache[k].says = "empty"
        PROVE  k[1] = "tickers" /\ rpServer[rpCache[k].of] \in {"old", "gone"}
    <3>1. PICK q \in PanelQuery, s \in Subject : k = <<q, s>>
      BY DEF RpKey
    <3> QED BY <2>2, <3>1 DEF ProfileInv, AnswersAreFiled, NoAnswer
  <2> QED BY <2>1, <2>2, BarsAreInTrack DEF ProfileHolds, EmptyMeansGone
<1> QED BY <1>1, <1>2, ProfileStep, PTL DEF RpSpec

-----------------------------------------------------------------------------
(* The figures of a stock.                                                 *)

SfStatus == {"idle", "asked", "done", "failed"}

\* The snapshot under review is asked for, here or refused, and is reviewed in snapshot mode.
FigInv ==
  /\ sfMode \in {"snapshot", "live"} /\ sfAsked \in {NoSf, "snapshot", "live"}
  /\ sfQuery \in [SfKey -> [data : SfResult \cup {NoSf}, status : SfStatus]]
  /\ sfSelected \in SfVersion \cup {NoSf} /\ sfReview \in [SfVersion -> SfStatus]
  /\ sfSelected # NoSf => sfMode = "snapshot" /\ sfReview[sfSelected] # "idle"
  /\ sfAttr \in SfStatus /\ sfAttrCopy \in BOOLEAN

LEMMA KeyIsKnown ==
  ASSUME NEW asked \in {NoSf, "snapshot", "live"}, NEW mode \in {"snapshot", "live"}
  PROVE  ObservedKey(asked, mode) \in SfKey \cup {NoSf}
BY DEF ObservedKey, SfKey

LEMMA ObservingIsQuery ==
  ASSUME NEW query \in [SfKey -> [data : SfResult \cup {NoSf}, status : SfStatus]],
         NEW asked \in {NoSf, "snapshot", "live"}, NEW mode \in {"snapshot", "live"}
  PROVE  Observing(query, asked, mode) \in [SfKey -> [data : SfResult \cup {NoSf}, status : SfStatus]]
<1>1. PICK k : k = ObservedKey(asked, mode)
  OBVIOUS
<1>2. k # NoSf => k \in SfKey
  BY <1>1, KeyIsKnown
<1>3. CASE k # NoSf /\ query[k].data = NoSf
  <2>1. [query[k] EXCEPT !.status = "asked"] \in [data : SfResult \cup {NoSf}, status : SfStatus]
    BY <1>2, <1>3 DEF SfStatus
  <2>2. Observing(query, asked, mode) = [query EXCEPT ![k] = [query[k] EXCEPT !.status = "asked"]]
    BY <1>1, <1>3 DEF Observing
  <2> QED BY <1>2, <1>3, <2>1, <2>2
<1>4. CASE ~ (k # NoSf /\ query[k].data = NoSf)
  BY <1>1, <1>4 DEF Observing
<1> QED BY <1>3, <1>4

LEMMA FigInitially == SfInit => FigInv
<1> SUFFICES ASSUME SfInit PROVE FigInv
  OBVIOUS
<1>1. Unread \in [data : SfResult \cup {NoSf}, status : SfStatus]
  BY DEF Unread, SfStatus
<1>2. [Unread EXCEPT !.status = "asked"] \in [data : SfResult \cup {NoSf}, status : SfStatus]
  BY DEF Unread, SfStatus
<1>3. sfQuery \in [SfKey -> [data : SfResult \cup {NoSf}, status : SfStatus]]
  <2> HIDE DEF Unread
  <2> QED BY <1>1, <1>2 DEF SfInit
<1>4. sfReview \in [SfVersion -> SfStatus]
  BY DEF SfInit, SfStatus
<1> QED BY <1>3, <1>4 DEF SfInit, FigInv, SfStatus

LEMMA FigKept == FigInv /\ [SfNext]_sfVars => FigInv'
<1> SUFFICES ASSUME FigInv, [SfNext]_sfVars PROVE FigInv'
  OBVIOUS
<1> DEFINE Query == [data : SfResult \cup {NoSf}, status : SfStatus]
<1>t. /\ sfMode \in {"snapshot", "live"} /\ sfAsked \in {NoSf, "snapshot", "live"}
      /\ sfQuery \in [SfKey -> Query]
      /\ sfSelected \in SfVersion \cup {NoSf} /\ sfReview \in [SfVersion -> SfStatus]
      /\ sfSelected # NoSf => sfMode = "snapshot" /\ sfReview[sfSelected] # "idle"
      /\ sfAttr \in SfStatus /\ sfAttrCopy \in BOOLEAN
  BY DEF FigInv
<1>k. LatestQuery.status = "asked" => ObservedKey(sfAsked, sfMode) \in SfKey
  BY <1>t, KeyIsKnown DEF LatestQuery, Unread
<1>1. CASE ComparisonAnswered
  <2>1. PICK rows \in SfRows, stale \in BOOLEAN :
          sfQuery' = [sfQuery EXCEPT ![ObservedKey(sfAsked, sfMode)] =
                        [data |-> [mode |-> IF sfAsked = "live" THEN "live" ELSE "snapshot",
                                   version |-> NoSf, stale |-> stale, rows |-> rows],
                         status |-> "done"]]
    BY <1>1 DEF ComparisonAnswered
  <2>2. PICK mode \in {"live", "snapshot"} : mode = IF sfAsked = "live" THEN "live" ELSE "snapshot"
    OBVIOUS
  <2>3. [mode |-> mode, version |-> NoSf, stale |-> stale, rows |-> rows] \in SfResult
    BY DEF SfResult
  <2>4. [data |-> [mode |-> mode, version |-> NoSf, stale |-> stale, rows |-> rows], status |-> "done"]
          \in Query
    BY <2>3 DEF SfStatus
  <2>5. sfQuery' \in [SfKey -> Query]
    <3> HIDE DEF Query
    <3> QED BY <1>t, <2>1, <2>2, <2>4
  <2> QED BY <1>1, <1>t, <2>5 DEF ComparisonAnswered, sfAttribution, FigInv
<1>2. CASE ComparisonFailed
  <2>1. PICK k \in SfKey : sfQuery' = [sfQuery EXCEPT ![k].status = "failed"]
    BY <1>2, <1>k DEF ComparisonFailed
  <2>2. [sfQuery[k] EXCEPT !.status = "failed"] \in Query
    BY <1>t DEF SfStatus
  <2>3. sfQuery' \in [SfKey -> Query]
    BY <1>t, <2>1, <2>2
  <2> QED BY <1>2, <1>t, <2>3 DEF ComparisonFailed, sfAttribution, FigInv
<1>3. CASE RefreshFigures
  <2>1. [data |-> NoSf, status |-> "asked"] \in Query
    BY DEF SfStatus
  <2>2. sfQuery' \in [SfKey -> Query]
    BY <1>3, <1>t, <2>1 DEF RefreshFigures
  <2> QED BY <1>3, <1>t, <2>2 DEF RefreshFigures, sfAttribution, FigInv
<1>4. CASE ClearSelection
  BY <1>4, <1>t DEF ClearSelection, sfAttribution, FigInv
<1>5. ASSUME NEW mode \in {"snapshot", "live"}, SetMode(mode) PROVE FigInv'
  <2>1. sfQuery' \in [SfKey -> Query]
    BY <1>5, <1>t, ObservingIsQuery DEF SetMode
  <2> QED BY <1>5, <1>t, <2>1 DEF SetMode, sfAttribution, FigInv
<1>6. ASSUME NEW v \in SfVersion, ReviewSnapshot(v) PROVE FigInv'
  <2>1. sfQuery' \in [SfKey -> Query]
    BY <1>6, <1>t, ObservingIsQuery DEF ReviewSnapshot
  <2>2. PICK status \in {"done", "asked"} :
          sfReview' = [sfReview EXCEPT ![v] = status]
    BY <1>6 DEF ReviewSnapshot
  <2>3. sfReview' \in [SfVersion -> SfStatus] /\ sfReview'[v] = status
    BY <1>t, <2>2 DEF SfStatus
  <2> QED BY <1>6, <1>t, <2>1, <2>3 DEF ReviewSnapshot, sfAttribution, FigInv
<1>7. ASSUME NEW v \in SfVersion, ReviewAnswered(v) PROVE FigInv'
  <2>1. PICK status \in {"done", "idle"} :
          sfReview' = [sfReview EXCEPT ![v] = status] /\ (v = sfSelected => status = "done")
    BY <1>7 DEF ReviewAnswered
  <2>2. sfReview' \in [SfVersion -> SfStatus] /\ (sfSelected # NoSf => sfReview'[sfSelected] # "idle")
    BY <1>t, <2>1 DEF SfStatus
  <2> QED BY <1>7, <1>t, <2>2 DEF ReviewAnswered, sfAttribution, FigInv
<1>8. ASSUME NEW v \in SfVersion, ReviewFailed(v) PROVE FigInv'
  <2>1. sfReview' \in [SfVersion -> SfStatus] /\ (sfSelected # NoSf => sfReview'[sfSelected] # "idle")
    BY <1>8, <1>t DEF ReviewFailed, SfStatus
  <2> QED BY <1>8, <1>t, <2>1 DEF ReviewFailed, sfAttribution, FigInv
<1>9. ASSUME NEW t \in SfTicker, WatchChanges(t) PROVE FigInv'
  <2>1. Unread \in Query
    BY DEF Unread, SfStatus
  <2>2. [sfQuery EXCEPT !["auto"] = Unread] \in [SfKey -> Query]
    <3> HIDE DEF Query
    <3> QED BY <1>t, <2>1
  <2>3. sfQuery' \in [SfKey -> Query]
    BY <1>9, <1>t, <2>2, ObservingIsQuery DEF WatchChanges
  <2> QED BY <1>9, <1>t, <2>3 DEF WatchChanges, sfAttribution, FigInv
<1>10. ASSUME NEW field \in {"start", "end"}, NEW day \in SfDay \cup {NoSf}, PickDate(field, day)
       PROVE  FigInv'
  BY <1>10, <1>t DEF PickDate, sfFigures, FigInv
<1>11. CASE SfReload
  <2>1. sfAttrCopy' \in BOOLEAN
    BY <1>11 DEF SfReload
  <2> QED BY <1>11, <1>t, <2>1 DEF SfReload, sfFigures, FigInv, SfStatus
<1>12. CASE RefreshAttribution
  BY <1>12, <1>t DEF RefreshAttribution, sfFigures, FigInv, SfStatus
<1>13. CASE OpenDetails
  BY <1>13, <1>t DEF OpenDetails, sfFigures, FigInv
<1>14. ASSUME NEW how \in {"done", "failed"}, AttributionAnswered(how) PROVE FigInv'
  BY <1>14, <1>t DEF AttributionAnswered, sfFigures, FigInv, SfStatus
<1>15. ASSUME NEW escape \in BOOLEAN, CloseDetails(escape) PROVE FigInv'
  BY <1>15, <1>t DEF CloseDetails, sfFigures, FigInv
<1>16. CASE UNCHANGED sfVars
  BY <1>16, <1>t DEF sfVars, sfFigures, sfAttribution, FigInv
<1> QED BY <1>1, <1>2, <1>3, <1>4, <1>5, <1>6, <1>7, <1>8, <1>9, <1>10, <1>11, <1>12, <1>13, <1>14,
           <1>15, <1>16 DEF SfNext

\* Where the data of the page are from: a review is shown in snapshot mode, else the latest answer
\* or the copy.
LEMMA DataAreFrom ==
  ASSUME FigInv
  PROVE  /\ ReviewData # NoSf => sfSelected # NoSf /\ ActiveData = SnapshotOf(sfSelected)
         /\ ReviewData = NoSf => ActiveData = ComparisonData
         /\ sfSelected # NoSf /\ sfReview[sfSelected] = "done" => ReviewData # NoSf
         /\ LatestQuery.data \in SfResult \cup {NoSf} /\ LatestQuery.status \in SfStatus
<1>1. sfSelected # NoSf => SnapshotOf(sfSelected) \in SfResult /\ SnapshotOf(sfSelected) # NoSf
  <2> SUFFICES ASSUME sfSelected # NoSf PROVE SnapshotOf(sfSelected) \in SfResult
    BY SfNothing
  <2>1. sfSelected \in SfVersion /\ SfSaved[sfSelected] \in SfRows
    BY SfAssumption DEF FigInv
  <2> QED BY <2>1 DEF SnapshotOf, SfResult
<1>2. ReviewData # NoSf => sfSelected # NoSf /\ ReviewData = SnapshotOf(sfSelected)
  BY DEF ReviewData
<1>3. sfSelected # NoSf /\ sfReview[sfSelected] = "done" => ReviewData = SnapshotOf(sfSelected)
  BY DEF ReviewData
<1>4. LatestQuery.data \in SfResult \cup {NoSf} /\ LatestQuery.status \in SfStatus
  BY KeyIsKnown DEF FigInv, LatestQuery, Unread, SfStatus
<1>5. sfSelected # NoSf => sfMode = "snapshot"
  BY DEF FigInv
<1> QED BY <1>1, <1>2, <1>3, <1>4, <1>5 DEF ActiveData

LEMMA SourceFollows == FigInv => SourceIsTold
<1> SUFFICES ASSUME FigInv PROVE SourceIsTold
  OBVIOUS
<1>1. SourceMode = "selected_snapshot" => ActiveData = SnapshotOf(sfSelected)
  <2> SUFFICES ASSUME SourceMode = "selected_snapshot", ReviewData = NoSf PROVE FALSE
    BY DataAreFrom
  <2>1. LatestQuery.data # NoSf => ComparisonData.mode \in {"snapshot", "live"}
    BY DataAreFrom DEF ComparisonData, SfResult
  <2> QED BY <2>1 DEF SourceMode
<1>2. SourceMode \in {"live", "snapshot"} => ActiveData = LatestQuery.data /\ ActiveData.mode = SourceMode
  <2> SUFFICES ASSUME SourceMode \in {"live", "snapshot"}
               PROVE  ActiveData = LatestQuery.data /\ ActiveData.mode = SourceMode
    OBVIOUS
  <2>1. ~ (sfSelected # NoSf /\ ReviewData # NoSf) /\ LatestQuery.data # NoSf
    BY DEF SourceMode
  <2>2. ReviewData = NoSf /\ ActiveData = ComparisonData
    BY <2>1, DataAreFrom
  <2> QED BY <2>1, <2>2 DEF ComparisonData, SourceMode
<1>3. SourceMode = "cached" => ActiveData = Copy /\ \A t \in sfWatch : TickerMetrics(t).dcf.quality # "ok"
  <2> SUFFICES ASSUME SourceMode = "cached"
               PROVE  ActiveData = Copy /\ \A t \in sfWatch : TickerMetrics(t).dcf.quality # "ok"
    OBVIOUS
  <2>1. LatestQuery.data # NoSf => ComparisonData.mode \in {"snapshot", "live"}
    BY DataAreFrom DEF ComparisonData, SfResult
  <2>2. ~ (sfSelected # NoSf /\ ReviewData # NoSf) /\ LatestQuery.data = NoSf
    BY <2>1 DEF SourceMode
  <2>3. ActiveData = Copy
    BY <2>2, DataAreFrom DEF ComparisonData
  <2>4. ASSUME NEW value PROVE Metric(value, TRUE, FALSE).quality # "ok"
    BY DEF Metric
  <2>5. \A t \in sfWatch : \E value : TickerMetrics(t).dcf = Metric(value, TRUE, FALSE)
    <3> TAKE t \in sfWatch
    <3>1. ((ActiveData # NoSf /\ ActiveData.stale) \/ SourceMode = "cached") = TRUE
      OBVIOUS
    <3> HIDE DEF Metric
    <3> QED BY <3>1 DEF TickerMetrics
  <2> QED BY <2>3, <2>4, <2>5
<1>4. SourceMode = "unavailable" <=> ActiveData = NoSf
  <2>1. LatestQuery.data # NoSf => ComparisonData.mode \in {"snapshot", "live"}
    BY DataAreFrom DEF ComparisonData, SfResult
  <2>2. SourceMode = "unavailable" => ReviewData = NoSf /\ ComparisonData = NoSf
    BY <2>1, DataAreFrom DEF SourceMode, ComparisonData
  <2>3. ReviewData # NoSf => ActiveData # NoSf
    BY DEF ActiveData, FigInv, ReviewData
  <2>4. ReviewData = NoSf /\ ComparisonData = NoSf => SourceMode = "unavailable"
    BY DEF SourceMode, ComparisonData
  <2> QED BY <2>2, <2>3, <2>4, DataAreFrom
<1>5. sfSelected # NoSf =>
        /\ sfMode = "snapshot"
        /\ \/ "summary" \in ComparisonView /\ SnapshotSummary.version = sfSelected
           \/ {"review loading", "review error"} \cap ComparisonView # {}
  <2> SUFFICES ASSUME sfSelected # NoSf
               PROVE  \/ "summary" \in ComparisonView /\ SnapshotSummary.version = sfSelected
                      \/ "review loading" \in ComparisonView \/ "review error" \in ComparisonView
    BY DEF FigInv
  <2>1. sfReview[sfSelected] \in {"asked", "done", "failed"}
    BY DEF FigInv, SfStatus
  <2>2. CASE sfReview[sfSelected] = "done"
    <3>1. ReviewData # NoSf /\ ActiveData = SnapshotOf(sfSelected) /\ ActiveData # NoSf
      BY <2>2, DataAreFrom DEF ActiveData, FigInv
    <3>2. ActiveData.version = sfSelected
      BY <3>1 DEF SnapshotOf
    <3>3. "summary" \in ComparisonView
      BY <3>1 DEF ComparisonView
    <3>4. SnapshotSummary.version = ActiveData.version
      BY DEF SnapshotSummary
    <3> QED BY <3>2, <3>3, <3>4
  <2>3. CASE sfReview[sfSelected] \in {"asked", "failed"}
    BY <2>3 DEF ComparisonView
  <2> QED BY <2>1, <2>2, <2>3
<1> QED BY <1>1, <1>2, <1>3, <1>4, <1>5 DEF SourceIsTold

LEMMA PanelFollows == FigInv => PanelSpeaks
<1> SUFFICES ASSUME FigInv PROVE PanelSpeaks
  OBVIOUS
<1>1. "summary" \in ComparisonView <=> ActiveData # NoSf
  BY DEF ComparisonView
<1>2. "empty" \in ComparisonView <=>
        /\ ActiveData = NoSf /\ LatestQuery.status \notin {"asked", "failed"}
        /\ ~ (sfSelected # NoSf /\ sfReview[sfSelected] = "asked")
  BY DEF ComparisonView
<1>3. "loading" \in ComparisonView <=> LatestQuery.status = "asked" /\ ComparisonData = NoSf
  BY DEF ComparisonView
<1>4. "error" \in ComparisonView <=> LatestQuery.status = "failed" /\ ComparisonData = NoSf
  BY DEF ComparisonView
<1>5. "review loading" \in ComparisonView <=> sfSelected # NoSf /\ sfReview[sfSelected] = "asked"
  BY DEF ComparisonView
<1>6. "review error" \in ComparisonView => sfSelected # NoSf
  BY DEF ComparisonView
<1>7. ComparisonView # {}
  <2>1. ActiveData = NoSf => ComparisonData = NoSf
    BY DataAreFrom DEF ActiveData
  <2> QED BY <1>1, <1>2, <1>3, <1>4, <1>5, <2>1
<1>8. Cardinality(ComparisonView) > 1 => sfSelected # NoSf
  <2> SUFFICES ASSUME sfSelected = NoSf PROVE Cardinality(ComparisonView) = 1
    OBVIOUS
  <2>1. ActiveData = ComparisonData
    BY DataAreFrom
  <2>2. ComparisonView \subseteq {"review loading", "review error", "loading", "error", "empty", "summary"}
    BY DEF ComparisonView
  <2>3. \E m \in ComparisonView : ComparisonView = {m}
    BY <1>1, <1>2, <1>3, <1>4, <1>5, <1>6, <1>7, <2>1, <2>2
  <2> QED BY <2>3, FS_Singleton
<1>9. "empty" \in ComparisonView => "summary" \notin ComparisonView
  BY <1>1, <1>2
<1>10. "results" \notin AttributionView /\ AttributionView = {} => sfAttr = "failed" /\ sfAttrCopy
  <2> SUFFICES ASSUME AttributionView = {} PROVE sfAttr = "failed" /\ sfAttrCopy
    OBVIOUS
  <2>1. ~ (sfAttr = "asked" /\ ~ sfAttrCopy) /\ ~ (sfAttr # "failed" /\ (sfAttr = "done" \/ sfAttrCopy))
        /\ ~ (sfAttr = "idle" /\ ~ sfAttrCopy) /\ ~ (sfAttr = "failed" /\ ~ sfAttrCopy)
    BY DEF AttributionView
  <2> QED BY <2>1 DEF FigInv, SfStatus
<1> QED BY <1>7, <1>8, <1>9, <1>10 DEF PanelSpeaks

\* The figures of the portfolio page (page.tsx): what is said of their source is where they come
\* from, a snapshot said to be reviewed is shown, being loaded or refused, and the panel always
\* says something - whatever is asked for, answered late or fails, and however the mode, the
\* selection and the watchlist change meanwhile.
THEOREM FiguresAlwaysHold == SfSpec => []FiguresHold
<1>1. SfSpec => []FigInv
  BY FigInitially, FigKept, PTL DEF SfSpec
<1>2. FigInv => FiguresHold
  BY SourceFollows, PanelFollows DEF FiguresHold
<1> QED BY <1>1, <1>2, PTL

-----------------------------------------------------------------------------
(* Panels, modals and the focus.                                           *)

\* The listener of the panel and that of the modal; who listens, by what is open.
OfPanel == [of |-> "panel", run |-> 0]
OfModal == [of |-> "modal", run |-> 0]
Listening(panel, modal) ==
  IF panel # NoPp THEN IF modal # NoPp THEN <<OfPanel, OfModal>> ELSE <<OfPanel>>
  ELSE IF modal # NoPp THEN <<OfModal>> ELSE <<>>

\* A place that is there whatever is open: a button of the rail, the tile of a stock that is listed.
Standing(place, listed) ==
  place.place = "rail" \/ (place.place = "tile" /\ place.ticker \in listed)

PanelsQuiet == ppFrame = NoPp /\ ppKey = <<>>

PanelInv ==
  /\ ppListed \subseteq PpTicker /\ ppUsed \in [acts : Nat, changes : Nat] /\ ppEscaped \in BOOLEAN
  /\ ppPanel \in PpPanel \cup {NoPp}
  /\ ppHears = Listening(ppPanel, ppModal)
  /\ Rendered(ppFocus, ppPanel, ppModal, ppEditing, ppListed)
  /\ ppFrame # NoPp => ppModal = NoPp /\ ppKey = <<>> /\ ~ ppEscaped
  /\ ppKey # <<>> => ppKey = ppHears /\ ppEscaped
  /\ ppEscaped /\ ppKey = <<>> => ppPanel = NoPp /\ ppModal = NoPp
  /\ ppModal # NoPp => (ppKey = <<>> => ppFocus = At("modal")) /\ ppBack["modal"] # At("body")
  /\ ~ ppLost =>
       /\ ppModal # NoPp \/ ppKey # <<>> => ppEditing = NoPp
       /\ PanelsQuiet /\ ppModal = NoPp /\ ppEditing # NoPp => ppFocus = Of("weight", ppEditing)
       /\ ppFrame # NoPp => ppEditing = ppFrame /\ ppPanel = "allocation" /\ ppFrame \in ppListed
       /\ ppPanel # NoPp => Standing(ppBack["panel"], ppListed)
       /\ ppPanel = NoPp /\ ppModal # NoPp =>
            Standing(ppBack["modal"], ppListed) \/ (ppKey # <<>> /\ Standing(ppFocus, ppListed))
       /\ PanelsQuiet /\ ppPanel = NoPp /\ ppModal = NoPp /\ ppUsed.acts > 0 => ppFocus # At("body")

LEMMA PairEqual ==
  ASSUME NEW S, NEW s \in Seq(S), NEW t \in Seq(S), Len(s) = 2, Len(t) = 2, s[1] = t[1], s[2] = t[2]
  PROVE  s = t
<1>1. \A i \in 1..Len(s) : i = 1 \/ i = 2
  OBVIOUS
<1>2. \A i \in 1..Len(s) : s[i] = t[i]
  BY <1>1
<1> QED BY <1>2, SeqEqual

LEMMA AppendSmall ==
  ASSUME NEW a, NEW b
  PROVE  Append(<<>>, a) = <<a>> /\ Append(<<>>, b) = <<b>> /\ Append(<<a>>, b) = <<a, b>>
<1>1. Append(<<>>, a) = <<a>> /\ Append(<<>>, b) = <<b>>
  OBVIOUS
<1>2. Append(<<a>>, b) = <<a, b>>
  <2>1. <<a>> \in Seq({a, b}) /\ <<a, b>> \in Seq({a, b}) /\ Append(<<a>>, b) \in Seq({a, b})
    OBVIOUS
  <2>2. Len(Append(<<a>>, b)) = 2 /\ Append(<<a>>, b)[1] = a /\ Append(<<a>>, b)[2] = b
    BY <2>1
  <2>3. Len(<<a, b>>) = 2 /\ <<a, b>>[1] = a /\ <<a, b>>[2] = b
    OBVIOUS
  <2> QED BY <2>1, <2>2, <2>3, PairEqual
<1> QED BY <1>1, <1>2

LEMMA ConcatSmall ==
  ASSUME NEW a, NEW b
  PROVE  /\ <<>> \o <<>> = <<>> /\ <<>> \o <<a>> = <<a>> /\ <<a>> \o <<>> = <<a>>
         /\ <<a>> \o <<b>> = <<a, b>> /\ <<a, b>> \o <<>> = <<a, b>>
<1>1. <<>> \o <<>> = <<>> /\ <<>> \o <<a>> = <<a>> /\ <<a>> \o <<>> = <<a>>
  OBVIOUS
<1>2. <<a>> \o <<b>> = <<a, b>>
  <2>1. <<a>> \in Seq({a, b}) /\ <<b>> \in Seq({a, b}) /\ <<a, b>> \in Seq({a, b})
        /\ <<a>> \o <<b>> \in Seq({a, b})
    OBVIOUS
  <2>2. Len(<<a>> \o <<b>>) = 2 /\ (<<a>> \o <<b>>)[1] = a /\ (<<a>> \o <<b>>)[2] = b
    BY <2>1
  <2>3. Len(<<a, b>>) = 2 /\ <<a, b>>[1] = a /\ <<a, b>>[2] = b
    OBVIOUS
  <2> QED BY <2>1, <2>2, <2>3, PairEqual
<1>3. <<a, b>> \o <<>> = <<a, b>>
  OBVIOUS
<1> QED BY <1>1, <1>2, <1>3

LEMMA WithoutNone == ASSUME NEW kinds PROVE Without(<<>>, kinds) = <<>>
<1> DEFINE F(g) == [n \in 0..Len(<<>>) |-> IF n = 0 THEN <<>>
                      ELSE IF <<>>[n].of \in kinds THEN g[n - 1] ELSE Append(g[n - 1], <<>>[n])]
           f == CHOOSE g : g = F(g)
<1>1. \E g : g = F(g)
  <2>1. [n \in 0..0 |-> <<>>] = F([n \in 0..0 |-> <<>>])
    OBVIOUS
  <2> QED BY <2>1
<1>2. f = F(f)
  BY <1>1
<1>3. f[0] = <<>>
  BY <1>2
<1> QED BY <1>3 DEF Without

LEMMA WithoutOne ==
  ASSUME NEW kinds, NEW a, NEW heards, heards = <<a>>
  PROVE  Without(heards, kinds) = IF a.of \in kinds THEN <<>> ELSE <<a>>
<1> DEFINE F(g) == [n \in 0..Len(heards) |-> IF n = 0 THEN <<>>
                      ELSE IF heards[n].of \in kinds THEN g[n - 1] ELSE Append(g[n - 1], heards[n])]
           f == CHOOSE g : g = F(g)
           w == [n \in 0..1 |-> IF n = 0 THEN <<>> ELSE IF a.of \in kinds THEN <<>> ELSE <<a>>]
<1>0. Len(heards) = 1 /\ heards[1] = a
  OBVIOUS
<1>1. \E g : g = F(g)
  <2>1. w = F(w)
    BY <1>0
  <2> QED BY <2>1
<1>2. f = F(f)
  BY <1>1
<1> HIDE DEF f
<1>3. f[0] = <<>> /\ f[1] = IF a.of \in kinds THEN f[0] ELSE Append(f[0], a)
  BY <1>0, <1>2
<1>4. f[1] = IF a.of \in kinds THEN <<>> ELSE <<a>>
  BY <1>3
<1> QED BY <1>0, <1>4 DEF Without, f

LEMMA WithoutTwo ==
  ASSUME NEW kinds, NEW a, NEW b, NEW heards, heards = <<a, b>>
  PROVE  Without(heards, kinds) =
           IF a.of \in kinds THEN (IF b.of \in kinds THEN <<>> ELSE <<b>>)
           ELSE IF b.of \in kinds THEN <<a>> ELSE <<a, b>>
<1> DEFINE F(g) == [n \in 0..Len(heards) |-> IF n = 0 THEN <<>>
                      ELSE IF heards[n].of \in kinds THEN g[n - 1] ELSE Append(g[n - 1], heards[n])]
           f == CHOOSE g : g = F(g)
           one == IF a.of \in kinds THEN <<>> ELSE <<a>>
           two == IF b.of \in kinds THEN one ELSE Append(one, b)
           w == [n \in 0..2 |-> IF n = 0 THEN <<>> ELSE IF n = 1 THEN one ELSE two]
<1>0. Len(heards) = 2 /\ heards[1] = a /\ heards[2] = b
  OBVIOUS
<1>1. \E g : g = F(g)
  <2>1. Append(<<>>, a) = <<a>>
    BY AppendSmall
  <2>2. \A n \in 0..2 : n = 0 \/ n = 1 \/ n = 2
    OBVIOUS
  <2>3. w[0] = <<>> /\ w[1] = one /\ w[2] = two
    OBVIOUS
  <2> HIDE DEF w
  <2>4. \A n \in 0..2 : w[n] = IF n = 0 THEN <<>>
          ELSE IF heards[n].of \in kinds THEN w[n - 1] ELSE Append(w[n - 1], heards[n])
    <3>1. CASE TRUE
      <4> TAKE n \in 0..2
      <4>1. CASE n = 0
        BY <2>3, <4>1
      <4>2. CASE n = 1
        <5>1. n - 1 = 0 /\ heards[n] = a /\ w[n] = one /\ w[n - 1] = <<>>
          BY <1>0, <2>3, <4>2
        <5> QED BY <2>1, <4>2, <5>1
      <4>3. CASE n = 2
        BY <1>0, <2>3, <4>3
      <4> QED BY <2>2, <4>1, <4>2, <4>3
    <3> QED BY <3>1
  <2>5. w = F(w)
    BY <1>0, <2>4 DEF w
  <2> QED BY <2>5
<1>2. f = F(f)
  BY <1>1
<1> HIDE DEF f
<1>3. /\ f[0] = <<>> /\ f[1] = (IF a.of \in kinds THEN f[0] ELSE Append(f[0], a))
      /\ f[2] = (IF b.of \in kinds THEN f[1] ELSE Append(f[1], b))
  BY <1>0, <1>2
<1>4. Append(<<>>, a) = <<a>> /\ Append(<<>>, b) = <<b>> /\ Append(<<a>>, b) = <<a, b>>
  BY AppendSmall
<1>5. f[2] = IF a.of \in kinds THEN (IF b.of \in kinds THEN <<>> ELSE <<b>>)
             ELSE IF b.of \in kinds THEN <<a>> ELSE <<a, b>>
  BY <1>3, <1>4
<1> QED BY <1>0, <1>5 DEF Without, f

\* A commit leaves the listeners of what is open, as long as no panel opens under a modal.
LEMMA RegisteredIs ==
  ASSUME NEW wasPanel, NEW wasModal, NEW isPanel, NEW isModal, ppHears = Listening(wasPanel, wasModal),
         ~ (wasPanel = NoPp /\ isPanel # NoPp /\ wasModal # NoPp /\ isModal # NoPp)
  PROVE  Registered([panel |-> wasPanel, modal |-> wasModal], [panel |-> isPanel, modal |-> isModal])
           = Listening(isPanel, isModal)
<1> DEFINE was == [panel |-> wasPanel, modal |-> wasModal]
           is == [panel |-> isPanel, modal |-> isModal]
           gone == {kind \in {"panel", "modal"} : Goes(kind, was[kind], is[kind])}
           run(kind) == IF \E i \in DOMAIN ppHears : ppHears[i] = [of |-> kind, run |-> 0] THEN 1 ELSE 0
           New(kind) == IF Comes(kind, was[kind], is[kind]) THEN <<[of |-> kind, run |-> run(kind)]>> ELSE <<>>
<1>1. /\ "panel" \in gone <=> wasPanel # NoPp /\ isPanel = NoPp
      /\ "modal" \in gone <=> wasModal # NoPp /\ isModal = NoPp
  BY DEF Goes, Stable
<1>2. OfPanel.of = "panel" /\ OfModal.of = "modal" /\ OfPanel # OfModal
  BY DEF OfPanel, OfModal
<1>3. wasPanel = NoPp => run("panel") = 0
  BY <1>2 DEF Listening, OfPanel
<1>4. wasModal = NoPp => run("modal") = 0
  BY <1>2 DEF Listening, OfModal
<1>5. New("panel") = IF wasPanel = NoPp /\ isPanel # NoPp THEN <<OfPanel>> ELSE <<>>
  <2>1. Comes("panel", was["panel"], is["panel"]) <=> wasPanel = NoPp /\ isPanel # NoPp
    BY DEF Comes, Stable
  <2> HIDE DEF run
  <2> QED BY <1>3, <2>1 DEF OfPanel
<1>6. New("modal") = IF wasModal = NoPp /\ isModal # NoPp THEN <<OfModal>> ELSE <<>>
  <2>1. Comes("modal", was["modal"], is["modal"]) <=> wasModal = NoPp /\ isModal # NoPp
    BY DEF Comes, Stable
  <2> HIDE DEF run
  <2> QED BY <1>4, <2>1 DEF OfModal
<1>7. Registered(was, is) = Without(ppHears, gone) \o New("panel") \o New("modal")
  BY DEF Registered
<1>8. Without(ppHears, gone) =
        Listening(IF isPanel = NoPp THEN NoPp ELSE wasPanel, IF isModal = NoPp THEN NoPp ELSE wasModal)
  <2> HIDE DEF gone, New, was, is
  <2>1. CASE wasPanel # NoPp /\ wasModal # NoPp
    BY <1>1, <1>2, <2>1, WithoutTwo DEF Listening
  <2>2. CASE wasPanel # NoPp /\ wasModal = NoPp
    BY <1>1, <1>2, <2>2, WithoutOne DEF Listening
  <2>3. CASE wasPanel = NoPp /\ wasModal # NoPp
    BY <1>1, <1>2, <2>3, WithoutOne DEF Listening
  <2>4. CASE wasPanel = NoPp /\ wasModal = NoPp
    BY <2>4, WithoutNone DEF Listening
  <2> QED BY <2>1, <2>2, <2>3, <2>4
<1> HIDE DEF gone, New, was, is
<1>9. Without(ppHears, gone) \o New("panel") \o New("modal") = Listening(isPanel, isModal)
  <2>1. /\ <<>> \o <<>> = <<>> /\ <<>> \o <<OfPanel>> = <<OfPanel>> /\ <<>> \o <<OfModal>> = <<OfModal>>
        /\ <<OfPanel>> \o <<>> = <<OfPanel>> /\ <<OfModal>> \o <<>> = <<OfModal>>
        /\ <<OfPanel>> \o <<OfModal>> = <<OfPanel, OfModal>>
        /\ <<OfPanel, OfModal>> \o <<>> = <<OfPanel, OfModal>>
    BY ConcatSmall
  <2> HIDE DEF OfPanel, OfModal
  <2> QED BY <1>5, <1>6, <1>8, <2>1 DEF Listening
<1> QED BY <1>7, <1>9 DEF was, is

\* What is where: the page and its rail always, a modal and a panel while they are open, a weight
\* while it is edited in the allocation panel.
LEMMA PlacesAre ==
  ASSUME NEW panel, NEW modal, NEW editing, NEW listed
  PROVE  /\ Rendered(At("body"), panel, modal, editing, listed)
         /\ Rendered(At("rail"), panel, modal, editing, listed)
         /\ Rendered(At("modal"), panel, modal, editing, listed) <=> modal # NoPp
         /\ Rendered(At("panel"), panel, modal, editing, listed) <=> panel # NoPp
         /\ Rendered(At("history"), panel, modal, editing, listed) <=> panel = "snapshot"
         /\ Rendered(At("add"), panel, modal, editing, listed) <=> panel = "holdings"
         /\ \A t : Rendered(Of("weight", t), panel, modal, editing, listed)
                     <=> panel = "allocation" /\ t \in listed /\ editing = t
         /\ \A t : Rendered(Of("percent", t), panel, modal, editing, listed)
                     <=> panel = "allocation" /\ t \in listed /\ editing # t
         /\ At("modal") # At("body") /\ At("history") # At("body") /\ At("rail").place = "rail"
         /\ \A t : Of("weight", t) # At("modal")
<1>1. DOMAIN PlaceIn = {"history", "add", "row", "company", "weight", "percent"}
  BY DEF PlaceIn
<1>2. /\ PlaceIn["history"] = "snapshot" /\ PlaceIn["add"] = "holdings"
      /\ PlaceIn["weight"] = "allocation" /\ PlaceIn["percent"] = "allocation"
  BY DEF PlaceIn
<1>3. \A p, t : Of(p, t).place = p /\ Of(p, t).ticker = t
  BY DEF Of
<1>4. \A p : At(p).place = p
  BY <1>3 DEF At
<1>5. /\ Rendered(At("body"), panel, modal, editing, listed)
      /\ Rendered(At("rail"), panel, modal, editing, listed)
  BY <1>1, <1>4 DEF Rendered
<1>6. /\ Rendered(At("modal"), panel, modal, editing, listed) <=> modal # NoPp
      /\ Rendered(At("panel"), panel, modal, editing, listed) <=> panel # NoPp
  BY <1>1, <1>4 DEF Rendered
<1>7. /\ Rendered(At("history"), panel, modal, editing, listed) <=> panel = "snapshot"
      /\ Rendered(At("add"), panel, modal, editing, listed) <=> panel = "holdings"
  BY <1>1, <1>2, <1>4 DEF Rendered
<1>8. \A t : Rendered(Of("weight", t), panel, modal, editing, listed)
               <=> panel = "allocation" /\ t \in listed /\ editing = t
  BY <1>1, <1>2, <1>3 DEF Rendered
<1>9. \A t : Rendered(Of("percent", t), panel, modal, editing, listed)
               <=> panel = "allocation" /\ t \in listed /\ editing # t
  BY <1>1, <1>2, <1>3 DEF Rendered
<1>10. At("modal") # At("body") /\ At("history") # At("body") /\ At("rail").place = "rail"
  BY <1>4
<1>11. \A t : Of("weight", t) # At("modal")
  BY <1>3, <1>4
<1> QED BY <1>5, <1>6, <1>7, <1>8, <1>9, <1>10, <1>11

\* A weight that has the focus is in the allocation panel.
LEMMA WeightIsThere ==
  ASSUME NEW t, NEW panel, NEW modal, NEW editing, NEW listed,
         Rendered(Of("weight", t), panel, modal, editing, listed)
  PROVE  panel = "allocation" /\ t \in listed /\ editing = t
<1>1. "weight" \in DOMAIN PlaceIn /\ PlaceIn["weight"] = "allocation"
  BY DEF PlaceIn
<1>2. Of("weight", t).place = "weight" /\ Of("weight", t).ticker = t
  BY DEF Of
<1> QED BY <1>1, <1>2 DEF Rendered

\* A place that stands is there whatever opens and closes, and is not the page itself; the others
\* stay while stocks are added to the list.
LEMMA StandingStays ==
  ASSUME NEW place, NEW panel, NEW modal, NEW editing, NEW listed
  PROVE  /\ Standing(place, listed) =>
              Rendered(place, panel, modal, editing, listed) /\ place # At("body")
         /\ \A more : listed \subseteq more /\ Standing(place, listed) => Standing(place, more)
         /\ \A more : listed \subseteq more /\ Rendered(place, panel, modal, editing, listed) =>
              Rendered(place, panel, modal, editing, more)
<1>1. DOMAIN PlaceIn = {"history", "add", "row", "company", "weight", "percent"}
  BY DEF PlaceIn
<1>2. At("body").place = "body"
  BY DEF At, Of
<1>3. Standing(place, listed) => Rendered(place, panel, modal, editing, listed) /\ place # At("body")
  BY <1>1, <1>2 DEF Standing, Rendered
<1>4. \A more : listed \subseteq more /\ Standing(place, listed) => Standing(place, more)
  BY DEF Standing
<1>5. \A more : listed \subseteq more /\ Rendered(place, panel, modal, editing, listed) =>
        Rendered(place, panel, modal, editing, more)
  BY DEF Rendered
<1> QED BY <1>3, <1>4, <1>5

\* A place from which a card is opened is there whatever modal opens and weight is edited.
LEMMA CardPlaceStays ==
  ASSUME NEW place \in [place : {"tile", "row", "company"}, ticker : PpTicker],
         NEW panel, NEW modal, NEW editing, NEW listed, Rendered(place, panel, modal, editing, listed)
  PROVE  /\ \A other, edited : Rendered(place, panel, other, edited, listed)
         /\ place # At("body") /\ (panel = NoPp => Standing(place, listed))
         /\ \A t : place # Of("weight", t)
<1>1. DOMAIN PlaceIn = {"history", "add", "row", "company", "weight", "percent"}
  BY DEF PlaceIn
<1>2. PlaceIn["row"] = "holdings" /\ PlaceIn["company"] = "allocation"
  BY DEF PlaceIn
<1>3. At("body").place = "body" /\ \A t : Of("weight", t).place = "weight"
  BY DEF At, Of
<1>4. place.place \in {"tile", "row", "company"}
  OBVIOUS
<1>5. NoPp # "holdings" /\ NoPp # "allocation"
  BY PpNothing DEF PpPanel
<1>6. \A other, edited : Rendered(place, panel, other, edited, listed)
  BY <1>1, <1>4 DEF Rendered
<1>7. place # At("body") /\ \A t : place # Of("weight", t)
  BY <1>3, <1>4
<1>8. panel = NoPp => Standing(place, listed)
  BY <1>1, <1>2, <1>4, <1>5 DEF Rendered, Standing
<1> QED BY <1>6, <1>7, <1>8

\* What a commit does, step by step: what is left of the focus, where a panel and a modal that
\* close put it, who takes it and what is noted.
LEMMA CommitIs ==
  ASSUME ppHears = Listening(ppPanel, ppModal),
         NEW panel, NEW modal, NEW editing, NEW listed, NEW focus,
         Commit(panel, modal, editing, listed, focus),
         ~ (ppPanel = NoPp /\ panel # NoPp /\ ppModal # NoPp /\ modal # NoPp)
  PROVE  /\ ppPanel' = panel /\ ppModal' = modal /\ ppEditing' = editing /\ ppListed' = listed
         /\ ppHears' = Listening(panel, modal)
         /\ Rendered(ppFocus', panel, modal, editing, listed)
         /\ \E left, closed, free :
              /\ left = IF Rendered(focus, panel, modal, editing, listed) THEN focus ELSE At("body")
              /\ closed = IF /\ ppPanel # NoPp /\ panel = NoPp
                             /\ Rendered(ppBack["panel"], panel, modal, editing, listed)
                          THEN ppBack["panel"] ELSE left
              /\ free = IF /\ ppModal # NoPp /\ modal = NoPp
                           /\ Rendered(ppBack["modal"], panel, modal, editing, listed)
                        THEN ppBack["modal"] ELSE closed
              /\ ppFocus' = IF ppModal = NoPp /\ modal # NoPp THEN At("modal")
                            ELSE IF ppPanel = NoPp /\ panel # NoPp THEN At("panel") ELSE free
              /\ ppBack'["panel"] = IF ppPanel = NoPp /\ panel # NoPp THEN free ELSE ppBack["panel"]
              /\ ppBack'["modal"] = IF ppModal = NoPp /\ modal # NoPp
                                    THEN IF ppPanel = NoPp /\ panel # NoPp THEN At("panel") ELSE free
                                    ELSE ppBack["modal"]
<1> DEFINE was == [panel |-> ppPanel, modal |-> ppModal]
           is == [panel |-> panel, modal |-> modal]
           seen(place) == Rendered(place, panel, modal, editing, listed)
           left == IF seen(focus) THEN focus ELSE At("body")
           Back(kind, had) == IF Goes(kind, was[kind], is[kind]) /\ seen(ppBack[kind]) THEN ppBack[kind] ELSE had
           TakenBy(kind, had) == IF Comes(kind, was[kind], is[kind]) THEN At(kind) ELSE had
           closed == Back("panel", left)
           free == Back("modal", closed)
           Noted(kind, has) == IF Comes(kind, was[kind], is[kind]) THEN has ELSE ppBack[kind]
<1>1. /\ ppPanel' = panel /\ ppModal' = modal /\ ppEditing' = editing /\ ppListed' = listed
      /\ ppFocus' = TakenBy("modal", TakenBy("panel", free))
      /\ ppBack' = [panel |-> Noted("panel", free), modal |-> Noted("modal", TakenBy("panel", free))]
      /\ ppHears' = Registered(was, is)
  BY DEF Commit
<1>2. /\ Goes("panel", was["panel"], is["panel"]) <=> ppPanel # NoPp /\ panel = NoPp
      /\ Goes("modal", was["modal"], is["modal"]) <=> ppModal # NoPp /\ modal = NoPp
      /\ Comes("panel", was["panel"], is["panel"]) <=> ppPanel = NoPp /\ panel # NoPp
      /\ Comes("modal", was["modal"], is["modal"]) <=> ppModal = NoPp /\ modal # NoPp
  BY DEF Goes, Comes, Stable
<1>3. ppHears' = Listening(panel, modal)
  BY <1>1, RegisteredIs
<1>4. /\ closed = IF ppPanel # NoPp /\ panel = NoPp /\ seen(ppBack["panel"]) THEN ppBack["panel"] ELSE left
      /\ free = IF ppModal # NoPp /\ modal = NoPp /\ seen(ppBack["modal"]) THEN ppBack["modal"] ELSE closed
  <2> HIDE DEF was, is, seen, left
  <2> QED BY <1>2
<1>5. /\ ppFocus' = IF ppModal = NoPp /\ modal # NoPp THEN At("modal")
                    ELSE IF ppPanel = NoPp /\ panel # NoPp THEN At("panel") ELSE free
      /\ ppBack'["panel"] = IF ppPanel = NoPp /\ panel # NoPp THEN free ELSE ppBack["panel"]
      /\ ppBack'["modal"] = IF ppModal = NoPp /\ modal # NoPp
                            THEN IF ppPanel = NoPp /\ panel # NoPp THEN At("panel") ELSE free
                            ELSE ppBack["modal"]
  <2> HIDE DEF was, is, free
  <2> QED BY <1>1, <1>2
<1>6. seen(left) /\ seen(closed) /\ seen(free)
  <2> HIDE DEF closed, free
  <2> QED BY <1>4, PlacesAre
<1> HIDE DEF free, closed, left
<1>7. Rendered(ppFocus', panel, modal, editing, listed)
  BY <1>5, <1>6, PlacesAre
<1> QED BY <1>1, <1>3, <1>4, <1>5, <1>7 DEF left

LEMMA PanelsInitially == PpInit => PanelInv
<1> SUFFICES ASSUME PpInit PROVE PanelInv
  OBVIOUS
<1>1. ppPanel = NoPp /\ ppModal = NoPp /\ ppEditing = NoPp /\ ppFrame = NoPp /\ ppFocus = At("body")
  BY DEF PpInit
<1>2. ppHears = Listening(ppPanel, ppModal)
  BY DEF PpInit, Listening
<1>3. ppListed \subseteq PpTicker /\ ppUsed \in [acts : Nat, changes : Nat] /\ ppEscaped = FALSE
      /\ ppKey = <<>> /\ ppUsed.acts = 0
  BY PpAssumption DEF PpInit
<1>4. Rendered(ppFocus, ppPanel, ppModal, ppEditing, ppListed)
  BY <1>1, PlacesAre
<1>5. ~ ppLost =>
       /\ ppModal # NoPp \/ ppKey # <<>> => ppEditing = NoPp
       /\ PanelsQuiet /\ ppModal = NoPp /\ ppEditing # NoPp => ppFocus = Of("weight", ppEditing)
       /\ ppFrame # NoPp => ppEditing = ppFrame /\ ppPanel = "allocation" /\ ppFrame \in ppListed
       /\ ppPanel # NoPp => Standing(ppBack["panel"], ppListed)
       /\ ppPanel = NoPp /\ ppModal # NoPp =>
            Standing(ppBack["modal"], ppListed) \/ (ppKey # <<>> /\ Standing(ppFocus, ppListed))
       /\ PanelsQuiet /\ ppPanel = NoPp /\ ppModal = NoPp /\ ppUsed.acts > 0 => ppFocus # At("body")
  BY <1>1, <1>3
<1>6. /\ ppFrame # NoPp => ppModal = NoPp /\ ppKey = <<>> /\ ~ ppEscaped
      /\ ppKey # <<>> => ppKey = ppHears /\ ppEscaped
      /\ ppEscaped /\ ppKey = <<>> => ppPanel = NoPp /\ ppModal = NoPp
      /\ ppModal # NoPp => (ppKey = <<>> => ppFocus = At("modal")) /\ ppBack["modal"] # At("body")
  BY <1>1, <1>3
<1> QED BY <1>1, <1>2, <1>3, <1>4, <1>5, <1>6 DEF PanelInv

\* An act of the user: no frame is due and no key on its way, before and after it.
LEMMA ActIs ==
  ASSUME PanelInv, PpAct
  PROVE  /\ PanelsQuiet /\ ppUsed' \in [acts : Nat, changes : Nat] /\ ppEscaped' = FALSE
         /\ ~ ppLost /\ ppModal # NoPp => ppEditing = NoPp /\ ppFocus = At("modal")
         /\ ~ ppLost /\ ppModal = NoPp /\ ppEditing # NoPp =>
              ppFocus = Of("weight", ppEditing) /\ ppPanel = "allocation"
         /\ ~ ppLost => \A place : ppModal = NoPp /\ place # ppFocus => Blurred(place) = NoPp
         /\ ~ ppLost => \A place : ppModal # NoPp => Blurred(place) = NoPp
<1>1. PanelsQuiet /\ ppUsed' \in [acts : Nat, changes : Nat] /\ ppEscaped' = FALSE
  BY DEF PpAct, PanelsQuiet, PanelInv
<1>2. ~ ppLost /\ ppModal # NoPp => ppEditing = NoPp /\ ppFocus = At("modal")
  BY <1>1 DEF PanelInv, PanelsQuiet
<1>3. ~ ppLost /\ ppModal = NoPp /\ ppEditing # NoPp => ppFocus = Of("weight", ppEditing)
  BY <1>1 DEF PanelInv
<1>4. ~ ppLost /\ ppModal = NoPp /\ ppEditing # NoPp => ppPanel = "allocation"
  <2> SUFFICES ASSUME ~ ppLost, ppModal = NoPp, ppEditing # NoPp PROVE ppPanel = "allocation"
    OBVIOUS
  <2>1. Rendered(Of("weight", ppEditing), ppPanel, ppModal, ppEditing, ppListed)
    BY <1>3 DEF PanelInv
  <2> QED BY <2>1, WeightIsThere
<1>5. ~ ppLost => \A place : ppModal = NoPp /\ place # ppFocus => Blurred(place) = NoPp
  BY <1>3 DEF Blurred
<1>6. ~ ppLost => \A place : ppModal # NoPp => Blurred(place) = NoPp
  BY <1>2 DEF Blurred
<1> QED BY <1>1, <1>2, <1>3, <1>4, <1>5, <1>6

LEMMA PressRailKeeps ==
  ASSUME PanelInv, NEW panel \in PpPanel, PressRail(panel)
  PROVE  PanelInv'
<1> DEFINE open == IF ppPanel = panel THEN NoPp ELSE panel
           edited == Blurred(At("rail"))
<1>1. /\ PpAct /\ ppModal = NoPp /\ Commit(open, NoPp, edited, ppListed, At("rail"))
      /\ ppFrame' = ppFrame /\ ppKey' = ppKey /\ ppLost' = ppLost
  BY DEF PressRail, Seen
<1>2. /\ PanelsQuiet /\ ppUsed' \in [acts : Nat, changes : Nat] /\ ppEscaped' = FALSE
      /\ ~ ppLost => edited = NoPp
  <2>1. PanelsQuiet /\ ppUsed' \in [acts : Nat, changes : Nat] /\ ppEscaped' = FALSE
    BY <1>1, ActIs
  <2>2. \A t : At("rail") # Of("weight", t)
    BY DEF At, Of
  <2>3. ~ ppLost => edited = NoPp
    BY <1>1, <2>2, ActIs DEF Blurred
  <2> QED BY <2>1, <2>3
<1>3. open \in PpPanel \cup {NoPp}
  OBVIOUS
<1> HIDE DEF open, edited
<1>4. ppHears = Listening(ppPanel, ppModal) /\ NoPp \notin PpPanel
  BY PpNothing DEF PanelInv
<1>5. /\ ppPanel' = open /\ ppModal' = NoPp /\ ppEditing' = edited /\ ppListed' = ppListed
      /\ ppHears' = Listening(open, NoPp)
      /\ Rendered(ppFocus', open, NoPp, edited, ppListed)
  BY <1>1, <1>4, CommitIs
<1>6. /\ ppFocus' = IF ppPanel = NoPp /\ open # NoPp THEN At("panel")
                    ELSE IF /\ ppPanel # NoPp /\ open = NoPp
                            /\ Rendered(ppBack["panel"], open, NoPp, edited, ppListed)
                         THEN ppBack["panel"] ELSE At("rail")
      /\ ppBack'["panel"] = IF ppPanel = NoPp /\ open # NoPp THEN At("rail") ELSE ppBack["panel"]
  BY <1>1, <1>4, CommitIs, PlacesAre
<1>7. ~ ppLost /\ ppPanel # NoPp => Standing(ppBack["panel"], ppListed)
  BY DEF PanelInv
<1>8. Standing(At("rail"), ppListed) /\ At("rail") # At("body")
  <2>1. At("rail").place = "rail" /\ At("body").place = "body"
    BY DEF At, Of
  <2> QED BY <2>1 DEF Standing
<1>9. ~ ppLost /\ open = NoPp => ppFocus' # At("body")
  BY <1>6, <1>7, <1>8, StandingStays
<1>10. ~ ppLost /\ open # NoPp => Standing(ppBack'["panel"], ppListed)
  BY <1>6, <1>7, <1>8
<1> QED BY <1>1, <1>2, <1>3, <1>5, <1>9, <1>10 DEF PanelInv, PanelsQuiet

LEMMA PressCloseKeeps == PanelInv /\ PressClose => PanelInv'
<1> SUFFICES ASSUME PanelInv, PressClose PROVE PanelInv'
  OBVIOUS
<1> DEFINE edited == Blurred(At("panel"))
<1>1. /\ PpAct /\ ppPanel # NoPp /\ ppModal = NoPp /\ Commit(NoPp, NoPp, edited, ppListed, At("panel"))
      /\ ppFrame' = ppFrame /\ ppKey' = ppKey /\ ppLost' = ppLost
  BY DEF PressClose
<1>2. /\ PanelsQuiet /\ ppUsed' \in [acts : Nat, changes : Nat] /\ ppEscaped' = FALSE
      /\ ~ ppLost => edited = NoPp
  <2>1. PanelsQuiet /\ ppUsed' \in [acts : Nat, changes : Nat] /\ ppEscaped' = FALSE
    BY <1>1, ActIs
  <2>2. \A t : At("panel") # Of("weight", t)
    BY DEF At, Of
  <2>3. ~ ppLost => edited = NoPp
    BY <1>1, <2>2, ActIs DEF Blurred
  <2> QED BY <2>1, <2>3
<1> HIDE DEF edited
<1>4. ppHears = Listening(ppPanel, ppModal)
  BY DEF PanelInv
<1>5. /\ ppPanel' = NoPp /\ ppModal' = NoPp /\ ppEditing' = edited /\ ppListed' = ppListed
      /\ ppHears' = Listening(NoPp, NoPp)
      /\ Rendered(ppFocus', NoPp, NoPp, edited, ppListed)
  BY <1>1, <1>4, CommitIs
<1>6. Rendered(ppBack["panel"], NoPp, NoPp, edited, ppListed) => ppFocus' = ppBack["panel"]
  BY <1>1, <1>4, CommitIs
<1>7. ~ ppLost => Standing(ppBack["panel"], ppListed)
  BY <1>1 DEF PanelInv
<1>9. ~ ppLost => ppFocus' # At("body")
  BY <1>6, <1>7, StandingStays
<1> QED BY <1>1, <1>2, <1>5, <1>9 DEF PanelInv, PanelsQuiet

LEMMA OpenCardKeeps ==
  ASSUME PanelInv, NEW place \in [place : {"tile", "row", "company"}, ticker : PpTicker], OpenCard(place)
  PROVE  PanelInv'
<1> DEFINE edited == Blurred(place)
           card == Of("card", place.ticker)
<1>1. /\ PpAct /\ ppModal = NoPp /\ Commit(ppPanel, card, edited, ppListed, place)
      /\ Rendered(place, ppPanel, ppModal, ppEditing, ppListed)
      /\ ppFrame' = ppFrame /\ ppKey' = ppKey /\ ppLost' = ppLost
  BY DEF OpenCard, Seen
<1>2. /\ PanelsQuiet /\ ppUsed' \in [acts : Nat, changes : Nat] /\ ppEscaped' = FALSE
      /\ ~ ppLost => edited = NoPp
  <2>1. PanelsQuiet /\ ppUsed' \in [acts : Nat, changes : Nat] /\ ppEscaped' = FALSE
    BY <1>1, ActIs
  <2>2. \A t : place # Of("weight", t)
    BY <1>1, CardPlaceStays
  <2>3. ~ ppLost => edited = NoPp
    BY <1>1, <2>2, ActIs DEF Blurred
  <2> QED BY <2>1, <2>3
<1>3. card # NoPp
  <2>1. place.ticker \in PpTicker
    OBVIOUS
  <2> QED BY <2>1, PpNothing DEF PpModals
<1> HIDE DEF edited, card
<1>4. ppHears = Listening(ppPanel, ppModal)
  BY DEF PanelInv
<1>5. /\ ppPanel' = ppPanel /\ ppModal' = card /\ ppEditing' = edited /\ ppListed' = ppListed
      /\ ppHears' = Listening(ppPanel, card)
      /\ Rendered(ppFocus', ppPanel, card, edited, ppListed)
  BY <1>1, <1>4, CommitIs
<1>6. /\ Rendered(place, ppPanel, card, edited, ppListed)
      /\ place # At("body") /\ (ppPanel = NoPp => Standing(place, ppListed))
  BY <1>1, CardPlaceStays
<1>7. ppFocus' = At("modal") /\ ppBack'["modal"] = place /\ ppBack'["panel"] = ppBack["panel"]
  BY <1>1, <1>3, <1>4, <1>6, CommitIs
<1>8. ppFrame' = NoPp /\ ppKey' = <<>> /\ ppModal' # NoPp
  BY <1>1, <1>2, <1>3, <1>5 DEF PanelsQuiet
<1>9. ~ ppLost' =>
       /\ ppEditing' = NoPp
       /\ ppPanel' # NoPp => Standing(ppBack'["panel"], ppListed')
       /\ ppPanel' = NoPp => Standing(ppBack'["modal"], ppListed')
  BY <1>1, <1>2, <1>5, <1>6, <1>7 DEF PanelInv
<1>10. ppListed' \subseteq PpTicker /\ ppPanel' \in PpPanel \cup {NoPp}
  BY <1>5 DEF PanelInv
<1> QED BY <1>2, <1>5, <1>6, <1>7, <1>8, <1>9, <1>10 DEF PanelInv

LEMMA OpenHistoryKeeps == PanelInv /\ OpenHistory => PanelInv'
<1> SUFFICES ASSUME PanelInv, OpenHistory PROVE PanelInv'
  OBVIOUS
<1>1. /\ PpAct /\ ppModal = NoPp /\ ppPanel = "snapshot"
      /\ Commit(ppPanel, At("history"), ppEditing, ppListed, At("history"))
      /\ ppFrame' = ppFrame /\ ppKey' = ppKey /\ ppLost' = ppLost
  BY PlacesAre DEF OpenHistory, Seen
<1>2. /\ PanelsQuiet /\ ppUsed' \in [acts : Nat, changes : Nat] /\ ppEscaped' = FALSE
      /\ ~ ppLost => ppEditing = NoPp
  BY <1>1, ActIs
<1>3. At("history") # NoPp /\ ppPanel # NoPp
  BY <1>1, PpNothing DEF PpModals, PpPanel
<1>4. ppHears = Listening(ppPanel, ppModal)
  BY DEF PanelInv
<1>5. /\ ppPanel' = ppPanel /\ ppModal' = At("history") /\ ppEditing' = ppEditing /\ ppListed' = ppListed
      /\ ppHears' = Listening(ppPanel, At("history"))
      /\ Rendered(ppFocus', ppPanel, At("history"), ppEditing, ppListed)
  BY <1>1, <1>4, CommitIs
<1>6. Rendered(At("history"), ppPanel, At("history"), ppEditing, ppListed)
  BY <1>1, PlacesAre
<1>7. ppFocus' = At("modal") /\ ppBack'["modal"] = At("history") /\ ppBack'["panel"] = ppBack["panel"]
  BY <1>1, <1>3, <1>4, <1>6, CommitIs
<1> QED BY <1>1, <1>2, <1>3, <1>5, <1>7, PlacesAre DEF PanelInv, PanelsQuiet

LEMMA CloseModalKeeps ==
  ASSUME PanelInv, NEW focus \in {At("modal"), At("body")}, CloseModal(focus)
  PROVE  PanelInv'
<1>1. /\ PpAct /\ ppModal # NoPp /\ Commit(ppPanel, NoPp, ppEditing, ppListed, focus)
      /\ ppFrame' = ppFrame /\ ppKey' = ppKey /\ ppLost' = ppLost
  BY DEF CloseModal
<1>2. /\ PanelsQuiet /\ ppUsed' \in [acts : Nat, changes : Nat] /\ ppEscaped' = FALSE
      /\ ~ ppLost => ppEditing = NoPp
  BY <1>1, ActIs
<1>4. ppHears = Listening(ppPanel, ppModal)
  BY DEF PanelInv
<1>5. /\ ppPanel' = ppPanel /\ ppModal' = NoPp /\ ppEditing' = ppEditing /\ ppListed' = ppListed
      /\ ppHears' = Listening(ppPanel, NoPp)
      /\ Rendered(ppFocus', ppPanel, NoPp, ppEditing, ppListed)
  BY <1>1, <1>4, CommitIs
<1>6. /\ Rendered(ppBack["modal"], ppPanel, NoPp, ppEditing, ppListed) => ppFocus' = ppBack["modal"]
      /\ ppBack'["panel"] = ppBack["panel"]
  BY <1>1, <1>4, CommitIs
<1>7. ~ ppLost /\ ppPanel = NoPp => ppFocus' # At("body")
  <2> SUFFICES ASSUME ~ ppLost, ppPanel = NoPp PROVE ppFocus' # At("body")
    OBVIOUS
  <2>1. Standing(ppBack["modal"], ppListed)
    BY <1>1, <1>2 DEF PanelInv, PanelsQuiet
  <2> QED BY <1>6, <2>1, StandingStays
<1> QED BY <1>1, <1>2, <1>5, <1>6, <1>7 DEF PanelInv, PanelsQuiet

\* The allocation panel opens, or is open, over no modal; a weight that is asked for is listed.
LEMMA AllocationKeeps ==
  ASSUME PanelInv, PpAct, NEW ticker \in ppListed \cup {NoPp}, NEW focus,
         RequestAllocationFocus(ticker, focus), ppKey' = ppKey, ppLost' = ppLost,
         ~ ppLost /\ ticker = NoPp => Blurred(focus) = NoPp,
         ppPanel # NoPp \/ ppModal # NoPp
  PROVE  PanelInv'
<1> DEFINE edited == IF ticker # NoPp THEN ticker ELSE Blurred(focus)
<1>1. Commit("allocation", NoPp, edited, ppListed, focus) /\ ppFrame' = ticker
  BY DEF RequestAllocationFocus
<1>2. PanelsQuiet /\ ppUsed' \in [acts : Nat, changes : Nat] /\ ppEscaped' = FALSE
  BY ActIs
<1>3. /\ ticker # NoPp => ticker \in ppListed /\ edited = ticker
      /\ ~ ppLost /\ ticker = NoPp => edited = NoPp
      /\ "allocation" # NoPp
  BY PpNothing DEF PpPanel
<1> HIDE DEF edited
<1>4. ppHears = Listening(ppPanel, ppModal)
  BY DEF PanelInv
<1>5. /\ ppPanel' = "allocation" /\ ppModal' = NoPp /\ ppEditing' = edited /\ ppListed' = ppListed
      /\ ppHears' = Listening("allocation", NoPp)
      /\ Rendered(ppFocus', "allocation", NoPp, edited, ppListed)
  BY <1>1, <1>4, CommitIs
<1>6. /\ ppPanel # NoPp => ppBack'["panel"] = ppBack["panel"]
      /\ ppPanel = NoPp /\ Rendered(ppBack["modal"], "allocation", NoPp, edited, ppListed) =>
           ppBack'["panel"] = ppBack["modal"]
  BY <1>1, <1>3, <1>4, CommitIs
<1>7. ~ ppLost => Standing(ppBack'["panel"], ppListed)
  <2> SUFFICES ASSUME ~ ppLost PROVE Standing(ppBack'["panel"], ppListed)
    OBVIOUS
  <2>1. ppPanel # NoPp => Standing(ppBack["panel"], ppListed)
    BY DEF PanelInv
  <2>2. ppPanel = NoPp => Standing(ppBack["modal"], ppListed)
    BY <1>2 DEF PanelInv, PanelsQuiet
  <2> QED BY <1>6, <2>1, <2>2, StandingStays
<1>8. "allocation" \in PpPanel
  BY DEF PpPanel
<1> QED BY <1>1, <1>2, <1>3, <1>5, <1>7, <1>8 DEF PanelInv, PanelsQuiet

LEMMA EditWeightKeeps ==
  ASSUME PanelInv, NEW ticker \in PpTicker, EditWeight(ticker)
  PROVE  PanelInv'
<1>1. /\ PpAct /\ ppModal = NoPp /\ ppPanel = "allocation" /\ ticker \in ppListed
      /\ Commit(ppPanel, NoPp, ticker, ppListed, Of("percent", ticker))
      /\ ppFrame' = ticker /\ ppKey' = ppKey /\ ppLost' = ppLost
  BY PlacesAre DEF EditWeight, Seen
<1>2. PanelsQuiet /\ ppUsed' \in [acts : Nat, changes : Nat] /\ ppEscaped' = FALSE
  BY <1>1, ActIs
<1>3. ppPanel # NoPp /\ ticker # NoPp
  BY <1>1, PpNothing DEF PpPanel
<1>4. ppHears = Listening(ppPanel, ppModal)
  BY DEF PanelInv
<1>5. /\ ppPanel' = ppPanel /\ ppModal' = NoPp /\ ppEditing' = ticker /\ ppListed' = ppListed
      /\ ppHears' = Listening(ppPanel, NoPp)
      /\ Rendered(ppFocus', ppPanel, NoPp, ticker, ppListed)
      /\ ppBack'["panel"] = ppBack["panel"]
  BY <1>1, <1>4, CommitIs
<1> QED BY <1>1, <1>2, <1>3, <1>5 DEF PanelInv, PanelsQuiet

LEMMA FrameRunsKeeps == PanelInv /\ FrameRuns => PanelInv'
<1> SUFFICES ASSUME PanelInv, FrameRuns PROVE PanelInv'
  OBVIOUS
<1> DEFINE weight == Of("weight", ppFrame)
<1>1. /\ ppFrame # NoPp /\ ppFrame' = NoPp /\ ppModal = NoPp /\ ppKey = <<>> /\ ~ ppEscaped
      /\ ppFocus' = IF Rendered(weight, ppPanel, ppModal, ppEditing, ppListed) THEN weight ELSE ppFocus
      /\ UNCHANGED <<ppPanel, ppModal, ppEditing, ppBack, ppHears, ppKey, ppListed, ppLost,
                     ppEscaped, ppUsed>>
  BY DEF FrameRuns, PanelInv
<1>2. Rendered(ppFocus', ppPanel, ppModal, ppEditing, ppListed)
  BY <1>1 DEF PanelInv
<1>3. ~ ppLost => /\ ppFocus' = weight /\ ppEditing = ppFrame /\ ppPanel = "allocation"
  <2> SUFFICES ASSUME ~ ppLost PROVE ppFocus' = weight /\ ppEditing = ppFrame /\ ppPanel = "allocation"
    OBVIOUS
  <2>1. ppEditing = ppFrame /\ ppPanel = "allocation" /\ ppFrame \in ppListed
    BY <1>1 DEF PanelInv
  <2>2. Rendered(weight, ppPanel, ppModal, ppEditing, ppListed)
    BY <2>1, PlacesAre
  <2> QED BY <1>1, <2>1, <2>2
<1>4. "allocation" # NoPp
  BY PpNothing DEF PpPanel
<1> HIDE DEF weight
<1> QED BY <1>1, <1>2, <1>3, <1>4 DEF PanelInv, PanelsQuiet, weight

LEMMA EnterWeightKeeps == PanelInv /\ EnterWeight => PanelInv'
<1> SUFFICES ASSUME PanelInv, EnterWeight PROVE PanelInv'
  OBVIOUS
<1>1. /\ PpAct /\ ppFocus = Of("weight", ppEditing)
      /\ Commit(ppPanel, ppModal, NoPp, ppListed, At("body"))
      /\ ppFrame' = ppFrame /\ ppKey' = ppKey /\ ppLost' = ppLost
  BY DEF EnterWeight
<1>2. PanelsQuiet /\ ppUsed' \in [acts : Nat, changes : Nat] /\ ppEscaped' = FALSE
  BY <1>1, ActIs
<1>3. ppPanel = "allocation" /\ ppPanel # NoPp /\ ppModal = NoPp
  <2>1. ppPanel = "allocation"
    <3>1. Rendered(Of("weight", ppEditing), ppPanel, ppModal, ppEditing, ppListed)
      BY <1>1 DEF PanelInv
    <3> QED BY <3>1, WeightIsThere
  <2>2. ppModal # NoPp => ppFocus = At("modal")
    BY <1>2 DEF PanelInv, PanelsQuiet
  <2> QED BY <1>1, <2>1, <2>2, PlacesAre, PpNothing DEF PpPanel
<1>4. ppHears = Listening(ppPanel, ppModal)
  BY DEF PanelInv
<1>5. /\ ppPanel' = ppPanel /\ ppModal' = ppModal /\ ppEditing' = NoPp /\ ppListed' = ppListed
      /\ ppHears' = Listening(ppPanel, ppModal)
      /\ Rendered(ppFocus', ppPanel, ppModal, NoPp, ppListed)
      /\ ppBack'["panel"] = ppBack["panel"]
  BY <1>1, <1>3, <1>4, CommitIs
<1> QED BY <1>1, <1>2, <1>3, <1>5 DEF PanelInv, PanelsQuiet

LEMMA PressEscapeKeeps == PanelInv /\ PressEscape => PanelInv'
<1> SUFFICES ASSUME PanelInv, PressEscape PROVE PanelInv'
  OBVIOUS
<1> DEFINE edited == IF ppFocus = Of("weight", ppEditing) THEN NoPp ELSE ppEditing
           focus == IF edited = ppEditing THEN ppFocus ELSE At("body")
<1>1. /\ PanelsQuiet /\ ppHears # <<>> /\ ppKey' = ppHears /\ ppEscaped' = TRUE
      /\ Commit(ppPanel, ppModal, edited, ppListed, focus)
      /\ ppFrame' = ppFrame /\ ppLost' = ppLost /\ ppUsed' \in [acts : Nat, changes : Nat]
  BY DEF PressEscape, PanelsQuiet, PanelInv
<1>2. ~ ppLost => edited = NoPp
  BY <1>1 DEF PanelInv, PanelsQuiet
<1> HIDE DEF edited, focus
<1>4. ppHears = Listening(ppPanel, ppModal)
  BY DEF PanelInv
<1>5. /\ ppPanel' = ppPanel /\ ppModal' = ppModal /\ ppEditing' = edited /\ ppListed' = ppListed
      /\ ppHears' = Listening(ppPanel, ppModal)
      /\ Rendered(ppFocus', ppPanel, ppModal, edited, ppListed)
      /\ ppBack'["panel"] = ppBack["panel"] /\ ppBack'["modal"] = ppBack["modal"]
  BY <1>1, <1>4, CommitIs
<1>6. ppFrame' = NoPp /\ ppKey' # <<>> /\ ppKey' = ppHears' /\ ppEscaped'
  BY <1>1, <1>4, <1>5 DEF PanelsQuiet
<1>7. ppModal' # NoPp => ppBack'["modal"] # At("body")
  BY <1>5 DEF PanelInv
<1>8. ~ ppLost' =>
       /\ ppEditing' = NoPp
       /\ ppPanel' # NoPp => Standing(ppBack'["panel"], ppListed')
       /\ ppPanel' = NoPp /\ ppModal' # NoPp => Standing(ppBack'["modal"], ppListed')
  BY <1>1, <1>2, <1>5 DEF PanelInv, PanelsQuiet
<1>9. ppListed' \subseteq PpTicker /\ ppPanel' \in PpPanel \cup {NoPp} /\ ppEscaped' \in BOOLEAN
  BY <1>1, <1>5 DEF PanelInv
<1> QED BY <1>1, <1>5, <1>6, <1>7, <1>8, <1>9 DEF PanelInv, PanelsQuiet

\* The next listener closes what it is for: the panel first, then the modal over it.
LEMMA ListenerKeeps == PanelInv /\ ListenerRuns => PanelInv'
<1> SUFFICES ASSUME PanelInv, ListenerRuns PROVE PanelInv'
  OBVIOUS
<1> DEFINE heard == Head(ppKey)
           runs == \E i \in DOMAIN ppHears : ppHears[i] = heard
<1>1. /\ ppKey # <<>> /\ ppKey = ppHears /\ ppHears = Listening(ppPanel, ppModal) /\ ppFrame = NoPp
      /\ ppKey' = Tail(ppKey) /\ ppFrame' = ppFrame /\ ppLost' = ppLost
      /\ ppEscaped /\ ppEscaped' = ppEscaped /\ ppUsed' = ppUsed
      /\ Commit(IF runs /\ heard.of = "panel" THEN NoPp ELSE ppPanel,
                IF runs /\ heard.of = "modal" THEN NoPp ELSE ppModal, ppEditing, ppListed, ppFocus)
  BY DEF ListenerRuns, PanelInv
<1>2. OfPanel.of = "panel" /\ OfModal.of = "modal"
  BY DEF OfPanel, OfModal
<1>3. ~ ppLost => ppEditing = NoPp
  BY <1>1 DEF PanelInv
<1>4. CASE ppPanel # NoPp
  <2>1. heard = OfPanel /\ runs /\ ppKey' = Listening(NoPp, ppModal)
    <3>1. ppModal # NoPp => ppKey = <<OfPanel, OfModal>>
      BY <1>1, <1>4 DEF Listening
    <3>2. ppModal = NoPp => ppKey = <<OfPanel>>
      BY <1>1, <1>4 DEF Listening
    <3>3. CASE ppModal # NoPp
      <4>1. /\ Head(<<OfPanel, OfModal>>) = OfPanel /\ Tail(<<OfPanel, OfModal>>) = <<OfModal>>
            /\ 1 \in DOMAIN <<OfPanel, OfModal>> /\ <<OfPanel, OfModal>>[1] = OfPanel
        BY SMT
      <4> QED BY <1>1, <3>1, <3>3, <4>1 DEF Listening
    <3>4. CASE ppModal = NoPp
      <4>1. /\ Head(<<OfPanel>>) = OfPanel /\ Tail(<<OfPanel>>) = <<>>
            /\ 1 \in DOMAIN <<OfPanel>> /\ <<OfPanel>>[1] = OfPanel
        BY SMT
      <4> QED BY <1>1, <3>2, <3>4, <4>1 DEF Listening
    <3> QED BY <3>3, <3>4
  <2>2. Commit(NoPp, ppModal, ppEditing, ppListed, ppFocus)
    BY <1>1, <1>2, <2>1
  <2> HIDE DEF heard, runs
  <2>3. /\ ppPanel' = NoPp /\ ppModal' = ppModal /\ ppEditing' = ppEditing /\ ppListed' = ppListed
        /\ ppHears' = Listening(NoPp, ppModal)
        /\ Rendered(ppFocus', NoPp, ppModal, ppEditing, ppListed)
        /\ ppBack'["modal"] = ppBack["modal"]
    BY <1>1, <2>2, CommitIs
  <2>4. Rendered(ppBack["panel"], NoPp, ppModal, ppEditing, ppListed) => ppFocus' = ppBack["panel"]
    BY <1>1, <1>4, <2>2, CommitIs
  <2>5. ~ ppLost => Standing(ppFocus', ppListed) /\ ppFocus' # At("body")
    <3>1. ~ ppLost => Standing(ppBack["panel"], ppListed)
      BY <1>4 DEF PanelInv
    <3> QED BY <2>4, <3>1, StandingStays
  <2>6. ppModal # NoPp => ppKey' # <<>>
    <3>1. <<OfModal>> # <<>>
      OBVIOUS
    <3> QED BY <2>1, <3>1 DEF Listening
  <2>7. ppModal = NoPp => ppKey' = <<>>
    BY <2>1 DEF Listening
  <2> QED BY <1>1, <1>3, <2>1, <2>3, <2>5, <2>6, <2>7 DEF PanelInv, PanelsQuiet
<1>5. CASE ppPanel = NoPp
  <2>1. heard = OfModal /\ runs /\ ppKey' = <<>> /\ ppModal # NoPp
    <3>1. ppKey = <<OfModal>> /\ ppModal # NoPp
      BY <1>1, <1>5 DEF Listening
    <3>2. /\ Head(<<OfModal>>) = OfModal /\ Tail(<<OfModal>>) = <<>>
          /\ 1 \in DOMAIN <<OfModal>> /\ <<OfModal>>[1] = OfModal
      BY SMT
    <3> QED BY <1>1, <3>1, <3>2
  <2>2. Commit(NoPp, NoPp, ppEditing, ppListed, ppFocus)
    BY <1>1, <1>2, <1>5, <2>1
  <2> HIDE DEF heard, runs
  <2>3. /\ ppPanel' = NoPp /\ ppModal' = NoPp /\ ppEditing' = ppEditing /\ ppListed' = ppListed
        /\ ppHears' = Listening(NoPp, NoPp)
        /\ Rendered(ppFocus', NoPp, NoPp, ppEditing, ppListed)
    BY <1>1, <2>2, CommitIs
  <2>4. /\ Rendered(ppBack["modal"], NoPp, NoPp, ppEditing, ppListed) => ppFocus' = ppBack["modal"]
        /\ Rendered(ppFocus, NoPp, NoPp, ppEditing, ppListed) => ppFocus' \in {ppBack["modal"], ppFocus}
    BY <1>1, <1>5, <2>1, <2>2, CommitIs
  <2>5. ~ ppLost => ppFocus' # At("body")
    <3>1. ~ ppLost => Standing(ppBack["modal"], ppListed) \/ Standing(ppFocus, ppListed)
      BY <1>5, <2>1 DEF PanelInv
    <3>2. ppBack["modal"] # At("body")
      BY <2>1 DEF PanelInv
    <3> QED BY <2>4, <3>1, <3>2, StandingStays
  <2> QED BY <1>1, <1>3, <2>1, <2>3, <2>5 DEF PanelInv, PanelsQuiet
<1> QED BY <1>4, <1>5

LEMMA WatchlistKeeps ==
  ASSUME PanelInv, NEW ticker \in PpTicker, WatchlistChanges(ticker)
  PROVE  PanelInv'
<1> DEFINE listed == IF ticker \in ppListed THEN ppListed \ {ticker} ELSE ppListed \cup {ticker}
<1>1. /\ ppKey = <<>> /\ Commit(ppPanel, ppModal, ppEditing, listed, ppFocus)
      /\ ppLost' = (ppLost \/ ticker \in ppListed)
      /\ ppFrame' = ppFrame /\ ppKey' = ppKey /\ ppEscaped' = ppEscaped
  BY DEF WatchlistChanges
<1>2. ppUsed' \in [acts : Nat, changes : Nat] /\ ppUsed'.acts = ppUsed.acts
  BY DEF WatchlistChanges, PanelInv
<1>3. listed \subseteq PpTicker /\ (~ ppLost' => ~ ppLost /\ ppListed \subseteq listed)
  BY <1>1 DEF PanelInv
<1> HIDE DEF listed
<1>4. ppHears = Listening(ppPanel, ppModal)
  BY DEF PanelInv
<1>5. /\ ppPanel' = ppPanel /\ ppModal' = ppModal /\ ppEditing' = ppEditing /\ ppListed' = listed
      /\ ppHears' = Listening(ppPanel, ppModal)
      /\ Rendered(ppFocus', ppPanel, ppModal, ppEditing, listed)
      /\ ppBack'["panel"] = ppBack["panel"] /\ ppBack'["modal"] = ppBack["modal"]
      /\ Rendered(ppFocus, ppPanel, ppModal, ppEditing, listed) => ppFocus' = ppFocus
  BY <1>1, <1>4, CommitIs
<1>6. ppModal # NoPp => ppFocus' = At("modal") /\ ppBack'["modal"] # At("body")
  <2> SUFFICES ASSUME ppModal # NoPp PROVE ppFocus' = At("modal") /\ ppBack'["modal"] # At("body")
    OBVIOUS
  <2>1. ppFocus = At("modal") /\ ppBack["modal"] # At("body")
    BY <1>1 DEF PanelInv
  <2> QED BY <1>5, <2>1, PlacesAre
<1>7. ~ ppLost' => ppFocus' = ppFocus
  BY <1>3, <1>5, StandingStays DEF PanelInv
<1>8. ASSUME ~ ppLost', NEW place, Standing(place, ppListed) PROVE Standing(place, listed)
  BY <1>3, <1>8, StandingStays
<1>9. ~ ppLost' =>
       /\ ppModal # NoPp \/ ppKey # <<>> => ppEditing = NoPp
       /\ PanelsQuiet /\ ppModal = NoPp /\ ppEditing # NoPp => ppFocus' = Of("weight", ppEditing)
       /\ ppFrame # NoPp => ppEditing = ppFrame /\ ppPanel = "allocation" /\ ppFrame \in listed
       /\ ppPanel # NoPp => Standing(ppBack'["panel"], listed)
       /\ ppPanel = NoPp /\ ppModal # NoPp => Standing(ppBack'["modal"], listed)
       /\ PanelsQuiet /\ ppPanel = NoPp /\ ppModal = NoPp /\ ppUsed.acts > 0 => ppFocus' # At("body")
  BY <1>1, <1>3, <1>5, <1>7, <1>8 DEF PanelInv
<1>10. /\ ppFrame # NoPp => ppModal = NoPp /\ ~ ppEscaped
       /\ ppEscaped => ppPanel = NoPp /\ ppModal = NoPp
       /\ ppPanel \in PpPanel \cup {NoPp} /\ ppEscaped \in BOOLEAN
  BY <1>1 DEF PanelInv
<1>11. ~ ppLost' =>
       /\ ppModal' # NoPp \/ ppKey' # <<>> => ppEditing' = NoPp
       /\ PanelsQuiet' /\ ppModal' = NoPp /\ ppEditing' # NoPp => ppFocus' = Of("weight", ppEditing')
       /\ ppFrame' # NoPp => ppEditing' = ppFrame' /\ ppPanel' = "allocation" /\ ppFrame' \in ppListed'
       /\ ppPanel' # NoPp => Standing(ppBack'["panel"], ppListed')
       /\ ppPanel' = NoPp /\ ppModal' # NoPp => Standing(ppBack'["modal"], ppListed')
       /\ PanelsQuiet' /\ ppPanel' = NoPp /\ ppModal' = NoPp /\ ppUsed'.acts > 0 => ppFocus' # At("body")
  BY <1>1, <1>2, <1>5, <1>9 DEF PanelsQuiet
<1> QED BY <1>1, <1>2, <1>3, <1>5, <1>6, <1>10, <1>11 DEF PanelInv

LEMMA PanelsKept == PanelInv /\ [PpNext]_ppVars => PanelInv'
<1> SUFFICES ASSUME PanelInv, [PpNext]_ppVars PROVE PanelInv'
  OBVIOUS
<1>1. CASE AddToPortfolio
  <2> DEFINE ticker == IF ppModal.ticker \in ppListed THEN ppModal.ticker ELSE NoPp
  <2>1. /\ PpAct /\ ppModal # NoPp /\ RequestAllocationFocus(ticker, At("modal"))
        /\ ppKey' = ppKey /\ ppLost' = ppLost
    BY <1>1 DEF AddToPortfolio
  <2>2. ~ ppLost => Blurred(At("modal")) = NoPp
    BY <2>1, ActIs
  <2>3. ticker \in ppListed \cup {NoPp}
    OBVIOUS
  <2> HIDE DEF ticker
  <2> QED BY <2>1, <2>2, <2>3, AllocationKeeps
<1>2. CASE PressAdd
  <2>1. /\ PpAct /\ ppModal = NoPp /\ ppPanel = "holdings" /\ RequestAllocationFocus(NoPp, At("add"))
        /\ ppKey' = ppKey /\ ppLost' = ppLost
    BY <1>2, PlacesAre DEF PressAdd, Seen
  <2>2. ~ ppLost => Blurred(At("add")) = NoPp
    BY <2>1, ActIs DEF Blurred
  <2>3. ppPanel # NoPp
    BY <2>1, PpNothing DEF PpPanel
  <2> QED BY <2>1, <2>2, <2>3, AllocationKeeps
<1>3. CASE UNCHANGED ppVars
  BY <1>3 DEF ppVars, PanelInv, PanelsQuiet
<1> QED BY <1>1, <1>2, <1>3, PressRailKeeps, PressCloseKeeps, OpenCardKeeps, OpenHistoryKeeps,
           CloseModalKeeps, EditWeightKeeps, FrameRunsKeeps, EnterWeightKeeps, PressEscapeKeeps,
           ListenerKeeps, WatchlistKeeps DEF PpNext

\* Panels, modals and the keyboard (PortfolioShell, SidePanel, ModalShell, page.tsx): whatever is
\* opened, edited, closed and escaped from, and in whatever order effects, frames and listeners run,
\* the focus is in the modal that is open or the weight being edited, one Escape closes all there
\* is, and the focus comes back to the page, unless the stock it was on is gone.
THEOREM PanelsAlwaysHold == PpSpec => []PanelsHold
<1>1. PpSpec => []PanelInv
  BY PanelsInitially, PanelsKept, PTL DEF PpSpec
<1>2. PanelInv => PanelsHold
  BY DEF PanelInv, PanelsHold, PanelsQuiet
<1> QED BY <1>1, <1>2, PTL
=============================================================================
