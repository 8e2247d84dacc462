----------------------------- MODULE MergeLoop -----------------------------
(***************************************************************************)
(* merge_states as the code runs it: one pass over the input states, each  *)
(* folded into best_rows and best_removed (model.py, lines 104-122).  The  *)
(* peer files arrive in directory order, which differs from PC to PC, so   *)
(* the loop here takes the remaining states in any order.  A PC's result   *)
(* is published and read back by its peers, so the loop may run again over *)
(* what it returned together with any of its inputs.  The lemmas about     *)
(* merging any set of states come first, then what the loop returns.       *)
(***************************************************************************)
EXTENDS PeerMerge, Functions, TLAPS, WellFoundedInduction

CONSTANT MaxInputs     \* bound on the number of states merged at once

ASSUME MaxInputsAssumption == MaxInputs \in Nat \ {0}

VARIABLES inputs,       \* the states passed to merge_states
          todo,         \* the ones the loop has not reached
          best_rows, best_removed,
          result        \* the sequence of states returned so far, as a set

loopVars == <<inputs, todo, best_rows, best_removed, result>>

\* States a database or a peer file can hold: nothing in them is NULL.
Stamped(state) ==
  \A t \in Ticker : /\ state.rows[t] # NoRow => state.rows[t].ts # NullStamp
                    /\ state.removed[t] # NoTomb =>
                         state.removed[t].ts > BaselineStamp

InputState == {s \in State : Stamped(s)}

LoopInit ==
  /\ inputs \in {Range(f) : f \in [1..MaxInputs -> InputState]}
  /\ todo = inputs
  /\ best_rows = EmptyState.rows
  /\ best_removed = EmptyState.removed
  /\ result = {}

\* Defects: rows are compared by add_key, so an exact tie is decided by read
\* order; tombstones are compared by their stamp only.
FoldWith(s, RowLT(_, _), TombLT(_, _)) ==
  /\ s \in todo
  /\ todo' = todo \ {s}
  /\ best_rows' = [t \in Ticker |->
       IF s.rows[t] # NoRow
          /\ (best_rows[t] = NoRow \/ RowLT(best_rows[t], s.rows[t]))
       THEN s.rows[t] ELSE best_rows[t]]
  /\ best_removed' = [t \in Ticker |->
       IF s.removed[t] # NoTomb
          /\ (best_removed[t] = NoTomb \/ TombLT(best_removed[t], s.removed[t]))
       THEN s.removed[t] ELSE best_removed[t]]
  /\ UNCHANGED <<inputs, result>>

FoldByAddKey(s) == FoldWith(s, KeyLT, KeyLT)

\* One round of the outer loop: both inner loops over one state.
Fold(s) ==
  /\ s \in todo
  /\ todo' = todo \ {s}
  /\ best_rows' = [t \in Ticker |->
       IF /\ s.rows[t] # NoRow
          /\ best_rows[t] = NoRow \/ OrderLT(best_rows[t], s.rows[t])
       THEN s.rows[t] ELSE best_rows[t]]
  /\ best_removed' = [t \in Ticker |->
       IF /\ s.removed[t] # NoTomb
          /\ best_removed[t] = NoTomb \/ KeyLT(best_removed[t], s.removed[t])
       THEN s.removed[t] ELSE best_removed[t]]
  /\ UNCHANGED <<inputs, result>>

\* Defect: a tombstone that removes nothing is left out of the result.
FinishDropsTombs ==
  /\ todo = {} /\ result = {}
  /\ LET beaten(t) == Removes(best_removed[t], best_rows[t])
     IN  result' = {[rows    |-> [t \in Ticker |->
                                    IF beaten(t) THEN NoRow ELSE best_rows[t]],
                     removed |-> [t \in Ticker |->
                                    IF beaten(t) THEN best_removed[t] ELSE NoTomb]]}
  /\ UNCHANGED <<inputs, todo, best_rows, best_removed>>

\* The comprehension after the loop, and the return.
Finish ==
  /\ todo = {} /\ result = {}
  /\ result' = {[rows    |-> [t \in Ticker |->
                    IF Removes(best_removed[t], best_rows[t])
                    THEN NoRow ELSE best_rows[t]],
                 removed |-> best_removed]}
  /\ UNCHANGED <<inputs, todo, best_rows, best_removed>>

LoopDone == result # {} /\ UNCHANGED loopVars

LoopNext == (\E s \in todo : Fold(s)) \/ Finish \/ LoopDone

LoopSpec == LoopInit /\ [][LoopNext]_loopVars

-----------------------------------------------------------------------------
\* The loop returns the merge of the set of its inputs, in whatever order it
\* read them: two PCs that read the same files in different directory orders
\* agree (model.py order_key: "the choice never depends on read order").
OrderIndependent == result \subseteq {Merge(inputs)}

\* A result read back from a republished file changes nothing: merging it
\* again with any of the inputs that produced it returns it (model.py module
\* comment: the winner is stable "however files are republished").
RepublishStable ==
  \A m \in result : \A S \in SUBSET inputs : Merge(S \cup {m}) = m

\* Merging in stages is merging at once: a PC that learned some of the inputs
\* through another PC's file ends where a PC that read them all ends.
StagedMergeAgrees ==
  \A m \in result : \A S \in SUBSET inputs :
     S # {} => Merge({Merge(S)} \cup (inputs \ S)) = m
-----------------------------------------------------------------------------
(* What merging guarantees for every set of states, whatever the bounds.   *)

\* Every nonempty set of naturals below a bound has a largest member.
LEMMA LargestNatural ==
  ASSUME NEW N \in Nat, NEW S \in SUBSET (0..N), S # {}
  PROVE  \E m \in S : \A n \in S : n <= m
<1> DEFINE R == {pair \in Nat \X Nat : pair[1] < pair[2]}
           D == {N - n : n \in S}
<1>1. D \subseteq Nat
  <2> SUFFICES ASSUME NEW n \in S PROVE N - n \in Nat
    OBVIOUS
  <2>1. n \in 0..N
    OBVIOUS
  <2> QED BY <2>1
<1>2. D # {}
  <2>1. PICK n \in S : TRUE
    OBVIOUS
  <2>2. N - n \in D
    OBVIOUS
  <2> QED BY <2>2
<1>3. IsWellFoundedOn(R, Nat)
  BY NatLessThanWellFounded DEF OpToRel
<1>4. PICK d \in D : \A e \in D : <<e, d>> \notin R
  <2> HIDE DEF D, R
  <2> QED BY <1>1, <1>2, <1>3, WFMin
<1>5. PICK m \in S : d = N - m
  OBVIOUS
<1>6. \A n \in S : n <= m
  <2> TAKE n \in S
  <2>1. m \in 0..N /\ n \in 0..N
    OBVIOUS
  <2>2. N - n \in D /\ N - n \in Nat /\ d \in Nat
    BY <1>1
  <2>3. ~ (N - n < d)
    BY <1>4, <2>2
  <2> QED BY <1>5, <2>1, <2>3
<1> QED BY <1>6

-----------------------------------------------------------------------------
(* The newest element exists.  Python's tuple order is total, so picking    *)
(* the largest first component, then the largest second one among those,   *)
(* and so on ends at an element nothing exceeds.                           *)

LEMMA NewestTombExists ==
  ASSUME NEW S \in SUBSET Tomb, S # {}
  PROVE  /\ NewestTomb(S) \in S
         /\ \A o \in S : ~ KeyLT(NewestTomb(S), o)
<1>1. PICK ts \in {d.ts : d \in S} : \A n \in {d.ts : d \in S} : n <= ts
  <2> DEFINE T == {d.ts : d \in S}
  <2>1. T \in SUBSET (0..MaxStamp) /\ T # {}
    BY DEF Tomb, Stamp
  <2> HIDE DEF T
  <2>2. \E m \in T : \A n \in T : n <= m
    BY <2>1, LargestNatural, BoundsAssumption
  <2> QED BY <2>2 DEF T
<1> DEFINE S1 == {d \in S : d.ts = ts}
<1>2. PICK by \in {d.by : d \in S1} : \A n \in {d.by : d \in S1} : n <= by
  <2> DEFINE T == {d.by : d \in S1}
  <2>1. T \in SUBSET (0..MaxAuthor) /\ T # {}
    BY <1>1 DEF Tomb, Author
  <2> HIDE DEF T
  <2>2. \E m \in T : \A n \in T : n <= m
    BY <2>1, LargestNatural, BoundsAssumption
  <2> QED BY <2>2 DEF T
<1>3. PICK best \in S1 : best.by = by
  BY <1>2
<1>4. \A o \in S : ~ KeyLT(best, o)
  <2> TAKE o \in S
  <2>1. /\ o.ts \in Nat /\ o.by \in Nat /\ best.ts \in Nat /\ best.by \in Nat
    BY BoundsAssumption DEF Tomb, Stamp, Author
  <2>2. o.ts <= best.ts
    BY <1>1
  <2>3. o.ts = best.ts => o.by <= best.by
    BY <1>2, <1>3
  <2> QED BY <2>1, <2>2, <2>3 DEF KeyLT
<1> QED BY <1>4 DEF NewestTomb

LEMMA NewestRowExists ==
  ASSUME NEW S \in SUBSET Row, S # {}
  PROVE  /\ NewestRow(S) \in S
         /\ \A o \in S : ~ OrderLT(NewestRow(S), o)
<1>1. PICK ts \in {r.ts : r \in S} : \A n \in {r.ts : r \in S} : n <= ts
  <2> DEFINE T == {r.ts : r \in S}
  <2>1. T \in SUBSET (0..MaxStamp) /\ T # {}
    BY DEF Row, Stamp
  <2> HIDE DEF T
  <2>2. \E m \in T : \A n \in T : n <= m
    BY <2>1, LargestNatural, BoundsAssumption
  <2> QED BY <2>2 DEF T
<1> DEFINE S1 == {r \in S : r.ts = ts}
<1>2. PICK by \in {r.by : r \in S1} : \A n \in {r.by : r \in S1} : n <= by
  <2> DEFINE T == {r.by : r \in S1}
  <2>1. T \in SUBSET (0..MaxAuthor) /\ T # {}
    BY <1>1 DEF Row, Author
  <2> HIDE DEF T
  <2>2. \E m \in T : \A n \in T : n <= m
    BY <2>1, LargestNatural, BoundsAssumption
  <2> QED BY <2>2 DEF T
<1> DEFINE S2 == {r \in S1 : r.by = by}
<1>3. PICK meta \in {r.meta : r \in S2} : \A n \in {r.meta : r \in S2} : n <= meta
  <2> DEFINE T == {r.meta : r \in S2}
  <2>1. T \in SUBSET (0..MaxMeta) /\ T # {}
    BY <1>2 DEF Row
  <2> HIDE DEF T
  <2>2. \E m \in T : \A n \in T : n <= m
    BY <2>1, LargestNatural, BoundsAssumption
  <2> QED BY <2>2 DEF T
<1> DEFINE S3 == {r \in S2 : r.meta = meta}
<1>4. PICK theme \in {r.theme : r \in S3} : \A n \in {r.theme : r \in S3} : n <= theme
  <2> DEFINE T == {r.theme : r \in S3}
  <2>1. T \in SUBSET (0..MaxTheme) /\ T # {}
    BY <1>3 DEF Row
  <2> HIDE DEF T
  <2>2. \E m \in T : \A n \in T : n <= m
    BY <2>1, LargestNatural, BoundsAssumption
  <2> QED BY <2>2 DEF T
<1>5. PICK best \in S3 : best.theme = theme
  BY <1>4
<1>6. \A o \in S : ~ OrderLT(best, o)
  <2> TAKE o \in S
  <2>1. /\ o.ts \in Nat /\ o.by \in Nat /\ o.meta \in Nat /\ o.theme \in Nat
        /\ best.ts \in Nat /\ best.by \in Nat /\ best.meta \in Nat /\ best.theme \in Nat
    BY BoundsAssumption DEF Row, Stamp, Author
  <2>2. o.ts <= best.ts
    BY <1>1
  <2>3. o.ts = best.ts => o.by <= best.by
    BY <1>2
  <2>4. o.ts = best.ts /\ o.by = best.by => o.meta <= best.meta
    BY <1>3
  <2>5. o.ts = best.ts /\ o.by = best.by /\ o.meta = best.meta => o.theme <= best.theme
    BY <1>4, <1>5
  <2> QED BY <2>1, <2>2, <2>3, <2>4, <2>5 DEF OrderLT, KeyLT
<1> QED BY <1>6 DEF NewestRow

-----------------------------------------------------------------------------
(* What merge_states returns.                                              *)

LEMMA BestRowFacts ==
  ASSUME NEW states \in SUBSET State, NEW t \in Ticker
  PROVE  /\ BestRow(states, t) \in Row \cup {NoRow}
         /\ \A r \in RowsFor(states, t) :
              BestRow(states, t) \in Row /\ ~ KeyLT(BestRow(states, t), r)
<1>1. RowsFor(states, t) \in SUBSET Row
  BY DEF RowsFor, State
<1>2. CASE RowsFor(states, t) = {}
  BY <1>2 DEF BestRow
<1>3. CASE RowsFor(states, t) # {}
  <2>1. BestRow(states, t) = NewestRow(RowsFor(states, t))
    BY <1>3 DEF BestRow
  <2>2. /\ BestRow(states, t) \in RowsFor(states, t)
        /\ \A r \in RowsFor(states, t) : ~ OrderLT(BestRow(states, t), r)
    BY <1>1, <1>3, <2>1, NewestRowExists
  <2> QED BY <1>1, <2>2 DEF OrderLT
<1> QED BY <1>2, <1>3

LEMMA BestTombFacts ==
  ASSUME NEW states \in SUBSET State, NEW t \in Ticker
  PROVE  /\ BestTomb(states, t) \in Tomb \cup {NoTomb}
         /\ \A d \in TombsFor(states, t) :
              BestTomb(states, t) \in Tomb /\ ~ KeyLT(BestTomb(states, t), d)
<1>1. TombsFor(states, t) \in SUBSET Tomb
  BY DEF TombsFor, State
<1>2. CASE TombsFor(states, t) = {}
  BY <1>2 DEF BestTomb
<1>3. CASE TombsFor(states, t) # {}
  BY <1>1, <1>3, NewestTombExists DEF BestTomb
<1> QED BY <1>2, <1>3

\* merge_states returns a state.
THEOREM MergeType ==
  ASSUME NEW states \in SUBSET State
  PROVE  Merge(states) \in State
BY BestRowFacts, BestTombFacts DEF Merge, State

\* No row merge_states returns is beaten by a tombstone it returns.
THEOREM MergeSettled ==
  ASSUME NEW states
  PROVE  Settled(Merge(states))
BY DEF Settled, Merge, Removes

\* merge_states forgets nothing: for every ticker the result holds a change at
\* least as recent as any change any of the merged states holds.
THEOREM MergeKeepsNewest ==
  ASSUME NEW states \in SUBSET State, NEW s \in states, NEW t \in Ticker
  PROVE  NotOlder(s, Merge(states), t)
<1> DEFINE row == BestRow(states, t)
           tomb == BestTomb(states, t)
           m == Merge(states)
<1>1. /\ m.removed[t] = tomb
      /\ m.rows[t] = IF Removes(tomb, row) THEN NoRow ELSE row
  BY DEF Merge
<1>2. /\ row \in Row \cup {NoRow} /\ tomb \in Tomb \cup {NoTomb}
      /\ s.rows[t] \in Row \cup {NoRow} /\ s.removed[t] \in Tomb \cup {NoTomb}
  BY BestRowFacts, BestTombFacts DEF State
<1> SUFFICES ASSUME NEW k \in KeysOf(s, t)
             PROVE  \E j \in KeysOf(m, t) : ~ KeyLT(j, k)
  BY DEF NotOlder
<1>3. CASE s.rows[t] # NoRow /\ k = [ts |-> s.rows[t].ts, by |-> s.rows[t].by]
  <2>1. s.rows[t] \in RowsFor(states, t)
    BY <1>3 DEF RowsFor
  <2>2. row \in Row /\ ~ KeyLT(row, s.rows[t])
    BY <2>1, BestRowFacts
  <2>3. CASE Removes(tomb, row)
    <3>1. tomb \in Tomb /\ tomb \in KeysOf(m, t)
      BY <1>1, <1>2, <2>3 DEF Removes, KeysOf
    <3>2. ~ KeyLT(tomb, k)
      BY <1>2, <1>3, <2>2, <2>3, <3>1, BoundsAssumption
         DEF Removes, KeyLT, Row, Tomb, Stamp, Author
    <3> QED BY <3>1, <3>2
  <2>4. CASE ~ Removes(tomb, row)
    <3>1. m.rows[t] = row /\ row # NoRow
      BY <1>1, <2>2, <2>4, AbsenceAssumption
    <3>2. [ts |-> row.ts, by |-> row.by] \in KeysOf(m, t)
      BY <3>1 DEF KeysOf
    <3>3. ~ KeyLT([ts |-> row.ts, by |-> row.by], k)
      BY <1>3, <2>2 DEF KeyLT
    <3> QED BY <3>2, <3>3
  <2> QED BY <2>3, <2>4
<1>4. CASE s.removed[t] # NoTomb /\ k = s.removed[t]
  <2>1. s.removed[t] \in TombsFor(states, t)
    BY <1>4 DEF TombsFor
  <2>2. tomb \in Tomb /\ ~ KeyLT(tomb, k)
    BY <1>4, <2>1, BestTombFacts
  <2>3. tomb \in KeysOf(m, t)
    BY <1>1, <2>2, AbsenceAssumption DEF KeysOf
  <2> QED BY <2>2, <2>3
<1> QED BY <1>3, <1>4 DEF KeysOf
-----------------------------------------------------------------------------
(* Merging in stages.  The two orders are strict and total, so a set of     *)
(* keys has one newest member and it does not matter where it came from.   *)

LEMMA BestRowIs ==
  ASSUME NEW states \in SUBSET State, NEW t \in Ticker
  PROVE  /\ BestRow(states, t) = NoRow <=> RowsFor(states, t) = {}
         /\ RowsFor(states, t) # {} =>
              /\ BestRow(states, t) \in RowsFor(states, t)
              /\ \A o \in RowsFor(states, t) : ~ OrderLT(BestRow(states, t), o)
         /\ \A r \in RowsFor(states, t) :
              (\A o \in RowsFor(states, t) : ~ OrderLT(r, o)) => r = BestRow(states, t)
<1>1. RowsFor(states, t) \in SUBSET Row /\ NoRow \notin RowsFor(states, t)
  BY DEF RowsFor, State
<1>2. CASE RowsFor(states, t) = {}
  BY <1>2 DEF BestRow
<1>3. CASE RowsFor(states, t) # {}
  <2>1. /\ BestRow(states, t) \in RowsFor(states, t)
        /\ \A o \in RowsFor(states, t) : ~ OrderLT(BestRow(states, t), o)
    BY <1>1, <1>3, NewestRowExists DEF BestRow
  <2>2. ASSUME NEW a \in Row, NEW b \in Row, ~ OrderLT(a, b), ~ OrderLT(b, a)
        PROVE  a = b
    BY <2>2, BoundsAssumption DEF OrderLT, KeyLT, Row, Stamp, Author
  <2> QED BY <1>1, <1>3, <2>1, <2>2
<1> QED BY <1>2, <1>3

LEMMA BestTombIs ==
  ASSUME NEW states \in SUBSET State, NEW t \in Ticker
  PROVE  /\ BestTomb(states, t) = NoTomb <=> TombsFor(states, t) = {}
         /\ TombsFor(states, t) # {} =>
              /\ BestTomb(states, t) \in TombsFor(states, t)
              /\ \A o \in TombsFor(states, t) : ~ KeyLT(BestTomb(states, t), o)
         /\ \A d \in TombsFor(states, t) :
              (\A o \in TombsFor(states, t) : ~ KeyLT(d, o)) => d = BestTomb(states, t)
<1>1. TombsFor(states, t) \in SUBSET Tomb /\ NoTomb \notin TombsFor(states, t)
  BY DEF TombsFor, State
<1>2. CASE TombsFor(states, t) = {}
  BY <1>2 DEF BestTomb
<1>3. CASE TombsFor(states, t) # {}
  <2>1. /\ BestTomb(states, t) \in TombsFor(states, t)
        /\ \A o \in TombsFor(states, t) : ~ KeyLT(BestTomb(states, t), o)
    BY <1>1, <1>3, NewestTombExists DEF BestTomb
  <2>2. ASSUME NEW a \in Tomb, NEW b \in Tomb, ~ KeyLT(a, b), ~ KeyLT(b, a)
        PROVE  a = b
    BY <2>2, BoundsAssumption DEF KeyLT, Tomb, Stamp, Author
  <2> QED BY <1>1, <1>3, <2>1, <2>2
<1> QED BY <1>2, <1>3

LEMMA KeyOrder ==
  ASSUME NEW a \in Row \cup Tomb, NEW b \in Row \cup Tomb, NEW c \in Row \cup Tomb
  PROVE  /\ ~ KeyLT(b, a) /\ KeyLT(b, c) => KeyLT(a, c)
         /\ KeyLT(a, b) /\ ~ KeyLT(c, b) => KeyLT(a, c)
<1>1. \A x \in Row \cup Tomb : x.ts \in Nat /\ x.by \in Nat
  BY BoundsAssumption DEF Row, Tomb, Stamp, Author
<1> QED BY <1>1 DEF KeyLT

\* Merging the merge of some states with others is merging them all: it does
\* not matter through whose file a state reached a PC (model.py: the winner is
\* stable "however files are republished").
THEOREM MergeInStages ==
  ASSUME NEW A \in SUBSET State, NEW B \in SUBSET State
  PROVE  Merge({Merge(A)} \cup B) = Merge(A \cup B)
<1> DEFINE m == Merge(A)
           X == {m} \cup B
           U == A \cup B
<1>1. m \in State
  BY MergeType
<1>2. X \in SUBSET State /\ U \in SUBSET State
  BY <1>1
<1>3. ASSUME NEW t \in Ticker
      PROVE  /\ BestTomb(X, t) = BestTomb(U, t)
             /\ \/ BestRow(X, t) = BestRow(U, t)
                \/ /\ Removes(BestTomb(U, t), BestRow(U, t))
                   /\ Removes(BestTomb(U, t), BestRow(X, t)) \/ BestRow(X, t) = NoRow
  <2> DEFINE DA == BestTomb(A, t)
             RA == BestRow(A, t)
             D == BestTomb(U, t)
             R == BestRow(U, t)
  <2>1. /\ m.removed[t] = DA
        /\ m.rows[t] = IF Removes(DA, RA) THEN NoRow ELSE RA
    BY DEF Merge
  <2>2. /\ TombsFor(U, t) = TombsFor(A, t) \cup TombsFor(B, t)
        /\ TombsFor(X, t) = ({DA} \ {NoTomb}) \cup TombsFor(B, t)
        /\ RowsFor(U, t) = RowsFor(A, t) \cup RowsFor(B, t)
        /\ RowsFor(X, t) = ({m.rows[t]} \ {NoRow}) \cup RowsFor(B, t)
    <3> HIDE DEF m
    <3> QED BY <2>1 DEF TombsFor, RowsFor
  <2>3. /\ RowsFor(U, t) \in SUBSET Row /\ NoRow \notin RowsFor(U, t)
        /\ TombsFor(U, t) \in SUBSET Tomb /\ NoTomb \notin TombsFor(U, t)
    BY DEF RowsFor, TombsFor, State
  <2> HIDE DEF m, X, U, DA, RA, D, R
  <2>4. BestTomb(X, t) = D
    <3>1. CASE TombsFor(U, t) = {}
      <4>1. DA = NoTomb
        BY <2>2, <3>1, BestTombIs DEF DA
      <4> QED BY <1>2, <2>2, <3>1, <4>1, BestTombIs DEF D
    <3>2. CASE TombsFor(U, t) # {}
      <4>1. D \in TombsFor(U, t) /\ \A o \in TombsFor(U, t) : ~ KeyLT(D, o)
        BY <1>2, <3>2, BestTombIs DEF D
      <4>2. DA = NoTomb \/ DA \in TombsFor(A, t)
        BY BestTombIs DEF DA
      <4>3. D \in TombsFor(A, t) => D = DA
        BY <2>2, <4>1, BestTombIs DEF DA
      <4>4. D \in TombsFor(X, t) /\ \A o \in TombsFor(X, t) : ~ KeyLT(D, o)
        BY <2>2, <2>3, <4>1, <4>2, <4>3
      <4> QED BY <1>2, <4>4, BestTombIs
    <3> QED BY <3>1, <3>2
  <2>5. CASE ~ Removes(DA, RA)
    <3>1. CASE RowsFor(U, t) = {}
      <4>1. m.rows[t] = NoRow
        BY <2>1, <2>2, <2>5, <3>1, BestRowIs DEF RA
      <4> QED BY <1>2, <2>2, <2>4, <3>1, <4>1, BestRowIs DEF D
    <3>2. CASE RowsFor(U, t) # {}
      <4>1. R \in RowsFor(U, t) /\ \A o \in RowsFor(U, t) : ~ OrderLT(R, o)
        BY <1>2, <3>2, BestRowIs DEF R
      <4>2. RA = NoRow \/ RA \in RowsFor(A, t)
        BY BestRowIs DEF RA
      <4>3. R \in RowsFor(A, t) => R = RA
        BY <2>2, <4>1, BestRowIs DEF RA
      <4>4. R \in RowsFor(X, t) /\ \A o \in RowsFor(X, t) : ~ OrderLT(R, o)
        BY <2>1, <2>2, <2>3, <2>5, <4>1, <4>2, <4>3
      <4>5. BestRow(X, t) = R
        BY <1>2, <4>4, BestRowIs
      <4> QED BY <2>4, <4>5 DEF D, R
    <3> QED BY <3>1, <3>2
  <2>6. CASE Removes(DA, RA)
    <3>1. RowsFor(X, t) = RowsFor(B, t)
      BY <2>1, <2>2, <2>6
    <3>2. RA \in RowsFor(A, t) /\ DA \in TombsFor(A, t) /\ KeyLT(RA, DA)
      BY <2>6, BestRowIs, BestTombIs DEF Removes, RA, DA
    <3>3. R \in RowsFor(U, t) /\ \A o \in RowsFor(U, t) : ~ OrderLT(R, o)
      BY <1>2, <2>2, <3>2, BestRowIs DEF R
    <3>4. D \in TombsFor(U, t) /\ ~ KeyLT(D, DA)
      BY <1>2, <2>2, <3>2, BestTombIs DEF D
    <3>5. CASE R \in RowsFor(B, t)
      <4>1. R = BestRow(X, t)
        BY <1>2, <2>2, <3>1, <3>3, <3>5, BestRowIs
      <4> QED BY <2>4, <4>1 DEF D, R
    <3>6. CASE R \in RowsFor(A, t)
      <4>1. R = RA
        BY <2>2, <3>3, <3>6, BestRowIs DEF RA
      <4>2. KeyLT(R, D)
        BY <2>2, <2>3, <3>2, <3>3, <3>4, <4>1, KeyOrder
      <4>3. ASSUME BestRow(X, t) # NoRow PROVE KeyLT(BestRow(X, t), D)
        <5>1. BestRow(X, t) \in RowsFor(U, t)
          BY <1>2, <2>2, <3>1, <4>3, BestRowIs
        <5>2. ~ KeyLT(R, BestRow(X, t))
          BY <3>3, <5>1 DEF OrderLT
        <5> QED BY <2>3, <3>3, <3>4, <4>2, <5>1, <5>2, KeyOrder
      <4> QED BY <2>3, <2>4, <3>3, <3>4, <4>2, <4>3 DEF Removes, D, R
    <3> QED BY <2>2, <3>3, <3>5, <3>6
  <2> QED BY <2>4, <2>5, <2>6 DEF D, R
<1> HIDE DEF m, X, U
<1>4. Merge(X) = Merge(U)
  BY <1>3 DEF Merge
<1> QED BY <1>4 DEF m, X, U

-----------------------------------------------------------------------------
(* The loop.  At its head best_rows and best_removed hold the               *)
(* newest of what the loop has read, whichever states those are.           *)

LoopInv ==
  /\ inputs \in SUBSET State /\ todo \subseteq inputs
  /\ best_rows = [t \in Ticker |-> BestRow(inputs \ todo, t)]
  /\ best_removed = [t \in Ticker |-> BestTomb(inputs \ todo, t)]
  /\ result \subseteq {Merge(inputs)}

\* One more state: the newest is the old newest or what the state brings.
LEMMA BestRowWith ==
  ASSUME NEW D \in SUBSET State, NEW s \in State, NEW t \in Ticker
  PROVE  BestRow(D \cup {s}, t) =
           IF /\ s.rows[t] # NoRow
              /\ BestRow(D, t) = NoRow \/ OrderLT(BestRow(D, t), s.rows[t])
           THEN s.rows[t] ELSE BestRow(D, t)
<1> DEFINE W == D \cup {s}
           old == BestRow(D, t)
           new == s.rows[t]
<1>1. W \in SUBSET State
  OBVIOUS
<1>2. RowsFor(W, t) = RowsFor(D, t) \cup ({new} \ {NoRow})
  BY DEF RowsFor
<1>3. RowsFor(W, t) \in SUBSET Row /\ NoRow \notin RowsFor(W, t)
  BY DEF RowsFor, State
<1>4. \A a, b, c \in Row : /\ ~ OrderLT(a, a)
                           /\ OrderLT(a, b) /\ ~ OrderLT(a, c) => ~ OrderLT(b, c)
                           /\ OrderLT(a, b) => ~ OrderLT(b, a)
  BY BoundsAssumption DEF OrderLT, KeyLT, Row, Stamp, Author
<1> HIDE DEF W, old, new
<1>5. CASE new # NoRow /\ (old = NoRow \/ OrderLT(old, new))
  <2>1. new \in RowsFor(W, t)
    BY <1>2, <1>5
  <2>2. ASSUME NEW o \in RowsFor(W, t) PROVE ~ OrderLT(new, o)
    <3>1. CASE o = new
      BY <1>3, <1>4, <3>1
    <3>2. CASE o \in RowsFor(D, t)
      <4>1. old \in RowsFor(D, t) /\ ~ OrderLT(old, o)
        BY <3>2, BestRowIs DEF old
      <4> QED BY <1>2, <1>3, <1>4, <1>5, <2>1, <4>1
    <3> QED BY <1>2, <3>1, <3>2
  <2> QED BY <1>1, <1>5, <2>1, <2>2, BestRowIs DEF W, old, new
<1>6. CASE ~ (new # NoRow /\ (old = NoRow \/ OrderLT(old, new)))
  <2>1. CASE old = NoRow
    <3>1. RowsFor(W, t) = {}
      BY <1>2, <1>6, <2>1, BestRowIs DEF old
    <3> QED BY <1>1, <1>6, <2>1, <3>1, BestRowIs DEF W, old, new
  <2>2. CASE old # NoRow
    <3>1. old \in RowsFor(W, t) /\ \A o \in RowsFor(W, t) : ~ OrderLT(old, o)
      BY <1>2, <1>6, <2>2, BestRowIs DEF old
    <3> QED BY <1>1, <1>6, <3>1, BestRowIs DEF W, old, new
  <2> QED BY <2>1, <2>2
<1> QED BY <1>5, <1>6

LEMMA BestTombWith ==
  ASSUME NEW D \in SUBSET State, NEW s \in State, NEW t \in Ticker
  PROVE  BestTomb(D \cup {s}, t) =
           IF /\ s.removed[t] # NoTomb
              /\ BestTomb(D, t) = NoTomb \/ KeyLT(BestTomb(D, t), s.removed[t])
           THEN s.removed[t] ELSE BestTomb(D, t)
<1> DEFINE W == D \cup {s}
           old == BestTomb(D, t)
           new == s.removed[t]
<1>1. W \in SUBSET State
  OBVIOUS
<1>2. TombsFor(W, t) = TombsFor(D, t) \cup ({new} \ {NoTomb})
  BY DEF TombsFor
<1>3. TombsFor(W, t) \in SUBSET Tomb /\ NoTomb \notin TombsFor(W, t)
  BY DEF TombsFor, State
<1>4. \A a, b, c \in Tomb : /\ ~ KeyLT(a, a)
                            /\ KeyLT(a, b) /\ ~ KeyLT(a, c) => ~ KeyLT(b, c)
  BY BoundsAssumption DEF KeyLT, Tomb, Stamp, Author
<1> HIDE DEF W, old, new
<1>5. CASE new # NoTomb /\ (old = NoTomb \/ KeyLT(old, new))
  <2>1. new \in TombsFor(W, t)
    BY <1>2, <1>5
  <2>2. ASSUME NEW o \in TombsFor(W, t) PROVE ~ KeyLT(new, o)
    <3>1. CASE o = new
      BY <1>3, <1>4, <3>1
    <3>2. CASE o \in TombsFor(D, t)
      <4>1. old \in TombsFor(D, t) /\ ~ KeyLT(old, o)
        BY <3>2, BestTombIs DEF old
      <4> QED BY <1>2, <1>3, <1>4, <1>5, <2>1, <4>1
    <3> QED BY <1>2, <3>1, <3>2
  <2> QED BY <1>1, <1>5, <2>1, <2>2, BestTombIs DEF W, old, new
<1>6. CASE ~ (new # NoTomb /\ (old = NoTomb \/ KeyLT(old, new)))
  <2>1. CASE old = NoTomb
    <3>1. TombsFor(W, t) = {}
      BY <1>2, <1>6, <2>1, BestTombIs DEF old
    <3> QED BY <1>1, <1>6, <2>1, <3>1, BestTombIs DEF W, old, new
  <2>2. CASE old # NoTomb
    <3>1. old \in TombsFor(W, t) /\ \A o \in TombsFor(W, t) : ~ KeyLT(old, o)
      BY <1>2, <1>6, <2>2, BestTombIs DEF old
    <3> QED BY <1>1, <1>6, <3>1, BestTombIs DEF W, old, new
  <2> QED BY <2>1, <2>2
<1> QED BY <1>5, <1>6

LEMMA LoopStart == LoopInit => LoopInv
<1> SUFFICES ASSUME LoopInit PROVE LoopInv
  OBVIOUS
<1>1. inputs \in SUBSET State
  <2>1. PICK f \in [1..MaxInputs -> InputState] : inputs = Range(f)
    BY DEF LoopInit
  <2>2. InputState \subseteq State
    BY DEF InputState
  <2>3. \A i \in DOMAIN f : f[i] \in State
    BY <2>2
  <2> QED BY <2>1, <2>3 DEF Range
<1>2. inputs \ todo = {}
  BY DEF LoopInit
<1>3. \A t \in Ticker : BestRow({}, t) = NoRow /\ BestTomb({}, t) = NoTomb
  BY DEF BestRow, BestTomb, RowsFor, TombsFor
<1> QED BY <1>1, <1>2, <1>3 DEF LoopInit, LoopInv, EmptyState

LEMMA LoopRound == LoopInv /\ [LoopNext]_loopVars => LoopInv'
<1> SUFFICES ASSUME LoopInv, [LoopNext]_loopVars PROVE LoopInv'
  OBVIOUS
<1>1. ASSUME NEW s \in todo, Fold(s) PROVE LoopInv'
  <2> DEFINE D == inputs \ todo
  <2>1. s \in State /\ D \in SUBSET State
    BY DEF LoopInv
  <2>2. inputs' = inputs /\ todo' = todo \ {s} /\ result' = result
    BY <1>1 DEF Fold
  <2>3. inputs' \ todo' = D \cup {s}
    BY <2>2 DEF LoopInv
  <2> HIDE DEF D
  <2>4. \A t \in Ticker : best_rows[t] = BestRow(D, t) /\ best_removed[t] = BestTomb(D, t)
    BY DEF LoopInv, D
  <2>5. best_rows' = [t \in Ticker |-> BestRow(D \cup {s}, t)]
    BY <1>1, <2>1, <2>4, BestRowWith DEF Fold
  <2>6. best_removed' = [t \in Ticker |-> BestTomb(D \cup {s}, t)]
    BY <1>1, <2>1, <2>4, BestTombWith DEF Fold
  <2> QED BY <2>2, <2>3, <2>5, <2>6 DEF LoopInv
<1>2. CASE Finish
  <2>1. inputs \ todo = inputs
    BY <1>2 DEF Finish
  <2>2. result' = {Merge(inputs)}
    BY <1>2, <2>1 DEF Finish, LoopInv, Merge
  <2> QED BY <1>2, <2>2 DEF Finish, LoopInv
<1>3. CASE UNCHANGED loopVars
  BY <1>3 DEF loopVars, LoopInv
<1> QED BY <1>1, <1>2, <1>3 DEF LoopNext, LoopDone

\* merge_states returns the same for every order of its arguments, for any
\* number of them and any tickers, stamps, authors and contents.
THEOREM AnyOrder == LoopSpec => []OrderIndependent
<1>1. LoopInv => OrderIndependent
  BY DEF LoopInv, OrderIndependent
<1> QED BY <1>1, LoopStart, LoopRound, PTL DEF LoopSpec

\* Publishing a result and reading it back next to any of the states it was
\* made from changes nothing.
THEOREM AnyRepublication == LoopSpec => []RepublishStable
<1>1. LoopInv => RepublishStable
  <2> SUFFICES ASSUME LoopInv, NEW m \in result, NEW S \in SUBSET inputs
               PROVE  Merge(S \cup {m}) = m
    BY DEF RepublishStable
  <2>1. m = Merge(inputs) /\ inputs \in SUBSET State /\ S \in SUBSET State
    BY DEF LoopInv
  <2>2. Merge({Merge(inputs)} \cup S) = Merge(inputs \cup S)
    BY <2>1, MergeInStages
  <2>3. inputs \cup S = inputs /\ S \cup {m} = {m} \cup S
    OBVIOUS
  <2> QED BY <2>1, <2>2, <2>3
<1> QED BY <1>1, LoopStart, LoopRound, PTL DEF LoopSpec

\* A PC that learned some of the states through another PC's file ends where
\* one that read them all ends.
THEOREM AnyStages == LoopSpec => []StagedMergeAgrees
<1>1. LoopInv => StagedMergeAgrees
  <2> SUFFICES ASSUME LoopInv, NEW m \in result, NEW S \in SUBSET inputs
               PROVE  Merge({Merge(S)} \cup (inputs \ S)) = m
    BY DEF StagedMergeAgrees
  <2>1. m = Merge(inputs) /\ S \in SUBSET State /\ inputs \ S \in SUBSET State
    BY DEF LoopInv
  <2>2. S \cup (inputs \ S) = inputs
    OBVIOUS
  <2> QED BY <2>1, <2>2, MergeInStages
<1> QED BY <1>1, LoopStart, LoopRound, PTL DEF LoopSpec
=============================================================================
