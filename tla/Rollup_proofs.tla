---------------------------- MODULE Rollup_proofs ---------------------------
(***************************************************************************)
(* For every width of a bucket, every retention and every bound: until the *)
(* clock is set back, the rollup answers what the raw rows would have      *)
(* answered, and what is folded is final.                                  *)
(***************************************************************************)
EXTENDS Rollup, FiniteSetTheorems, TLAPS

USE RollupAssumption DEF Time

-----------------------------------------------------------------------------
(* The floor of a time is a multiple of the width, the greatest up to it.  *)
LEMMA FloorBounds ==
  ASSUME NEW t \in Nat, NEW w \in Nat \ {0}
  PROVE  /\ t \div w \in Nat
         /\ Floor(t, w) \in Nat
         /\ Floor(t, w) <= t /\ t < Floor(t, w) + w
<1>1. t \div w \in Nat
  BY SMT
<1>2. t = w * (t \div w) + (t % w) /\ t % w \in 0..w - 1
  BY SMT
<1> QED
  BY <1>1, <1>2, SMT DEF Floor

(* It is the only multiple within a width.                                  *)
LEMMA FloorUnique ==
  ASSUME NEW t \in Nat, NEW w \in Nat \ {0}, NEW k \in Nat,
         k * w <= t, t < k * w + w
  PROVE  Floor(t, w) = k * w
<1> DEFINE q == t \div w
<1>1. q \in Nat /\ q * w <= t /\ t < q * w + w
  BY FloorBounds DEF Floor
<1>2. ~(q < k)
  <2> SUFFICES ASSUME q < k PROVE FALSE
    OBVIOUS
  <2>1. (q + 1) * w <= k * w
    BY <1>1, SMT
  <2> QED
    BY <1>1, <2>1, SMT
<1>3. ~(k < q)
  BY <1>1, SMT
<1> QED
  BY <1>1, <1>2, <1>3, SMT DEF Floor

(* A multiple of the width lies at or below a time when it does so for the *)
(* bucket of that time.                                                    *)
LEMMA FloorSplits ==
  ASSUME NEW t \in Nat, NEW w \in Nat \ {0}, NEW k \in Nat
  PROVE  k * w <= t <=> k * w <= Floor(t, w)
<1> DEFINE q == t \div w
<1>1. q \in Nat /\ Floor(t, w) = q * w /\ q * w <= t /\ t < q * w + w
  BY FloorBounds DEF Floor
<1>2. ASSUME k * w <= t PROVE k <= q
  <2> SUFFICES ASSUME q < k PROVE FALSE
    BY <1>1
  <2>1. (q + 1) * w <= k * w
    BY <1>1, SMT
  <2> QED
    BY <1>1, <1>2, <2>1, SMT
<1> QED
  BY <1>1, <1>2, SMT

(* The boundary of a bucket separates the times before it from the others. *)
LEMMA GridSplits ==
  ASSUME NEW t \in Time, NEW b \in Grid
  PROVE  /\ Floor(t, Width) \in Grid
         /\ b <= t <=> b <= Floor(t, Width)
<1>1. PICK k \in Nat : b = k * Width
  <2>1. b \in Nat /\ Floor(b, Width) = b
    BY DEF Grid
  <2>2. b \div Width \in Nat
    BY <2>1, FloorBounds
  <2>3. b = (b \div Width) * Width
    BY <2>1 DEF Floor
  <2> QED
    BY <2>2, <2>3
<1>2. b <= t <=> b <= Floor(t, Width)
  <2>1. k * Width <= t <=> k * Width <= Floor(t, Width)
    BY FloorSplits
  <2> QED
    BY <1>1, <2>1
<1>3. Floor(t, Width) \in Time
  BY FloorBounds, SMT
<1>4. Floor(Floor(t, Width), Width) = Floor(t, Width)
  <2>1. t \div Width \in Nat /\ Floor(t, Width) = (t \div Width) * Width
    BY FloorBounds DEF Floor
  <2> QED
    BY <2>1, FloorUnique, <1>3, SMT
<1> QED
  BY <1>2, <1>3, <1>4 DEF Grid

(* Buckets of a width that the rollup serves are made of whole buckets of  *)
(* the rollup (rollup.rs:208-217).                                         *)
LEMMA ServedBucketsAreWhole ==
  ASSUME NEW t \in Nat, NEW w \in Nat \ {0}, Serves(w)
  PROVE  Floor(Floor(t, Width), w) = Floor(t, w)
<1> DEFINE m == w \div Width
           q == t \div w
           f == Floor(t, Width)
<1>1. m \in Nat /\ w = m * Width
  BY SMT DEF Serves
<1>2. q \in Nat /\ q * w <= t /\ t < q * w + w
  BY FloorBounds DEF Floor
<1>3. f \in Nat /\ f <= t
  BY FloorBounds
<1>4. q * m \in Nat /\ (q * m) * Width = q * w
  BY <1>1, <1>2, SMT
<1>5. q * w <= f
  BY <1>2, <1>4, FloorSplits
<1>6. Floor(f, w) = q * w
  BY <1>2, <1>3, <1>5, FloorUnique, SMT
<1> QED
  BY <1>6 DEF Floor
-----------------------------------------------------------------------------
(* What is stored is well typed (rollup.rs:84-97, 202-205).                *)
LEMMA ZeroOnGrid == 0 \in Grid
  BY FloorUnique, SMT DEF Grid, Floor

(* The cutoff of a prune is a time.                                        *)
LEMMA CutoffIsTime == TypeOK => Cutoff \in Time
  BY SMT DEF TypeOK, Cutoff

(* The bucket that is still open is one of the rollup.                     *)
LEMMA CurrentBucketOnGrid == TypeOK => CurrentBucket \in Grid
  BY GridSplits, ZeroOnGrid DEF TypeOK, CurrentBucket

(* Every step keeps the types.                                             *)
LEMMA TypeStep == TypeOK /\ [Next]_vars => TypeOK'
<1> SUFFICES ASSUME TypeOK, [Next]_vars PROVE TypeOK'
  OBVIOUS
<1> USE DEF TypeOK, Fault, Fine
<1>1. ASSUME NEW t \in Time, Store(t) PROVE TypeOK'
  <2>1. faults' \in 0..MaxFaults
    BY <1>1 DEF Store
  <2>5. steppedBack' = steppedBack \/ steppedBack' = TRUE
    BY <1>1 DEF Store
  <2>2. raw' \subseteq Time /\ now' \in Time
    BY <1>1 DEF Store
  <2>3. pc' \in {"recv", "fold", "mark", "pruneRaw", "pruneRollup"}
    BY <1>1 DEF Store
  <2>4. UNCHANGED <<rolled, through, reader, cutoff>>
    BY <1>1 DEF Store
  <2> QED
    BY <2>1, <2>2, <2>3, <2>4, <2>5
<1>2. CASE Fold
  <2>1. ASSUME NEW b \in Grid PROVE InBucket(b, raw) \in SUBSET Time
    BY DEF InBucket
  <2>2. rolled' \in [Grid -> SUBSET Time]
    BY <1>2, <2>1 DEF Fold
  <2> QED
    BY <1>2, <2>2, SMT DEF Fold
<1>3. CASE Mark
  BY <1>3, CurrentBucketOnGrid, SMT DEF Mark
<1>4. CASE PruneRaw
  <2>1. faults' \in 0..MaxFaults
    BY <1>4 DEF PruneRaw
  <2>2. raw' \subseteq Time /\ cutoff' \in Time
    BY <1>4, CutoffIsTime DEF PruneRaw
  <2>3. pc' \in {"recv", "fold", "mark", "pruneRaw", "pruneRollup"}
    BY <1>4 DEF PruneRaw
  <2>4. UNCHANGED <<rolled, through, now, reader, steppedBack>>
    BY <1>4 DEF PruneRaw
  <2> QED
    BY <2>1, <2>2, <2>3, <2>4
<1>5. CASE PruneRollup
  <2>1. rolled' \in [Grid -> SUBSET Time]
    BY <1>5 DEF PruneRollup
  <2> QED
    BY <1>5, <2>1, SMT DEF PruneRollup
<1>6. CASE Crash
  BY <1>6, SMT DEF Crash
<1>7. CASE BeginQuery
  BY <1>7 DEF BeginQuery
<1>8. CASE EndQuery
  BY <1>8 DEF EndQuery
<1>9. CASE UNCHANGED vars
  BY <1>9 DEF vars
<1> QED
  BY <1>1, <1>2, <1>3, <1>4, <1>5, <1>6, <1>7, <1>8, <1>9 DEF Next

(* What the task keeps, and where it and a reader are, is always well      *)
(* typed, whatever the width of a bucket (rollup.rs:221-312).              *)
THEOREM TypeCorrect == Spec => []TypeOK
<1>1. Init => TypeOK
  <2>1. 0 \in Time /\ 0 \in 0..MaxFaults
    OBVIOUS
  <2> QED
    BY <2>1, ZeroOnGrid DEF Init, TypeOK
<1> QED
  BY <1>1, TypeStep, PTL DEF Spec

-----------------------------------------------------------------------------
(* What the answers rest on, until the clock is set back: rows are never   *)
(* ahead of the task, and a bucket below the boundary that nothing was     *)
(* deleted from holds the rows that are in it.                             *)
RowsArePast == \A t \in raw : t <= now

FoldedUpTo(bound) ==
  \A b \in Grid : b >= cutoff /\ b < bound => rolled[b] = InBucket(b, raw)

FoldedFromRows == \A b \in Grid : b >= cutoff => rolled[b] \subseteq InBucket(b, raw)

Forward ==
  ~steppedBack =>
    /\ RowsArePast
    /\ through <= now
    /\ reader # NoReader => reader <= through
    /\ pc = "pruneRollup" => Cutoff <= cutoff
    /\ pc = "mark" => through <= CurrentBucket /\ FoldedUpTo(CurrentBucket)
    /\ FoldedUpTo(through)
    /\ FoldedFromRows

RollupInv == TypeOK /\ Forward

(* Where buckets begin decides which rows are in them.                     *)
LEMMA InBucketIsAbove ==
  ASSUME NEW rows \in SUBSET Time, NEW b \in Grid, NEW t \in InBucket(b, rows)
  PROVE  t \in rows /\ t \in Time /\ b <= t
<1>1. t \in rows /\ t \in Time /\ Floor(t, Width) = b
  BY DEF InBucket
<1> QED
  BY <1>1, FloorBounds

(* A row is not ahead of the task and falls into the open bucket or a     *)
(* later one, so what is folded is not touched.                            *)
LEMMA StoreStep ==
  ASSUME RollupInv, NEW t \in Time, Store(t), ~steppedBack' PROVE Forward'
<1> USE DEF RollupInv, Forward
<1>1. ~steppedBack /\ t >= now /\ now' = t
  BY DEF Store, TypeOK
<1>2. UNCHANGED <<rolled, through, reader, cutoff>> /\ pc' \in {"recv", "fold"}
  BY DEF Store
<1>3. raw' = raw \cup {t} \/ raw' = raw
  BY DEF Store
<1>4. now \in Nat /\ t \in Nat /\ through \in Nat /\ raw \subseteq Nat
  BY DEF TypeOK, Grid
<1>5. through <= now' /\ RowsArePast'
  <2>1. through <= now'
    BY <1>1, <1>4
  <2>2. ASSUME NEW u \in raw' PROVE u <= now'
    <3>1. CASE u = t
      BY <1>1, <1>4, <3>1
    <3>2. CASE u \in raw
      <4>1. u \in Nat /\ u <= now
        BY <1>1, <1>4, <3>2 DEF RowsArePast
      <4> QED
        BY <1>1, <1>4, <4>1
    <3> QED
      BY <1>3, <2>2, <3>1, <3>2
  <2> QED
    BY <2>1, <2>2 DEF RowsArePast
<1>6. through <= Floor(t, Width)
  BY <1>1, <1>4, GridSplits DEF TypeOK
<1>7. ASSUME NEW b \in Grid, b < through PROVE InBucket(b, raw)' = InBucket(b, raw)
  <2>1. Floor(t, Width) # b
    BY <1>6, <1>7, FloorBounds, SMT DEF Grid, TypeOK
  <2> QED
    BY <1>3, <2>1 DEF InBucket
<1>8. FoldedUpTo(through)'
  BY <1>1, <1>2, <1>7 DEF FoldedUpTo
<1>9. FoldedFromRows'
  BY <1>1, <1>2, <1>3 DEF FoldedFromRows, InBucket
<1> QED
  BY <1>1, <1>2, <1>5, <1>8, <1>9

(* A fold writes the closed buckets as what their rows are, and only at or *)
(* above the boundary.                                                     *)
LEMMA FoldStep == ASSUME RollupInv, Fold, ~steppedBack' PROVE Forward'
<1> USE DEF RollupInv, Forward
<1>1. ~steppedBack
  BY DEF Fold
<1>2. UNCHANGED <<raw, through, now, reader, cutoff>>
  BY DEF Fold
<1>3. RowsArePast' /\ through' <= now' /\ (reader' # NoReader => reader' <= through')
  BY <1>1, <1>2 DEF RowsArePast
<1>4. CASE rolled' = rolled /\ pc' = "pruneRaw"
  BY <1>1, <1>2, <1>3, <1>4 DEF FoldedUpTo, FoldedFromRows, InBucket
<1>5. CASE /\ CurrentBucket > through /\ pc' = "mark"
           /\ rolled' = [b \in Grid |->
                IF b >= through /\ b < CurrentBucket /\ InBucket(b, raw) # {}
                THEN InBucket(b, raw) ELSE rolled[b]]
  <2>1. CurrentBucket \in Grid /\ through \in Grid /\ cutoff \in Nat
    BY CurrentBucketOnGrid DEF TypeOK
  <2>2. ASSUME NEW b \in Grid, b >= cutoff PROVE rolled'[b] \subseteq InBucket(b, raw)
    BY <1>1, <1>5, <2>2 DEF FoldedFromRows
  <2>3. ASSUME NEW b \in Grid, b >= cutoff, b < CurrentBucket
        PROVE  rolled'[b] = InBucket(b, raw)
    <3>1. CASE b < through
      <4>1. rolled[b] = InBucket(b, raw)
        BY <1>1, <2>3, <3>1 DEF FoldedUpTo
      <4> QED
        BY <1>5, <4>1
    <3>2. CASE b >= through
      BY <1>5, <2>2, <2>3, <3>2
    <3> QED
      BY <2>1, <3>1, <3>2, SMT DEF Grid
  <2>4. CurrentBucket' = CurrentBucket /\ \A b \in Grid : InBucket(b, raw)' = InBucket(b, raw)
    BY <1>2 DEF CurrentBucket, InBucket
  <2>5. FoldedUpTo(CurrentBucket)' /\ FoldedFromRows'
    BY <1>2, <2>2, <2>3, <2>4 DEF FoldedUpTo, FoldedFromRows
  <2>6. through' <= CurrentBucket'
    BY <1>2, <1>5, <2>1, <2>4, SMT DEF Grid
  <2>7. FoldedUpTo(through)'
    <3>1. ASSUME NEW b \in Grid, b < through PROVE b < CurrentBucket
      BY <1>5, <2>1, <3>1, SMT DEF Grid
    <3> QED
      BY <1>2, <2>3, <2>4, <3>1 DEF FoldedUpTo
  <2> QED
    BY <1>3, <1>5, <2>5, <2>6, <2>7
<1> QED
  BY <1>4, <1>5 DEF Fold

(* The boundary moves over buckets that were just folded.                  *)
LEMMA MarkStep == ASSUME RollupInv, Mark, ~steppedBack' PROVE Forward'
<1> USE DEF RollupInv, Forward
<1>1. ~steppedBack /\ pc = "mark" /\ pc' = "pruneRaw"
  BY DEF Mark
<1>2. UNCHANGED <<raw, rolled, now, reader, cutoff>>
  BY DEF Mark
<1>3. through' = CurrentBucket \/ through' = through
  BY DEF Mark
<1>4. CurrentBucket <= now /\ through <= CurrentBucket
  BY <1>1, FloorBounds DEF TypeOK, CurrentBucket
<1>5. now \in Nat /\ through \in Nat /\ CurrentBucket \in Nat
      /\ (reader # NoReader => reader \in Nat)
  BY CurrentBucketOnGrid DEF TypeOK, Grid
<1>6. through' <= now' /\ (reader' # NoReader => reader' <= through')
  BY <1>1, <1>2, <1>3, <1>4, <1>5
<1>7. \A b \in Grid : InBucket(b, raw)' = InBucket(b, raw)
  BY <1>2 DEF InBucket
<1>8. FoldedUpTo(through)'
  <2>1. FoldedUpTo(through) /\ FoldedUpTo(CurrentBucket)
    BY <1>1
  <2> QED
    BY <1>2, <1>3, <1>7, <2>1 DEF FoldedUpTo
<1>9. FoldedFromRows' /\ RowsArePast'
  BY <1>1, <1>2, <1>7 DEF FoldedFromRows, RowsArePast
<1> QED
  BY <1>1, <1>6, <1>8, <1>9

(* Rows that go leave their buckets behind, below the cutoff.              *)
LEMMA PruneRawStep == ASSUME RollupInv, PruneRaw, ~steppedBack' PROVE Forward'
<1> USE DEF RollupInv, Forward
<1>1. ~steppedBack /\ pc' = "pruneRollup"
  BY DEF PruneRaw
<1>2. UNCHANGED <<rolled, through, now, reader>>
  BY DEF PruneRaw
<1>3. raw' \subseteq raw /\ \A t \in raw : t >= Cutoff => t \in raw'
  BY DEF PruneRaw
<1>4. Cutoff \in Nat /\ cutoff \in Nat /\ cutoff' = IF Cutoff > cutoff THEN Cutoff ELSE cutoff
  BY CutoffIsTime DEF TypeOK, PruneRaw
<1>5. Cutoff' = Cutoff
  BY <1>2 DEF Cutoff
<1>6. Cutoff' <= cutoff' /\ cutoff <= cutoff' /\ cutoff' \in Nat
  BY <1>4, <1>5
<1>7. ASSUME NEW b \in Grid, b >= cutoff'
      PROVE  b >= cutoff /\ InBucket(b, raw)' = InBucket(b, raw)
  <2>1. b \in Nat /\ b >= cutoff /\ b >= Cutoff
    BY <1>4, <1>5, <1>6, <1>7 DEF Grid
  <2>2. ASSUME NEW t \in InBucket(b, raw) PROVE t \in raw'
    <3>1. t \in raw /\ t \in Nat /\ b <= t
      BY InBucketIsAbove DEF TypeOK
    <3> QED
      BY <1>3, <1>4, <2>1, <3>1
  <2> QED
    BY <1>3, <2>1, <2>2 DEF InBucket
<1>8. FoldedUpTo(through)' /\ FoldedFromRows'
  BY <1>1, <1>2, <1>7 DEF FoldedUpTo, FoldedFromRows
<1>9. RowsArePast'
  BY <1>1, <1>2, <1>3 DEF RowsArePast
<1> QED
  BY <1>1, <1>2, <1>6, <1>8, <1>9

(* Buckets that go have no row left.                                       *)
LEMMA PruneRollupStep == ASSUME RollupInv, PruneRollup, ~steppedBack' PROVE Forward'
<1> USE DEF RollupInv, Forward
<1>1. ~steppedBack /\ pc = "pruneRollup" /\ pc' = "recv"
  BY DEF PruneRollup
<1>2. UNCHANGED <<raw, through, now, reader, cutoff>>
  BY DEF PruneRollup
<1>3. Cutoff \in Nat /\ cutoff \in Nat /\ Cutoff <= cutoff
  BY <1>1, CutoffIsTime DEF TypeOK
<1>4. ASSUME NEW b \in Grid, b >= cutoff PROVE rolled'[b] = rolled[b]
  <2>1. ~(b < Cutoff)
    BY <1>3, <1>4 DEF Grid
  <2> QED
    BY <2>1 DEF PruneRollup
<1>5. FoldedUpTo(through)' /\ FoldedFromRows' /\ RowsArePast'
  BY <1>1, <1>2, <1>4 DEF FoldedUpTo, FoldedFromRows, RowsArePast, InBucket
<1> QED
  BY <1>1, <1>2, <1>5

(* A crash, and the two ends of a query, touch neither table.              *)
LEMMA OtherSteps ==
  ASSUME RollupInv, Crash \/ BeginQuery \/ EndQuery \/ UNCHANGED vars, ~steppedBack'
  PROVE  Forward'
<1> USE DEF RollupInv, Forward
<1>1. UNCHANGED <<raw, rolled, through, now, cutoff, steppedBack>>
  BY DEF Crash, BeginQuery, EndQuery, vars
<1>2. pc' = pc \/ pc' = "recv"
  BY DEF Crash, BeginQuery, EndQuery, vars
<1>3. reader' \in {reader, through, NoReader}
  BY DEF Crash, BeginQuery, EndQuery, vars
<1>4. RowsArePast' /\ FoldedUpTo(through)' /\ FoldedFromRows'
  BY <1>1 DEF RowsArePast, FoldedUpTo, FoldedFromRows, InBucket
<1>5. Cutoff' = Cutoff /\ CurrentBucket' = CurrentBucket
      /\ (FoldedUpTo(CurrentBucket) => FoldedUpTo(CurrentBucket)')
  BY <1>1 DEF Cutoff, CurrentBucket, FoldedUpTo, InBucket
<1>6. reader' # NoReader => reader' <= through'
  <2>1. through <= through
    BY DEF TypeOK, Grid
  <2> QED
    BY <1>1, <1>3, <2>1
<1> QED
  BY <1>1, <1>2, <1>4, <1>5, <1>6

(* Every step keeps the invariant: once the clock was set back it says     *)
(* nothing more.                                                           *)
LEMMA ForwardStep == RollupInv /\ [Next]_vars => RollupInv'
<1> SUFFICES ASSUME RollupInv, [Next]_vars PROVE RollupInv'
  OBVIOUS
<1>1. TypeOK'
  BY TypeStep DEF RollupInv
<1>2. CASE steppedBack'
  BY <1>1, <1>2 DEF RollupInv, Forward
<1>3. CASE ~steppedBack'
  <2>1. (\E t \in Time : Store(t)) \/ Fold \/ Mark \/ PruneRaw \/ PruneRollup
        \/ (Crash \/ BeginQuery \/ EndQuery \/ UNCHANGED vars)
    BY DEF Next
  <2>2. Forward'
    BY <1>3, <2>1, StoreStep, FoldStep, MarkStep, PruneRawStep, PruneRollupStep, OtherSteps
  <2> QED
    BY <1>1, <2>2 DEF RollupInv
<1> QED
  BY <1>2, <1>3

(* So the invariant always holds.                                          *)
LEMMA Inductive == Spec => []RollupInv
<1>1. Init => RollupInv
  <2>1. ASSUME Init PROVE TypeOK
    <3>1. 0 \in Time /\ 0 \in 0..MaxFaults
      OBVIOUS
    <3> QED
      BY <2>1, <3>1, ZeroOnGrid DEF Init, TypeOK
  <2>2. ASSUME Init PROVE Forward
    BY <2>2 DEF Init, Forward, RowsArePast, FoldedUpTo, FoldedFromRows, InBucket
  <2> QED
    BY <2>1, <2>2 DEF RollupInv
<1> QED
  BY <1>1, ForwardStep, PTL DEF Spec

-----------------------------------------------------------------------------
(* Two disjoint parts of a set of rows count as many as the whole.         *)
LEMMA PartsAddUp ==
  ASSUME NEW rows \in SUBSET Time, NEW a, NEW b,
         rows = a \cup b, a \cap b = {}
  PROVE  Cardinality(a) + Cardinality(b) = Cardinality(rows)
<1>1. IsFiniteSet(Time)
  BY FS_Interval
<1>2. IsFiniteSet(a) /\ IsFiniteSet(b)
  <2>1. a \in SUBSET Time /\ b \in SUBSET Time
    OBVIOUS
  <2> QED
    BY <1>1, <2>1, FS_Subset
<1>3. Cardinality(rows) = Cardinality(a) + Cardinality(b) - Cardinality({})
  BY <1>2, FS_Union
<1>4. Cardinality({}) = 0 /\ Cardinality(a) \in Nat /\ Cardinality(b) \in Nat
  BY <1>2, FS_EmptySet, FS_CardinalityType
<1> QED
  BY <1>3, <1>4

(* One point of an answer, from a boundary at or below `through'.          *)
LEMMA PointsAgree ==
  ASSUME RollupInv, ~steppedBack,
         NEW boundary \in Grid, boundary <= through,
         NEW w \in Requested, Serves(w),
         NEW asked \in Time, Floor(asked, Width) >= cutoff,
         NEW out \in Time
  PROVE  RolledPoint(out, w, asked, boundary) = RawPoint(out, w, Floor(asked, Width))
<1> DEFINE since == Floor(asked, Width)
           rows == {t \in raw : t >= since /\ Floor(t, w) = out}
           asBuckets == {b \in Grid : b >= since /\ b < boundary /\ Floor(b, w) = out}
           folded == UNION {rolled[b] : b \in asBuckets}
           tail == {t \in raw : /\ t >= TailFrom(since, boundary)
                                /\ Floor(Floor(t, Width), w) = out}
<1>1. /\ since \in Grid /\ since \in Nat /\ boundary \in Nat
      /\ cutoff \in Nat /\ through \in Nat /\ w \in Nat \ {0}
  BY GridSplits DEF Grid, RollupInv, TypeOK
<1>2. ASSUME NEW t \in raw
      PROVE  /\ t \in Time /\ t \in Nat
             /\ Floor(t, Width) \in Grid /\ Floor(t, Width) \in Nat
             /\ since <= t <=> since <= Floor(t, Width)
             /\ boundary <= t <=> boundary <= Floor(t, Width)
             /\ Floor(Floor(t, Width), w) = Floor(t, w)
  <2>1. t \in Time /\ t \in Nat
    BY DEF RollupInv, TypeOK
  <2>2. Floor(t, Width) \in Nat
    BY <2>1, FloorBounds
  <2>3. Floor(Floor(t, Width), w) = Floor(t, w)
    BY <1>1, <2>1, ServedBucketsAreWhole
  <2> QED
    BY <1>1, <2>1, <2>2, <2>3, GridSplits
<1>3. ASSUME NEW b \in asBuckets PROVE rolled[b] = InBucket(b, raw)
  <2>1. b \in Grid /\ b \in Nat /\ b >= cutoff /\ b < through
    BY <1>1 DEF Grid
  <2> QED
    BY <2>1 DEF RollupInv, Forward, FoldedUpTo
<1>4. folded = {t \in rows : t < boundary}
  <2>1. ASSUME NEW t \in folded PROVE t \in rows /\ t < boundary
    <3>1. PICK b \in asBuckets : t \in InBucket(b, raw)
      BY <1>3
    <3>2. t \in raw /\ Floor(t, Width) = b
      BY <3>1 DEF InBucket
    <3> QED
      BY <1>1, <1>2, <3>2
  <2>2. ASSUME NEW t \in rows, t < boundary PROVE t \in folded
    <3>1. Floor(t, Width) \in asBuckets
      BY <1>1, <1>2, <2>2
    <3>2. t \in rolled[Floor(t, Width)]
      BY <1>3, <3>1 DEF InBucket
    <3> QED
      BY <3>1, <3>2
  <2> QED
    BY <2>1, <2>2
<1>5. tail = {t \in rows : ~(t < boundary)}
  BY <1>1, <1>2 DEF TailFrom
<1>6. rows = folded \cup tail /\ folded \cap tail = {}
  BY <1>4, <1>5
<1>7. Cardinality(folded) + Cardinality(tail) = Cardinality(rows)
  <2>1. rows \in SUBSET Time
    BY DEF RollupInv, TypeOK
  <2> HIDE DEF rows, folded, tail
  <2> QED
    BY <1>6, <2>1, PartsAddUp
<1>8. RolledPoint(out, w, asked, boundary)
        = [samples |-> folded \cup tail, n |-> Cardinality(folded) + Cardinality(tail)]
  BY DEF RolledPoint
<1>9. RawPoint(out, w, since) = [samples |-> rows, n |-> Cardinality(rows)]
  BY DEF RawPoint
<1> HIDE DEF rows, folded, tail, since
<1> QED
  BY <1>6, <1>7, <1>8, <1>9 DEF since

(* The rollup answers what the raw rows would have answered, whatever was  *)
(* folded, pruned, failed or died in between (rollup.rs:14-24, 283-291).   *)
THEOREM RollupAnswersForRaw == Spec => []AnswersAgree
<1>1. RollupInv => AnswersAgree
  <2> SUFFICES ASSUME RollupInv, ~steppedBack,
                      NEW boundary \in {through, reader} \ {NoReader},
                      NEW w \in Requested, NEW asked \in Time,
                      Serves(w), Floor(asked, Width) >= cutoff,
                      NEW out \in Time, Floor(out, w) = out
               PROVE  RolledPoint(out, w, asked, boundary)
                        = RawPoint(out, w, Floor(asked, Width))
    BY DEF AnswersAgree
  <2>1. boundary \in Grid /\ boundary <= through
    BY DEF RollupInv, TypeOK, Forward, Grid
  <2> QED
    BY <2>1, PointsAgree
<1> QED
  BY <1>1, Inductive, PTL

(* What is folded is not folded to anything else (rollup.rs:229-231).      *)
THEOREM FoldedStays == Spec => FoldedIsFinal
<1>1. TypeOK /\ [Next]_vars =>
        [~steppedBack' => \A b \in Grid : b < through =>
           rolled'[b] \in {rolled[b], {}}]_vars
  <2> SUFFICES ASSUME TypeOK, Next, NEW b \in Grid, b < through
               PROVE  rolled'[b] \in {rolled[b], {}}
    BY DEF vars
  <2>1. CASE Fold
    <3>1. ~(b >= through)
      BY DEF Grid, TypeOK
    <3> QED
      BY <2>1, <3>1 DEF Fold
  <2>2. CASE PruneRollup
    BY <2>2 DEF PruneRollup
  <2>3. CASE UNCHANGED rolled
    BY <2>3
  <2> QED
    BY <2>1, <2>2, <2>3 DEF Next, Store, Mark, PruneRaw, Crash, BeginQuery, EndQuery
<1> QED
  BY <1>1, TypeCorrect, PTL DEF Spec, FoldedIsFinal
=============================================================================
