------------------------------- MODULE Rollup -------------------------------
(***************************************************************************)
(* The 4-minute rollup of metrics_raw (storage/rollup.rs) and the task     *)
(* that feeds both tables (main.rs:192-224): snapshots are stored one by   *)
(* one; every sixtieth, closed buckets are folded, and old rows of either  *)
(* table are deleted.  Each statement commits on its own and may fail; the *)
(* process may die between any two; queries run beside it.                 *)
(*                                                                         *)
(* A sample is its timestamp.  A row of metrics_4min holds averages, their *)
(* count and extremes, which are what they are because of the samples that *)
(* went into it: it is modelled as the set of these, and sample_count as   *)
(* the size of that set.  An answer is, by output bucket, the samples that *)
(* went into the point and the n they were weighted by.                    *)
(***************************************************************************)
EXTENDS Integers, FiniteSets

CONSTANTS
  Width,        (* ROLLUP_BUCKET_MS, in ticks                               *)
  Retention,    (* the seven days of main.rs, in ticks                      *)
  Requested,    (* the bucket widths somebody may ask for, in ticks         *)
  MaxTime,      (* bound: the last tick                                     *)
  MaxFaults     (* bound: failed statements, crashes, steps of the clock    *)

ASSUME RollupAssumption ==
  /\ Width \in Nat \ {0} /\ Retention \in Nat
  /\ Requested \subseteq Nat \ {0}
  /\ MaxTime \in Nat /\ MaxFaults \in Nat

VARIABLES
  raw,          (* table metrics_raw: the timestamps in it                  *)
  rolled,       (* table metrics_4min: the samples of each bucket, {} = no row *)
  through,      (* meta metrics_rollup_through_ms                           *)
  pc,           (* which statement of the task comes next                   *)
  now,          (* the timestamp of the snapshot the task is working on     *)
  reader,       (* the `through' that a running query has read, or NoReader *)
  cutoff,       (* history: the latest cutoff any deletion used             *)
  steppedBack,  (* history: whether the clock was ever set back             *)
  faults        (* counter for the bound                                    *)

vars == <<raw, rolled, through, pc, now, reader, cutoff, steppedBack, faults>>

NoReader == -1
Time == 0..MaxTime
Floor(t, w) == (t \div w) * w
Grid == {t \in Time : Floor(t, Width) = t}
InBucket(b, rows) == {t \in rows : Floor(t, Width) = b}

TypeOK ==
  /\ raw \subseteq Time
  /\ rolled \in [Grid -> SUBSET Time]
  /\ through \in Grid
  /\ pc \in {"recv", "fold", "mark", "pruneRaw", "pruneRollup"}
  /\ now \in Time /\ cutoff \in Time
  /\ reader \in Grid \cup {NoReader}
  /\ steppedBack \in BOOLEAN /\ faults \in 0..MaxFaults

Init ==
  /\ raw = {} /\ rolled = [b \in Grid |-> {}] /\ through = 0
  /\ pc = "recv" /\ now = 0
  /\ reader = NoReader
  /\ cutoff = 0 /\ steppedBack = FALSE /\ faults = 0

-----------------------------------------------------------------------------
Fault == faults < MaxFaults /\ faults' = faults + 1

(* A statement that fails changes nothing; its error is dropped (.ok()).   *)
Fine == UNCHANGED faults

(* The next snapshot arrives and is stored; it may be a sixtieth.          *)
Store(t) ==
  /\ pc = "recv"
  /\ now' = t
  /\ \/ t >= now /\ Fine /\ raw' = raw \cup {t} /\ UNCHANGED steppedBack
     \/ t >= now /\ Fault /\ UNCHANGED <<raw, steppedBack>>
     \/ t < now /\ Fault /\ raw' = raw \cup {t} /\ steppedBack' = TRUE
  /\ pc' \in {"recv", "fold"}
  /\ UNCHANGED <<rolled, through, reader, cutoff>>

(* Mutant: the bucket that is still filling is folded as well.              *)
CurrentBucketOpen == Floor(now, Width) + Width

CurrentBucket == Floor(now, Width)

(* Mutant: the boundary is stored before the fold.                          *)
FoldMarksFirst ==
  /\ pc = "fold"
  /\ \/ /\ CurrentBucket <= through
        /\ pc' = "pruneRaw" /\ Fine /\ UNCHANGED <<rolled, through>>
     \/ /\ CurrentBucket > through
        /\ \/ /\ rolled' = [b \in Grid |->
                   IF b >= through /\ b < CurrentBucket /\ InBucket(b, raw) # {}
                   THEN InBucket(b, raw) ELSE rolled[b]]
              /\ Fine
           \/ UNCHANGED rolled /\ Fault
        /\ through' = CurrentBucket
        /\ pc' = "pruneRaw"
  /\ UNCHANGED <<raw, now, reader, cutoff, steppedBack>>

(* Mutant: everything is folded again, from whatever raw rows are left.     *)
FoldFromTheStart ==
  /\ pc = "fold"
  /\ rolled' = [b \in Grid |->
       IF b < CurrentBucket /\ InBucket(b, raw) # {}
       THEN InBucket(b, raw) ELSE rolled[b]]
  /\ pc' = "mark" /\ Fine
  /\ UNCHANGED <<raw, through, now, reader, cutoff, steppedBack>>

(* roll_up: every bucket that has closed since `through' is aggregated; a  *)
(* bucket without rows yields no row.                                      *)
Fold ==
  /\ pc = "fold"
  /\ \/ /\ CurrentBucket <= through
        /\ pc' = "pruneRaw" /\ Fine /\ UNCHANGED rolled
     \/ /\ CurrentBucket > through
        /\ rolled' = [b \in Grid |->
             IF b >= through /\ b < CurrentBucket /\ InBucket(b, raw) # {}
             THEN InBucket(b, raw) ELSE rolled[b]]
        /\ pc' = "mark" /\ Fine
     \/ /\ CurrentBucket > through
        /\ pc' = "pruneRaw" /\ Fault /\ UNCHANGED rolled
  /\ UNCHANGED <<raw, through, now, reader, cutoff, steppedBack>>

(* ... and a second statement stores the new boundary.                     *)
Mark ==
  /\ pc = "mark"
  /\ \/ through' = CurrentBucket /\ Fine
     \/ UNCHANGED through /\ Fault
  /\ pc' = "pruneRaw"
  /\ UNCHANGED <<raw, rolled, now, reader, cutoff, steppedBack>>

(* saturating_sub                                                          *)
Cutoff == IF now >= Retention THEN now - Retention ELSE 0

PruneRaw ==
  /\ pc = "pruneRaw"
  /\ \/ raw' = {t \in raw : t >= Cutoff} /\ Fine
     \/ UNCHANGED raw /\ Fault
  /\ cutoff' = IF Cutoff > cutoff THEN Cutoff ELSE cutoff
  /\ pc' = "pruneRollup"
  /\ UNCHANGED <<rolled, through, now, reader, steppedBack>>

PruneRollup ==
  /\ pc = "pruneRollup"
  /\ \/ rolled' = [b \in Grid |-> IF b < Cutoff THEN {} ELSE rolled[b]] /\ Fine
     \/ UNCHANGED rolled /\ Fault
  /\ pc' = "recv"
  /\ UNCHANGED <<raw, through, now, reader, cutoff, steppedBack>>

(* The process dies between two statements, and starts again.              *)
Crash ==
  /\ Fault
  /\ pc' = "recv" /\ reader' = NoReader
  /\ UNCHANGED <<raw, rolled, through, now, cutoff, steppedBack>>

(* query_bucketed_rolled reads the boundary first, and takes the lock of   *)
(* the connection again for the query itself.                              *)
BeginQuery ==
  /\ reader = NoReader
  /\ reader' = through
  /\ UNCHANGED <<raw, rolled, through, pc, now, cutoff, steppedBack, faults>>

EndQuery ==
  /\ reader # NoReader
  /\ reader' = NoReader
  /\ UNCHANGED <<raw, rolled, through, pc, now, cutoff, steppedBack, faults>>

Next ==
  \/ \E t \in Time : Store(t)
  \/ Fold \/ Mark \/ PruneRaw \/ PruneRollup
  \/ Crash \/ BeginQuery \/ EndQuery

Spec == Init /\ [][Next]_vars

-----------------------------------------------------------------------------
(* Mutant: any width beyond a rollup bucket is served from the rollup.      *)
ServesAnyWidth(w) == w >= Width

(* rollup_serves.                                                          *)
Serves(w) == w >= Width /\ w % Width = 0

(* Mutant: the unfolded tail starts at `since', not at the boundary.        *)
TailFromSince(since, boundary) == since

(* Where the rows of metrics_raw come in.                                  *)
TailFrom(since, boundary) == IF boundary > since THEN boundary ELSE since

(* query_bucketed_rolled, given the boundary it read: one output bucket.   *)
RolledPoint(out, w, asked, boundary) ==
  LET since == Floor(asked, Width)
      folded == UNION {rolled[b] : b \in {b \in Grid :
                  b >= since /\ b < boundary /\ Floor(b, w) = out}}
      tail == {t \in raw : /\ t >= TailFrom(since, boundary)
                           /\ Floor(Floor(t, Width), w) = out}
  IN [samples |-> folded \cup tail, n |-> Cardinality(folded) + Cardinality(tail)]

(* query_bucketed.                                                         *)
RawPoint(out, w, since) ==
  LET rows == {t \in raw : t >= since /\ Floor(t, w) = out}
  IN [samples |-> rows, n |-> Cardinality(rows)]

(* The numbers do not change: while the clock only goes forward, a query   *)
(* served from the rollup gives, for any width it serves, what the raw     *)
(* rows would have given, at any moment of the folding and pruning, across *)
(* crashes and failed statements, and even if it read the boundary before  *)
(* they moved it (rollup.rs:14-24, 283-291).  Windows that reach back into *)
(* the bucket of the last deletion are not promised.                       *)
AnswersAgree ==
  ~steppedBack =>
    \A boundary \in {through, reader} \ {NoReader}, w \in Requested, asked \in Time :
      Serves(w) /\ Floor(asked, Width) >= cutoff =>
        \A out \in Time : Floor(out, w) = out =>
          RolledPoint(out, w, asked, boundary) = RawPoint(out, w, Floor(asked, Width))

(* The answer of a bucket is final when it is folded: it is not folded to  *)
(* anything else afterwards, only deleted (rollup.rs:7-9, 229-231).        *)
FoldedIsFinal ==
  [][~steppedBack' => \A b \in Grid : b < through =>
       rolled'[b] \in {rolled[b], {}}]_vars
=============================================================================
