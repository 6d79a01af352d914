------------------------ MODULE FolderService_proofs ------------------------
(***************************************************************************)
(* For every number of threads, requests, faults, folders and changes of   *)
(* the disk: the tables are well typed, and until a claim is handed over   *)
(* no stored row is older than its tree or goes back to an older look.     *)
(***************************************************************************)
EXTENDS FolderService, TLAPS

USE FolderServiceAssumption DEF Look, Never, Unvisited, Skipped

Guarded(t) == stage[t] \in {"walk", "store", "drop"}

(* What a thread has found, whoever holds the claim: looks taken during    *)
(* its own walk, and all of them before a full walk stores its tree.       *)
HonestWalk(t) ==
  /\ Guarded(t) => began[t] <= epoch
  /\ stage[t] = "asked" => \A p \in Paths : got[t][p] < Never
  /\ stage[t] # "idle" /\ job[t] = "full" => \A p \in Paths : got[t][p] # Skipped
  /\ stage[t] = "store" /\ job[t] = "full" => \A p \in Paths : got[t][p] \in Look
  /\ Guarded(t) => \A p \in Paths : got[t][p] >= 0 => got[t][p] \in began[t]..epoch

WalkInv == \A t \in Scans : HonestWalk(t)

StoreInv ==
  /\ treeBegan <= epoch
  /\ \A p \in Paths : row[p] <= epoch

(* Until a claim is handed over there is at most one guard, the holder's.  *)
GuardInv ==
  /\ \A t \in Scans : Guarded(t) => gen[t] # 0
  /\ ~reassigned => \A t \in Scans : Guarded(t) =>
       /\ gen[t] = holder
       /\ \A u \in Scans : Guarded(u) => u = t

(* What a walk has found by then is no older than what is stored.          *)
FreshInv ==
  ~reassigned => \A t \in Scans : stage[t] \in {"walk", "store"} =>
    /\ treeBegan <= began[t]
    /\ \A p \in Paths : got[t][p] >= 0 => row[p] <= got[t][p]

ServiceInv ==
  TypeOK /\ WalkInv /\ StoreInv /\ GuardInv /\ FreshInv /\ RowsBelongToTheTree

-----------------------------------------------------------------------------
(* Every step of the specification, by the thread that takes it.           *)
Steps(t) ==
  \/ Rescan(t) \/ Verify(t) \/ TurnedAway(t) \/ Claim(t)
  \/ (\E p \in Paths : Visit(t, p)) \/ FinishFull(t) \/ FinishVerify(t)
  \/ ReplaceTree(t) \/ UpdateRows(t) \/ Drop(t)
  \/ Panic(t) \/ StoreFails(t) \/ Hang(t) \/ Wake(t)

(* The next-state relation is made of these steps.                         *)
LEMMA NextIsSteps ==
  Next => TimerFindsDue \/ (\E t \in Scans : Steps(t))
          \/ Crash \/ DiskChanges \/ Tick \/ SetBack
  BY DEF Next, Steps, Runs

(* The three ways to set out for a scan are one: an idle thread is given a *)
(* kind of scan and folders to look at, or nothing happens to it.          *)
Asking(t) ==
  /\ stage[t] = "idle"
  /\ \/ \E kind \in {"full", "verify"}, paths \in SUBSET Paths :
          Ask(t, kind, paths) /\ (kind = "full" => paths = Paths)
     \/ UNCHANGED <<stage, job, got>>
  /\ requests' \in {requests, requests + 1}
  /\ requests' \in 0..MaxRequests
  /\ UNCHANGED <<claim, clock, gen, stops, began, disk, store, faults>>

(* The timer's loop and both requests ask.                                 *)
LEMMA AskingSteps ==
  ASSUME TypeOK
  PROVE  /\ TimerFindsDue => Asking(Timer)
         /\ \A t \in Scans : Rescan(t) \/ Verify(t) => Asking(t)
<1> USE DEF TypeOK, counters, Requested, Asking
<1>1. ASSUME TimerFindsDue PROVE Asking(Timer)
  <2>1. Ask(Timer, "full", Paths)
    BY <1>1 DEF TimerFindsDue
  <2>2. QED
    BY <1>1, <2>1 DEF TimerFindsDue
<1>2. ASSUME NEW t \in Scans, Rescan(t) PROVE Asking(t)
  <2>1. Ask(t, "full", Paths) \/ UNCHANGED <<stage, job, got>>
    BY <1>2 DEF Rescan
  <2>2. QED
    BY <1>2, <2>1 DEF Rescan
<1>3. ASSUME NEW t \in Scans, Verify(t) PROVE Asking(t)
  <2>1. PICK paths \in SUBSET Paths : Ask(t, "verify", paths)
    BY <1>3 DEF Verify
  <2>2. QED
    BY <1>3, <2>1 DEF Verify
<1>4. QED
  BY <1>1, <1>2, <1>3

(* Every step keeps the variables in their types; that the tree which is   *)
(* stored has no folder left to visit is known from the walk.              *)
LEMMA TypeStep ==
  ASSUME TypeOK, WalkInv, [Next]_vars
  PROVE  TypeOK'
<1> USE DEF TypeOK, claim, threads, stops, disk, store, counters, Goto, Fault, Leave, Nothing
<1>1. ASSUME NEW t \in Scans, Asking(t) PROVE TypeOK'
  <2>1. ASSUME NEW kind \in {"full", "verify"}, NEW paths, Ask(t, kind, paths)
        PROVE  /\ stage' \in [Scans -> {"idle", "asked", "walk", "store", "drop"}]
               /\ job' \in [Scans -> {"none", "full", "verify"}]
               /\ got' \in [Scans -> [Paths -> Look \cup {Unvisited, Skipped}]]
    <3>1. [p \in Paths |-> IF p \in paths THEN Unvisited ELSE Skipped]
            \in [Paths -> Look \cup {Unvisited, Skipped}]
      OBVIOUS
    <3>2. QED
      BY <2>1, <3>1 DEF Ask
  <2>2. /\ stage' \in [Scans -> {"idle", "asked", "walk", "store", "drop"}]
        /\ job' \in [Scans -> {"none", "full", "verify"}]
        /\ got' \in [Scans -> [Paths -> Look \cup {Unvisited, Skipped}]]
    BY <1>1, <2>1 DEF Asking
  <2>3. QED
    BY <1>1, <2>2 DEF Asking
<1>2. ASSUME NEW t \in Scans, TurnedAway(t) PROVE TypeOK'
  BY <1>2 DEF TurnedAway
<1>3. ASSUME NEW t \in Scans, Claim(t) PROVE TypeOK'
  <2>1. reassigned' \in BOOLEAN
    BY <1>3 DEF Claim
  <2>2. QED
    BY <1>3, <2>1 DEF Claim
<1>4. ASSUME NEW t \in Scans, NEW p \in Paths, Visit(t, p) PROVE TypeOK'
  BY <1>4 DEF Visit
<1>5. ASSUME NEW t \in Scans, FinishFull(t) PROVE TypeOK'
  BY <1>5 DEF FinishFull
<1>6. ASSUME NEW t \in Scans, FinishVerify(t) PROVE TypeOK'
  BY <1>6 DEF FinishVerify
<1>7. ASSUME NEW t \in Scans, ReplaceTree(t) PROVE TypeOK'
  <2>1. got[t] \in [Paths -> Look]
    BY <1>7 DEF ReplaceTree, WalkInv, HonestWalk
  <2>2. QED
    BY <1>7, <2>1 DEF ReplaceTree
<1>8. ASSUME NEW t \in Scans, UpdateRows(t) PROVE TypeOK'
  <2>1. row' \in [Paths -> Look]
    BY <1>8 DEF UpdateRows
  <2>2. QED
    BY <1>8, <2>1 DEF UpdateRows
<1>9. ASSUME NEW t \in Scans, Drop(t) PROVE TypeOK'
  BY <1>9 DEF Drop
<1>10. ASSUME NEW t \in Scans, Panic(t) \/ StoreFails(t) PROVE TypeOK'
  <2>1. ASSUME Panic(t) PROVE loopEnded' \in BOOLEAN
    BY <2>1 DEF Panic
  <2>2. QED
    BY <1>10, <2>1 DEF Panic, StoreFails
<1>11. ASSUME NEW t \in Scans, Hang(t) \/ Wake(t) PROVE TypeOK'
  BY <1>11 DEF Hang, Wake
<1>12. CASE Crash
  <2>1. /\ stage' \in [Scans -> {"idle", "asked", "walk", "store", "drop"}]
        /\ job' \in [Scans -> {"none", "full", "verify"}]
        /\ got' \in [Scans -> [Paths -> Look \cup {Unvisited, Skipped}]]
    BY <1>12 DEF Crash
  <2>2. loopEnded' \in BOOLEAN
    BY <1>12 DEF Crash
  <2>3. QED
    BY <1>12, <2>1, <2>2 DEF Crash
<1>13. CASE DiskChanges
  BY <1>13 DEF DiskChanges
<1>14. CASE Tick \/ SetBack
  BY <1>14 DEF Tick, SetBack
<1>15. CASE UNCHANGED vars
  BY <1>15 DEF vars
<1>16. QED
  BY <1>1, <1>2, <1>3, <1>4, <1>5, <1>6, <1>7, <1>8, <1>9, <1>10, <1>11,
     <1>12, <1>13, <1>14, <1>15, NextIsSteps, AskingSteps DEF Steps

-----------------------------------------------------------------------------
(* The threads that do not move keep their part, however the disk changes. *)
LEMMA OthersKeep ==
  ASSUME TypeOK, TypeOK', NEW u \in Scans, HonestWalk(u), epoch' >= epoch,
         stage'[u] = stage[u], job'[u] = job[u], got'[u] = got[u], began'[u] = began[u]
  PROVE  HonestWalk(u)'
  BY DEF TypeOK, HonestWalk, Guarded

(* Every walk reports looks of its own, and a full walk all of them.       *)
LEMMA WalkStep ==
  ASSUME TypeOK, TypeOK', WalkInv, [Next]_vars
  PROVE  WalkInv'
<1> USE DEF claim, threads, stops, disk, store, counters, Goto, Leave, Nothing
<1> SUFFICES ASSUME NEW u \in Scans PROVE HonestWalk(u)'
  BY DEF WalkInv
<1> HonestWalk(u)
  BY DEF WalkInv
<1>1. ASSUME NEW t \in Scans, Asking(t) PROVE HonestWalk(u)'
  <2>1. CASE u # t \/ UNCHANGED <<stage, job, got>>
    BY <1>1, <2>1, OthersKeep DEF Asking, Ask, TypeOK
  <2>2. ASSUME NEW kind, NEW paths, Ask(t, kind, paths), u = t,
               kind = "full" => paths = Paths
        PROVE  HonestWalk(u)'
    <3>1. stage'[u] = "asked" /\ job'[u] = kind
      BY <2>2 DEF Ask, TypeOK
    <3>2. got'[u] = [p \in Paths |-> IF p \in paths THEN Unvisited ELSE Skipped]
      BY <2>2 DEF Ask, TypeOK
    <3>3. QED
      BY <2>2, <3>1, <3>2 DEF HonestWalk, Guarded
  <2>3. QED
    BY <1>1, <2>1, <2>2 DEF Asking
<1>2. ASSUME NEW t \in Scans, TurnedAway(t) \/ Drop(t) PROVE HonestWalk(u)'
  <2>1. CASE u # t
    BY <1>2, <2>1, OthersKeep DEF TurnedAway, Drop, TypeOK
  <2>2. CASE u = t
    BY <1>2, <2>2 DEF TurnedAway, Drop, TypeOK, HonestWalk, Guarded
  <2>3. QED
    BY <2>1, <2>2
<1>3. ASSUME NEW t \in Scans, Claim(t) PROVE HonestWalk(u)'
  <2>1. CASE u # t
    BY <1>3, <2>1, OthersKeep DEF Claim, TypeOK
  <2>2. CASE u = t
    BY <1>3, <2>2 DEF Claim, TypeOK, HonestWalk, Guarded
  <2>3. QED
    BY <2>1, <2>2
<1>4. ASSUME NEW t \in Scans, NEW p \in Paths, Visit(t, p) PROVE HonestWalk(u)'
  <2>1. CASE u # t
    BY <1>4, <2>1, OthersKeep DEF Visit, TypeOK
  <2>2. CASE u = t
    BY <1>4, <2>2 DEF Visit, Walking, TypeOK, HonestWalk, Guarded
  <2>3. QED
    BY <2>1, <2>2
<1>5. ASSUME NEW t \in Scans, FinishFull(t) PROVE HonestWalk(u)'
  <2>1. CASE u # t
    BY <1>5, <2>1, OthersKeep DEF FinishFull, TypeOK
  <2>2. CASE u = t
    BY <1>5, <2>2 DEF FinishFull, Walking, TypeOK, HonestWalk, Guarded
  <2>3. QED
    BY <2>1, <2>2
<1>6. ASSUME NEW t \in Scans, FinishVerify(t) PROVE HonestWalk(u)'
  <2>1. CASE u # t
    BY <1>6, <2>1, OthersKeep DEF FinishVerify, TypeOK
  <2>2. CASE u = t
    BY <1>6, <2>2 DEF FinishVerify, Walking, TypeOK, HonestWalk, Guarded
  <2>3. QED
    BY <2>1, <2>2
<1>7. ASSUME NEW t \in Scans,
             ReplaceTree(t) \/ UpdateRows(t) \/ Panic(t) \/ StoreFails(t)
      PROVE  HonestWalk(u)'
  <2>1. CASE u # t
    BY <1>7, <2>1, OthersKeep DEF ReplaceTree, UpdateRows, Panic, StoreFails, TypeOK
  <2>2. CASE u = t
    BY <1>7, <2>2 DEF ReplaceTree, UpdateRows, Panic, StoreFails, Walking, TypeOK,
                      HonestWalk, Guarded
  <2>3. QED
    BY <2>1, <2>2
<1>8. ASSUME NEW t \in Scans, Hang(t) \/ Wake(t) PROVE HonestWalk(u)'
  BY <1>8, OthersKeep DEF Hang, Wake, TypeOK
<1>9. CASE Crash
  BY <1>9 DEF Crash, HonestWalk, Guarded
<1>10. CASE DiskChanges
  BY <1>10, OthersKeep DEF DiskChanges, TypeOK
<1>11. CASE Tick \/ SetBack \/ UNCHANGED vars
  BY <1>11, OthersKeep DEF Tick, SetBack, vars, TypeOK
<1>12. QED
  BY <1>1, <1>2, <1>3, <1>4, <1>5, <1>6, <1>7, <1>8, <1>9, <1>10, <1>11,
     NextIsSteps, AskingSteps DEF Steps, TypeOK, FolderServiceAssumption

-----------------------------------------------------------------------------
(* Every step but a claim, a Drop, a crash and the two stores leaves the   *)
(* tables and the guards alone.                                            *)
QuietSteps ==
  \/ \E t \in Scans : \/ Asking(t) \/ TurnedAway(t)
                      \/ (\E p \in Paths : Visit(t, p))
                      \/ FinishFull(t) \/ FinishVerify(t)
                      \/ Panic(t) \/ StoreFails(t) \/ Hang(t) \/ Wake(t)
  \/ DiskChanges \/ Tick \/ SetBack \/ UNCHANGED vars

(* A step is quiet or one of the five others.                              *)
LEMMA FiveKinds ==
  ASSUME TypeOK, [Next]_vars
  PROVE  \/ QuietSteps \/ Crash
         \/ \E t \in Scans : Claim(t) \/ Drop(t) \/ ReplaceTree(t) \/ UpdateRows(t)
  BY NextIsSteps, AskingSteps DEF Steps, QuietSteps

(* What a quiet step leaves alone.                                         *)
LEMMA QuietLeavesStore ==
  ASSUME TypeOK, QuietSteps
  PROVE  /\ UNCHANGED <<store, holder, reassigned>>
         /\ epoch' \in {epoch, epoch + 1}
         /\ \A u \in Scans : /\ Guarded(u)' <=> Guarded(u)
                             /\ Guarded(u) => gen'[u] = gen[u] /\ began'[u] = began[u]
<1> USE DEF TypeOK, claim, threads, stops, disk, store, counters, Goto, Leave, Guarded
<1>1. ASSUME NEW t \in Scans, Asking(t) \/ TurnedAway(t)
      PROVE  /\ UNCHANGED <<store, holder, reassigned, epoch>>
             /\ \A u \in Scans : /\ Guarded(u)' <=> Guarded(u)
                                 /\ Guarded(u) => gen'[u] = gen[u] /\ began'[u] = began[u]
  BY <1>1 DEF Asking, Ask, TurnedAway
<1>2. ASSUME NEW t \in Scans, NEW p \in Paths, Visit(t, p)
      PROVE  UNCHANGED <<store, holder, reassigned, epoch, stage, gen, began>>
  BY <1>2 DEF Visit
<1>3. ASSUME NEW t \in Scans, FinishFull(t) \/ FinishVerify(t) \/ Panic(t) \/ StoreFails(t)
      PROVE  /\ UNCHANGED <<store, holder, reassigned, epoch, gen, began>>
             /\ \A u \in Scans : Guarded(u)' <=> Guarded(u)
  BY <1>3 DEF FinishFull, FinishVerify, Panic, StoreFails, Walking
<1>4. ASSUME NEW t \in Scans, Hang(t) \/ Wake(t)
      PROVE  UNCHANGED <<store, holder, reassigned, epoch, stage, gen, began>>
  BY <1>4 DEF Hang, Wake
<1>5. CASE DiskChanges
  BY <1>5 DEF DiskChanges
<1>6. CASE Tick \/ SetBack \/ UNCHANGED vars
  BY <1>6 DEF Tick, SetBack, vars
<1>7. QED
  BY <1>1, <1>2, <1>3, <1>4, <1>5, <1>6 DEF QuietSteps

(* Nothing in the tables is newer than the disk.                           *)
LEMMA StoreStep ==
  ASSUME TypeOK, WalkInv, StoreInv, [Next]_vars
  PROVE  StoreInv'
<1> USE DEF StoreInv, store, disk
<1>1. CASE QuietSteps
  BY <1>1, QuietLeavesStore DEF TypeOK
<1>2. ASSUME NEW t \in Scans, ReplaceTree(t) PROVE StoreInv'
  BY <1>2 DEF ReplaceTree, WalkInv, HonestWalk, Guarded, TypeOK
<1>3. ASSUME NEW t \in Scans, UpdateRows(t) PROVE StoreInv'
  BY <1>3 DEF UpdateRows, WalkInv, HonestWalk, Guarded, TypeOK
<1>4. ASSUME NEW t \in Scans, Claim(t) \/ Drop(t) PROVE StoreInv'
  BY <1>4 DEF Claim, Drop
<1>5. CASE Crash
  BY <1>5 DEF Crash
<1>6. QED
  BY <1>1, <1>2, <1>3, <1>4, <1>5, FiveKinds

(* A claim finds no guard but that of the thread it is taken from, and a   *)
(* Drop leaves none behind.                                                *)
LEMMA GuardStep ==
  ASSUME TypeOK, GuardInv, [Next]_vars
  PROVE  GuardInv'
<1> USE DEF TypeOK, GuardInv, Guarded, Goto
<1>1. CASE QuietSteps
  <2>1. UNCHANGED <<holder, reassigned>>
    BY <1>1, QuietLeavesStore
  <2>2. \A u \in Scans : (Guarded(u)' <=> Guarded(u)) /\ (Guarded(u) => gen'[u] = gen[u])
    BY <1>1, QuietLeavesStore
  <2>3. QED
    BY <2>1, <2>2
<1>2. ASSUME NEW t \in Scans, Claim(t) PROVE GuardInv'
  <2>1. /\ Guarded(t)' /\ gen'[t] = holder' /\ holder' = holder + 1
        /\ \A u \in Scans \ {t} : (Guarded(u)' <=> Guarded(u)) /\ gen'[u] = gen[u]
    BY <1>2 DEF Claim
  <2>2. ~reassigned' => ~reassigned /\ holder = 0
    BY <1>2 DEF Claim
  <2>3. ~reassigned' => \A u \in Scans : ~Guarded(u)
    BY <2>2
  <2>4. \A u \in Scans : Guarded(u)' => gen'[u] # 0
    BY <2>1
  <2>5. ~reassigned' => \A u \in Scans : Guarded(u)' => u = t
    BY <2>1, <2>3
  <2>6. QED
    BY <2>1, <2>4, <2>5
<1>3. ASSUME NEW t \in Scans, Drop(t) PROVE GuardInv'
  <2>1. /\ ~Guarded(t)' /\ reassigned' = reassigned
        /\ \A u \in Scans \ {t} : (Guarded(u)' <=> Guarded(u)) /\ gen'[u] = gen[u]
    BY <1>3 DEF Drop, Leave
  <2>2. ~reassigned => \A u \in Scans \ {t} : ~Guarded(u)
    BY <1>3 DEF Drop
  <2>3. QED
    BY <2>1, <2>2
<1>4. ASSUME NEW t \in Scans, ReplaceTree(t) \/ UpdateRows(t) PROVE GuardInv'
  BY <1>4 DEF ReplaceTree, UpdateRows, claim
<1>5. CASE Crash
  BY <1>5 DEF Crash
<1>6. QED
  BY <1>1, <1>2, <1>3, <1>4, <1>5, FiveKinds

(* The walk of a claim begins after all that is stored was seen, and       *)
(* nobody else stores while it holds the claim.                            *)
LEMMA FreshStep ==
  ASSUME TypeOK, WalkInv, StoreInv, GuardInv, FreshInv, [Next]_vars
  PROVE  FreshInv'
<1> DEFINE Storing(u) == stage[u] \in {"walk", "store"}
           Fresh(u) == /\ treeBegan <= began[u]
                       /\ \A p \in Paths : got[u][p] >= 0 => row[p] <= got[u][p]
<1> SUFFICES ASSUME ~reassigned', NEW u \in Scans, Storing(u)'
             PROVE  Fresh(u)'
  BY DEF FreshInv
<1> USE DEF TypeOK, claim, threads, stops, disk, store, counters, Goto, Leave
<1>1. ~reassigned /\ (Storing(u) => Fresh(u))
  <2>1. ~reassigned
    BY FiveKinds, QuietLeavesStore DEF Claim, Drop, ReplaceTree, UpdateRows, Crash
  <2>2. QED
    BY <2>1 DEF FreshInv
<1>2. ASSUME NEW t \in Scans, Asking(t) \/ TurnedAway(t) PROVE Fresh(u)'
  <2>1. u # t /\ UNCHANGED <<row, treeBegan, stage[u], began[u], got[u]>>
    BY <1>2 DEF Asking, Ask, TurnedAway
  <2>2. QED
    BY <1>1, <2>1
<1>3. ASSUME NEW t \in Scans, Claim(t) PROVE Fresh(u)'
  <2>1. CASE u = t
    BY <1>3, <2>1 DEF Claim, WalkInv, HonestWalk, StoreInv
  <2>2. CASE u # t
    BY <1>1, <1>3, <2>2 DEF Claim
  <2>3. QED
    BY <2>1, <2>2
<1>4. ASSUME NEW t \in Scans, NEW p \in Paths, Visit(t, p) PROVE Fresh(u)'
  <2>1. CASE u = t
    BY <1>1, <1>4, <2>1 DEF Visit, Walking, StoreInv
  <2>2. CASE u # t
    BY <1>1, <1>4, <2>2 DEF Visit
  <2>3. QED
    BY <2>1, <2>2
<1>5. ASSUME NEW t \in Scans, FinishFull(t) \/ FinishVerify(t) PROVE Fresh(u)'
  BY <1>1, <1>5 DEF FinishFull, FinishVerify, Walking
<1>6. ASSUME NEW t \in Scans, Panic(t) \/ StoreFails(t) \/ Drop(t) PROVE Fresh(u)'
  BY <1>1, <1>6 DEF Panic, StoreFails, Drop
<1>7. ASSUME NEW t \in Scans, ReplaceTree(t) \/ UpdateRows(t) PROVE Fresh(u)'
  <2>1. u # t /\ Guarded(t) /\ Guarded(u)
    BY <1>7 DEF ReplaceTree, UpdateRows, Guarded
  <2>2. QED
    BY <1>1, <2>1 DEF GuardInv
<1>8. ASSUME NEW t \in Scans, Hang(t) \/ Wake(t) PROVE Fresh(u)'
  BY <1>1, <1>8 DEF Hang, Wake
<1>9. CASE Crash
  BY <1>9 DEF Crash
<1>10. CASE DiskChanges \/ Tick \/ SetBack \/ UNCHANGED vars
  BY <1>1, <1>10 DEF DiskChanges, Tick, SetBack, vars
<1>11. QED
  BY <1>2, <1>3, <1>4, <1>5, <1>6, <1>7, <1>8, <1>9, <1>10, FiveKinds DEF QuietSteps

(* No store of the holder's adds a row from before the walk of its tree.   *)
LEMMA RowsStep ==
  ASSUME TypeOK, WalkInv, FreshInv, RowsBelongToTheTree, [Next]_vars
  PROVE  RowsBelongToTheTree'
<1> USE DEF RowsBelongToTheTree, store, TypeOK
<1>1. CASE QuietSteps
  BY <1>1, QuietLeavesStore
<1>2. ASSUME NEW t \in Scans, ReplaceTree(t) PROVE RowsBelongToTheTree'
  BY <1>2 DEF ReplaceTree, WalkInv, HonestWalk, Guarded
<1>3. ASSUME NEW t \in Scans, UpdateRows(t) PROVE RowsBelongToTheTree'
  BY <1>3 DEF UpdateRows, WalkInv, HonestWalk, Guarded, FreshInv, claim
<1>4. ASSUME NEW t \in Scans, Claim(t) \/ Drop(t) PROVE RowsBelongToTheTree'
  BY <1>4 DEF Claim, Drop
<1>5. CASE Crash
  BY <1>5 DEF Crash
<1>6. QED
  BY <1>1, <1>2, <1>3, <1>4, <1>5, FiveKinds

-----------------------------------------------------------------------------
(* The service starts with the invariant, and every step keeps it.         *)
LEMMA ServiceInit == Init => ServiceInv
<1> SUFFICES ASSUME Init PROVE ServiceInv
  OBVIOUS
<1> USE DEF Init, Nothing
<1>1. /\ holder \in Nat /\ claimedAt \in 0..MaxClock /\ clock \in 0..MaxClock
      /\ requests \in 0..MaxRequests /\ faults \in 0..MaxFaults
  OBVIOUS
<1>2. /\ stage \in [Scans -> {"idle", "asked", "walk", "store", "drop"}]
      /\ job \in [Scans -> {"none", "full", "verify"}]
      /\ gen \in [Scans -> Nat] /\ hung \subseteq Scans /\ loopEnded \in BOOLEAN
  OBVIOUS
<1>3. /\ got \in [Scans -> [Paths -> Look \cup {Unvisited, Skipped}]]
      /\ row \in [Paths -> Look] /\ treeBegan \in Look
      /\ began \in [Scans -> 0..MaxEpoch]
  OBVIOUS
<1>4. /\ epoch \in 0..MaxEpoch /\ present \subseteq Paths
      /\ lastScan \in {Never} \cup 0..MaxClock
  OBVIOUS
<1>5. reassigned \in BOOLEAN
  OBVIOUS
<1>6. TypeOK
  BY <1>1, <1>2, <1>3, <1>4, <1>5 DEF TypeOK
<1>7. WalkInv /\ StoreInv /\ GuardInv /\ FreshInv /\ RowsBelongToTheTree
  BY DEF WalkInv, HonestWalk, StoreInv, GuardInv, FreshInv, RowsBelongToTheTree, Guarded
<1>8. QED
  BY <1>6, <1>7 DEF ServiceInv

(* Each part of the invariant is kept by the lemma of its name.            *)
LEMMA ServiceStep == ServiceInv /\ [Next]_vars => ServiceInv'
  BY TypeStep, WalkStep, StoreStep, GuardStep, FreshStep, RowsStep DEF ServiceInv

(* So it always holds.                                                     *)
LEMMA ServiceInvariant == Spec => []ServiceInv
  BY ServiceInit, ServiceStep, PTL DEF Spec

(* The tables and the threads are well typed; in particular no folder that *)
(* a walk has not reached is ever stored (folders.rs:42-57).               *)
THEOREM TypeCorrect == Spec => []TypeOK
<1>1. ServiceInv => TypeOK
  BY DEF ServiceInv
<1>2. QED
  BY <1>1, ServiceInvariant, PTL

(* Until a claim is handed over, every stored row was seen after the walk  *)
(* of the stored tree began (folders.rs:60-63, 110-114).                   *)
THEOREM RowsBelongTogether == Spec => []RowsBelongToTheTree
<1>1. ServiceInv => RowsBelongToTheTree
  BY DEF ServiceInv
<1>2. QED
  BY <1>1, ServiceInvariant, PTL

(* And no row is overwritten with an older look (folder_scan.rs:3-5).      *)
THEOREM LooksAdvance == Spec => RowsNeverGoBack
<1>1. ASSUME ServiceInv, [Next]_vars
      PROVE  [~reassigned' => \A p \in Paths :
                row[p] # Never /\ row'[p] # Never => row'[p] >= row[p]]_vars
  <2> SUFFICES ASSUME ~reassigned', NEW p \in Paths, row[p] # Never, row'[p] # Never
               PROVE  row'[p] >= row[p]
    OBVIOUS
  <2> USE DEF ServiceInv, TypeOK, store
  <2>1. CASE QuietSteps
    BY <1>1, <2>1, QuietLeavesStore
  <2>2. ASSUME NEW t \in Scans, ReplaceTree(t) PROVE row'[p] >= row[p]
    BY <1>1, <2>2 DEF ReplaceTree, WalkInv, HonestWalk, FreshInv, claim
  <2>3. ASSUME NEW t \in Scans, UpdateRows(t) PROVE row'[p] >= row[p]
    BY <1>1, <2>3 DEF UpdateRows, FreshInv, claim
  <2>4. ASSUME NEW t \in Scans, Claim(t) \/ Drop(t) PROVE row'[p] >= row[p]
    BY <1>1, <2>4 DEF Claim, Drop
  <2>5. CASE Crash
    BY <1>1, <2>5 DEF Crash
  <2>6. QED
    BY <1>1, <2>1, <2>2, <2>3, <2>4, <2>5, FiveKinds
<1>2. QED
  BY <1>1, ServiceInvariant, PTL DEF Spec, RowsNeverGoBack
=============================================================================
