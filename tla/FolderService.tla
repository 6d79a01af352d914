--------------------------- MODULE FolderService ----------------------------
(***************************************************************************)
(* What the folder scans do with their claim (folder_scan.rs, folders.rs,  *)
(* folder_api.rs): the periodic loop and the rescan and verify requests    *)
(* start scans; a scan takes the claim, looks at folders one after the     *)
(* other while the disk changes under it, and stores what it found in one  *)
(* transaction before its guard is dropped.                                *)
(*                                                                         *)
(* try_claim and Drop are single steps here; ScanClaim takes them apart.   *)
(* A row stands for the moment its folder was looked at: `epoch' counts    *)
(* the changes of the disk.  Sizes, and the directories that would not     *)
(* open (remember_blocked), are left to FolderWalk.                        *)
(***************************************************************************)
EXTENDS Integers

CONSTANTS
  Scans,        (* the threads that scan: the timer's and the requests'     *)
  Timer,        (* the thread of spawn_periodic                             *)
  Paths,        (* the folders that may show up under the scan root         *)
  WedgedAfter,  (* WEDGED_AFTER_MS, in ticks of the clock                   *)
  Interval,     (* FULL_SCAN_INTERVAL, in ticks of the clock                *)
  MaxClock,     (* bound: the last tick                                     *)
  MaxEpoch,     (* bound: changes of the disk                               *)
  MaxRequests,  (* bound: requests of the user                              *)
  MaxFaults     (* bound: crashes, panics, failed stores, clock set back    *)

ASSUME FolderServiceAssumption ==
  /\ Timer \in Scans
  /\ WedgedAfter \in Nat \ {0} /\ Interval \in Nat \ {0}
  /\ MaxClock \in Nat /\ MaxEpoch \in Nat
  /\ MaxRequests \in Nat /\ MaxFaults \in Nat

VARIABLES
  holder, claimedAt,  (* ScanCoordinator                                    *)
  clock,              (* what now_ms returns                                *)
  stage,              (* where each thread is                               *)
  job,                (* what it scans: the full tree, or a verify          *)
  gen,                (* the generation of its guard, 0 without one         *)
  hung,               (* the threads blocked in the kernel during a walk    *)
  loopEnded,          (* whether a panic has ended the timer's own thread   *)
  got,                (* what each walk has found so far                    *)
  epoch, present,     (* the disk: its changes, and the folders that exist  *)
  row,                (* table folder_sizes                                 *)
  lastScan,           (* meta folder_scan_completed_at                      *)
  began,              (* history: when each thread's walk began             *)
  treeBegan,          (* history: when the walk of the stored tree began    *)
  reassigned,         (* history: whether a claim has ever been handed over *)
  requests, faults    (* counters for the bounds                            *)

Never == -1       (* no such row; no such folder; no scan yet               *)
Unvisited == -2   (* to be looked at by this walk                           *)
Skipped == -3     (* not asked of this walk                                 *)

claim == <<holder, claimedAt, reassigned>>
threads == <<stage, job, gen, got, began>>
stops == <<hung, loopEnded>>
disk == <<epoch, present>>
store == <<row, lastScan, treeBegan>>
counters == <<requests, faults>>
vars == <<claim, clock, threads, stops, disk, store, counters>>

Look == {Never} \cup 0..MaxEpoch

TypeOK ==
  /\ holder \in Nat /\ claimedAt \in 0..MaxClock /\ clock \in 0..MaxClock
  /\ stage \in [Scans -> {"idle", "asked", "walk", "store", "drop"}]
  /\ job \in [Scans -> {"none", "full", "verify"}]
  /\ gen \in [Scans -> Nat]
  /\ hung \subseteq Scans /\ loopEnded \in BOOLEAN
  /\ got \in [Scans -> [Paths -> Look \cup {Unvisited, Skipped}]]
  /\ epoch \in 0..MaxEpoch /\ present \subseteq Paths
  /\ row \in [Paths -> Look] /\ lastScan \in {Never} \cup 0..MaxClock
  /\ began \in [Scans -> 0..MaxEpoch] /\ treeBegan \in Look
  /\ reassigned \in BOOLEAN
  /\ requests \in 0..MaxRequests /\ faults \in 0..MaxFaults

Nothing == [p \in Paths |-> Skipped]

Init ==
  /\ holder = 0 /\ claimedAt = 0
  /\ stage = [t \in Scans |-> "idle"] /\ job = [t \in Scans |-> "none"]
  /\ gen = [t \in Scans |-> 0] /\ hung = {} /\ loopEnded = FALSE
  /\ got = [t \in Scans |-> Nothing] /\ began = [t \in Scans |-> 0]
  /\ clock = 0
  /\ epoch = 0 /\ present = Paths
  /\ row = [p \in Paths |-> Never] /\ lastScan = Never /\ treeBegan = Never
  /\ reassigned = FALSE
  /\ requests = 0 /\ faults = 0

-----------------------------------------------------------------------------
Goto(t, s) == stage' = [stage EXCEPT ![t] = s]

Fault == faults < MaxFaults /\ faults' = faults + 1

(* A thread sets out to scan: it is about to call try_claim.               *)
Ask(t, kind, paths) ==
  /\ Goto(t, "asked")
  /\ job' = [job EXCEPT ![t] = kind]
  /\ got' = [got EXCEPT ![t] = [p \in Paths |->
                                  IF p \in paths THEN Unvisited ELSE Skipped]]

(* A thread is done: it keeps nothing.                                     *)
Leave(t) ==
  /\ Goto(t, "idle")
  /\ job' = [job EXCEPT ![t] = "none"]
  /\ gen' = [gen EXCEPT ![t] = 0]
  /\ got' = [got EXCEPT ![t] = Nothing]
  /\ began' = [began EXCEPT ![t] = 0]

(* time_until_due: nothing scanned yet, or a tree older than the interval; *)
(* a time in the future counts as fresh.                                   *)
Due == lastScan = Never \/ clock - lastScan >= Interval

(* One pass of spawn_periodic's loop that finds the tree due.              *)
TimerFindsDue ==
  /\ ~loopEnded
  /\ stage[Timer] = "idle" /\ Due
  /\ Ask(Timer, "full", Paths)
  /\ UNCHANGED <<claim, clock, gen, stops, began, disk, store, counters>>

Requested(t) ==
  /\ t # Timer /\ stage[t] = "idle"
  /\ requests < MaxRequests /\ requests' = requests + 1

(* rescan_folders: a running scan makes the button a no-op; otherwise a    *)
(* thread is spawned, which has yet to claim.                              *)
Rescan(t) ==
  /\ Requested(t)
  /\ \/ holder = 0 /\ Ask(t, "full", Paths)
     \/ holder # 0 /\ UNCHANGED <<stage, job, got>>
  /\ UNCHANGED <<claim, clock, gen, stops, began, disk, store, faults>>

(* verify_folders with paths that exist when is_within_root looks.         *)
Verify(t) ==
  /\ Requested(t)
  /\ \E paths \in SUBSET present \ {{}} : Ask(t, "verify", paths)
  /\ UNCHANGED <<claim, clock, gen, stops, began, disk, store, faults>>

(* Mutant: no handover, the coordinator as it was before WEDGED_AFTER_MS.   *)
WedgedNever == FALSE

Wedged == clock - claimedAt >= WedgedAfter

(* try_claim finds a young claim; the caller serves the cache.             *)
TurnedAway(t) ==
  /\ stage[t] = "asked"
  /\ holder # 0 /\ ~Wedged
  /\ Leave(t)
  /\ UNCHANGED <<claim, clock, stops, disk, store, counters>>

(* Mutant: run_verify matches the guard with `_', which drops it at once.   *)
ClaimVerifyDropsGuard(t) ==
  /\ stage[t] = "asked"
  /\ holder = 0 \/ Wedged
  /\ holder' = IF job[t] = "verify" THEN 0 ELSE holder + 1
  /\ gen' = [gen EXCEPT ![t] = holder + 1]
  /\ claimedAt' = clock
  /\ reassigned' = (reassigned \/ holder # 0)
  /\ began' = [began EXCEPT ![t] = epoch]
  /\ Goto(t, "walk")
  /\ UNCHANGED <<clock, job, stops, got, disk, store, counters>>

(* try_claim succeeds, over an idle coordinator or a wedged claim, and the *)
(* walk begins.                                                            *)
Claim(t) ==
  /\ stage[t] = "asked"
  /\ holder = 0 \/ Wedged
  /\ holder' = holder + 1
  /\ gen' = [gen EXCEPT ![t] = holder + 1]
  /\ claimedAt' = clock
  /\ reassigned' = (reassigned \/ holder # 0)
  /\ began' = [began EXCEPT ![t] = epoch]
  /\ Goto(t, "walk")
  /\ UNCHANGED <<clock, job, stops, got, disk, store, counters>>

Walking(t) == stage[t] = "walk" /\ t \notin hung

(* The walk reaches a folder.  A full walk records what is there; a verify *)
(* reports the folder it was pointed at, whatever it finds there by now.   *)
Visit(t, p) ==
  /\ Walking(t)
  /\ got[t][p] = Unvisited
  /\ got' = [got EXCEPT ![t][p] =
               IF p \in present \/ job[t] = "verify" THEN epoch ELSE Never]
  /\ UNCHANGED <<claim, clock, stage, job, gen, stops, began, disk, store, counters>>

(* A full walk ends when it has seen everything, and renews the claim,     *)
(* whoever holds it by now.                                                *)
FinishFull(t) ==
  /\ Walking(t) /\ job[t] = "full"
  /\ \A p \in Paths : got[t][p] # Unvisited
  /\ claimedAt' = clock
  /\ Goto(t, "store")
  /\ UNCHANGED <<holder, reassigned, clock, job, gen, stops, got, began, disk, store, counters>>

(* A verify ends with its list or with its budget, and renews nothing; one *)
(* that measured nothing has nothing to store.                             *)
FinishVerify(t) ==
  /\ Walking(t) /\ job[t] = "verify"
  /\ Goto(t, IF \E p \in Paths : got[t][p] >= 0 THEN "store" ELSE "drop")
  /\ UNCHANGED <<claim, clock, job, gen, stops, got, began, disk, store, counters>>

(* The walk panics; the guard is dropped while the thread unwinds.  Nobody *)
(* catches it, so on the timer's own thread it also ends the loop.         *)
Panic(t) ==
  /\ Fault
  /\ Walking(t)
  /\ Goto(t, "drop")
  /\ loopEnded' = (loopEnded \/ t = Timer)
  /\ UNCHANGED <<claim, clock, job, gen, hung, got, began, disk, store, requests>>

(* Mutant: the new tree is laid over the old one, which is not deleted.     *)
ReplaceTreeWithoutDelete(t) ==
  /\ stage[t] = "store" /\ job[t] = "full"
  /\ row' = [p \in Paths |-> IF got[t][p] >= 0 THEN got[t][p] ELSE row[p]]
  /\ lastScan' = clock
  /\ treeBegan' = began[t]
  /\ Goto(t, "drop")
  /\ UNCHANGED <<claim, clock, job, gen, stops, got, began, disk, counters>>

(* Mutant: the transaction does not record when the scan was completed.     *)
ReplaceTreeForgetsTime(t) ==
  /\ stage[t] = "store" /\ job[t] = "full"
  /\ row' = got[t]
  /\ treeBegan' = began[t]
  /\ Goto(t, "drop")
  /\ UNCHANGED <<claim, clock, job, gen, stops, got, began, disk, lastScan, counters>>

(* replace_folder_tree: one transaction deletes the old tree, inserts the  *)
(* new one and records when.                                               *)
ReplaceTree(t) ==
  /\ stage[t] = "store" /\ job[t] = "full"
  /\ row' = got[t]
  /\ lastScan' = clock
  /\ treeBegan' = began[t]
  /\ Goto(t, "drop")
  /\ UNCHANGED <<claim, clock, job, gen, stops, got, began, disk, counters>>

(* Mutant: the paths the budget left out are stored as well.                *)
UpdateRowsStoresUnvisited(t) ==
  /\ stage[t] = "store" /\ job[t] = "verify"
  /\ row' = [p \in Paths |-> IF got[t][p] # Skipped THEN got[t][p] ELSE row[p]]
  /\ Goto(t, "drop")
  /\ UNCHANGED <<claim, clock, job, gen, stops, got, began, disk, lastScan, treeBegan, counters>>

(* update_folder_rows: the measured rows only; the tree's time stays.      *)
UpdateRows(t) ==
  /\ stage[t] = "store" /\ job[t] = "verify"
  /\ row' = [p \in Paths |-> IF got[t][p] >= 0 THEN got[t][p] ELSE row[p]]
  /\ Goto(t, "drop")
  /\ UNCHANGED <<claim, clock, job, gen, stops, got, began, disk, lastScan, treeBegan, counters>>

(* Either transaction may fail: it is logged and the scan ends.            *)
StoreFails(t) ==
  /\ Fault
  /\ stage[t] = "store"
  /\ Goto(t, "drop")
  /\ UNCHANGED <<claim, clock, job, gen, stops, got, began, disk, store, requests>>

(* Drop for ScanGuard, after the store.                                    *)
Drop(t) ==
  /\ stage[t] = "drop"
  /\ holder' = IF holder = gen[t] THEN 0 ELSE holder
  /\ Leave(t)
  /\ UNCHANGED <<claimedAt, reassigned, clock, stops, disk, store, counters>>

(* A system call of the walk blocks in the kernel, and may come back.      *)
Hang(t) ==
  /\ Walking(t)
  /\ hung' = hung \cup {t}
  /\ UNCHANGED <<claim, clock, threads, loopEnded, disk, store, counters>>

Wake(t) ==
  /\ t \in hung
  /\ hung' = hung \ {t}
  /\ UNCHANGED <<claim, clock, threads, loopEnded, disk, store, counters>>

(* The process dies and is started again: the claim and the threads are    *)
(* gone, the database stays.                                               *)
Crash ==
  /\ Fault
  /\ holder' = 0 /\ claimedAt' = 0
  /\ stage' = [t \in Scans |-> "idle"] /\ job' = [t \in Scans |-> "none"]
  /\ gen' = [t \in Scans |-> 0] /\ hung' = {} /\ loopEnded' = FALSE
  /\ got' = [t \in Scans |-> Nothing] /\ began' = [t \in Scans |-> 0]
  /\ UNCHANGED <<clock, reassigned, disk, store, requests>>

(* A folder grows or shrinks, appears, or goes away.                       *)
DiskChanges ==
  /\ epoch < MaxEpoch /\ epoch' = epoch + 1
  /\ \E p \in Paths : present' \in {present, present \cup {p}, present \ {p}}
  /\ UNCHANGED <<claim, clock, threads, stops, store, counters>>

(* Time passes at any pace beside the threads; the clock may be set back.  *)
Tick ==
  /\ clock < MaxClock /\ clock' = clock + 1
  /\ UNCHANGED <<claim, threads, stops, disk, store, counters>>

SetBack ==
  /\ Fault
  /\ clock > 0 /\ clock' = clock - 1
  /\ UNCHANGED <<claim, threads, stops, disk, store, requests>>

(* The steps of a thread that the scheduler will run.                      *)
Runs(t) ==
  \/ TurnedAway(t) \/ Claim(t)
  \/ \E p \in Paths : Visit(t, p)
  \/ FinishFull(t) \/ FinishVerify(t)
  \/ ReplaceTree(t) \/ UpdateRows(t) \/ Drop(t)

Next ==
  \/ TimerFindsDue
  \/ \E t \in Scans : \/ Rescan(t) \/ Verify(t) \/ Runs(t)
                      \/ Panic(t) \/ StoreFails(t) \/ Hang(t) \/ Wake(t)
  \/ Crash \/ DiskChanges \/ Tick \/ SetBack

(* Threads are scheduled and the timer's loop comes back while its thread  *)
(* lives: it sleeps a finite time after every attempt.  Nothing else is    *)
(* fair; a panic leaves the loop disabled until the process is restarted.  *)
Spec ==
  /\ Init /\ [][Next]_vars
  /\ WF_vars(TimerFindsDue)
  /\ \A t \in Scans : WF_vars(Runs(t))

-----------------------------------------------------------------------------
(* Until a claim is handed over, no row is overwritten with an older look  *)
(* at its folder, whichever scans, requests, crashes and changes of the    *)
(* disk interleave (folder_scan.rs:3-5).                                   *)
RowsNeverGoBack ==
  [][~reassigned' => \A p \in Paths :
       row[p] # Never /\ row'[p] # Never => row'[p] >= row[p]]_vars

(* And every row was looked at after the walk of the stored tree began: a  *)
(* full scan leaves nothing behind from before it, and what a verify adds  *)
(* is newer still (folders.rs:60-63, 110-114).                             *)
RowsBelongToTheTree ==
  ~reassigned => \A p \in Paths : row[p] # Never => row[p] >= treeBegan

(* A due tree does not stay due: unless a walk is stuck, or a panic has    *)
(* ended the timer's thread, it is scanned again, whatever requests,       *)
(* crashes and failures came in between (folder_scan.rs:305-354).          *)
DueTreeIsRefreshed ==
  (Due /\ hung = {}) ~> (~Due \/ hung # {} \/ loopEnded)

(* Nor does a wedged scan keep it waiting: a claim past the threshold is   *)
(* released, renewed or handed over (folder_scan.rs:37-46).                *)
Overdue == holder # 0 /\ clock - claimedAt >= WedgedAfter
TimerLives == Timer \notin hung /\ ~loopEnded
WedgeIsNotForever ==
  (Due /\ Overdue /\ TimerLives) ~> (~Due \/ ~Overdue \/ ~TimerLives)
=============================================================================
