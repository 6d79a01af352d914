----------------------------- MODULE ScanClaim ------------------------------
(***************************************************************************)
(* ScanCoordinator (src/src/server/folder_scan.rs): the claim that keeps   *)
(* folder scans from overlapping, at the grain of its atomic operations.   *)
(*                                                                         *)
(* A scan calls try_claim, walks, perhaps renews the claim (heartbeat) and *)
(* drops its guard.  try_claim is a loop of four atomic accesses: load the *)
(* holder, load the time of its claim, compare-and-swap the holder, store  *)
(* the time of the new claim.  Between any two of them another thread may  *)
(* run.  A claim older than WedgedAfter is presumed wedged and reassigned; *)
(* the thread that lost it may still return, at any later moment or never. *)
(***************************************************************************)
EXTENDS Integers

CONSTANTS
  Scans,        (* the threads that scan: the timer's and the requests'    *)
  Timer,        (* the thread of spawn_periodic, which asks again for ever  *)
  NoScan,       (* no thread                                                *)
  WedgedAfter,  (* WEDGED_AFTER_MS, in ticks of the clock                   *)
  MaxClock      (* bound: the last tick                                     *)

ASSUME ScanClaimAssumption ==
  /\ Timer \in Scans
  /\ NoScan \notin Scans
  /\ WedgedAfter \in Nat \ {0}
  /\ MaxClock \in Nat /\ MaxClock >= WedgedAfter

VARIABLES
  holder,       (* ScanCoordinator.holder: a generation, 0 when idle        *)
  claimedAt,    (* ScanCoordinator.claimed_at_ms                            *)
  clock,        (* what now_ms returns                                      *)
  pc,           (* where each thread is                                     *)
  seen,         (* the holder each thread loaded last                       *)
  now,          (* the time each thread read when it called try_claim       *)
  hung,         (* the threads blocked in the kernel in the middle of a walk *)
  timerGone,    (* whether a panic has ended the timer's thread             *)
  owner,        (* history: the scan that won the claim last                *)
  reassigned    (* history: whether a claim has ever been handed over       *)

atomics == <<holder, claimedAt>>
stops == <<hung, timerGone>>
history == <<owner, reassigned>>
claimVars ==
  <<holder, claimedAt, clock, pc, seen, now, hung, timerGone, owner, reassigned>>

(* Between its compare-and-swap and its Drop a thread holds a ScanGuard.   *)
Section == {"stamp", "walk", "drop"}
Guarded(t) == pc[t] \in Section
Inside == {t \in Scans : Guarded(t)}

(* Mutant: the generation counts down.                                      *)
GenerationCountsDown(t) == seen[t] - 1

(* The generation of t's guard: the holder it saw plus one.                *)
Generation(t) == seen[t] + 1

ClaimTypeOK ==
  /\ holder \in Nat
  /\ claimedAt \in 0..MaxClock
  /\ clock \in 0..MaxClock
  /\ pc \in [Scans -> {"idle", "load", "age", "cas"} \cup Section]
  /\ seen \in [Scans -> Nat]
  /\ now \in [Scans -> 0..MaxClock]
  /\ hung \subseteq Scans /\ timerGone \in BOOLEAN
  /\ owner \in Scans \cup {NoScan}
  /\ reassigned \in BOOLEAN

ClaimInit ==
  /\ holder = 0 /\ claimedAt = 0
  /\ clock = WedgedAfter
  /\ pc = [t \in Scans |-> "idle"]
  /\ seen = [t \in Scans |-> 0]
  /\ now = [t \in Scans |-> 0]
  /\ hung = {} /\ timerGone = FALSE
  /\ owner = NoScan /\ reassigned = FALSE

Goto(t, label) == pc' = [pc EXCEPT ![t] = label]

(* A thread that is done forgets what it read.                             *)
Leave(t) ==
  /\ Goto(t, "idle")
  /\ seen' = [seen EXCEPT ![t] = 0]
  /\ now' = [now EXCEPT ![t] = 0]

-----------------------------------------------------------------------------
(* try_claim: read the time once, then loop.  A panic on the timer's own   *)
(* thread was its last scan.                                               *)
Begin(t) ==
  /\ ~(t = Timer /\ timerGone)
  /\ pc[t] = "idle"
  /\ now' = [now EXCEPT ![t] = clock]
  /\ Goto(t, "load")
  /\ UNCHANGED <<atomics, clock, seen, stops, history>>

LoadHolder(t) ==
  /\ pc[t] = "load"
  /\ seen' = [seen EXCEPT ![t] = holder]
  /\ Goto(t, IF holder = 0 THEN "cas" ELSE "age")
  /\ UNCHANGED <<atomics, clock, now, stops, history>>

(* Load claimed_at_ms; a young claim turns the caller away.                *)
CheckAge(t) ==
  /\ pc[t] = "age"
  /\ \/ /\ now[t] - claimedAt < WedgedAfter
        /\ Leave(t)
     \/ /\ now[t] - claimedAt >= WedgedAfter
        /\ Goto(t, "cas")
        /\ UNCHANGED <<seen, now>>
  /\ UNCHANGED <<atomics, clock, stops, history>>

(* Mutant: a store in place of the compare-and-swap.                        *)
SwapBlindly(t) ==
  /\ pc[t] = "cas"
  /\ holder' = Generation(t)
  /\ Goto(t, "stamp")
  /\ owner' = t
  /\ reassigned' = (reassigned \/ seen[t] # 0)
  /\ UNCHANGED <<claimedAt, clock, seen, now, stops>>

(* Mutant: the failed compare-and-swap is not noticed.                      *)
SwapIgnoresFailure(t) ==
  /\ pc[t] = "cas"
  /\ holder' = IF holder = seen[t] THEN Generation(t) ELSE holder
  /\ Goto(t, "stamp")
  /\ owner' = IF holder = seen[t] THEN t ELSE owner
  /\ reassigned' = (reassigned \/ (holder = seen[t] /\ seen[t] # 0))
  /\ UNCHANGED <<claimedAt, clock, seen, now, stops>>

(* The compare-and-swap of the holder; on failure the decision is retaken. *)
Swap(t) ==
  /\ pc[t] = "cas"
  /\ \/ /\ holder = seen[t]
        /\ holder' = Generation(t)
        /\ Goto(t, "stamp")
        /\ owner' = t
        /\ reassigned' = (reassigned \/ seen[t] # 0)
     \/ /\ holder # seen[t]
        /\ Goto(t, "load")
        /\ UNCHANGED <<holder, history>>
  /\ UNCHANGED <<claimedAt, clock, seen, now, stops>>

(* The separate store of claimed_at_ms.                                    *)
Stamp(t) ==
  /\ pc[t] = "stamp"
  /\ claimedAt' = now[t]
  /\ Goto(t, "walk")
  /\ UNCHANGED <<holder, clock, seen, now, stops, history>>

(* run_full_scan after its walk: renew the claim, whoever holds it by now. *)
Heartbeat(t) ==
  /\ pc[t] = "walk" /\ t \notin hung
  /\ claimedAt' = clock
  /\ Goto(t, "drop")
  /\ UNCHANGED <<holder, clock, seen, now, stops, history>>

(* run_verify, which does not renew; the timer only starts full scans.     *)
EndWalk(t) ==
  /\ t # Timer
  /\ pc[t] = "walk" /\ t \notin hung
  /\ Goto(t, "drop")
  /\ UNCHANGED <<atomics, clock, seen, now, stops, history>>

(* The walk panics.  The guard is dropped while the stack unwinds, and as  *)
(* nobody catches the panic, it ends the loop of the timer's thread.       *)
Panics(t) ==
  /\ pc[t] = "walk" /\ t \notin hung
  /\ Goto(t, "drop")
  /\ timerGone' = (timerGone \/ t = Timer)
  /\ UNCHANGED <<atomics, clock, seen, now, hung, history>>

(* Mutant: the guard remembers the holder it replaced, not its own number.  *)
DropComparesOldHolder(t) ==
  /\ pc[t] = "drop"
  /\ holder' = IF holder = seen[t] THEN 0 ELSE holder
  /\ Leave(t)
  /\ UNCHANGED <<claimedAt, clock, stops, history>>

(* Drop for ScanGuard: the claim is released if it is still this one's.    *)
DropGuard(t) ==
  /\ pc[t] = "drop"
  /\ holder' = IF holder = Generation(t) THEN 0 ELSE holder
  /\ Leave(t)
  /\ UNCHANGED <<claimedAt, clock, stops, history>>

(* A system call of the walk blocks in the kernel, and may come back.      *)
Hang(t) ==
  /\ pc[t] = "walk" /\ t \notin hung
  /\ hung' = hung \cup {t}
  /\ UNCHANGED <<atomics, clock, pc, seen, now, timerGone, history>>

Wake(t) ==
  /\ t \in hung
  /\ hung' = hung \ {t}
  /\ UNCHANGED <<atomics, clock, pc, seen, now, timerGone, history>>

(* Time passes at any pace beside the threads (a laptop may sleep in the   *)
(* middle of a walk).  That the clock may also be set back is left to      *)
(* FolderService.                                                          *)
Tick ==
  /\ clock < MaxClock
  /\ clock' = clock + 1
  /\ UNCHANGED <<atomics, pc, seen, now, stops, history>>

(* The steps of a thread that the scheduler will run: all but the start of *)
(* a scan, which is somebody's request, and what the kernel does to it.    *)
Runs(t) ==
  \/ LoadHolder(t) \/ CheckAge(t) \/ Swap(t) \/ Stamp(t)
  \/ Heartbeat(t) \/ EndWalk(t) \/ DropGuard(t)

ClaimNext ==
  \/ \E t \in Scans : Begin(t) \/ Runs(t) \/ Panics(t) \/ Hang(t) \/ Wake(t)
  \/ Tick

ClaimSpec == ClaimInit /\ [][ClaimNext]_claimVars

-----------------------------------------------------------------------------
(* The claim is held exactly while the scan that won it last still has its *)
(* guard: no path through reassignments and late Drops leaves a claim that *)
(* no thread will ever release (folder_scan.rs:110-122).                   *)
ClaimHasItsGuard ==
  holder # 0 => /\ owner \in Scans
                /\ Guarded(owner)
                /\ holder = Generation(owner)

(* Until a claim has been handed over, two scans are never inside at once, *)
(* and the one inside is the holder (folder_scan.rs:3-5).                  *)
ExclusiveUntilReassigned ==
  ~reassigned => \A t \in Inside : /\ holder = Generation(t)
                                   /\ Inside = {t}

(* And until then the coordinator is the lock of ScanLock, step by step:   *)
(* one scan gets in at a time and only its own Drop frees the claim.       *)
Lock == INSTANCE ScanLock WITH
          owner <- IF holder = 0 THEN NoScan ELSE owner, active <- Inside

IsLockUntilReassigned ==
  Lock!Init /\ [][~reassigned' => [Lock!Next]_(Lock!lockVars)]_claimVars

(* What the comments promise beyond that, and the code does not keep: the  *)
(* late Drop of a scan that lost its claim leaves the current holder alone *)
(* (folder_scan.rs:52-54, 112-114).                                        *)
LateDropLeavesHolderAlone ==
  [][\A t \in Scans : pc[t] = "drop" /\ pc'[t] = "idle" /\ t # owner
                        => holder' = holder]_claimVars
=============================================================================
