--------------------------- MODULE ServiceRestart ---------------------------
(***************************************************************************)
(* Restarting a supervised service from the panel (services/probe.rs,      *)
(* server/services_api.rs, use-services.ts, use-restart-tracking.ts,       *)
(* ServicesView.tsx).  A restart reads the pid of the job from launchd,    *)
(* sends SIGTERM to it and leaves a task behind that kills it after a      *)
(* grace period; launchd starts a new process in its place.  The panel     *)
(* polls the pid, and takes a new one for the end of the restart.          *)
(*                                                                         *)
(* Of a probe the pid is kept, not the state, the port or the usage.       *)
(* Pids are used once, in ascending order.  A job that the control helper  *)
(* stops or starts is one that exits or that launchd starts.               *)
(***************************************************************************)
EXTENDS Integers

CONSTANTS
  MaxPid,       (* bound: processes of the service                          *)
  Polls,        (* bound: the fetches that the panel may have under way     *)
  RestartGrace, (* RESTART_GRACE, in ticks                                  *)
  GiveUp,       (* GIVE_UP_MS, in ticks                                     *)
  MaxClicks,    (* bound: restarts asked for                                *)
  MaxFaults     (* bound: failed commands and fetches, reloads, crashes     *)

ASSUME ServiceRestartAssumption ==
  /\ MaxPid \in Nat
  /\ RestartGrace \in Nat /\ GiveUp \in Nat
  /\ MaxClicks \in Nat /\ MaxFaults \in Nat

VARIABLES
  job,          (* launchd: the pid of the job, or None                     *)
  life,         (* the processes                                            *)
  fetch,        (* the polls under way and the pid that was read for each   *)
  restart,      (* the restart request and the pid that was read for it     *)
  connected,    (* whether the page still waits for the answer to it        *)
  escalators,   (* the tasks in escalate_if_stuck                           *)
  shown,        (* services-store: the pid that the panel shows             *)
  click,        (* handleRestart: the pid it was clicked for, while busy    *)
  pending,      (* useRestartTracking: the restart that was asked for       *)
  signalled,    (* history: the process that was sent SIGTERM for it        *)
  asked,        (* history: ticks since each process was sent SIGTERM       *)
  killed,       (* history: the processes that were sent SIGKILL            *)
  abandoned,    (* history: no task was left for a process with a SIGTERM   *)
  clicks, faults

world == <<job, life>>
remembered == <<pending, signalled>>
panel == <<shown, click, remembered>>
history == <<asked, killed, abandoned>>
vars == <<world, fetch, restart, connected, escalators, panel, history, clicks, faults>>

Pids == 1..MaxPid
None == 0
Never == -1
Alive == {p \in Pids : life[p] \in {"up", "draining"}}

Idle == [at |-> "idle", pid |-> None]
NoRestart == [prevPid |-> None, since |-> 0]

TypeOK ==
  /\ job \in Pids \cup {None}
  /\ life \in [Pids -> {"unborn", "up", "draining", "dead"}]
  /\ fetch \in [Polls -> [at : {"idle", "answer"}, pid : Pids \cup {None}]]
  /\ restart \in [at : {"idle", "signal", "escalate", "answer"}, pid : Pids \cup {None}]
  /\ connected \in BOOLEAN
  /\ escalators \subseteq [pid : Pids, waited : 0..RestartGrace]
  /\ shown \in Pids \cup {None} /\ click \in Pids \cup {None}
  /\ pending \in [prevPid : Pids \cup {None}, since : 0..GiveUp + 1]
  /\ signalled \in Pids \cup {None}
  /\ asked \in [Pids -> {Never} \cup 0..RestartGrace]
  /\ killed \subseteq Pids /\ abandoned \in BOOLEAN
  /\ clicks \in 0..MaxClicks /\ faults \in 0..MaxFaults

Init ==
  /\ job = None /\ life = [p \in Pids |-> "unborn"]
  /\ fetch = [q \in Polls |-> Idle] /\ restart = Idle /\ connected = FALSE /\ escalators = {}
  /\ shown = None /\ click = None /\ pending = NoRestart /\ signalled = None
  /\ asked = [p \in Pids |-> Never] /\ killed = {} /\ abandoned = FALSE
  /\ clicks = 0 /\ faults = 0

Fault == faults < MaxFaults /\ faults' = faults + 1
Fine == UNCHANGED faults

-----------------------------------------------------------------------------
(* launchd keeps the job alive.                                            *)
Spawn ==
  /\ job = None
  /\ \E p \in Pids :
       /\ life[p] = "unborn" /\ \A o \in 1..p - 1 : life[o] # "unborn"
       /\ job' = p /\ life' = [life EXCEPT ![p] = "up"]
  /\ UNCHANGED <<fetch, restart, connected, escalators, panel, history, clicks, faults>>

Die(p) ==
  /\ life' = [life EXCEPT ![p] = "dead"]
  /\ job' = IF job = p THEN None ELSE job

(* A process ends, by itself or at the end of its teardown.                *)
Exit(p) ==
  /\ p \in Alive /\ Die(p)
  /\ UNCHANGED <<fetch, restart, connected, escalators, panel, history, clicks, faults>>

-----------------------------------------------------------------------------
(* launchd_states: one launchctl; when it fails, no job has a pid.         *)
LaunchdSays(pid) ==
  \/ pid = job /\ Fine
  \/ pid = None /\ Fault

(* A tick of the poll, which does not wait for the one before.             *)
Poll(q) ==
  /\ fetch[q] = Idle
  /\ \E pid \in {job, None} :
       LaunchdSays(pid) /\ fetch' = [fetch EXCEPT ![q] = [at |-> "answer", pid |-> pid]]
  /\ UNCHANGED <<world, restart, connected, escalators, panel, history, clicks>>

(* Mutant: the pid of a service is kept as it was first shown.              *)
ApplyFirst(q) ==
  /\ fetch[q].at = "answer"
  /\ shown' = IF shown = None THEN fetch[q].pid ELSE shown
  /\ fetch' = [fetch EXCEPT ![q] = Idle]
  /\ UNCHANGED <<world, restart, connected, escalators, click, remembered, history, clicks, faults>>

(* apply: whichever answer arrives last is shown.                          *)
Apply(q) ==
  /\ fetch[q].at = "answer"
  /\ shown' = fetch[q].pid
  /\ fetch' = [fetch EXCEPT ![q] = Idle]
  /\ UNCHANGED <<world, restart, connected, escalators, click, remembered, history, clicks, faults>>

(* setFetchError: the last list stays.                                     *)
PollFails(q) ==
  /\ Fault
  /\ fetch[q].at = "answer"
  /\ fetch' = [fetch EXCEPT ![q] = Idle]
  /\ UNCHANGED <<world, restart, connected, escalators, panel, history, clicks>>

-----------------------------------------------------------------------------
(* handleRestart: confirmed for a service that is shown with a pid.  The   *)
(* server reads the pid anew; the button is busy until it answers.         *)
Click ==
  /\ clicks < MaxClicks /\ clicks' = clicks + 1
  /\ shown # None /\ click = None /\ restart = Idle
  /\ click' = shown /\ connected' = TRUE
  /\ \E pid \in {job, None} : LaunchdSays(pid) /\ restart' = [at |-> "signal", pid |-> pid]
  /\ UNCHANGED <<world, fetch, escalators, shown, remembered, history>>

(* Mutant: a signal that could not be sent counts as sent.                  *)
SignalUnchecked ==
  /\ restart.at = "signal"
  /\ life' = [p \in Pids |-> IF p = restart.pid /\ p \in Alive THEN "draining" ELSE life[p]]
  /\ asked' = [p \in Pids |-> IF p = restart.pid /\ p \in Alive /\ asked[p] = Never THEN 0
                              ELSE asked[p]]
  /\ restart' = [at |-> "escalate", pid |-> restart.pid]
  /\ UNCHANGED <<job, fetch, connected, escalators, panel, killed, abandoned, clicks, faults>>

(* restart: SIGTERM goes to the pid that was read; without one, or when    *)
(* the process is gone by now, the request is refused.                     *)
Signal ==
  /\ restart.at = "signal"
  /\ \/ /\ restart.pid \in Alive
        /\ life' = [life EXCEPT ![restart.pid] = "draining"]
        /\ asked' = IF asked[restart.pid] # Never THEN asked ELSE [asked EXCEPT ![restart.pid] = 0]
        /\ restart' = [at |-> "escalate", pid |-> restart.pid]
        /\ UNCHANGED click
     \/ /\ restart.pid \notin Alive
        /\ restart' = Idle /\ click' = None
        /\ UNCHANGED <<life, asked>>
  /\ UNCHANGED <<job, fetch, connected, escalators, shown, remembered, killed, abandoned,
                 clicks, faults>>

(* restart_service goes on after the signal only while its client waits:   *)
(* the server drops the handler of a connection that is closed.            *)
Escalate ==
  /\ restart.at = "escalate"
  /\ \/ /\ connected
        /\ escalators' = escalators \cup {[pid |-> restart.pid, waited |-> 0]}
        /\ restart' = [at |-> "answer", pid |-> restart.pid]
        /\ UNCHANGED abandoned
     \/ /\ ~connected
        /\ restart' = Idle /\ abandoned' = TRUE
        /\ UNCHANGED escalators
  /\ UNCHANGED <<world, fetch, connected, panel, asked, killed, clicks, faults>>

(* begin: the answer is ok, and the click is remembered with the pid that  *)
(* was shown when it was made.                                             *)
Begin ==
  /\ restart.at = "answer"
  /\ restart' = Idle
  /\ \/ /\ connected
        /\ click' = None /\ pending' = [prevPid |-> click, since |-> 0]
        /\ signalled' = restart.pid
     \/ ~connected /\ UNCHANGED <<click, remembered>>
  /\ UNCHANGED <<world, fetch, connected, escalators, shown, history, clicks, faults>>

(* escalate_if_stuck finds the process gone...                             *)
SeesDeath(e) ==
  /\ e \in escalators /\ e.pid \notin Alive
  /\ escalators' = escalators \ {e}
  /\ UNCHANGED <<world, fetch, restart, connected, panel, history, clicks, faults>>

(* Mutant: whatever process the job has by now is killed.                   *)
ForceKillJob(e) ==
  /\ e \in escalators /\ e.waited = RestartGrace /\ job \in Alive
  /\ Die(job) /\ killed' = killed \cup {job}
  /\ escalators' = escalators \ {e}
  /\ UNCHANGED <<fetch, restart, connected, panel, asked, abandoned, clicks, faults>>

(* Mutant: the deadline ends the task.                                      *)
ForceKillNobody(e) ==
  /\ e \in escalators /\ e.pid \in Alive /\ e.waited = RestartGrace
  /\ escalators' = escalators \ {e}
  /\ UNCHANGED <<world, fetch, restart, connected, panel, history, clicks, faults>>

(* ... or has waited long enough for it, and kills it.                     *)
ForceKill(e) ==
  /\ e \in escalators /\ e.pid \in Alive /\ e.waited = RestartGrace
  /\ Die(e.pid) /\ killed' = killed \cup {e.pid}
  /\ escalators' = escalators \ {e}
  /\ UNCHANGED <<fetch, restart, connected, panel, asked, abandoned, clicks, faults>>

(* Mutant: a service without a pid counts as restarted.                     *)
OutstandingUntilOtherPid ==
  /\ pending # NoRestart
  /\ shown = pending.prevPid
  /\ pending.since <= GiveUp

(* isOutstanding: no other pid has been seen, and it is not too long ago.  *)
Outstanding ==
  /\ pending # NoRestart
  /\ shown \in {None, pending.prevPid}
  /\ pending.since <= GiveUp

(* The page is closed and opened again: its requests are cut off and its   *)
(* memory is gone.  What runs in a blocking task of the server goes on.    *)
Reload ==
  /\ Fault
  /\ shown' = None /\ click' = None /\ pending' = NoRestart /\ signalled' = None
  /\ connected' = FALSE
  /\ fetch' = [q \in Polls |-> Idle]
  /\ UNCHANGED <<world, restart, escalators, history, clicks>>

(* webtop dies and is started again: its tasks are gone, the page stays.   *)
Crash ==
  /\ Fault
  /\ fetch' = [q \in Polls |-> Idle] /\ restart' = Idle /\ escalators' = {}
  /\ connected' = FALSE /\ click' = None
  /\ abandoned' = (abandoned \/ escalators # {} \/ restart.at = "escalate")
  /\ UNCHANGED <<world, shown, remembered, asked, killed, clicks>>

(* Clocks stop at the value that they are compared with.                   *)
Later(n, max) == IF n < max THEN n + 1 ELSE n

(* Time passes beside everything.                                          *)
Tick ==
  /\ asked' = [p \in Pids |-> IF asked[p] = Never THEN Never ELSE Later(asked[p], RestartGrace)]
  /\ escalators' = {[pid |-> e.pid, waited |-> Later(e.waited, RestartGrace)] : e \in escalators}
  /\ pending' = IF pending = NoRestart THEN NoRestart
                ELSE [prevPid |-> pending.prevPid, since |-> Later(pending.since, GiveUp + 1)]
  /\ UNCHANGED <<world, fetch, restart, connected, shown, click, signalled, killed, abandoned,
                 clicks, faults>>

-----------------------------------------------------------------------------
Polling(q) == Poll(q) \/ Apply(q)
Restarting == Signal \/ Escalate \/ Begin
SeesThrough(e) == SeesDeath(e) \/ ForceKill(e)
Waits == [pid : Pids, waited : 0..RestartGrace]

Next ==
  \/ Spawn \/ (\E p \in Pids : Exit(p))
  \/ Restarting \/ Click
  \/ \E q \in Polls : Polling(q) \/ PollFails(q)
  \/ \E e \in Waits : SeesThrough(e)
  \/ Reload \/ Crash \/ Tick

(* Requests are served, the timer of the poll fires, the escalators are    *)
(* woken and time passes.  No process has to end or to be started.         *)
Spec ==
  /\ Init /\ [][Next]_vars
  /\ WF_vars(Tick) /\ WF_vars(Restarting)
  /\ \A q \in Polls : WF_vars(Polling(q))
  /\ \A e \in Waits : WF_vars(SeesThrough(e))

-----------------------------------------------------------------------------
(* Only a process that was itself sent SIGTERM and has had its grace is    *)
(* killed, whatever exits, clicks and new processes come in between: the   *)
(* one that launchd put in its place is safe (probe.rs:407-412).           *)
OnlyTheStuckAreKilled == \A p \in killed : asked[p] = RestartGrace

(* A process that was sent SIGTERM does not linger "not dying, not         *)
(* restarting" (probe.rs:373-376), unless webtop died, or the page was     *)
(* closed, before it was seen through.                                     *)
StuckProcessesEnd ==
  \A p \in Pids : life[p] = "draining" ~> (life[p] = "dead" \/ abandoned)

(* A restart that no longer waits, and did not give up, has ended the      *)
(* process that was signalled for it, over failed readings, answers that   *)
(* overtake each other and second clicks, unless what the panel shows is   *)
(* that process or one before it (use-restart-tracking.ts:52-56).          *)
DoneMeansEnded ==
  pending # NoRestart /\ pending.since <= GiveUp /\ shown \notin 1..signalled =>
    Outstanding \/ life[signalled] = "dead"

(* A service that settles is shown with the pid it has, whatever answers   *)
(* were lost or overtook each other before (use-services.ts:42-64,         *)
(* services-store.ts:46-58).                                               *)
PanelCatchesUp == \A p \in Pids : <>[](job = p) => <>[](shown = p)
=============================================================================
