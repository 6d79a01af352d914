----------------------- MODULE ServiceRestart_proofs ------------------------
(***************************************************************************)
(* For every number of processes, polls, clicks and faults, and whatever   *)
(* the grace and the patience of the panel: only a process that had its    *)
(* SIGTERM and its grace is killed, and a restart that is shown as done    *)
(* has ended the process that was signalled, if a later one is shown.      *)
(***************************************************************************)
EXTENDS ServiceRestart, TLAPS

USE ServiceRestartAssumption DEF Pids, None, Never, Idle, NoRestart

(* launchd runs one process at a time, and starts them in order.           *)
OneAtATime ==
  /\ \A p \in Pids : p \in Alive => job = p
  /\ \A p \in Pids : \A o \in 1..p - 1 : life[p] # "unborn" => life[o] = "dead"

(* Nobody has read, shown or clicked on a pid that was never given out.    *)
Born(p) == p # None => life[p] # "unborn"
PidsAreBorn ==
  /\ Born(job) /\ Born(shown) /\ Born(click) /\ Born(pending.prevPid) /\ Born(restart.pid)
  /\ \A q \in Polls : Born(fetch[q].pid)

(* What was signalled, and what is remembered as signalled, is a process.  *)
SignalsHavePids ==
  /\ restart.at \in {"escalate", "answer"} => restart.pid # None
  /\ pending # NoRestart => signalled # None

(* Who is waited for was signalled, and at least as long ago.              *)
GraceIsGiven ==
  /\ restart.at = "escalate" => restart.pid \in Pids /\ asked[restart.pid] # Never
  /\ \A e \in escalators : asked[e.pid] >= e.waited
  /\ OnlyTheStuckAreKilled

RestartInv == TypeOK /\ OneAtATime /\ PidsAreBorn /\ SignalsHavePids /\ GraceIsGiven

-----------------------------------------------------------------------------
(* The initial state has no process and nobody who knows of one.           *)
LEMMA InitHolds ==
  ASSUME Init
  PROVE  RestartInv
<1> USE DEF Init
<1>1. TypeOK
  <2>1. restart \in [at : {"idle", "signal", "escalate", "answer"}, pid : Pids \cup {None}]
    OBVIOUS
  <2>2. pending \in [prevPid : Pids \cup {None}, since : 0..GiveUp + 1]
    OBVIOUS
  <2>3. fetch \in [Polls -> [at : {"idle", "answer"}, pid : Pids \cup {None}]]
    OBVIOUS
  <2>4. connected \in BOOLEAN /\ abandoned \in BOOLEAN
    OBVIOUS
  <2>5. /\ life \in [Pids -> {"unborn", "up", "draining", "dead"}]
        /\ asked \in [Pids -> {Never} \cup 0..RestartGrace]
    OBVIOUS
  <2>6. escalators \subseteq [pid : Pids, waited : 0..RestartGrace] /\ killed \subseteq Pids
    OBVIOUS
  <2>7. /\ {job, shown, click} \subseteq Pids \cup {None}
        /\ signalled = None /\ clicks \in 0..MaxClicks /\ faults \in 0..MaxFaults
    OBVIOUS
  <2>8. QED
    BY <2>1, <2>2, <2>3, <2>4, <2>5, <2>6, <2>7 DEF TypeOK
<1>2. OneAtATime
  BY DEF OneAtATime, Alive
<1>3. PidsAreBorn /\ SignalsHavePids
  BY DEF PidsAreBorn, Born, SignalsHavePids
<1>4. GraceIsGiven
  BY DEF GraceIsGiven, OnlyTheStuckAreKilled
<1>5. QED
  BY <1>1, <1>2, <1>3, <1>4 DEF RestartInv

(* Every step keeps the variables in their types.                          *)
LEMMA TypeStep ==
  ASSUME TypeOK, GraceIsGiven, [Next]_vars
  PROVE  TypeOK'
<1> USE DEF TypeOK, world, panel, remembered, history, Fault, Fine
<1>1. CASE Spawn
  BY <1>1 DEF Spawn
<1>2. ASSUME NEW p \in Pids, Exit(p) PROVE TypeOK'
  BY <1>2 DEF Exit, Die
<1>3. CASE Click
  BY <1>3 DEF Click, LaunchdSays
<1>4. CASE Signal
  <2>1. CASE restart.pid \in Alive
    <3>1. life' \in [Pids -> {"unborn", "up", "draining", "dead"}]
      BY <1>4, <2>1 DEF Signal, Alive
    <3>2. asked' \in [Pids -> {Never} \cup 0..RestartGrace]
      <4>1. asked' = asked \/ asked' = [asked EXCEPT ![restart.pid] = 0]
        BY <1>4, <2>1 DEF Signal
      <4>2. [asked EXCEPT ![restart.pid] = 0] \in [Pids -> {Never} \cup 0..RestartGrace]
        <5>1. 0 \in {Never} \cup 0..RestartGrace
          OBVIOUS
        <5>2. asked \in [Pids -> {Never} \cup 0..RestartGrace]
          BY DEF TypeOK
        <5>3. QED
          BY <5>1, <5>2, Zenon
      <4>3. QED
        BY <4>1, <4>2
    <3>3. restart' \in [at : {"idle", "signal", "escalate", "answer"}, pid : Pids \cup {None}]
      BY <1>4, <2>1 DEF Signal, Alive
    <3>4. UNCHANGED <<job, fetch, connected, escalators, shown, click, pending, signalled, killed,
                      abandoned, clicks, faults>>
      BY <1>4, <2>1 DEF Signal
    <3>5. QED
      BY <3>1, <3>2, <3>3, <3>4
  <2>2. CASE restart.pid \notin Alive
    BY <1>4, <2>2 DEF Signal
  <2>3. QED
    BY <2>1, <2>2
<1>5. CASE Escalate
  <2>1. restart.pid \in Pids
    BY <1>5 DEF Escalate, GraceIsGiven
  <2>2. escalators' \subseteq [pid : Pids, waited : 0..RestartGrace]
    BY <1>5, <2>1 DEF Escalate
  <2>3. restart' \in [at : {"idle", "signal", "escalate", "answer"}, pid : Pids \cup {None}]
    BY <1>5, <2>1 DEF Escalate
  <2>4. abandoned' \in BOOLEAN
    BY <1>5 DEF Escalate
  <2>5. QED
    BY <1>5, <2>2, <2>3, <2>4 DEF Escalate
<1>6. CASE Begin
  BY <1>6 DEF Begin
<1>7. ASSUME NEW q \in Polls, Poll(q) PROVE TypeOK'
  BY <1>7 DEF Poll, LaunchdSays
<1>8. ASSUME NEW q \in Polls, Apply(q) \/ PollFails(q) PROVE TypeOK'
  <2>1. fetch' \in [Polls -> [at : {"idle", "answer"}, pid : Pids \cup {None}]]
    <3>1. fetch' = [fetch EXCEPT ![q] = Idle]
      BY <1>8 DEF Apply, PollFails
    <3>2. QED
      BY <3>1
  <2>2. shown' \in Pids \cup {None}
    BY <1>8 DEF Apply, PollFails
  <2>3. faults' \in 0..MaxFaults
    BY <1>8 DEF Apply, PollFails
  <2>4. QED
    BY <1>8, <2>1, <2>2, <2>3 DEF Apply, PollFails
<1>9. ASSUME NEW e \in Waits, SeesDeath(e) \/ ForceKill(e) PROVE TypeOK'
  BY <1>9 DEF SeesDeath, ForceKill, Die, Waits
<1>10. CASE Reload
  <2>1. pending' \in [prevPid : Pids \cup {None}, since : 0..GiveUp + 1]
    BY <1>10 DEF Reload
  <2>2. fetch' \in [Polls -> [at : {"idle", "answer"}, pid : Pids \cup {None}]]
    BY <1>10 DEF Reload
  <2>3. connected' \in BOOLEAN /\ abandoned' \in BOOLEAN
    BY <1>10, Zenon DEF Reload
  <2>4. /\ UNCHANGED <<job, life, restart, escalators, asked, killed, clicks>>
        /\ shown' = None /\ click' = None /\ signalled' = None /\ faults' \in 0..MaxFaults
    BY <1>10 DEF Reload
  <2>5. QED
    BY <2>1, <2>2, <2>3, <2>4
<1>11. CASE Crash
  <2>1. abandoned' \in BOOLEAN /\ connected' \in BOOLEAN
    BY <1>11, Zenon DEF Crash
  <2>2. fetch' \in [Polls -> [at : {"idle", "answer"}, pid : Pids \cup {None}]]
    BY <1>11 DEF Crash
  <2>3. restart' \in [at : {"idle", "signal", "escalate", "answer"}, pid : Pids \cup {None}]
    BY <1>11 DEF Crash
  <2>4. /\ UNCHANGED <<job, life, shown, pending, signalled, asked, killed, clicks>>
        /\ escalators' = {} /\ click' = None /\ faults' \in 0..MaxFaults
    BY <1>11 DEF Crash
  <2>5. QED
    BY <2>1, <2>2, <2>3, <2>4
<1>12. CASE Tick
  <2>1. escalators' \subseteq [pid : Pids, waited : 0..RestartGrace]
    BY <1>12 DEF Tick, Later
  <2>2. asked' \in [Pids -> {Never} \cup 0..RestartGrace]
    BY <1>12 DEF Tick, Later
  <2>3. pending' \in [prevPid : Pids \cup {None}, since : 0..GiveUp + 1]
    BY <1>12 DEF Tick, Later
  <2>4. QED
    BY <1>12, <2>1, <2>2, <2>3 DEF Tick
<1>13. CASE UNCHANGED vars
  BY <1>13 DEF vars
<1>14. QED
  BY <1>1, <1>2, <1>3, <1>4, <1>5, <1>6, <1>7, <1>8, <1>9, <1>10,
     <1>11, <1>12, <1>13
     DEF Next, Polling, Restarting, SeesThrough

-----------------------------------------------------------------------------
(* What each kind of step can do to the processes.                         *)
Quiet == UNCHANGED <<job, life>>

LEMMA LifeSteps ==
  ASSUME TypeOK, [Next]_vars
  PROVE  Spawn \/ (\E p \in Alive : Die(p)) \/ Signal \/ Quiet
<1> USE DEF Quiet, world
<1>1. ASSUME NEW p \in Pids, Exit(p) PROVE p \in Alive /\ Die(p)
  BY <1>1 DEF Exit
<1>2. CASE Click \/ Escalate \/ Begin
  BY <1>2 DEF Click, Escalate, Begin
<1>3. ASSUME NEW q \in Polls, Polling(q) \/ PollFails(q) PROVE Quiet
  BY <1>3 DEF Polling, Poll, Apply, PollFails
<1>4. ASSUME NEW e \in Waits, SeesThrough(e) PROVE Quiet \/ \E p \in Alive : Die(p)
  BY <1>4 DEF SeesThrough, SeesDeath, ForceKill
<1>5. CASE Reload \/ Crash \/ Tick
  BY <1>5 DEF Reload, Crash, Tick
<1>6. CASE UNCHANGED vars
  BY <1>6 DEF vars
<1>7. QED
  BY <1>1, <1>2, <1>3, <1>4, <1>5, <1>6 DEF Next, Restarting

(* launchd starts a process only when the one before it has ended.         *)
LEMMA OneAtATimeStep ==
  ASSUME TypeOK, OneAtATime, [Next]_vars
  PROVE  OneAtATime'
<1> USE DEF TypeOK, OneAtATime, Alive
<1>1. CASE Spawn
  <2>1. PICK n \in Pids : /\ life[n] = "unborn" /\ \A o \in 1..n - 1 : life[o] # "unborn"
                         /\ job = None /\ job' = n
                         /\ life' = [life EXCEPT ![n] = "up"]
    BY <1>1 DEF Spawn
  <2>2. \A o \in 1..n - 1 : life[o] = "dead"
    BY <2>1
  <2>3. QED
    BY <2>1, <2>2
<1>2. ASSUME NEW p \in Alive, Die(p) PROVE OneAtATime'
  BY <1>2 DEF Die
<1>3. CASE Signal
  BY <1>3 DEF Signal
<1>4. CASE Quiet
  BY <1>4 DEF Quiet
<1>5. QED
  BY <1>1, <1>2, <1>3, <1>4, LifeSteps

(* A process that was started is never unborn again.                       *)
LEMMA BornForGood ==
  ASSUME TypeOK, [Next]_vars
  PROVE  \A p \in Pids : life[p] # "unborn" => life'[p] # "unborn"
<1> USE DEF TypeOK
<1>1. CASE Spawn
  BY <1>1 DEF Spawn
<1>2. ASSUME NEW p \in Alive, Die(p)
      PROVE  \A o \in Pids : life[o] # "unborn" => life'[o] # "unborn"
  BY <1>2 DEF Die, Alive
<1>3. CASE Signal
  BY <1>3 DEF Signal
<1>4. CASE Quiet
  BY <1>4 DEF Quiet
<1>5. QED
  BY <1>1, <1>2, <1>3, <1>4, LifeSteps

(* Every pid that somebody holds was read from launchd at some time.       *)
LEMMA BornStep ==
  ASSUME TypeOK, TypeOK', OneAtATime, PidsAreBorn, [Next]_vars
  PROVE  PidsAreBorn'
<1> DEFINE Known == {None} \cup {p \in Pids : life[p] # "unborn"}
           Known2 == {None} \cup {p \in Pids : life'[p] # "unborn"}
<1>1. Known \subseteq Known2
  BY BornForGood
<1>2. /\ {job, shown, click, pending.prevPid, restart.pid} \subseteq Known
      /\ \A q \in Polls : fetch[q].pid \in Known
  BY DEF TypeOK, PidsAreBorn, Born
<1>3. SUFFICES /\ {job', shown', click', pending'.prevPid, restart'.pid} \subseteq Known2
               /\ \A q \in Polls : fetch'[q].pid \in Known2
  BY DEF PidsAreBorn, Born
<1> HIDE DEF Known, Known2
<1>4. None \in Known
  BY DEF Known
<1>5. job' \in Known2
  <2>1. CASE Spawn
    BY <2>1 DEF Spawn, Known2, TypeOK
  <2>2. ASSUME NEW p \in Alive, Die(p) PROVE job' \in Known2
    BY <2>2, <1>1, <1>2, <1>4 DEF Die
  <2>3. CASE Signal
    BY <2>3, <1>1, <1>2 DEF Signal
  <2>4. CASE Quiet
    BY <2>4, <1>1, <1>2 DEF Quiet
  <2>5. QED
    BY <2>1, <2>2, <2>3, <2>4, LifeSteps
<1>6. /\ {shown', click', pending'.prevPid, restart'.pid} \subseteq Known
      /\ \A q \in Polls : fetch'[q].pid \in Known
  <2> USE DEF world, panel, remembered, history
  <2>1. CASE Spawn \/ \E p \in Pids : Exit(p)
    BY <2>1, <1>2 DEF Spawn, Exit
  <2>2. CASE Click
    BY <2>2, <1>2, <1>4 DEF Click, LaunchdSays
  <2>3. CASE Signal
    BY <2>3, <1>2, <1>4 DEF Signal
  <2>4. CASE Escalate
    BY <2>4, <1>2, <1>4 DEF Escalate
  <2>5. CASE Begin
    BY <2>5, <1>2, <1>4 DEF Begin
  <2>6. ASSUME NEW q \in Polls, Polling(q) \/ PollFails(q)
        PROVE  /\ {shown', click', pending'.prevPid, restart'.pid} \subseteq Known
               /\ \A r \in Polls : fetch'[r].pid \in Known
    <3>1. /\ \E f : fetch' = [fetch EXCEPT ![q] = f] /\ f.pid \in Known
          /\ shown' \in Known
      BY <2>6, <1>2, <1>4 DEF Polling, Poll, Apply, PollFails, LaunchdSays
    <3>2. UNCHANGED <<click, pending, restart>>
      BY <2>6 DEF Polling, Poll, Apply, PollFails
    <3>3. QED
      BY <3>1, <3>2, <1>2 DEF TypeOK
  <2>7. ASSUME NEW e \in Waits, SeesThrough(e)
        PROVE  UNCHANGED <<shown, click, pending, restart, fetch>>
    BY <2>7 DEF SeesThrough, SeesDeath, ForceKill
  <2>8. CASE Reload \/ Crash
    BY <2>8, <1>2, <1>4 DEF Reload, Crash
  <2>9. CASE Tick
    BY <2>9, <1>2, <1>4 DEF Tick
  <2>10. CASE UNCHANGED vars
    BY <2>10, <1>2 DEF vars
  <2>11. QED
    BY <2>1, <2>2, <2>3, <2>4, <2>5, <2>6, <2>7, <2>8, <2>9, <2>10, <1>2 DEF Next, Restarting
<1>7. QED
  BY <1>1, <1>5, <1>6

(* Only a live process is signalled, and it stays the one that was.        *)
LEMMA SignalsStep ==
  ASSUME TypeOK, SignalsHavePids, [Next]_vars
  PROVE  SignalsHavePids'
<1> USE DEF TypeOK, SignalsHavePids, world, panel, remembered, history
<1>1. CASE Spawn \/ \E p \in Pids : Exit(p)
  BY <1>1 DEF Spawn, Exit
<1>2. CASE Click
  BY <1>2 DEF Click
<1>3. CASE Signal
  BY <1>3 DEF Signal, Alive
<1>4. CASE Escalate
  BY <1>4 DEF Escalate
<1>5. CASE Begin
  BY <1>5 DEF Begin
<1>6. ASSUME NEW q \in Polls, Polling(q) \/ PollFails(q)
      PROVE  UNCHANGED <<restart, remembered>>
  BY <1>6 DEF Polling, Poll, Apply, PollFails
<1>7. ASSUME NEW e \in Waits, SeesThrough(e)
      PROVE  UNCHANGED <<restart, remembered>>
  BY <1>7 DEF SeesThrough, SeesDeath, ForceKill
<1>8. CASE Reload \/ Crash
  BY <1>8 DEF Reload, Crash
<1>9. CASE Tick
  BY <1>9 DEF Tick
<1>10. CASE UNCHANGED vars
  BY <1>10 DEF vars
<1>11. QED
  BY <1>1, <1>2, <1>3, <1>4, <1>5, <1>6, <1>7, <1>8, <1>9, <1>10 DEF Next, Restarting

(* Signals and clocks only go forward, and who is killed is one who was    *)
(* waited for.                                                             *)
LEMMA GraceStep ==
  ASSUME TypeOK, TypeOK', GraceIsGiven, [Next]_vars
  PROVE  GraceIsGiven'
<1> USE DEF TypeOK, GraceIsGiven, OnlyTheStuckAreKilled, world, panel, remembered, history
<1>1. CASE Spawn \/ \E p \in Pids : Exit(p)
  BY <1>1 DEF Spawn, Exit
<1>2. CASE Click
  BY <1>2 DEF Click
<1>3. CASE Signal
  <2>1. CASE restart.pid \in Alive
    <3>1. \A p \in Pids : asked'[p] = asked[p] \/ (asked[p] = Never /\ asked'[p] = 0)
      BY <1>3, <2>1 DEF Signal
    <3>2. restart.pid \in Pids /\ asked'[restart.pid] # Never
      BY <1>3, <2>1 DEF Signal, Alive
    <3>3. UNCHANGED <<escalators, killed>> /\ restart'.pid = restart.pid
      BY <1>3, <2>1 DEF Signal
    <3>4. \A e \in escalators : e.pid \in Pids /\ asked[e.pid] # Never /\ asked[e.pid] >= e.waited
      OBVIOUS
    <3>5. \A e \in escalators' : asked'[e.pid] >= e.waited
      BY <3>1, <3>3, <3>4
    <3>6. \A p \in killed' : asked'[p] = RestartGrace
      BY <3>1, <3>3
    <3>7. QED
      BY <3>2, <3>3, <3>5, <3>6
  <2>2. CASE restart.pid \notin Alive
    BY <1>3, <2>2 DEF Signal
  <2>3. QED
    BY <2>1, <2>2
<1>4. CASE Escalate
  BY <1>4 DEF Escalate
<1>5. CASE Begin
  BY <1>5 DEF Begin
<1>6. ASSUME NEW q \in Polls, Polling(q) \/ PollFails(q)
      PROVE  UNCHANGED <<restart, escalators, asked, killed>>
  BY <1>6 DEF Polling, Poll, Apply, PollFails
<1>7. ASSUME NEW e \in Waits, SeesDeath(e) PROVE GraceIsGiven'
  BY <1>7 DEF SeesDeath
<1>8. ASSUME NEW e \in Waits, ForceKill(e) PROVE GraceIsGiven'
  <2>1. asked[e.pid] = RestartGrace
    BY <1>8 DEF ForceKill, Waits
  <2>2. QED
    BY <1>8, <2>1 DEF ForceKill
<1>9. CASE Reload \/ Crash
  BY <1>9 DEF Reload, Crash
<1>10. CASE Tick
  <2>1. \A p \in Pids : asked[p] # Never => asked'[p] = Later(asked[p], RestartGrace)
    BY <1>10 DEF Tick
  <2>2. \A p \in Pids : asked[p] = Never => asked'[p] = Never
    BY <1>10 DEF Tick
  <2>3. ASSUME NEW e \in escalators'
        PROVE  asked'[e.pid] >= e.waited
    <3>1. PICK d \in escalators : e = [pid |-> d.pid, waited |-> Later(d.waited, RestartGrace)]
      BY <1>10 DEF Tick
    <3>2. asked[d.pid] >= d.waited /\ d.pid \in Pids /\ d.waited \in 0..RestartGrace
      OBVIOUS
    <3>3. asked'[d.pid] = Later(asked[d.pid], RestartGrace)
      BY <2>1, <3>2
    <3>4. QED
      BY <3>1, <3>2, <3>3 DEF Later
  <2>4. \A p \in killed' : asked'[p] = RestartGrace
    BY <1>10, <2>1 DEF Tick, Later
  <2>5. restart'.at = "escalate" => restart'.pid \in Pids /\ asked'[restart'.pid] # Never
    BY <1>10, <2>1 DEF Tick, Later
  <2>6. QED
    BY <2>3, <2>4, <2>5
<1>11. CASE UNCHANGED vars
  BY <1>11 DEF vars
<1>12. QED
  BY <1>1, <1>2, <1>3, <1>4, <1>5, <1>6, <1>7, <1>8, <1>9, <1>10, <1>11
     DEF Next, Restarting, SeesThrough

-----------------------------------------------------------------------------
(* The conjunction is an invariant of the specification.                   *)
LEMMA RestartInvHolds == Spec => []RestartInv
<1>1. RestartInv /\ [Next]_vars => RestartInv'
  BY TypeStep, OneAtATimeStep, BornStep, SignalsStep, GraceStep DEF RestartInv
<1>2. QED
  BY <1>1, InitHolds, PTL DEF Spec

(* The variables of launchd, the server and the panel keep their types,    *)
(* so that nothing without a pid is ever waited for (probe.rs:345-348).    *)
THEOREM TypeCorrect == Spec => []TypeOK
<1>1. RestartInv => TypeOK
  BY DEF RestartInv
<1>2. QED
  BY <1>1, RestartInvHolds, PTL

(* No process is killed that was not sent SIGTERM and given its grace,     *)
(* however restarts overlap and processes come and go (probe.rs:407-427).  *)
THEOREM KillsAreEarned == Spec => []OnlyTheStuckAreKilled
<1>1. RestartInv => OnlyTheStuckAreKilled
  BY DEF RestartInv, GraceIsGiven
<1>2. QED
  BY <1>1, RestartInvHolds, PTL

(* A restart that the panel shows as done, by a process later than the one *)
(* that was signalled, has ended that one: pids are given out in order,    *)
(* one at a time, so the sight of a later one is proof                     *)
(* (use-restart-tracking.ts:52-56).                                        *)
THEOREM NewPidProvesEnd == Spec => []DoneMeansEnded
<1>1. ASSUME RestartInv PROVE DoneMeansEnded
  <2>1. SUFFICES ASSUME pending # NoRestart, pending.since <= GiveUp,
                        shown \notin 1..signalled, ~Outstanding
                 PROVE  life[signalled] = "dead"
    BY DEF DoneMeansEnded
  <2>2. signalled \in Pids /\ shown \in Pids
    BY <1>1, <2>1 DEF RestartInv, SignalsHavePids, TypeOK, Outstanding
  <2>3. signalled \in 1..shown - 1 /\ life[shown] # "unborn"
    BY <1>1, <2>1, <2>2 DEF RestartInv, PidsAreBorn, Born
  <2>4. QED
    BY <1>1, <2>2, <2>3 DEF RestartInv, OneAtATime
<1>2. QED
  BY <1>1, RestartInvHolds, PTL
=============================================================================
