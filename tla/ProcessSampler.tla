--------------------------- MODULE ProcessSampler ---------------------------
(***************************************************************************)
(* The list of processes (collector/processes.rs, collector/gpu_procs.rs,  *)
(* server/api.rs).  A request reads how much CPU and GPU time every        *)
(* process has had since it began, and takes the difference to what the    *)
(* request before has read.  Processes begin and end, pids are used again, *)
(* and readings fail in between.                                           *)
(*                                                                         *)
(* A percentage is an amount of work.  The scaling of the GPU shares to    *)
(* the usage of the machine, names, memory and the cut to the busiest are  *)
(* left out.                                                               *)
(***************************************************************************)
EXTENDS Integers, Sequences, SequencesExt, FiniteSets

CONSTANTS
  Pids,
  MaxCpu,       (* bound: the CPU time that a process is given              *)
  MaxGpu,       (* bound: its time on the GPU                               *)
  Window,       (* PROCESS_WINDOW_SECS, in ticks                            *)
  MaxFaults     (* bound: readings that fail                                *)

ProcessSamplerAssumption ==
  MaxCpu \in Nat /\ MaxGpu \in Nat /\ Window \in Nat /\ MaxFaults \in Nat

VARIABLES
  cpuTime,   (* the processes, and the CPU time each has had                *)
  gpuTime,   (* those that use the GPU, and the time they have had on it    *)
  prevCpu,   (* previous_cpu_time                                           *)
  prevGpu,   (* previous_gpu_time_ns                                        *)
  sampled,   (* whether previous_*_sample_at is set                         *)
  kept,      (* ProcessSampler.history: the latest samples of each process  *)
  calm,      (* history: for how long no process of a pid has worked        *)
  answered,  (* history: the last step was an answer                        *)
  done,      (* history: the work of each process since the last sample     *)
  blind,     (* history: a reading of GPU time was not complete             *)
  faults

machine == <<cpuTime, gpuTime>>
sampler == <<prevCpu, prevGpu, sampled, kept>>
vars == <<machine, sampler, calm, answered, done, blind, faults>>

Live == DOMAIN cpuTime
Worked(w) == w.cpu > 0 \/ w.gpu > 0
Nothing == [p \in {} |-> 0]
Idle == [cpu |-> 0, gpu |-> 0, whole |-> FALSE]
Samples == [age : 0..Window, cpu : 0..MaxCpu, gpu : 0..MaxGpu]

TypeOK ==
  /\ Live \subseteq Pids /\ \A p \in Live : cpuTime[p] \in 0..MaxCpu
  /\ DOMAIN gpuTime \subseteq Live /\ \A p \in DOMAIN gpuTime : gpuTime[p] \in 0..MaxGpu
  /\ DOMAIN prevCpu \subseteq Pids /\ DOMAIN prevGpu \subseteq Pids
  /\ sampled \in BOOLEAN
  /\ \A p \in DOMAIN kept : ToSet(kept[p]) \subseteq Samples
  /\ calm \in [Pids -> 0..Window + 1] /\ answered \in BOOLEAN
  /\ done \in [Pids -> [cpu : Nat, gpu : Nat, whole : BOOLEAN]]
  /\ blind \in BOOLEAN /\ faults \in 0..MaxFaults

Init ==
  /\ cpuTime = Nothing /\ gpuTime = Nothing
  /\ prevCpu = Nothing /\ prevGpu = Nothing /\ sampled = FALSE
  /\ kept = Nothing /\ answered = FALSE
  /\ done = [p \in Pids |-> Idle] /\ calm = [p \in Pids |-> 0] /\ blind = FALSE
  /\ faults = 0

Fault == faults < MaxFaults /\ faults' = faults + 1

Without(f, p) == [q \in DOMAIN f \ {p} |-> f[q]]
With(f, p, v) == [q \in DOMAIN f \cup {p} |-> IF q = p THEN v ELSE f[q]]

-----------------------------------------------------------------------------
(* The machine: a process begins, works, closes the GPU, ends.             *)
Start(p) ==
  /\ p \notin Live
  /\ cpuTime' = With(cpuTime, p, 0)
  /\ done' = [done EXCEPT ![p] = Idle]
  /\ UNCHANGED <<gpuTime, sampler, calm, blind, faults>> /\ answered' = FALSE

Compute(p) ==
  /\ p \in Live /\ cpuTime[p] < MaxCpu
  /\ cpuTime' = [cpuTime EXCEPT ![p] = @ + 1]
  /\ done' = [done EXCEPT ![p].cpu = @ + 1]
  /\ UNCHANGED <<gpuTime, sampler, calm, blind, faults>> /\ answered' = FALSE

Render(p) ==
  LET before == IF p \in DOMAIN gpuTime THEN gpuTime[p] ELSE 0 IN
  /\ p \in Live /\ before < MaxGpu /\ done[p].gpu < MaxGpu
  /\ gpuTime' = With(gpuTime, p, before + 1)
  /\ done' = [done EXCEPT ![p].gpu = @ + 1]
  /\ UNCHANGED <<cpuTime, sampler, calm, blind, faults>> /\ answered' = FALSE

CloseGpu(p) ==
  /\ p \in DOMAIN gpuTime
  /\ gpuTime' = Without(gpuTime, p)
  /\ UNCHANGED <<cpuTime, sampler, calm, done, blind, faults>> /\ answered' = FALSE

Exit(p) ==
  /\ p \in Live
  /\ cpuTime' = Without(cpuTime, p) /\ gpuTime' = Without(gpuTime, p)
  /\ done' = [done EXCEPT ![p] = Idle]
  /\ UNCHANGED <<sampler, calm, blind, faults>> /\ answered' = FALSE

-----------------------------------------------------------------------------
(* gpu_procs::sample: the clients that the registry gives.                 *)
ReadGpu(readable) == [p \in DOMAIN gpuTime \cap readable |-> gpuTime[p]]

(* sample_ps: every process, or none.                                      *)
ReadPs(ok) == IF ok THEN cpuTime ELSE Nothing

(* The GPU time since the last reading; who was not in that has all of it  *)
(* counted, and a time that went back counts as none.                      *)
GpuDelta(gpu, p) ==
  LET previous == IF p \in DOMAIN prevGpu THEN prevGpu[p] ELSE 0 IN
  IF sampled /\ p \in DOMAIN gpu /\ gpu[p] > previous THEN gpu[p] - previous ELSE 0

(* The CPU time since the last reading, for who was in that.               *)
CpuDelta(rows, p) ==
  IF sampled /\ p \in DOMAIN prevCpu /\ rows[p] >= prevCpu[p] THEN rows[p] - prevCpu[p] ELSE 0

(* Samples carry how long ago they were taken.                             *)
Older(samples, elapsed) == [i \in DOMAIN samples |-> [samples[i] EXCEPT !.age = @ + elapsed]]

(* From the front, until one is within the window.                         *)
Popped(samples) ==
  SubSeq(samples, Min({i \in DOMAIN samples : samples[i].age <= Window}), Len(samples))

(* The new sample is pushed, those that are too old are popped, and        *)
(* processes that are gone are forgotten.                                  *)
Keep(rows, gpu, elapsed) ==
  [p \in DOMAIN rows |->
     Popped(Append(IF p \in DOMAIN kept THEN Older(kept[p], elapsed) ELSE <<>>,
                   [age |-> 0, cpu |-> CpuDelta(rows, p), gpu |-> GpuDelta(gpu, p)]))]

(* A request: GPU, then ps.                                                *)
Sample(elapsed, readable, ok) ==
  LET gpu == ReadGpu(readable)
      rows == ReadPs(ok)
  IN
  /\ \/ DOMAIN gpuTime \subseteq readable /\ ok /\ UNCHANGED <<blind, faults>>
     \/ ~(DOMAIN gpuTime \subseteq readable) /\ ok /\ Fault /\ blind' = TRUE
     \/ DOMAIN gpuTime \subseteq readable /\ ~ok /\ Fault /\ UNCHANGED blind
  /\ kept' = Keep(rows, gpu, elapsed)
  /\ prevCpu' = rows /\ prevGpu' = gpu /\ sampled' = TRUE /\ answered' = TRUE
  /\ done' = [p \in Pids |-> [cpu |-> 0, gpu |-> 0, whole |-> ok /\ p \in Live]]
  /\ calm' = [p \in Pids |-> IF Worked(done[p]) THEN 0
                             ELSE IF calm[p] + elapsed > Window THEN Window + 1
                             ELSE calm[p] + elapsed]
  /\ UNCHANGED machine

Next ==
  \/ \E p \in Pids :
       Start(p) \/ Compute(p) \/ Render(p) \/ CloseGpu(p) \/ Exit(p)
  \/ \E elapsed \in 1..Window + 1, readable \in SUBSET Pids, ok \in BOOLEAN :
       Sample(elapsed, readable, ok)

Spec == Init /\ [][Next]_vars

-----------------------------------------------------------------------------
(* No process is given work that it has not done since the sample before,  *)
(* whoever had its pid then; of GPU time, unless a reading of it was not   *)
(* complete (processes.rs:61-72, 96-107).                                  *)
NothingIsMadeUp ==
  [][answered' => \A p \in DOMAIN kept' :
       /\ Last(kept'[p]).cpu <= done[p].cpu
       /\ ~blind' => Last(kept'[p]).gpu <= done[p].gpu]_vars

(* And what a process has done since then is not missed if it was there    *)
(* all the time (processes.rs:96-107).                                     *)
NothingIsMissed ==
  [][answered' => \A p \in DOMAIN kept' :
       done[p].whole => Last(kept'[p]).cpu = done[p].cpu]_vars

(* A pid under which nothing has worked for longer than the window is      *)
(* shown idle (processes.rs:117-137).                                      *)
IdleIsShownIdle ==
  \A p \in DOMAIN kept : calm[p] > Window =>
    \A s \in ToSet(kept[p]) : s.cpu = 0 /\ (blind \/ s.gpu = 0)
=============================================================================
