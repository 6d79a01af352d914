------------------------------ MODULE Samplers ------------------------------
(***************************************************************************)
(* The three samplers of counters: CollectorRates, Interfaces and          *)
(* ProcessSampler.  They share nothing, neither state nor a lock, so it is *)
(* enough to follow each of them with the other two at rest: a behaviour   *)
(* picks the one that moves.                                               *)
(***************************************************************************)
EXTENDS Integers

CONSTANTS
  Nics, Tunnels, Drives, Ifaces, Busy, Networks, WifiAge, Pids, MaxCpu, MaxGpu, Window,
  MaxBytes, MaxFaults

VARIABLES
  moving,
  carried, transferred, prevNet, prevDisk, lastTick, rates, movedBytes, wholeTick,
  missedDrive, collected, driveFaults,
  counter, joined, prev, wifi, answer, moved, whole, steady, wifiFaults,
  cpuTime, gpuTime, prevCpu, prevGpu, sampled, kept, calm, answered, done, blind, faults

Rates == INSTANCE CollectorRates WITH
  moved <- movedBytes, whole <- wholeTick, blind <- missedDrive, faults <- driveFaults
Net == INSTANCE Interfaces WITH faults <- wifiFaults
Processes == INSTANCE ProcessSampler

ASSUME SamplersAssumption ==
  /\ Rates!CollectorRatesAssumption
  /\ Net!InterfacesAssumption
  /\ Processes!ProcessSamplerAssumption

ratesVars == <<carried, transferred, prevNet, prevDisk, lastTick, rates, movedBytes, wholeTick,
               missedDrive, collected, driveFaults>>
netVars == <<counter, joined, prev, wifi, answer, moved, whole, steady, wifiFaults>>
processVars == <<cpuTime, gpuTime, prevCpu, prevGpu, sampled, kept, calm, answered, done, blind,
                 faults>>
vars == <<moving, ratesVars, netVars, processVars>>

Init ==
  /\ moving \in {"rates", "interfaces", "processes"}
  /\ Rates!Init /\ (moving # "rates" => carried = [i \in Nics \cup Tunnels |-> 0]
                                        /\ transferred = [d \in Drives |-> 0] /\ prevDisk = 0)
  /\ Net!Init /\ (moving # "interfaces" => joined = [i \in Ifaces |-> CHOOSE n \in Networks : TRUE])
  /\ Processes!Init

Next ==
  /\ UNCHANGED moving
  /\ \/ moving = "rates" /\ Rates!Next /\ UNCHANGED <<netVars, processVars>>
     \/ moving = "interfaces" /\ Net!Next /\ UNCHANGED <<ratesVars, processVars>>
     \/ moving = "processes" /\ Processes!Next /\ UNCHANGED <<ratesVars, netVars>>

Spec == Init /\ [][Next]_vars

-----------------------------------------------------------------------------
(* Every variable has its type, in each of the three.                      *)
TypeOK == Rates!TypeOK /\ Net!TypeOK /\ Processes!TypeOK

(* No sampler shows what has not happened since its sample before: bytes   *)
(* counted twice under a VPN, the lifetime of an interface that was        *)
(* plugged in or of a process that began, the work of whoever had the pid  *)
(* (metrics.rs:424-501, net_interfaces.rs:62-90, processes.rs:47-107).     *)
NothingIsMadeUp == Rates!NothingIsMadeUp /\ Net!NothingIsMadeUp /\ Processes!NothingIsMadeUp

(* Nor does it miss any of what moved while it was watched throughout,     *)
(* though readings in between have failed (disk_io.rs:35-47,               *)
(* net_interfaces.rs:62-90, processes.rs:96-112).                          *)
NothingIsMissed == Rates!NothingIsMissed /\ Net!NothingIsMissed /\ Processes!NothingIsMissed

(* What was long ago is forgotten: a pid under which nothing has worked    *)
(* for the window is idle, a Wi-Fi that was left is not shown              *)
(* (processes.rs:117-137, net_interfaces.rs:270-285).                      *)
NothingIsStale == Processes!IdleIsShownIdle /\ Net!WifiIsRecent
=============================================================================
