--------------------------- MODULE CollectorRates ---------------------------
(***************************************************************************)
(* The collector's byte rates (collector/metrics.rs, collector/disk_io.rs).*)
(* Every tick reads the counters of the network interfaces and of the      *)
(* drives and turns what each sum has grown by into a rate.  Interfaces    *)
(* and drives come and go, with counters that begin at nothing, and a      *)
(* reading of the drives may fail, or miss one of them.                    *)
(*                                                                         *)
(* One direction stands for both, and a rate is the amount that it spreads *)
(* over its tick.  The other readings of a tick are values passed on, and  *)
(* energy is in the module Ledger.                                         *)
(***************************************************************************)
EXTENDS Integers, FiniteSets, Functions

CONSTANTS
  Nics,         (* en*, eth*                                                *)
  Tunnels,      (* utun*, ppp*, ...: what they carry, a nic carries as well *)
  Drives,
  MaxBytes,     (* bound: the counters, and the bytes between two ticks     *)
  MaxFaults     (* bound: readings of the drives that fail                  *)

CollectorRatesAssumption ==
  /\ IsFiniteSet(Nics) /\ IsFiniteSet(Drives) /\ Nics \cap Tunnels = {}
  /\ MaxBytes \in Nat \ {0} /\ MaxFaults \in Nat

NoReading == -1

VARIABLES
  carried,       (* the interfaces that exist, and the counter of each      *)
  transferred,   (* the drives that exist, and the counter of each          *)
  prevNet,       (* prev_net_rx, or prev_net_tx                             *)
  prevDisk,      (* previous_read, or previous_write                        *)
  lastTick,      (* whether last_tick is set                                *)
  rates,         (* the amounts of the last snapshot                        *)
  moved,         (* history: the bytes since the last reading               *)
  whole,         (* history: nothing has gone since the last reading        *)
  blind,         (* history: a reading missed a drive                       *)
  collected,     (* history: the last step was a tick                       *)
  faults

machine == <<carried, transferred>>
collector == <<prevNet, prevDisk, lastTick, rates>>
vars == <<machine, collector, moved, whole, blind, collected, faults>>

Kinds == {"net", "disk"}
Nothing == [k \in Kinds |-> 0]

TypeOK ==
  /\ DOMAIN carried \subseteq Nics \cup Tunnels /\ Range(carried) \subseteq 0..MaxBytes
  /\ DOMAIN transferred \subseteq Drives /\ Range(transferred) \subseteq 0..MaxBytes
  /\ prevNet \in Nat /\ prevDisk \in Nat \cup {NoReading} /\ lastTick \in BOOLEAN
  /\ rates \in [Kinds -> Nat] /\ moved \in [Kinds -> 0..MaxBytes]
  /\ whole \in [Kinds -> BOOLEAN] /\ blind \in BOOLEAN /\ collected \in BOOLEAN
  /\ faults \in 0..MaxFaults

(* Mutant: tunnels count.                                                  *)
IsCountableAny(name) == name \in Nics \cup Tunnels

(* is_countable_iface *)
IsCountable(name) == name \in Nics

TotalNetwork(counters) ==
  FoldFunctionOnSet(+, 0, counters, {i \in DOMAIN counters : IsCountable(i)})

ReadTotals(counters, readable) ==
  FoldFunctionOnSet(+, 0, counters, DOMAIN counters \cap readable)

(* Mutant: the subtraction does not saturate.                              *)
CounterDeltaSigned(previous, current) ==
  IF previous # NoReading THEN current - previous ELSE 0

(* saturating_sub, counter_delta *)
CounterDelta(previous, current) ==
  IF previous # NoReading /\ current > previous THEN current - previous ELSE 0

PerSecRate(delta) == IF lastTick THEN delta ELSE 0

(* with_db takes the first totals; the drives may not be readable.         *)
Init ==
  /\ carried \in [Nics \cup Tunnels -> 0..1] /\ transferred \in [Drives -> 0..1]
  /\ prevNet = TotalNetwork(carried)
  /\ prevDisk \in {ReadTotals(transferred, Drives), NoReading}
  /\ lastTick = FALSE /\ rates = Nothing
  /\ moved = Nothing /\ whole = [k \in Kinds |-> FALSE] /\ blind = FALSE
  /\ collected = FALSE /\ faults = 0

-----------------------------------------------------------------------------
Add(counters, S) == [i \in DOMAIN counters |-> IF i \in S THEN counters[i] + 1 ELSE counters[i]]

(* Bytes over a nic, or over a tunnel and the nic that it runs on.         *)
Carry(nic, tunnel) ==
  LET over == {nic} \cup tunnel IN
  /\ over \subseteq DOMAIN carried /\ \A i \in over : carried[i] < MaxBytes
  /\ moved["net"] < MaxBytes
  /\ carried' = Add(carried, over) /\ moved' = [moved EXCEPT !["net"] = @ + 1]
  /\ UNCHANGED <<transferred, collector, whole, blind, faults>> /\ collected' = FALSE

Transfer(d) ==
  /\ d \in DOMAIN transferred /\ transferred[d] < MaxBytes /\ moved["disk"] < MaxBytes
  /\ transferred' = Add(transferred, {d}) /\ moved' = [moved EXCEPT !["disk"] = @ + 1]
  /\ UNCHANGED <<carried, collector, whole, blind, faults>> /\ collected' = FALSE

Attach(i) ==
  /\ \/ /\ i \in (Nics \cup Tunnels) \ DOMAIN carried
        /\ carried' = [j \in DOMAIN carried \cup {i} |-> IF j = i THEN 0 ELSE carried[j]]
        /\ UNCHANGED transferred
     \/ /\ i \in Drives \ DOMAIN transferred
        /\ transferred' = [j \in DOMAIN transferred \cup {i} |-> IF j = i THEN 0 ELSE transferred[j]]
        /\ UNCHANGED carried
  /\ UNCHANGED <<collector, moved, whole, blind, faults>> /\ collected' = FALSE

Detach(i) ==
  /\ \/ /\ i \in DOMAIN carried /\ carried' = Restrict(carried, DOMAIN carried \ {i})
        /\ whole' = [whole EXCEPT !["net"] = FALSE] /\ UNCHANGED transferred
     \/ /\ i \in DOMAIN transferred
        /\ transferred' = Restrict(transferred, DOMAIN transferred \ {i})
        /\ whole' = [whole EXCEPT !["disk"] = FALSE] /\ UNCHANGED carried
  /\ UNCHANGED <<collector, moved, blind, faults>> /\ collected' = FALSE

-----------------------------------------------------------------------------
(* Mutant: a reading that fails forgets the totals before.                 *)
NoDeltaForgets == [delta |-> 0, previous |-> NoReading, read |-> FALSE, complete |-> TRUE]

(* DiskIoSampler.sample_delta: a reading that fails gives nothing, and     *)
(* leaves the totals before in place.                                      *)
NoDelta == [delta |-> 0, previous |-> prevDisk, read |-> FALSE, complete |-> TRUE]

SampleDelta(readable) ==
  LET read == ReadTotals(transferred, readable) IN
  [delta |-> CounterDelta(prevDisk, read), previous |-> read,
   read |-> TRUE, complete |-> DOMAIN transferred \subseteq readable]

(* MetricsCollector::collect *)
Collect(disk) ==
  LET total == TotalNetwork(carried) IN
  /\ rates' = [net |-> PerSecRate(CounterDelta(prevNet, total)), disk |-> PerSecRate(disk.delta)]
  /\ prevNet' = total /\ prevDisk' = disk.previous /\ lastTick' = TRUE
  /\ moved' = [net |-> 0, disk |-> IF disk.read THEN 0 ELSE moved["disk"]]
  /\ whole' = [net |-> TRUE, disk |-> disk.read \/ whole["disk"]]
  /\ blind' = (blind \/ ~disk.complete) /\ collected' = TRUE
  /\ IF disk.read /\ disk.complete THEN UNCHANGED faults
     ELSE faults < MaxFaults /\ faults' = faults + 1
  /\ UNCHANGED machine

Next ==
  \/ \E nic \in Nics, tunnel \in {{}} \cup {{i} : i \in Tunnels} : Carry(nic, tunnel)
  \/ \E d \in Drives : Transfer(d)
  \/ \E i \in Nics \cup Tunnels \cup Drives : Attach(i) \/ Detach(i)
  \/ \E disk \in {NoDelta} \cup {SampleDelta(readable) : readable \in SUBSET Drives} : Collect(disk)

Spec == Init /\ [][Next]_vars

-----------------------------------------------------------------------------
(* A snapshot never shows bytes that no nic and no drive has moved since   *)
(* the reading before, whatever came or went, and what a VPN carries is    *)
(* shown once (metrics.rs:424-501, disk_io.rs:35-47); a drive that one     *)
(* reading misses has all that it ever moved counted in the next.          *)
NothingIsMadeUp ==
  [][collected' =>
       /\ rates'["net"] <= moved["net"]
       /\ ~blind' => rates'["disk"] <= moved["disk"]]_vars

(* And once two readings have been taken it misses none, unless something  *)
(* has gone: what a reading that failed left out is in the next one.       *)
NothingIsMissed ==
  [][collected' /\ lastTick =>
       /\ whole["net"] => rates'["net"] >= moved["net"]
       /\ whole["disk"] /\ moved'["disk"] = 0 /\ ~blind' => rates'["disk"] >= moved["disk"]]_vars
=============================================================================
