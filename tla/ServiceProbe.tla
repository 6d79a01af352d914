---------------------------- MODULE ServiceProbe ----------------------------
(***************************************************************************)
(* What the services panel is told (services/mod.rs, services/manifest.rs, *)
(* services/probe.rs, server/services_api.rs, server/control_api.rs).  An  *)
(* answer joins four readings that are taken one after the other: the      *)
(* manifest, which is cached by modification time, launchd, ps, and a      *)
(* connection to the port of each service.  The stack edits the manifest,  *)
(* the control helper and launchd start and stop services, and processes   *)
(* fork and exit in between.                                               *)
(*                                                                         *)
(* A process owns one unit of memory.  Pids are used once.  Something that *)
(* launchd knows nothing of may take a port.  Names, labels and groups are *)
(* left out.                                                               *)
(***************************************************************************)
EXTENDS Integers, FiniteSets

CONSTANTS
  Services,     (* the services the stack may declare                       *)
  Declarable,   (* the sets of them that it may declare                      *)
  Ported,       (* those of them that declare a port                        *)
  MaxPid,       (* bound: processes                                         *)
  StartupGrace, (* STARTUP_GRACE_SEC, in ticks                              *)
  MaxEdits,     (* bound: edits of the manifest                             *)
  MaxControls,  (* bound: requests to the control helper                    *)
  MaxFaults     (* bound: commands that fail, tasks that panic, outsiders   *)

ASSUME ServiceProbeAssumption ==
  /\ Declarable \subseteq SUBSET Services /\ Ported \subseteq Services
  /\ MaxPid \in Nat /\ StartupGrace \in Nat
  /\ MaxEdits \in Nat /\ MaxControls \in Nat /\ MaxFaults \in Nat

VARIABLES
  file,      (* the manifest: its modification time and what is in it       *)
  cache,     (* ManifestSource.cache                                        *)
  poll,      (* get_services: how far it is, and what load has found        *)
  since,     (* history: what the file would have given since it began      *)
  job,       (* launchd: the pid of each job, None, or Gone                 *)
  parent,    (* the live processes, and their parents                       *)
  age,       (* how long each process has been up                           *)
  listening, (* the services that listen on their port                      *)
  outsiders, (* those whose port something else has taken                   *)
  entry,     (* launchd_states, as read for the poll under way              *)
  table,     (* proc_table: parents and ages, as read for it                *)
  told,      (* the statuses of the services that it has gone through, and, *)
             (* as history, their true states at that moment                *)
  steady,    (* history: the jobs that stayed as launchd_states read them   *)
  edits, controls, faults

world == <<job, parent, age, listening, outsiders>>
manifest == <<file, edits>>
probe == <<entry, table, told>>
vars == <<manifest, cache, poll, since, world, probe, steady, controls, faults>>

Pids == 1..MaxPid
None == 0           (* registered, not running; the parent of launchd's jobs *)
Gone == -1          (* not registered                                       *)
Never == -1         (* not born                                             *)
Alive == DOMAIN parent
Verbs == {"start", "stop", "restart", "enable", "disable"}

Contents == [kind : {"missing", "malformed"}, services : {{}}]
              \cup [kind : {"schema 1"}, services : Declarable]
Failed == [ok |-> FALSE, services |-> {}]
Results == {Failed} \cup [ok : {TRUE}, services : SUBSET Services]

(* parse: no schema, another schema and bad JSON are all errors.           *)
Parse(content) ==
  IF content.kind = "schema 1" THEN [ok |-> TRUE, services |-> content.services] ELSE Failed

States == {"running", "starting", "unhealthy", "down", "unregistered", "rogue"}
NoEntries == [s \in Services |-> Gone]
NoTable == [p \in {} |-> [parent |-> None, age |-> 0]]
NoStatus == [s \in {} |-> 0]
Idle == [at |-> "idle", stamp |-> 0, result |-> Failed]

TypeOK ==
  /\ file \in [stamp : 0..MaxEdits, content : Contents]
  /\ cache \in [stamp : -1..MaxEdits, result : Results]
  /\ poll \in [at : {"idle", "stat", "cache", "read", "store", "launchd", "ps", "ports", "error"},
               stamp : 0..MaxEdits, result : Results]
  /\ since \subseteq Results
  /\ job \in [Services -> Pids \cup {None, Gone}]
  /\ Alive \subseteq Pids /\ \A p \in Alive : parent[p] \in {None} \cup Alive
  /\ age \in [Pids -> Never..StartupGrace]
  /\ listening \subseteq Ported /\ outsiders \subseteq Ported \ listening
  /\ entry \in [Services -> Pids \cup {None, Gone}]
  /\ DOMAIN table \subseteq Pids
  /\ \A s \in DOMAIN told : told[s].state \in States /\ told[s].tree \subseteq Pids
  /\ steady \subseteq Services
  /\ edits \in 0..MaxEdits /\ controls \in 0..MaxControls /\ faults \in 0..MaxFaults

Init ==
  /\ file \in [stamp : {0}, content : Contents]
  /\ cache = [stamp |-> -1, result |-> Failed]
  /\ poll = Idle /\ since = {}
  /\ job = [s \in Services |-> None] /\ parent = [p \in {} |-> None]
  /\ age = [p \in Pids |-> Never] /\ listening = {} /\ outsiders = {}
  /\ entry = NoEntries /\ table = NoTable /\ told = NoStatus /\ steady = {}
  /\ edits = 0 /\ controls = 0 /\ faults = 0

Fault == faults < MaxFaults /\ faults' = faults + 1
Fine == UNCHANGED faults

-----------------------------------------------------------------------------
(* The stack writes its manifest, or links another file into its place.    *)
Edit(content) ==
  /\ edits < MaxEdits /\ edits' = edits + 1
  /\ file' = [stamp |-> edits', content |-> content]
  /\ since' = IF poll = Idle THEN {} ELSE since \cup {Parse(content)}
  /\ UNCHANGED <<cache, poll, world, probe, steady, controls, faults>>

(* The path of an answer: the parsed manifest, or an error, goes on.       *)
Goes(at, result) ==
  /\ poll' = [poll EXCEPT !.at = at, !.result = result]
  /\ UNCHANGED <<manifest, since, world, probe, steady, controls, faults>>
Found(result) ==
  /\ poll' = [at |-> IF result.ok THEN "launchd" ELSE "error", stamp |-> 0, result |-> result]
  /\ UNCHANGED <<manifest, since, world, probe, steady, controls, faults>>

(* load: the modification time is taken first; a missing file is an error. *)
Stat ==
  /\ poll.at = "stat"
  /\ \/ file.content.kind = "missing" /\ Found(Failed)
     \/ /\ file.content.kind # "missing"
        /\ poll' = [at |-> "cache", stamp |-> file.stamp, result |-> Failed]
        /\ UNCHANGED <<manifest, since, world, probe, steady, controls, faults>>
  /\ UNCHANGED cache

LookUp ==
  /\ poll.at = "cache"
  /\ \/ cache.stamp = poll.stamp /\ Found(cache.result)
     \/ cache.stamp # poll.stamp /\ Goes("read", Failed)
  /\ UNCHANGED cache

(* manifest::load: an error is returned and not remembered.                *)
Read ==
  LET result == Parse(file.content) IN
  /\ poll.at = "read"
  /\ \/ result.ok /\ Goes("store", result)
     \/ ~result.ok /\ Found(result)
  /\ UNCHANGED cache

(* Mutant: the modification time is taken after the file was read.         *)
StoreLaterStamp ==
  /\ poll.at = "store"
  /\ cache' = [stamp |-> file.stamp, result |-> poll.result]
  /\ Found(poll.result)

Store ==
  /\ poll.at = "store"
  /\ cache' = [stamp |-> poll.stamp, result |-> poll.result]
  /\ Found(poll.result)

(* The same in one step, for the request that controls a service.          *)
LoadAtOnce ==
  IF file.content.kind # "missing" /\ cache.stamp = file.stamp THEN cache.result
  ELSE Parse(file.content)

CacheAfter ==
  IF LoadAtOnce.ok THEN [stamp |-> file.stamp, result |-> LoadAtOnce] ELSE cache

-----------------------------------------------------------------------------
(* The machine.  A job that is registered is started by launchd; a process *)
(* may fork; when it exits its children are launchd's.                     *)
NextPid == {p \in Pids : age[p] = Never /\ \A o \in 1..p - 1 : age[o] # Never}

Outside == <<manifest, cache, poll, since, probe, controls, faults, outsiders>>

Births(p, under) ==
  /\ parent' = [q \in Alive \cup {p} |-> IF q = p THEN under ELSE parent[q]]
  /\ age' = [age EXCEPT ![p] = 0]

Spawn(s) ==
  /\ job[s] = None
  /\ \E p \in NextPid : Births(p, None) /\ job' = [job EXCEPT ![s] = p]
  /\ steady' = steady \ {s}
  /\ UNCHANGED <<Outside, listening>>

Fork(p) ==
  /\ p \in Alive
  /\ \E q \in NextPid : Births(q, p)
  /\ UNCHANGED <<Outside, job, listening, steady>>

Bind(s) ==
  /\ s \in Ported \ outsiders /\ job[s] \in Pids
  /\ listening' = listening \cup {s}
  /\ UNCHANGED <<Outside, job, parent, age, steady>>

Occupy(s) ==
  /\ s \in Ported \ listening /\ s \notin outsiders /\ Fault
  /\ outsiders' = outsiders \cup {s}
  /\ UNCHANGED <<manifest, cache, poll, since, probe, controls,
                 job, parent, age, listening, steady>>

Vacate(s) ==
  /\ s \in outsiders /\ outsiders' = outsiders \ {s}
  /\ UNCHANGED <<manifest, cache, poll, since, probe, controls, faults,
                 job, parent, age, listening, steady>>

Ends(p) ==
  parent' = [q \in Alive \ {p} |-> IF parent[q] = p THEN None ELSE parent[q]]

(* A process ends; with the root of a service its port is closed.          *)
Exit(p) ==
  LET rooted == {s \in Services : job[s] = p} IN
  /\ p \in Alive /\ Ends(p)
  /\ job' = [s \in Services |-> IF s \in rooted THEN None ELSE job[s]]
  /\ listening' = listening \ rooted /\ steady' = steady \ rooted
  /\ UNCHANGED <<Outside, age>>

Tick ==
  /\ age' = [p \in Pids |-> IF p \in Alive /\ age[p] < StartupGrace THEN age[p] + 1 ELSE age[p]]
  /\ steady' = {s \in steady : job[s] \in Pids => age[job[s]] = age'[job[s]]}
  /\ UNCHANGED <<Outside, job, parent, listening>>

-----------------------------------------------------------------------------
(* get_services.                                                           *)
Poll ==
  /\ poll = Idle
  /\ poll' = [Idle EXCEPT !.at = "stat"] /\ since' = {Parse(file.content)}
  /\ UNCHANGED <<manifest, cache, world, probe, steady, controls, faults>>

At(stage) == poll' = [poll EXCEPT !.at = stage]

(* launchd_states: one launchctl; when it fails, nothing is registered.    *)
ReadLaunchd ==
  /\ poll.at = "launchd" /\ At("ps")
  /\ \/ entry' = job /\ steady' = Services /\ Fine
     \/ entry' = NoEntries /\ steady' = {} /\ Fault
  /\ UNCHANGED <<manifest, cache, since, world, table, told, controls>>

(* proc_table: one ps; when it fails, it lists nothing.                    *)
ReadPs ==
  /\ poll.at = "ps" /\ At("ports")
  /\ \/ /\ table' = [p \in Alive |-> [parent |-> parent[p], age |-> age[p]]]
        /\ Fine /\ UNCHANGED steady
     \/ table' = NoTable /\ steady' = {} /\ Fault
  /\ UNCHANGED <<manifest, cache, since, world, entry, told, controls>>

(* tree_usage: the root, listed or not, and all that descends from it.     *)
Tree(root) ==
  LET within[n \in Nat] ==
        IF n = 0 THEN {root}
        ELSE within[n - 1] \cup {p \in DOMAIN table : table[p].parent \in within[n - 1]}
  IN  within[Cardinality(DOMAIN table)]

(* Mutants: the youngest of the tree counts; what ps does not list is old. *)
UptimeOfYoungest(root) ==
  IF root \in DOMAIN table
  THEN CHOOSE a \in 0..StartupGrace : /\ \E p \in Tree(root) : table[p].age = a
                                     /\ \A p \in Tree(root) : a <= table[p].age
  ELSE 0
UptimeOrOld(root) == IF root \in DOMAIN table THEN table[root].age ELSE StartupGrace

Uptime(root) == IF root \in DOMAIN table THEN table[root].age ELSE 0

(* port_open: whoever listens.                                             *)
PortOpen(s) == s \in listening \cup outsiders

(* The state of a service from the three readings (probe_all).              *)
StateOf(s, pid, uptime, open) ==
  CASE pid = Gone /\ open -> "rogue"
    [] pid = Gone /\ ~open -> "unregistered"
    [] pid = None -> "down"
    [] pid \in Pids /\ (s \notin Ported \/ open) -> "running"
    [] pid \in Pids /\ s \in Ported /\ ~open /\ uptime < StartupGrace -> "starting"
    [] OTHER -> "unhealthy"

(* What the service is at this moment.                                     *)
Truth(s) ==
  StateOf(s, job[s], IF job[s] \in Pids THEN age[job[s]] ELSE 0, PortOpen(s))

(* Mutant: 0 is taken for a pid.                                           *)
PidOfUnfiltered(s) == IF entry[s] # Gone THEN {entry[s]} ELSE {}

(* The pid that launchd gave; 0 stands for a job without a process.        *)
PidOf(s) == IF entry[s] \in Pids THEN {entry[s]} ELSE {}

(* The port is tried where launchd gave a pid.                             *)
Open(s) == PidOf(s) # {} /\ PortOpen(s)

(* probe_all goes through the services.                                    *)
TryPort(s) ==
  LET uptime == IF PidOf(s) = {} THEN 0 ELSE Uptime(entry[s])
      status == [state |-> StateOf(s, entry[s], uptime, Open(s)), truth |-> Truth(s),
                 pid |-> entry[s], tree |-> UNION {Tree(p) : p \in PidOf(s)}]
  IN
  /\ poll.at = "ports" /\ s \in poll.result.services \ DOMAIN told
  /\ told' = [t \in DOMAIN told \cup {s} |-> IF t = s THEN status ELSE told[t]]
  /\ UNCHANGED <<manifest, cache, poll, since, world, entry, table, steady,
                 controls, faults>>

Forget ==
  /\ poll' = Idle /\ since' = {}
  /\ entry' = NoEntries /\ table' = NoTable /\ told' = NoStatus /\ steady' = {}

(* The answer arrives: the services with their statuses, or the error.     *)
Answer ==
  /\ \/ poll.at = "error"
     \/ poll.at = "ports" /\ poll.result.services \subseteq DOMAIN told
  /\ Forget
  /\ UNCHANGED <<manifest, cache, world, controls, faults>>

(* The blocking task panics: an error without services.                    *)
Panic ==
  /\ poll # Idle /\ Fault
  /\ Forget
  /\ UNCHANGED <<manifest, cache, world, controls>>

-----------------------------------------------------------------------------
(* What the helper makes of a verb.  Enabling and disabling decide what    *)
(* launchd does at the next boot.                                          *)
Helper(s, verb) ==
  LET rooted == job[s] \in Pids IN
  /\ job' = CASE verb = "start" /\ job[s] = Gone -> [job EXCEPT ![s] = None]
              [] verb = "stop" -> [job EXCEPT ![s] = Gone]
              [] verb = "restart" /\ rooted -> [job EXCEPT ![s] = None]
              [] OTHER -> job
  /\ IF verb \in {"stop", "restart"} /\ rooted
     THEN Ends(job[s]) /\ listening' = listening \ {s}
     ELSE UNCHANGED <<parent, listening>>

(* control_service: without the header, with an unknown verb or for a name *)
(* that is not declared, the request ends at once; else the helper is run, *)
(* which may fail.                                                         *)
Control(s, verb, header) ==
  LET accepted == header /\ verb \in Verbs
      known == accepted /\ s \in LoadAtOnce.services
  IN
  /\ controls < MaxControls /\ controls' = controls + 1
  /\ cache' = IF accepted THEN CacheAfter ELSE cache
  /\ \/ known /\ Helper(s, verb) /\ Fine
     \/ known /\ Fault /\ UNCHANGED <<job, parent, listening>>
     \/ ~known /\ Fine /\ UNCHANGED <<job, parent, listening>>
  /\ steady' = {t \in steady : job'[t] = job[t]}
  /\ UNCHANGED <<manifest, poll, since, age, outsiders, probe>>

-----------------------------------------------------------------------------
Polling ==
  \/ Poll \/ Stat \/ LookUp \/ Read \/ Store
  \/ ReadLaunchd \/ ReadPs \/ (\E s \in Services : TryPort(s))
  \/ Answer \/ Panic

Next ==
  \/ \E c \in Contents : Edit(c)
  \/ \E s \in Services : Spawn(s) \/ Bind(s) \/ Occupy(s) \/ Vacate(s)
  \/ \E p \in Pids : Fork(p) \/ Exit(p)
  \/ Tick
  \/ Polling
  \/ \E s \in Services, verb \in Verbs \cup {"unknown"}, header \in BOOLEAN :
       Control(s, verb, header)

Spec == Init /\ [][Next]_vars

-----------------------------------------------------------------------------
(* A load gives what the file held at some moment since it began, for the  *)
(* poll and for the check of a name that is to be controlled, through      *)
(* edits and the cache (services/mod.rs:15-23).                            *)
LoadsAreCurrent ==
  poll.at \in {"store", "launchd", "ps", "ports", "error"} => poll.result \in since

(* The state of a service is the one it had when its port was tried, if    *)
(* its process stayed and did not come of age between the readings.  Of a  *)
(* rogue nothing is said here: RoguesAreTold is what the code says of it   *)
(* (probe.rs:36-53).                                                       *)
SteadyIsTrue ==
  \A s \in DOMAIN told \cap steady :
    told[s].truth # "rogue" => told[s].state = told[s].truth

(* A service of which launchd knows nothing while its port is served is    *)
(* told as rogue, "not registered with launchd, yet its port is serving"   *)
(* (probe.rs:54-64); the code does not do it.                              *)
RoguesAreTold ==
  \A s \in DOMAIN told \cap steady :
    told[s].truth = "rogue" => told[s].state = "rogue"

(* What is called unhealthy was up for the grace period, also when it died *)
(* between two readings (probe.rs:24-30, 47-50).                           *)
UnhealthyHadItsGrace ==
  \A s \in DOMAIN told :
    told[s].state = "unhealthy" => told[s].pid \in Pids /\ age[told[s].pid] = StartupGrace

(* No process is counted in the usage of two services of one answer, nor   *)
(* any for a service that has none (probe.rs:236-256).                     *)
CountedOnce ==
  \A s \in DOMAIN told :
    /\ told[s].tree \cap UNION {told[t].tree : t \in DOMAIN told \ {s}} = {}
    /\ told[s].pid \notin Pids => told[s].tree = {}

=============================================================================
