----------------------------- MODULE Interfaces -----------------------------
(***************************************************************************)
(* The list of network interfaces (collector/net_interfaces.rs).  Every    *)
(* request reads the addresses, the output of ifconfig, the counters since *)
(* the request before, and for Wi-Fi the network that it has joined, out   *)
(* of a cache with room for one interface.                                 *)
(*                                                                         *)
(* The answer to a request is one step; a rate is the amount that it       *)
(* spreads over the time between two requests.  All interfaces are Wi-Fi:  *)
(* of the others the counters alone are of interest.                       *)
(***************************************************************************)
EXTENDS Integers, Sequences, SequencesExt, FiniteSets

CONSTANTS
  Ifaces,
  Busy,         (* bound: those that carry anything                         *)
  Networks,     (* what an interface can be on: a Wi-Fi, or none            *)
  WifiAge,      (* the 15 seconds of cached_wifi_info                       *)
  MaxBytes,     (* bound: the counters                                      *)
  MaxFaults     (* bound: look-ups that fail                                *)

InterfacesAssumption ==
  /\ IsFiniteSet(Ifaces) /\ Busy \subseteq Ifaces
  /\ {WifiAge, MaxBytes} \subseteq Nat \ {0} /\ MaxFaults \in Nat

Unknown == "unknown"
Changed == -1

VARIABLES
  counter,   (* the interfaces that exist, and the counter of each          *)
  joined,    (* the network of each                                         *)
  prev,      (* NetSampler.prev                                             *)
  wifi,      (* WIFI_CACHE: what one interface had joined, and how old it is*)
  answer,    (* the interfaces listed, with amount and network, while it    *)
             (* is given                                                    *)
  moved,     (* history: the bytes of each since the last request           *)
  whole,     (* history: it was there at that request, and has been since   *)
  steady,    (* history: for how long its network has been the same         *)
  faults

machine == <<counter, joined>>
server == <<prev, wifi>>
history == <<moved, whole, steady>>
vars == <<machine, server, answer, history, faults>>

Info == Networks \cup {Unknown}
There == DOMAIN counter
NoAnswer == [i \in {} |-> 0]
Cached == [iface : Ifaces \cup {Unknown}, info : Info, age : 0..WifiAge]

TypeOK ==
  /\ There \subseteq Ifaces /\ \A i \in There : counter[i] \in 0..MaxBytes
  /\ joined \in [Ifaces -> Networks]
  /\ DOMAIN prev \subseteq Ifaces /\ wifi \in Cached
  /\ DOMAIN answer \subseteq Ifaces
  /\ \A i \in DOMAIN answer : answer[i] \in [bytes : Nat, wireless : Info]
  /\ moved \in [Ifaces -> 0..MaxBytes] /\ whole \in [Ifaces -> BOOLEAN]
  /\ steady \in [Ifaces -> Changed..WifiAge] /\ faults \in 0..MaxFaults


Init ==
  /\ counter = [i \in Ifaces |-> IF i \in Busy THEN 1 ELSE 0] /\ joined \in [Ifaces -> Networks]
  /\ prev = NoAnswer /\ answer = NoAnswer
  /\ wifi = [iface |-> Unknown, info |-> Unknown, age |-> WifiAge]
  /\ moved = [i \in Ifaces |-> 0] /\ whole = [i \in Ifaces |-> FALSE]
  /\ steady = [i \in Ifaces |-> Changed] /\ faults = 0

-----------------------------------------------------------------------------
(* The machine: traffic, roaming, adapters that come and go.              *)
Carry(i) ==
  /\ i \in There \cap Busy /\ counter[i] < MaxBytes /\ moved[i] < MaxBytes
  /\ counter' = [counter EXCEPT ![i] = @ + 1] /\ moved' = [moved EXCEPT ![i] = @ + 1]
  /\ UNCHANGED <<joined, server, whole, steady, faults>> /\ answer' = NoAnswer

Join(i, network) ==
  /\ i \in There /\ joined[i] # network
  /\ joined' = [joined EXCEPT ![i] = network] /\ steady' = [steady EXCEPT ![i] = Changed]
  /\ UNCHANGED <<counter, server, moved, whole, faults>> /\ answer' = NoAnswer

Attach(i) ==
  /\ i \notin There
  /\ counter' = [j \in There \cup {i} |-> IF j = i THEN 0 ELSE counter[j]]
  /\ UNCHANGED <<joined, server, history, faults>> /\ answer' = NoAnswer

Detach(i) ==
  /\ i \in There
  /\ counter' = [j \in There \ {i} |-> counter[j]]
  /\ whole' = [whole EXCEPT ![i] = FALSE]
  /\ UNCHANGED <<joined, server, moved, steady, faults>> /\ answer' = NoAnswer

-----------------------------------------------------------------------------
(* NetSampler.sample: who was not there before has moved nothing.          *)
Delta(i) ==
  LET before == IF i \in DOMAIN prev THEN prev[i] ELSE counter[i] IN
  IF counter[i] > before THEN counter[i] - before ELSE 0

Older(cache, elapsed) ==
  [cache EXCEPT !.age = IF @ + elapsed > WifiAge THEN WifiAge ELSE @ + elapsed]

(* Mutant: the cache is not asked whose it is.                             *)
FreshForAny(cache, i) == cache.age < WifiAge

(* cached_wifi_info for one interface after the other; a look-up that      *)
(* fails is kept like any other.                                           *)
Fresh(cache, i) == cache.iface = i /\ cache.age < WifiAge

LookUp(i, failing) == IF i \in failing THEN Unknown ELSE joined[i]

CachedWifiInfo(asked, i, failing) ==
  LET cache == IF Fresh(asked.cache, i) THEN asked.cache
               ELSE [iface |-> i, info |-> LookUp(i, failing), age |-> 0]
  IN  [cache |-> cache, infos |-> [asked.infos EXCEPT ![i] = cache.info]]

Enrich(order, elapsed, failing) ==
  LET asked[n \in 0..Len(order)] ==
        IF n = 0 THEN [cache |-> Older(wifi, elapsed), infos |-> [i \in Ifaces |-> Unknown]]
        ELSE CachedWifiInfo(asked[n - 1], order[n], failing)
  IN asked[Len(order)]

(* list_interfaces: those that are up with an address of use, or none if   *)
(* ifconfig fails; in the order of a hash map.                             *)
ListInterfaces(listed, elapsed, failing) ==
  /\ \E order \in SetToSeqs(listed) :
       LET asked == Enrich(order, elapsed, failing) IN
       /\ wifi' = asked.cache
       /\ answer' = [i \in listed |-> [bytes |-> Delta(i), wireless |-> asked.infos[i]]]
  /\ prev' = counter
  /\ moved' = [i \in Ifaces |-> 0] /\ whole' = [i \in Ifaces |-> i \in There]
  /\ steady' = [i \in Ifaces |-> IF steady[i] = Changed THEN 0
                                 ELSE IF steady[i] + elapsed > WifiAge THEN WifiAge
                                 ELSE steady[i] + elapsed]
  /\ IF failing = {} THEN UNCHANGED faults
     ELSE faults < MaxFaults /\ faults' = faults + 1
  /\ UNCHANGED machine

Next ==
  \/ \E i \in Ifaces :
       Carry(i) \/ Attach(i) \/ Detach(i) \/ \E network \in Networks : Join(i, network)
  \/ \E listed \in SUBSET There, elapsed \in 1..WifiAge, failing \in SUBSET Ifaces :
       ListInterfaces(listed, elapsed, failing)

Spec == Init /\ [][Next]_vars

-----------------------------------------------------------------------------
(* No interface is shown with bytes that it has not carried since the      *)
(* request before, by whomever that was (net_interfaces.rs:62-90).         *)
NothingIsMadeUp ==
  [][\A i \in DOMAIN answer' : answer'[i].bytes <= moved[i]]_vars

(* An interface that has been there since then is shown with all of them.  *)
NothingIsMissed ==
  [][\A i \in DOMAIN answer' : whole[i] => answer'[i].bytes = moved[i]]_vars

(* An interface that has been on the same Wi-Fi for the age of the cache   *)
(* is shown on that one, never on what another interface has joined        *)
(* (net_interfaces.rs:270-285).                                            *)
WifiIsRecent ==
  \A i \in DOMAIN answer : steady[i] = WifiAge =>
    answer[i].wireless \in {joined[i]} \cup (IF faults > 0 THEN {Unknown} ELSE {})
=============================================================================
