------------------------------ MODULE LiveFeed ------------------------------
(***************************************************************************)
(* From the collector to the charts (main.rs, server/ws.rs,                *)
(* frontend/src/hooks/use-websocket.ts, use-history.ts, store/             *)
(* metrics-store.ts).  A thread collects samples, each for a while, and    *)
(* sleeps between two; a task stores them and broadcasts them to the       *)
(* sockets; a page keeps one socket, replaces a silent one, and loads the  *)
(* history of the selected timescale whenever it connects.  Collections    *)
(* and the database are slow, sockets die without a word, fall behind, are *)
(* refused; pages are hidden and shown; answers overtake each other.       *)
(*                                                                         *)
(* A sample is its age, the number broadcast since, so that the feed never *)
(* ends.  Of all sockets only those of one page are followed; the others   *)
(* matter to the pace of the collector alone.                              *)
(***************************************************************************)
EXTENDS Integers, Sequences, SequencesExt, FiniteSets

CONSTANTS
  Sockets,
  Timescales,
  Active,       (* ACTIVE_COLLECT_INTERVAL, in seconds                      *)
  Idle,         (* IDLE_COLLECT_INTERVAL                                    *)
  Sampling,     (* what a collection takes at least: the sampler's window   *)
  Longest,      (* what it takes at most, unless it is late                 *)
  Stale,        (* STALE_MS                                                 *)
  Capacity,     (* of the broadcast channel                                 *)
  Wire,         (* bound: the frames that a connection holds                *)
  MaxAge,       (* bound: who is older counts as being that old             *)
  MaxFetches,   (* bound: history loads under way                           *)
  MaxBacklog,   (* bound: samples that wait to be stored                    *)
  MaxFaults     (* bound: seconds that something is late, failures of       *)
                (* sockets, loads and samples, turns to another timescale   *)

None == "none"
NoAge == -1

ASSUME LiveFeedAssumption ==
  /\ Sockets # {} /\ None \notin Sockets
  /\ {Active, Idle, Stale, Capacity, Wire, MaxAge, MaxFetches, MaxBacklog} \subseteq Nat \ {0}
  /\ Active <= Idle /\ Sampling \in Nat /\ Longest \in Nat /\ Sampling <= Longest
  /\ Capacity <= MaxAge + 1 /\ MaxFaults \in Nat

VARIABLES
  countdown,    (* the seconds that the collector sleeps yet; at 0 it is    *)
                (* collecting                                               *)
  elapsed,      (* the seconds that it has been collecting                  *)
  backlog,      (* the samples sent by it, not yet stored and broadcast     *)
  bad,          (* the ages of the samples that do not serialize            *)
  client,       (* of each socket: "none", "connecting" or "open"           *)
  alive,        (* whether it still carries frames                          *)
  handler,      (* whether handle_socket runs                               *)
  unread,       (* the samples that its receiver has not taken              *)
  wire,         (* the frames between handler and page                      *)
  wsRef, intentional, timer, visible,
  quiet,        (* the seconds since lastMessageAtRef                       *)
  timescale,
  loads,        (* the history loads under way, first the oldest            *)
  chart,        (* what the store shows                                     *)
  last,         (* history: the age of the last frame pushed since a load   *)
                (* was asked for on opening a socket                        *)
  slow,         (* history: a second has passed with a collection, a sample *)
                (* or a frame late, or a sample was skipped                 *)
  landed,       (* history: what the last step gave to the chart             *)
  faults

collector == <<countdown, elapsed, backlog, bad>>
server == <<collector, handler, unread>>
net == <<client, alive, wire>>
page == <<wsRef, intentional, timer, visible, quiet>>
view == <<timescale, loads, chart>>
vars == <<server, net, page, view, last, slow, landed, faults>>

Ages == 0..MaxAge
Loads == [scale : Timescales, inFlight : BOOLEAN, stage : {"asked", "answered", "behind"}, passed : BOOLEAN]

TypeOK ==
  /\ countdown \in 0..Idle /\ elapsed \in 0..Longest + MaxFaults
  /\ backlog \in 0..MaxBacklog /\ bad \subseteq Ages
  /\ client \in [Sockets -> {None, "connecting", "open"}]
  /\ alive \in [Sockets -> BOOLEAN] /\ handler \in [Sockets -> BOOLEAN]
  /\ unread \in [Sockets -> 0..Capacity + 1]
  /\ \A s \in Sockets : Len(wire[s]) <= Wire /\ ToSet(wire[s]) \subseteq Ages
  /\ wsRef \in Sockets \cup {None}
  /\ intentional \in BOOLEAN /\ timer \in BOOLEAN /\ visible \in BOOLEAN
  /\ quiet \in 0..Stale + 1 /\ timescale \in Timescales
  /\ Len(loads) <= MaxFetches /\ ToSet(loads) \subseteq Loads
  /\ chart \in [scale : Timescales, error : BOOLEAN, passed : BOOLEAN]
  /\ last \in Ages \cup {NoAge} /\ slow \in BOOLEAN /\ landed \in {None, "frame", "history"} /\ faults \in 0..MaxFaults

Older(age) == IF age = NoAge \/ age = MaxAge THEN age ELSE age + 1
Fault == faults < MaxFaults /\ faults' = faults + 1

-----------------------------------------------------------------------------
(* Mutant: any load that is in flight is joined.                            *)
InFlightForAny(scale) == \E i \in DOMAIN loads : loads[i].inFlight

(* use-history.ts.  A load for the timescale that is in flight is joined.  *)
InFlightFor(scale) == \E i \in DOMAIN loads : loads[i].inFlight /\ loads[i].scale = scale

LoadHistory(scale) ==
  IF InFlightFor(scale) THEN UNCHANGED loads
  ELSE /\ Len(loads) < MaxFetches
       /\ loads' = Append([i \in DOMAIN loads |-> [loads[i] EXCEPT !.inFlight = FALSE]],
                          [scale |-> scale, inFlight |-> TRUE, stage |-> "asked", passed |-> FALSE])

(* get_history: what is stored at this moment.                             *)
GetHistory(i) ==
  /\ loads[i].stage = "asked"
  /\ loads' = [loads EXCEPT ![i].stage = "answered"]
  /\ landed' = None
  /\ UNCHANGED <<server, net, page, timescale, chart, last, slow, faults>>

Rest(i) ==
  [j \in DOMAIN RemoveAt(loads, i) |->
     IF j < i THEN [loads[j] EXCEPT !.passed = TRUE] ELSE loads[j + 1]]

(* setHistory                                                              *)
SetHistory(i) ==
  /\ loads[i].stage # "asked"
  /\ loads' = Rest(i)
  /\ chart' = [scale |-> loads[i].scale, error |-> FALSE, passed |-> loads[i].passed]
  /\ landed' = "history"
  /\ UNCHANGED <<server, net, page, timescale, last, slow, faults>>

(* setHistoryError                                                         *)
SetHistoryError(i) ==
  /\ Fault
  /\ loads' = Rest(i) /\ chart' = [chart EXCEPT !.error = TRUE]
  /\ landed' = None
  /\ UNCHANGED <<server, net, page, timescale, last, slow>>

(* setTimescale, and the effect of useInitialData.  No failure, but as     *)
(* often as one.                                                           *)
Select(scale) ==
  /\ Fault
  /\ scale # timescale /\ timescale' = scale
  /\ LoadHistory(scale)
  /\ landed' = None
  /\ UNCHANGED <<server, net, page, chart, last, slow>>

-----------------------------------------------------------------------------
(* use-websocket.ts.  A socket that the page closes is done for: nothing   *)
(* that happens to it later reaches the page, as onclose looks at wsRef,   *)
(* and its handler is one of the others until a send fails.                *)
Closed(s) ==
  /\ client' = [client EXCEPT ![s] = None] /\ alive' = [alive EXCEPT ![s] = FALSE]
  /\ wire' = [wire EXCEPT ![s] = <<>>] /\ handler' = [handler EXCEPT ![s] = FALSE]
  /\ unread' = [unread EXCEPT ![s] = 0]

(* Close S and connect anew; that one of them is wsRef is for the caller.  *)
Replaced(S) ==
  LET still == {s \in Sockets : client[s] # None} \ S
      s == CHOOSE s \in Sockets \ still : TRUE
  IN
    /\ still # Sockets /\ wsRef' = s
    /\ client' = [t \in Sockets |-> IF t = s THEN "connecting" ELSE IF t \in S THEN None ELSE client[t]]
    /\ alive' = [t \in Sockets |-> t = s \/ (t \notin S /\ alive[t])]
    /\ wire' = [t \in Sockets |-> IF t \in S \cup {s} THEN <<>> ELSE wire[t]]
    /\ handler' = [t \in Sockets |-> t \notin S \cup {s} /\ handler[t]]
    /\ unread' = [t \in Sockets |-> IF t \in S \cup {s} THEN 0 ELSE unread[t]]

(* connect, with its guard                                                 *)
Connect ==
  /\ timer' = FALSE
  /\ IF wsRef # None THEN UNCHANGED <<wsRef, client, alive, wire, handler, unread>>
     ELSE Replaced({})

ReconnectTimer ==
  /\ timer /\ Connect
  /\ landed' = None
  /\ UNCHANGED <<collector, intentional, visible, quiet, view, last, slow, faults>>

(* Mutant: connect is not told that the socket is done for.                *)
ForceReconnectGuarded ==
  /\ intentional' = FALSE /\ quiet' = 0 /\ slow' = FALSE
  /\ LoadHistory(timescale)
  /\ Connect
  /\ landed' = None
  /\ UNCHANGED <<collector, timescale, chart, last>>

(* forceReconnect: close what there is, whatever it is, and connect.       *)
ForceReconnect ==
  /\ intentional' = FALSE /\ timer' = FALSE /\ quiet' = 0 /\ slow' = FALSE
  /\ LoadHistory(timescale)
  /\ Replaced({wsRef} \cap Sockets)
  /\ landed' = None
  /\ UNCHANGED <<collector, timescale, chart, last>>

Watchdog == visible /\ quiet > Stale /\ ForceReconnect /\ UNCHANGED <<visible, faults>>

PageShow == Fault /\ ForceReconnect /\ UNCHANGED visible

Show == ~visible /\ visible' = TRUE /\ ForceReconnect /\ UNCHANGED faults

(* disconnect                                                              *)
Hide ==
  /\ visible /\ visible' = FALSE
  /\ intentional' = TRUE /\ timer' = FALSE /\ wsRef' = None
  /\ IF wsRef = None THEN UNCHANGED <<net, handler, unread>> ELSE Closed(wsRef)
  /\ landed' = None
  /\ UNCHANGED <<collector, quiet, view, last, slow, faults>>

(* onopen; handle_socket subscribes.                                       *)
Open(s) ==
  /\ client[s] = "connecting" /\ alive[s]
  /\ client' = [client EXCEPT ![s] = "open"]
  /\ handler' = [handler EXCEPT ![s] = TRUE] /\ unread' = [unread EXCEPT ![s] = 0]
  /\ quiet' = 0 /\ last' = NoAge /\ slow' = FALSE
  /\ LoadHistory(timescale)
  /\ landed' = None
  /\ UNCHANGED <<collector, alive, wire, wsRef, intentional, timer, visible, timescale, chart, faults>>

(* onclose, of the socket in wsRef: refused, or ended by its handler.      *)
OnClose(s) ==
  /\ \/ client[s] = "connecting" /\ Fault
     \/ client[s] = "open" /\ alive[s] /\ ~handler[s] /\ wire[s] = <<>> /\ UNCHANGED faults
  /\ Closed(s)
  /\ IF wsRef = s THEN wsRef' = None /\ timer' = (timer \/ ~intentional)
     ELSE UNCHANGED <<wsRef, timer>>
  /\ landed' = None
  /\ UNCHANGED <<collector, intentional, visible, quiet, view, last, slow>>

Pushed(load) == IF load.stage = "answered" THEN [load EXCEPT !.stage = "behind"] ELSE load

(* onmessage, pushSnapshot                                                 *)
OnMessage(s) ==
  LET age == Head(wire[s]) IN
  /\ client[s] = "open" /\ alive[s] /\ wire[s] # <<>>
  /\ wire' = [wire EXCEPT ![s] = Tail(@)]
  /\ IF visible
     THEN quiet' = 0 /\ loads' = [i \in DOMAIN loads |-> Pushed(loads[i])] /\ last' = age /\ landed' = "frame"
     ELSE UNCHANGED <<quiet, loads, last>> /\ landed' = None
  /\ UNCHANGED <<server, client, alive, wsRef, intentional, timer, visible, timescale, chart, slow, faults>>

(* A connection that no longer carries anything, and says nothing of it;   *)
(* its handler is one of the others now.                                   *)
Dies(s) ==
  /\ client[s] # None /\ alive[s] /\ Fault
  /\ alive' = [alive EXCEPT ![s] = FALSE] /\ wire' = [wire EXCEPT ![s] = <<>>]
  /\ handler' = [handler EXCEPT ![s] = FALSE] /\ unread' = [unread EXCEPT ![s] = 0]
  /\ slow' = TRUE /\ landed' = None
  /\ UNCHANGED <<collector, client, page, view, last>>

-----------------------------------------------------------------------------
(* handle_socket: take the oldest sample that is unread, and send it.      *)
Send(s) ==
  /\ handler[s] /\ unread[s] \in 1..Capacity /\ Len(wire[s]) < Wire
  /\ unread[s] - 1 \notin bad
  /\ wire' = [wire EXCEPT ![s] = Append(@, unread[s] - 1)]
  /\ unread' = [unread EXCEPT ![s] = @ - 1]
  /\ landed' = None
  /\ UNCHANGED <<collector, client, alive, handler, page, view, last, slow, faults>>

(* One that does not serialize is skipped, and the stream goes on.         *)
Skip(s) ==
  /\ handler[s] /\ unread[s] \in 1..Capacity /\ Len(wire[s]) < Wire
  /\ unread[s] - 1 \in bad
  /\ unread' = [unread EXCEPT ![s] = @ - 1]
  /\ slow' = TRUE /\ landed' = None
  /\ UNCHANGED <<collector, handler, net, page, view, last, faults>>

(* Mutant: a receiver that has fallen behind goes on with what is left.    *)
LaggedSkips(s) ==
  /\ handler[s] /\ unread[s] > Capacity
  /\ unread' = [unread EXCEPT ![s] = Capacity] /\ landed' = None
  /\ UNCHANGED <<collector, handler, net, page, view, last, slow, faults>>

(* It has fallen behind: recv fails, the loop and the socket end.          *)
Lagged(s) ==
  /\ handler[s] /\ unread[s] > Capacity /\ Len(wire[s]) < Wire
  /\ handler' = [handler EXCEPT ![s] = FALSE] /\ unread' = [unread EXCEPT ![s] = 0]
  /\ landed' = None
  /\ UNCHANGED <<collector, net, page, view, last, slow, faults>>

(* Mutant: the interval is slept in full after the collection.             *)
NextCollectorDelayLazy(hasLiveClients, collectionElapsed) ==
  IF hasLiveClients THEN Active ELSE Idle

(* Mutant: a subtraction that does not saturate.                           *)
NextCollectorDelaySigned(hasLiveClients, collectionElapsed) ==
  (IF hasLiveClients THEN Active ELSE Idle) - collectionElapsed

(* next_collector_delay: what the collection has left of the interval.     *)
NextCollectorDelay(hasLiveClients, collectionElapsed) ==
  LET interval == IF hasLiveClients THEN Active ELSE Idle IN
  IF interval > collectionElapsed THEN interval - collectionElapsed ELSE 0

(* A collection ends; its sample is sent to the task, and the collector    *)
(* looks who listens.                                                      *)
Collect(others) ==
  /\ countdown = 0 /\ elapsed >= Sampling
  /\ countdown' = NextCollectorDelay(others \/ \E s \in Sockets : handler[s], elapsed)
  /\ elapsed' = 0
  /\ backlog < MaxBacklog /\ backlog' = backlog + 1
  /\ landed' = None
  /\ UNCHANGED <<bad, handler, unread, net, page, view, last, slow, faults>>

(* The task has stored a sample, folded and pruned, and broadcasts it; it  *)
(* may be one that will not serialize.                                     *)
Broadcast ==
  /\ backlog > 0 /\ backlog' = backlog - 1
  /\ LET aged == {age + 1 : age \in bad} \cap Ages IN
       \/ bad' = aged /\ UNCHANGED faults
       \/ bad' = aged \cup {0} /\ Fault
  /\ unread' = [s \in Sockets |-> IF handler[s] /\ unread[s] <= Capacity THEN unread[s] + 1 ELSE unread[s]]
  /\ wire' = [s \in Sockets |-> [i \in DOMAIN wire[s] |-> Older(wire[s][i])]]
  /\ last' = Older(last)
  /\ landed' = None
  /\ UNCHANGED <<countdown, elapsed, handler, client, alive, page, view, slow>>

(* Time passes when everything that is on its way has arrived, or is late; *)
(* the close of a socket whose handler has ended is on its way, too.       *)
OnItsWay(s) == alive[s] /\ (~handler[s] \/ unread[s] > 0 \/ wire[s] # <<>>)

Late ==
  \/ countdown = 0 /\ elapsed >= Longest
  \/ backlog > 0
  \/ \E s \in Sockets : OnItsWay(s)

Second ==
  /\ IF countdown > 0 THEN countdown' = countdown - 1 /\ UNCHANGED elapsed
     ELSE elapsed' = elapsed + 1 /\ UNCHANGED countdown
  /\ quiet' = IF quiet > Stale THEN quiet ELSE quiet + 1
  /\ IF Late THEN Fault /\ slow' = TRUE
     ELSE slow' = (slow \/ \A s \in Sockets : ~alive[s]) /\ UNCHANGED faults
  /\ landed' = None
  /\ UNCHANGED <<backlog, bad, handler, unread, net, wsRef, intentional, timer, visible, view, last>>

-----------------------------------------------------------------------------
Init ==
  /\ countdown \in 0..NextCollectorDelay(FALSE, Sampling)
  /\ elapsed \in 0..IF countdown = 0 THEN Longest ELSE 0
  /\ backlog = 0 /\ bad = {}
  /\ LET s == CHOOSE s \in Sockets : TRUE IN
       wsRef = s /\ client = [t \in Sockets |-> IF t = s THEN "connecting" ELSE None]
                 /\ alive = [t \in Sockets |-> t = s]
  /\ handler = [s \in Sockets |-> FALSE] /\ unread = [s \in Sockets |-> 0]
  /\ wire = [s \in Sockets |-> <<>>]
  /\ intentional = FALSE /\ timer = FALSE /\ visible = TRUE /\ quiet = 0
  /\ timescale \in Timescales
  /\ loads = <<[scale |-> timescale, inFlight |-> TRUE, stage |-> "asked", passed |-> FALSE]>>
  /\ chart = [scale |-> timescale, error |-> FALSE, passed |-> FALSE]
  /\ last = NoAge /\ slow = FALSE /\ landed = None /\ faults = 0

Next ==
  \/ \E scale \in Timescales : Select(scale)
  \/ \E i \in DOMAIN loads : GetHistory(i) \/ SetHistory(i) \/ SetHistoryError(i)
  \/ ReconnectTimer \/ Watchdog \/ PageShow \/ Show \/ Hide
  \/ \E s \in Sockets :
       Open(s) \/ OnClose(s) \/ OnMessage(s) \/ Dies(s) \/ Send(s) \/ Skip(s) \/ Lagged(s)
  \/ \E others \in BOOLEAN : Collect(others)
  \/ Broadcast \/ Second

Fairness ==
  /\ WF_vars(Second \/ \E others \in BOOLEAN : Collect(others)) /\ WF_vars(Broadcast)
  /\ WF_vars(Watchdog) /\ WF_vars(ReconnectTimer)
  /\ WF_vars(\E s \in Sockets : Open(s)) /\ WF_vars(\E s \in Sockets : OnMessage(s))
  /\ WF_vars(\E s \in Sockets : Send(s) \/ Skip(s) \/ Lagged(s))
  /\ WF_vars(\E s \in Sockets : client[s] = "open" /\ OnClose(s))
  /\ WF_vars(\E i \in DOMAIN loads : GetHistory(i))
  /\ WF_vars(\E i \in DOMAIN loads : SetHistory(i))

Spec == Init /\ [][Next]_vars /\ Fairness

-----------------------------------------------------------------------------
(* Between two openings of its socket the page is given every sample that  *)
(* serializes, in order and once, however far it falls behind: what lies   *)
(* between two frames does not serialize (ws.rs:14-30,                     *)
(* use-websocket.ts:34-37, 95-117).                                        *)
Follows(next, age, skipped) == next < age /\ \A a \in next + 1..age - 1 : a \in skipped
FeedIsWhole ==
  [][landed' = "frame" /\ last # NoAge /\ last < MaxAge => Follows(last', last, bad)]_vars

(* When no history load is under way, the chart is of the timescale that   *)
(* is selected, or says that it failed, unless its answer was overtaken by *)
(* that of a later load (use-history.ts:30-37).                            *)
ChartIsOfTheTimescale ==
  loads = <<>> => chart.scale = timescale \/ chart.error \/ chart.passed

(* The watchdog leaves a connection alone on which nothing was late: the   *)
(* collection no longer than Longest, the sample stored and broadcast and  *)
(* the frame delivered within a second.  The longest sleep, after the      *)
(* shortest collection, and the longest collection after it are within its *)
(* patience (main.rs:155-222, use-websocket.ts:7-16, 135-140).             *)
HealthyIsLeftAlone == [][Watchdog => slow]_vars

(* A page that stays visible is shown something new again and again,       *)
(* whatever became of its sockets (use-websocket.ts:95-143).               *)
NeverFrozen == <>[]visible => []<>(landed = "frame")
=============================================================================
