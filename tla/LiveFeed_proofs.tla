-------------------------- MODULE LiveFeed_proofs --------------------------
(***************************************************************************)
(* For any sockets, any pace of the collector, any capacity of channel and *)
(* connection and the failures that LiveFeed knows: between two openings   *)
(* the page is given every sample that serializes, once and in order; when *)
(* no load is under way the chart is of the selected timescale, or failed, *)
(* or was overtaken; and a page that is patient enough for the longest     *)
(* collection leaves a healthy socket alone.  That a page is never frozen  *)
(* is a matter of fairness and stays with TLC.                             *)
(***************************************************************************)
EXTENDS LiveFeed, SequenceTheorems, TLAPS

USE DEF None, NoAge

(* What most steps need to know of the constants.                          *)
LEMMA Constants ==
  /\ Sockets # {} /\ None \notin Sockets
  /\ Capacity \in Nat \ {0} /\ Wire \in Nat \ {0} /\ MaxAge \in Nat \ {0}
BY LiveFeedAssumption

USE Constants

-----------------------------------------------------------------------------
(* The feed.                                                               *)
FeedTypes ==
  /\ client \in [Sockets -> {None, "connecting", "open"}]
  /\ alive \in [Sockets -> BOOLEAN] /\ handler \in [Sockets -> BOOLEAN]
  /\ unread \in [Sockets -> 0..Capacity + 1]
  /\ wire \in [Sockets -> Seq(Nat)]
  /\ wsRef \in Sockets \cup {None}
  /\ last \in Nat \cup {NoAge}
  /\ bad \subseteq Ages

(* The page has one socket; what is not open carries nothing; and nothing  *)
(* is counted as shown while the page is hidden.                           *)
OneSocket ==
  \A s \in Sockets :
    /\ client[s] # None => s = wsRef
    /\ client[s] # "open" => wire[s] = <<>> /\ ~handler[s]
    /\ client[s] = "open" /\ ~visible => last = NoAge

(* From the last frame shown over the wire to the receiver no sample is    *)
(* missing but those that do not serialize: the next one to be taken       *)
(* follows the newest one sent.                                            *)
Newest(s) == IF wire[s] = <<>> THEN last ELSE wire[s][Len(wire[s])]
Chained(s) ==
  /\ \A i \in 1..Len(wire[s]) - 1 :
       wire[s][i] < MaxAge => Follows(wire[s][i + 1], wire[s][i], bad)
  /\ wire[s] # <<>> /\ last # NoAge /\ last < MaxAge => Follows(wire[s][1], last, bad)
  /\ handler[s] /\ unread[s] <= Capacity /\ Newest(s) # NoAge /\ Newest(s) < MaxAge =>
       Follows(unread[s] - 1, Newest(s), bad)

FeedInv ==
  /\ FeedTypes /\ OneSocket
  /\ \A s \in Sockets : client[s] = "open" => Chained(s)

(* A page that has no open socket has no feed to keep whole.               *)
LEMMA WithoutSocket ==
  ASSUME FeedTypes', OneSocket', \A s \in Sockets : client'[s] # "open"
  PROVE  FeedInv'
BY DEF FeedInv

(* A new socket takes the place of all that the page had.                  *)
LEMMA ReplacedFeed ==
  ASSUME FeedInv, NEW S, S = {wsRef} \cap Sockets, Replaced(S), UNCHANGED <<last, bad>>
  PROVE  FeedInv'
<1> DEFINE still == {s \in Sockets : client[s] # None} \ S
           n == CHOOSE s \in Sockets \ still : TRUE
<1>1. n \in Sockets
  <2>1. still # Sockets
    BY DEF Replaced
  <2> QED
    BY <2>1
<1>2. /\ wsRef' = n
      /\ client' = [t \in Sockets |-> IF t = n THEN "connecting" ELSE IF t \in S THEN None ELSE client[t]]
      /\ alive' = [t \in Sockets |-> t = n \/ (t \notin S /\ alive[t])]
      /\ wire' = [t \in Sockets |-> IF t \in S \cup {n} THEN <<>> ELSE wire[t]]
      /\ handler' = [t \in Sockets |-> t \notin S \cup {n} /\ handler[t]]
      /\ unread' = [t \in Sockets |-> IF t \in S \cup {n} THEN 0 ELSE unread[t]]
  BY DEF Replaced
<1> HIDE DEF n, still
<1>3. \A t \in Sockets \ S : client[t] = None /\ wire[t] = <<>> /\ ~handler[t]
  BY DEF FeedInv, OneSocket
<1>4. FeedTypes'
  <2>1. client' \in [Sockets -> {None, "connecting", "open"}]
    BY <1>2 DEF FeedInv, FeedTypes
  <2>2. alive' \in [Sockets -> BOOLEAN] /\ handler' \in [Sockets -> BOOLEAN]
    BY <1>2 DEF FeedInv, FeedTypes
  <2>3. unread' \in [Sockets -> 0..Capacity + 1]
    BY <1>2 DEF FeedInv, FeedTypes
  <2>4. wire' \in [Sockets -> Seq(Nat)]
    <3>1. <<>> \in Seq(Nat)
      OBVIOUS
    <3> QED
      BY <1>2, <3>1 DEF FeedInv, FeedTypes
  <2> QED
    BY <1>1, <1>2, <2>1, <2>2, <2>3, <2>4 DEF FeedInv, FeedTypes
<1>5. \A t \in Sockets : client'[t] = IF t = n THEN "connecting" ELSE None
  BY <1>2, <1>3
<1>6. \A t \in Sockets : wire'[t] = <<>> /\ ~handler'[t]
  BY <1>2, <1>3
<1>7. OneSocket'
  BY <1>2, <1>5, <1>6 DEF OneSocket
<1> QED
  BY <1>4, <1>5, <1>7, WithoutSocket

(* Closing the socket leaves none.                                         *)
LEMMA ClosedFeed ==
  ASSUME FeedInv, NEW s \in Sockets, s = wsRef, Closed(s), wsRef' = None, UNCHANGED <<last, bad>>
  PROVE  FeedInv'
<1>0. <<>> \in Seq(Nat)
  OBVIOUS
<1>1. FeedTypes'
  BY <1>0 DEF Closed, FeedInv, FeedTypes
<1>2. \A t \in Sockets : client'[t] = None /\ wire'[t] = <<>> /\ ~handler'[t]
  BY DEF Closed, FeedInv, FeedTypes, OneSocket
<1>3. OneSocket'
  BY <1>2 DEF OneSocket
<1> QED
  BY <1>1, <1>2, <1>3, WithoutSocket

(* What a sequence has after an element was appended, or taken from it.    *)
LEMMA Appended ==
  ASSUME NEW q \in Seq(Nat), NEW a \in Nat
  PROVE  /\ Append(q, a) \in Seq(Nat) /\ Append(q, a) # <<>>
         /\ Len(q) \in Nat /\ Len(Append(q, a)) = Len(q) + 1
         /\ \A i \in 1..Len(q) : Append(q, a)[i] = q[i]
         /\ Append(q, a)[Len(q) + 1] = a
<1>1. Append(q, a) \in Seq(Nat) /\ Len(q) \in Nat /\ Len(Append(q, a)) = Len(q) + 1
  OBVIOUS
<1>2. Append(q, a) # <<>>
  <2> SUFFICES ASSUME Append(q, a) = <<>> PROVE FALSE
    OBVIOUS
  <2>1. Len(Append(q, a)) = 0
    BY SMT
  <2> QED
    BY <1>1, <2>1
<1>3. \A i \in 1..Len(q) : Append(q, a)[i] = q[i]
  OBVIOUS
<1>4. Append(q, a)[Len(q) + 1] = a
  OBVIOUS
<1> QED
  BY <1>1, <1>2, <1>3, <1>4

(* A frame arrives: it is the successor of the last one shown.             *)
LEMMA MessageFeed ==
  ASSUME FeedInv, NEW s \in Sockets, OnMessage(s)
  PROVE  /\ FeedInv'
         /\ landed' = "frame" /\ last # NoAge /\ last < MaxAge => Follows(last', last, bad)
<1>1. /\ client[s] = "open" /\ wire[s] # <<>> /\ wire[s] \in Seq(Nat)
      /\ wire' = [wire EXCEPT ![s] = Tail(wire[s])]
      /\ UNCHANGED <<unread, handler, client, alive, wsRef, visible, bad>>
  BY DEF OnMessage, server, collector, FeedInv, FeedTypes
<1>2. IF visible THEN last' = Head(wire[s]) ELSE last' = last /\ landed' = None
  BY DEF OnMessage
<1>3. /\ Head(wire[s]) = wire[s][1] /\ Head(wire[s]) \in Nat /\ Tail(wire[s]) \in Seq(Nat)
      /\ Len(wire[s]) \in Nat \ {0} /\ Len(Tail(wire[s])) = Len(wire[s]) - 1
      /\ \A i \in 1..Len(wire[s]) - 1 : Tail(wire[s])[i] = wire[s][i + 1]
  BY <1>1, SMTT(30)
<1>4. wire'[s] = Tail(wire[s]) /\ \A t \in Sockets \ {s} : wire'[t] = wire[t]
  BY <1>1 DEF FeedInv, FeedTypes
<1>5. FeedTypes'
  BY <1>1, <1>2, <1>3 DEF FeedInv, FeedTypes
<1>6. \A t \in Sockets \ {s} : client[t] = None
  BY <1>1 DEF FeedInv, OneSocket
<1>7. OneSocket'
  BY <1>1, <1>2, <1>4, <1>6 DEF FeedInv, OneSocket
<1>8. Chained(s)
  BY <1>1 DEF FeedInv
<1>9. Chained(s)'
  <2>1. \A i \in 1..Len(wire'[s]) - 1 :
          wire'[s][i] < MaxAge => Follows(wire'[s][i + 1], wire'[s][i], bad)
    BY <1>3, <1>4, <1>8 DEF Chained
  <2>2. wire'[s] # <<>> /\ last' # NoAge /\ last' < MaxAge => Follows(wire'[s][1], last', bad)
    <3>1. CASE visible
      <4> SUFFICES ASSUME wire'[s] # <<>>, last' < MaxAge PROVE Follows(wire'[s][1], last', bad)
        OBVIOUS
      <4>1. last' = wire[s][1]
        BY <1>2, <1>3, <3>1
      <4>2. 1 \in 1..Len(wire[s]) - 1
        BY <1>3, <1>4
      <4> QED
        BY <1>3, <1>4, <1>8, <4>1, <4>2 DEF Chained
    <3>2. CASE ~visible
      BY <1>1, <1>2, <3>2 DEF FeedInv, OneSocket
    <3> QED
      BY <3>1, <3>2
  <2>3. Newest(s)' = Newest(s) \/ Newest(s)' = NoAge
    <3>1. CASE wire'[s] = <<>>
      <4>0. Len(wire[s]) = 1
        <5>1. Len(wire'[s]) = 0
          BY <3>1
        <5> QED
          BY <1>3, <1>4, <5>1
      <4>1. Newest(s)' = last' /\ Newest(s) = wire[s][1]
        BY <1>1, <3>1, <4>0 DEF Newest
      <4> QED
        BY <1>1, <1>2, <1>3, <4>1 DEF FeedInv, OneSocket
    <3>2. CASE wire'[s] # <<>>
      <4>1. Len(wire'[s]) = Len(wire[s]) - 1 /\ Len(wire'[s]) \in 1..Len(wire[s]) - 1
        BY <1>3, <1>4, <3>2
      <4>2. wire'[s][Len(wire'[s])] = wire[s][Len(wire[s])]
        BY <1>3, <1>4, <4>1, SMTT(30)
      <4> QED
        BY <1>1, <3>2, <4>2 DEF Newest
    <3> QED
      BY <3>1, <3>2
  <2> QED
    BY <1>1, <1>8, <2>1, <2>2, <2>3 DEF Chained
<1>10. FeedInv'
  BY <1>1, <1>5, <1>6, <1>7, <1>9 DEF FeedInv
<1> QED
  BY <1>1, <1>2, <1>3, <1>8, <1>10 DEF Chained

(* The receiver takes the oldest sample and sends it.                      *)
LEMMA SendFeed ==
  ASSUME FeedInv, NEW s \in Sockets, Send(s)
  PROVE  FeedInv'
<1> DEFINE age == unread[s] - 1
<1>1. /\ handler[s] /\ unread[s] \in 1..Capacity /\ wire[s] \in Seq(Nat) /\ age \in Nat
      /\ wire' = [wire EXCEPT ![s] = Append(wire[s], age)]
      /\ unread' = [unread EXCEPT ![s] = age]
      /\ UNCHANGED <<handler, client, alive, wsRef, visible, last, bad>>
  BY SMTT(30) DEF Send, page, collector, FeedInv, FeedTypes
<1>2. client[s] = "open"
  BY <1>1 DEF FeedInv, OneSocket
<1> HIDE DEF age
<1>3. /\ Append(wire[s], age) \in Seq(Nat) /\ Append(wire[s], age) # <<>>
      /\ Len(wire[s]) \in Nat /\ Len(Append(wire[s], age)) = Len(wire[s]) + 1
      /\ \A i \in 1..Len(wire[s]) : Append(wire[s], age)[i] = wire[s][i]
      /\ Append(wire[s], age)[Len(wire[s]) + 1] = age
  BY <1>1, Appended
<1>4. /\ wire'[s] = Append(wire[s], age) /\ \A t \in Sockets \ {s} : wire'[t] = wire[t]
      /\ unread'[s] = age
  BY <1>1 DEF FeedInv, FeedTypes
<1>5. FeedTypes'
  <2>1. age \in 0..Capacity + 1
    BY <1>1 DEF age
  <2> QED
    BY <1>1, <1>3, <2>1 DEF FeedInv, FeedTypes
<1>6. \A t \in Sockets \ {s} : client[t] = None
  BY <1>2 DEF FeedInv, OneSocket
<1>7. OneSocket'
  BY <1>1, <1>2, <1>4, <1>6 DEF FeedInv, OneSocket
<1>8. Chained(s)
  BY <1>2 DEF FeedInv
<1>9. Newest(s) # NoAge /\ Newest(s) < MaxAge => Follows(age, Newest(s), bad)
  BY <1>1, <1>8 DEF Chained, age
<1>10. Chained(s)'
  <2>1. ASSUME NEW i \in 1..Len(wire'[s]) - 1, wire'[s][i] < MaxAge
        PROVE  Follows(wire'[s][i + 1], wire'[s][i], bad)
    <3>1. i \in 1..Len(wire[s]) /\ wire'[s][i] = wire[s][i]
      BY <1>3, <1>4
    <3>2. CASE i = Len(wire[s])
      <4>1. Newest(s) = wire[s][i] /\ wire[s][i] \in Nat
        BY <1>1, <3>1, <3>2, SMTT(30) DEF Newest
      <4> QED
        BY <1>3, <1>4, <1>9, <2>1, <3>1, <3>2, <4>1, SMTT(30)
    <3>3. CASE i # Len(wire[s])
      <4>0. Len(wire[s]) \in Nat
        BY <1>3
      <4>1. i \in 1..Len(wire[s]) - 1 /\ i + 1 \in 1..Len(wire[s])
        BY <3>1, <3>3, <4>0
      <4> QED
        BY <1>3, <1>4, <1>8, <2>1, <3>1, <4>1 DEF Chained
    <3> QED
      BY <3>2, <3>3
  <2>2. ASSUME last # NoAge, last < MaxAge PROVE Follows(wire'[s][1], last, bad)
    <3>1. CASE wire[s] = <<>>
      <4>1. Newest(s) = last /\ Len(wire[s]) = 0
        BY <3>1 DEF Newest
      <4> QED
        BY <1>3, <1>4, <1>9, <2>2, <4>1
    <3>2. CASE wire[s] # <<>>
      <4>1. 1 \in 1..Len(wire[s])
        BY <1>1, <3>2
      <4> QED
        BY <1>3, <1>4, <1>8, <2>2, <3>2, <4>1 DEF Chained
    <3> QED
      BY <3>1, <3>2
  <2>3. Newest(s)' = age
    BY <1>3, <1>4 DEF Newest
  <2>4. Follows(age - 1, age, bad)
    BY <1>1 DEF Follows
  <2> QED
    BY <1>1, <1>4, <2>1, <2>2, <2>3, <2>4 DEF Chained
<1> QED
  BY <1>1, <1>5, <1>6, <1>7, <1>10 DEF FeedInv

(* The receiver skips a sample: it is one that does not serialize.         *)
LEMMA SkipFeed ==
  ASSUME FeedInv, NEW s \in Sockets, Skip(s)
  PROVE  FeedInv'
<1>1. /\ unread[s] \in 1..Capacity /\ unread[s] \in Nat /\ unread[s] - 1 \in bad /\ handler[s]
      /\ unread' = [unread EXCEPT ![s] = unread[s] - 1]
      /\ UNCHANGED <<handler, client, alive, wire, wsRef, visible, last, bad>>
  BY SMTT(30) DEF Skip, page, net, collector, FeedInv, FeedTypes
<1>2. /\ unread'[s] = unread[s] - 1 /\ \A t \in Sockets \ {s} : unread'[t] = unread[t]
      /\ unread' \in [Sockets -> 0..Capacity + 1]
  BY <1>1, SMTT(30) DEF FeedInv, FeedTypes
<1>3. FeedTypes' /\ OneSocket'
  BY <1>1, <1>2 DEF FeedInv, FeedTypes, OneSocket
<1>4. ASSUME NEW t \in Sockets, client[t] = "open" PROVE Chained(t)'
  <2>1. Chained(t) /\ Newest(t)' = Newest(t)
    BY <1>1, <1>4 DEF FeedInv, Newest
  <2>2. ASSUME t = s, Newest(s) \in Int, Follows(unread[s] - 1, Newest(s), bad)
        PROVE  Follows(unread'[s] - 1, Newest(s), bad)
    BY <1>1, <1>2, <2>2 DEF Follows
  <2>3. last \in Int /\ wire[t] \in Seq(Nat)
    BY DEF FeedInv, FeedTypes
  <2>4. Newest(t) \in Int
    BY <2>3, SMTT(30) DEF Newest
  <2>5. unread[s] <= Capacity
    BY <1>1
  <2> QED
    BY <1>1, <1>2, <2>1, <2>2, <2>4, <2>5 DEF Chained
<1> QED
  BY <1>1, <1>3, <1>4 DEF FeedInv

(* A sample is broadcast: it is the next of every feed, all are one older, *)
(* and so are those that do not serialize.                                 *)
LEMMA BroadcastFeed ==
  ASSUME FeedInv, Broadcast
  PROVE  FeedInv'
<1>1. /\ unread' = [s \in Sockets |-> IF handler[s] /\ unread[s] <= Capacity
                                      THEN unread[s] + 1 ELSE unread[s]]
      /\ wire' = [s \in Sockets |-> [i \in DOMAIN wire[s] |-> Older(wire[s][i])]]
      /\ last' = Older(last)
      /\ UNCHANGED <<handler, client, alive, wsRef, visible>>
  BY DEF Broadcast, page
<1>0. /\ bad' \subseteq Ages
      /\ \A a, b \in Int : b < MaxAge /\ -1 <= a /\ Follows(a, b, bad) /\ b + 1 < MaxAge =>
            Follows(a + 1, b + 1, bad')
  <2>1. {age + 1 : age \in bad} \cap Ages \subseteq bad' /\ bad' \subseteq Ages
    BY DEF Broadcast, Ages
  <2>2. ASSUME NEW a \in Int, NEW b \in Int, -1 <= a, Follows(a, b, bad), b + 1 < MaxAge,
               NEW c \in (a + 1) + 1..(b + 1) - 1
        PROVE  c \in bad'
    <3>1. c - 1 \in a + 1..b - 1
      BY <2>2
    <3>2. c - 1 \in bad /\ c = (c - 1) + 1 /\ c \in Ages
      BY <2>2, <3>1 DEF Follows, Ages
    <3> QED
      BY <2>1, <3>2
  <2>3. \A a, b \in Int : a < b => a + 1 < b + 1
    OBVIOUS
  <2> QED
    BY <2>1, <2>2, <2>3 DEF Follows
<1>2. \A a \in Nat \cup {NoAge} :
        /\ Older(a) \in Nat \cup {NoAge} /\ (Older(a) = NoAge <=> a = NoAge)
        /\ a # NoAge /\ Older(a) < MaxAge => a < MaxAge /\ Older(a) = a + 1
  BY DEF Older
<1>3. ASSUME NEW s \in Sockets
      PROVE  /\ wire[s] \in Seq(Nat) /\ wire'[s] \in Seq(Nat) /\ Len(wire[s]) \in Nat
             /\ Len(wire'[s]) = Len(wire[s])
             /\ \A i \in 1..Len(wire[s]) : wire[s][i] \in Nat /\ wire'[s][i] = Older(wire[s][i])
             /\ wire'[s] = <<>> <=> wire[s] = <<>>
  <2>1. wire[s] \in Seq(Nat) /\ Len(wire[s]) \in Nat /\ DOMAIN wire[s] = 1..Len(wire[s])
    BY DEF FeedInv, FeedTypes
  <2>2. wire'[s] = [i \in 1..Len(wire[s]) |-> Older(wire[s][i])]
    BY <1>1, <2>1
  <2>3. ASSUME NEW i \in 1..Len(wire[s]) PROVE wire[s][i] \in Nat /\ Older(wire[s][i]) \in Nat
    <3>1. wire[s][i] \in Nat
      BY <2>1, SMTT(30)
    <3> QED
      BY <3>1 DEF Older
  <2>4. wire'[s] \in Seq(Nat) /\ Len(wire'[s]) = Len(wire[s])
    BY <2>1, <2>2, <2>3
  <2>5. wire[s] = <<>> <=> Len(wire[s]) = 0
    BY <2>1
  <2>6. wire'[s] = <<>> <=> Len(wire'[s]) = 0
    BY <2>4
  <2> QED
    BY <2>1, <2>2, <2>3, <2>4, <2>5, <2>6
<1>4. FeedTypes'
  <2>1. wire' \in [Sockets -> Seq(Nat)]
    <3>1. DOMAIN wire' = Sockets /\ \A s \in Sockets : wire'[s] \in Seq(Nat)
      BY <1>1, <1>3
    <3> QED
      BY <1>1, <3>1
  <2>2. unread' \in [Sockets -> 0..Capacity + 1]
    BY <1>1, SMTT(30) DEF FeedInv, FeedTypes
  <2>3. last' \in Nat \cup {NoAge}
    BY <1>1, <1>2 DEF FeedInv, FeedTypes
  <2> QED
    BY <1>0, <1>1, <2>1, <2>2, <2>3 DEF FeedInv, FeedTypes
<1>5. OneSocket'
  <2>1. last = NoAge => last' = NoAge
    BY <1>1 DEF Older
  <2> QED
    BY <1>1, <1>3, <2>1 DEF FeedInv, OneSocket
<1>6. ASSUME NEW s \in Sockets, client[s] = "open" PROVE Chained(s)'
  <2>0. last \in Nat \cup {NoAge} /\ unread[s] \in 0..Capacity + 1
    BY DEF FeedInv, FeedTypes
  <2>1. Chained(s)
    BY <1>6 DEF FeedInv
  <2>2. ASSUME NEW i \in 1..Len(wire'[s]) - 1, wire'[s][i] < MaxAge
        PROVE  Follows(wire'[s][i + 1], wire'[s][i], bad')
    <3>0. Len(wire'[s]) = Len(wire[s]) /\ Len(wire[s]) \in Nat
      BY <1>3
    <3>1. i \in 1..Len(wire[s]) - 1 /\ i \in 1..Len(wire[s]) /\ i + 1 \in 1..Len(wire[s])
      BY <3>0
    <3> DEFINE a == wire[s][i]
               b == wire[s][i + 1]
    <3>2. a \in Nat /\ b \in Nat /\ wire'[s][i] = Older(a) /\ wire'[s][i + 1] = Older(b)
      BY <1>3, <3>1
    <3>3. a < MaxAge => Follows(b, a, bad)
      BY <2>1, <3>1 DEF Chained
    <3> HIDE DEF a, b
    <3>4. Older(a) < MaxAge
      BY <2>2, <3>2
    <3>5. a < MaxAge /\ a + 1 < MaxAge /\ Older(a) = a + 1
      BY <3>2, <3>4 DEF Older
    <3>6. Follows(b, a, bad) /\ b < a /\ Older(b) = b + 1
      BY <3>2, <3>3, <3>5 DEF Follows, Older
    <3> QED
      BY <1>0, <3>2, <3>5, <3>6
  <2>3. ASSUME wire'[s] # <<>>, last' # NoAge, last' < MaxAge PROVE Follows(wire'[s][1], last', bad')
    <3>1. last # NoAge /\ last < MaxAge /\ last' = last + 1
      BY <1>1, <1>2, <2>0, <2>3
    <3>2. 1 \in 1..Len(wire[s]) /\ wire[s] # <<>>
      BY <1>3, <2>3
    <3>3. /\ wire[s][1] \in Nat /\ Follows(wire[s][1], last, bad)
          /\ wire'[s][1] = Older(wire[s][1])
      BY <1>3, <2>1, <3>1, <3>2 DEF Chained
    <3>4. wire'[s][1] = wire[s][1] + 1
      BY <2>0, <3>1, <3>3 DEF Older, Follows
    <3> QED
      BY <1>0, <2>0, <2>3, <3>1, <3>3, <3>4
  <2>4. Newest(s)' = Older(Newest(s)) /\ Newest(s) \in Nat \cup {NoAge}
    <3>1. CASE wire[s] = <<>>
      BY <1>1, <1>3, <2>0, <3>1 DEF Newest
    <3>2. CASE wire[s] # <<>>
      <4>1. Len(wire[s]) \in 1..Len(wire[s])
        BY <1>3, <3>2
      <4> QED
        BY <1>3, <3>2, <4>1 DEF Newest
    <3> QED
      BY <3>1, <3>2
  <2>5. ASSUME handler'[s], unread'[s] <= Capacity, Newest(s)' # NoAge, Newest(s)' < MaxAge
        PROVE  Follows(unread'[s] - 1, Newest(s)', bad')
    <3>1. Newest(s) # NoAge /\ Newest(s) < MaxAge /\ Newest(s)' = Newest(s) + 1
      BY <1>2, <2>4, <2>5
    <3>2. unread[s] <= Capacity /\ unread'[s] = unread[s] + 1
      BY <1>1, <2>0, <2>5
    <3>3. Follows(unread[s] - 1, Newest(s), bad)
      BY <1>1, <2>1, <2>5, <3>1, <3>2 DEF Chained
    <3>4. unread[s] - 1 \in Int /\ -1 <= unread[s] - 1 /\ (unread[s] - 1) + 1 = unread'[s] - 1
      BY <2>0, <3>2
    <3>5. Newest(s) \in Int /\ Newest(s) + 1 < MaxAge
      BY <2>4, <2>5, <3>1
    <3> QED
      BY <1>0, <3>1, <3>3, <3>4, <3>5
  <2> QED
    BY <2>2, <2>3, <2>5 DEF Chained
<1> QED
  BY <1>0, <1>1, <1>4, <1>5, <1>6 DEF FeedInv

(* The steps that touch neither sockets nor frames.                        *)
LEMMA ElsewhereFeed ==
  ASSUME FeedInv, UNCHANGED <<client, alive, handler, unread, wire, wsRef, last, visible, bad>>
  PROVE  FeedInv'
BY DEF FeedInv, FeedTypes, OneSocket, Chained, Newest

(* Every step keeps the feed whole.                                        *)
LEMMA FeedStep ==
  FeedInv /\ [Next]_vars =>
    /\ FeedInv'
    /\ [landed' = "frame" /\ last # NoAge /\ last < MaxAge => Follows(last', last, bad)]_vars
<1> SUFFICES ASSUME FeedInv, [Next]_vars
             PROVE  /\ FeedInv'
                    /\ \/ landed' = "frame" /\ last # NoAge /\ last < MaxAge => Follows(last', last, bad)
                       \/ UNCHANGED vars
  BY DEF vars
<1> USE DEF collector, server, net, page, view
<1>1. ASSUME NEW scale \in Timescales, Select(scale) PROVE FeedInv' /\ landed' = None
  BY <1>1, ElsewhereFeed DEF Select
<1>2. ASSUME NEW i \in DOMAIN loads, GetHistory(i) \/ SetHistory(i) \/ SetHistoryError(i)
      PROVE  FeedInv' /\ landed' \in {None, "history"}
  BY <1>2, ElsewhereFeed DEF GetHistory, SetHistory, SetHistoryError
<1>3. CASE ReconnectTimer
  <2>1. landed' = None /\ UNCHANGED <<last, visible, bad>>
    BY <1>3 DEF ReconnectTimer
  <2>2. CASE wsRef # None
    BY <1>3, <2>1, <2>2, ElsewhereFeed DEF ReconnectTimer, Connect
  <2>3. CASE wsRef = None
    <3>1. Replaced({}) /\ {} = {wsRef} \cap Sockets
      BY <1>3, <2>3 DEF ReconnectTimer, Connect
    <3> QED
      BY <2>1, <3>1, ReplacedFeed
  <2> QED
    BY <2>1, <2>2, <2>3
<1>4. CASE Watchdog \/ PageShow \/ Show
  <2>1. Replaced({wsRef} \cap Sockets) /\ landed' = None /\ UNCHANGED <<last, bad>>
    BY <1>4 DEF Watchdog, PageShow, Show, ForceReconnect
  <2> QED
    BY <2>1, ReplacedFeed
<1>5. CASE Hide
  <2>1. wsRef' = None /\ visible' = FALSE /\ landed' = None /\ UNCHANGED <<last, bad>>
    BY <1>5 DEF Hide
  <2>2. CASE wsRef = None
    <3>1. UNCHANGED <<client, alive, wire, handler, unread>>
      BY <1>5, <2>2 DEF Hide
    <3>2. FeedTypes'
      BY <2>1, <3>1 DEF FeedInv, FeedTypes
    <3>3. OneSocket' /\ \A s \in Sockets : client'[s] # "open"
      BY <2>1, <2>2, <3>1 DEF FeedInv, OneSocket
    <3> QED
      BY <2>1, <3>2, <3>3, WithoutSocket
  <2>3. CASE wsRef # None
    <3>1. wsRef \in Sockets /\ Closed(wsRef)
      BY <1>5, <2>3 DEF Hide, FeedInv, FeedTypes
    <3> QED
      BY <2>1, <3>1, ClosedFeed
  <2> QED
    BY <2>2, <2>3
<1>6. ASSUME NEW s \in Sockets, Open(s) PROVE FeedInv' /\ landed' = None
  <2>1. /\ client[s] = "connecting" /\ client' = [client EXCEPT ![s] = "open"]
        /\ handler' = [handler EXCEPT ![s] = TRUE] /\ unread' = [unread EXCEPT ![s] = 0]
        /\ last' = NoAge /\ landed' = None
        /\ UNCHANGED <<alive, wire, wsRef, visible, bad>>
    BY <1>6 DEF Open
  <2>2. FeedTypes'
    BY <2>1, SMTT(30) DEF FeedInv, FeedTypes
  <2>3. \A t \in Sockets \ {s} : client[t] = None /\ client'[t] = None
    BY <2>1 DEF FeedInv, FeedTypes, OneSocket
  <2>4. wire'[s] = <<>> /\ client'[s] = "open"
    BY <2>1 DEF FeedInv, FeedTypes, OneSocket
  <2>5. OneSocket'
    BY <2>1, <2>3, <2>4 DEF FeedInv, FeedTypes, OneSocket
  <2>6. Chained(s)'
    <3>1. Newest(s)' = NoAge
      BY <2>1, <2>4 DEF Newest
    <3>2. Len(wire'[s]) = 0
      BY <2>4
    <3> QED
      BY <2>4, <3>1, <3>2 DEF Chained
  <2> QED
    BY <2>1, <2>2, <2>3, <2>5, <2>6 DEF FeedInv
<1>7. ASSUME NEW s \in Sockets, OnClose(s) PROVE FeedInv' /\ landed' = None
  <2>1. s = wsRef /\ Closed(s) /\ wsRef' = None /\ landed' = None /\ UNCHANGED <<last, bad>>
    BY <1>7 DEF OnClose, FeedInv, OneSocket
  <2> QED
    BY <2>1, ClosedFeed
<1>8. ASSUME NEW s \in Sockets, OnMessage(s)
      PROVE  /\ FeedInv'
             /\ landed' = "frame" /\ last # NoAge /\ last < MaxAge => Follows(last', last, bad)
  BY <1>8, MessageFeed
<1>9. ASSUME NEW s \in Sockets, Dies(s) \/ Lagged(s) PROVE FeedInv' /\ landed' = None
  <2>1. /\ handler' = [handler EXCEPT ![s] = FALSE] /\ unread' = [unread EXCEPT ![s] = 0]
        /\ alive' \in {alive, [alive EXCEPT ![s] = FALSE]}
        /\ wire' \in {wire, [wire EXCEPT ![s] = <<>>]}
        /\ landed' = None /\ UNCHANGED <<client, wsRef, last, visible, bad>>
    BY <1>9 DEF Dies, Lagged
  <2>2. <<>> \in Seq(Nat) /\ Len(<<>>) = 0
    OBVIOUS
  <2>3. FeedTypes'
    <3>1. alive' \in [Sockets -> BOOLEAN] /\ handler' \in [Sockets -> BOOLEAN]
      BY <2>1 DEF FeedInv, FeedTypes
    <3>2. unread' \in [Sockets -> 0..Capacity + 1]
      BY <2>1, SMTT(30) DEF FeedInv, FeedTypes
    <3>3. wire' \in [Sockets -> Seq(Nat)]
      BY <2>1, <2>2 DEF FeedInv, FeedTypes
    <3> QED
      BY <2>1, <3>1, <3>2, <3>3 DEF FeedInv, FeedTypes
  <2>4. ASSUME NEW t \in Sockets
        PROVE  /\ wire'[t] = wire[t] \/ wire'[t] = <<>>
               /\ handler'[t] => handler[t] /\ t # s
    BY <2>1 DEF FeedInv, FeedTypes
  <2>5. OneSocket'
    BY <2>1, <2>4 DEF FeedInv, OneSocket
  <2>6. ASSUME NEW t \in Sockets, client'[t] = "open" PROVE Chained(t)'
    <3>1. t = s
      <4>1. client[s] # None
        BY <1>9 DEF Dies, Lagged, FeedInv, OneSocket
      <4> QED
        BY <2>1, <2>6, <4>1 DEF FeedInv, OneSocket
    <3>2. ~handler'[t] /\ Chained(t)
      BY <2>1, <2>4, <2>6, <3>1 DEF FeedInv
    <3> QED
      BY <2>1, <2>2, <2>4, <3>2 DEF Chained
  <2> QED
    BY <2>1, <2>3, <2>5, <2>6 DEF FeedInv
<1>10. ASSUME NEW s \in Sockets, Send(s) PROVE FeedInv' /\ landed' = None
  BY <1>10, SendFeed DEF Send
<1>11. ASSUME NEW s \in Sockets, Skip(s) PROVE FeedInv' /\ landed' = None
  BY <1>11, SkipFeed DEF Skip
<1>12. ASSUME NEW others \in BOOLEAN, Collect(others) PROVE FeedInv' /\ landed' = None
  BY <1>12, ElsewhereFeed DEF Collect
<1>13. CASE Broadcast
  BY <1>13, BroadcastFeed DEF Broadcast
<1>14. CASE Second
  BY <1>14, ElsewhereFeed DEF Second
<1>15. CASE UNCHANGED vars
  BY <1>15, ElsewhereFeed DEF vars
<1> QED
  BY <1>1, <1>2, <1>3, <1>4, <1>5, <1>6, <1>7, <1>8, <1>9, <1>10, <1>11, <1>12, <1>13,
     <1>14, <1>15
     DEF Next

(* The first socket is being opened and carries nothing.                   *)
LEMMA FeedInit == Init => FeedInv
<1> SUFFICES ASSUME Init PROVE FeedInv
  OBVIOUS
<1> DEFINE first == CHOOSE s \in Sockets : TRUE
<1>1. first \in Sockets
  OBVIOUS
<1>2. /\ wsRef = first /\ client = [t \in Sockets |-> IF t = first THEN "connecting" ELSE None]
      /\ alive = [t \in Sockets |-> t = first] /\ handler = [s \in Sockets |-> FALSE]
      /\ unread = [s \in Sockets |-> 0] /\ wire = [s \in Sockets |-> <<>>] /\ last = NoAge
      /\ bad = {}
  BY DEF Init
<1>3. <<>> \in Seq(Nat)
  OBVIOUS
<1> HIDE DEF first
<1>4. FeedTypes
  BY <1>1, <1>2, <1>3 DEF FeedTypes
<1>5. OneSocket /\ \A s \in Sockets : client[s] # "open"
  BY <1>2 DEF OneSocket
<1> QED
  BY <1>4, <1>5 DEF FeedInv

(* Between two openings of its socket the page is given every sample that  *)
(* serializes, once and in order, wherever its socket falls behind, dies   *)
(* or is replaced (ws.rs:14-30, use-websocket.ts:34-37, 95-117).           *)
THEOREM FeedHasNoGaps == Spec => FeedIsWhole
BY FeedInit, FeedStep, PTL DEF Spec, FeedIsWhole

-----------------------------------------------------------------------------
(* The chart.  At most the latest load is in flight, and no other has      *)
(* overtaken it.  While none is in flight for the selected timescale, the  *)
(* chart is right, and so it will be with any answer that is yet to come.  *)
ChartIsRight == chart.scale = timescale \/ chart.error \/ chart.passed
LoadsInv ==
  /\ loads \in Seq(Loads)
  /\ chart \in [scale : Timescales, error : BOOLEAN, passed : BOOLEAN]
  /\ timescale \in Timescales
  /\ \A i \in 1..Len(loads) : loads[i].inFlight => i = Len(loads) /\ ~loads[i].passed
  /\ InFlightFor(timescale) \/
     (ChartIsRight /\ \A i \in 1..Len(loads) : loads[i].passed \/ loads[i].scale = timescale)

(* The loads after one of them has come to an end.                         *)
LEMMA RestIs ==
  ASSUME loads \in Seq(Loads), NEW i \in DOMAIN loads
  PROVE  /\ Rest(i) \in Seq(Loads) /\ Len(Rest(i)) = Len(loads) - 1
         /\ \A j \in 1..Len(loads) - 1 :
              Rest(i)[j] = IF j < i THEN [loads[j] EXCEPT !.passed = TRUE] ELSE loads[j + 1]
<1>1. Len(loads) \in Nat /\ i \in 1..Len(loads)
  OBVIOUS
<1>2. /\ Len(SubSeq(loads, 1, i - 1)) = i - 1 /\ SubSeq(loads, 1, i - 1) \in Seq(Loads)
      /\ Len(SubSeq(loads, i + 1, Len(loads))) = Len(loads) - i
      /\ SubSeq(loads, i + 1, Len(loads)) \in Seq(Loads)
  <2>1. \A j \in 1..Len(loads) : loads[j] \in Loads
    OBVIOUS
  <2>2. /\ \A j \in 1..i - 1 : loads[j] \in Loads
        /\ \A j \in i + 1..Len(loads) : loads[j] \in Loads
    BY <1>1, <2>1
  <2>0. ASSUME NEW m \in Int, NEW n \in Int, \A j \in m..n : loads[j] \in Loads
        PROVE  /\ SubSeq(loads, m, n) \in Seq(Loads)
               /\ Len(SubSeq(loads, m, n)) = IF m <= n THEN n - m + 1 ELSE 0
    BY <2>0, SubSeqProperties
  <2>a. i - 1 \in Int /\ i + 1 \in Int /\ Len(loads) \in Int
    BY <1>1
  <2>3. /\ SubSeq(loads, 1, i - 1) \in Seq(Loads)
        /\ Len(SubSeq(loads, 1, i - 1)) = IF 1 <= i - 1 THEN i - 1 - 1 + 1 ELSE 0
    BY <2>0, <2>2, <2>a
  <2>4. /\ SubSeq(loads, i + 1, Len(loads)) \in Seq(Loads)
        /\ Len(SubSeq(loads, i + 1, Len(loads))) =
             IF i + 1 <= Len(loads) THEN Len(loads) - (i + 1) + 1 ELSE 0
    BY <2>0, <2>2, <2>a
  <2>5. ASSUME NEW n \in Nat, NEW m \in 1..n
        PROVE  /\ (IF 1 <= m - 1 THEN m - 1 - 1 + 1 ELSE 0) = m - 1
               /\ (IF m + 1 <= n THEN n - (m + 1) + 1 ELSE 0) = n - m
    BY <2>5
  <2>6. /\ (IF 1 <= i - 1 THEN i - 1 - 1 + 1 ELSE 0) = i - 1
        /\ (IF i + 1 <= Len(loads) THEN Len(loads) - (i + 1) + 1 ELSE 0) = Len(loads) - i
    BY <1>1, <2>5
  <2>7. /\ Len(SubSeq(loads, 1, i - 1)) = i - 1
        /\ Len(SubSeq(loads, i + 1, Len(loads))) = Len(loads) - i
    BY <2>3, <2>4, <2>6
  <2> QED
    BY <2>3, <2>4, <2>7, Zenon
<1>3. DOMAIN RemoveAt(loads, i) = 1..Len(loads) - 1
  BY <1>1, <1>2 DEF RemoveAt
<1>4. Rest(i) = [j \in 1..Len(loads) - 1 |->
                   IF j < i THEN [loads[j] EXCEPT !.passed = TRUE] ELSE loads[j + 1]]
  BY <1>3 DEF Rest
<1>5. ASSUME NEW j \in 1..Len(loads) - 1
      PROVE  (IF j < i THEN [loads[j] EXCEPT !.passed = TRUE] ELSE loads[j + 1]) \in Loads
  <2>1. j \in 1..Len(loads) /\ j + 1 \in 1..Len(loads)
    BY <1>1
  <2>2. loads[j] \in Loads /\ loads[j + 1] \in Loads
    BY <2>1
  <2> QED
    BY <2>2 DEF Loads
<1> QED
  BY <1>1, <1>4, <1>5

(* The loads are numbered from the earliest.                               *)
LEMMA LoadsAreNumbered ==
  ASSUME LoadsInv
  PROVE  loads \in Seq(Loads) /\ Len(loads) \in Nat /\ DOMAIN loads = 1..Len(loads)
<1>1. loads \in Seq(Loads)
  BY Zenon DEF LoadsInv
<1> QED
  BY <1>1

(* A load that is asked for, or joined, is in flight, and it alone.        *)
LEMMA AskedIsInFlight ==
  ASSUME LoadsInv, NEW scale \in Timescales, LoadHistory(scale)
  PROVE  /\ loads' \in Seq(Loads)
         /\ \A i \in 1..Len(loads') : loads'[i].inFlight => i = Len(loads') /\ ~loads'[i].passed
         /\ \E i \in DOMAIN loads' : loads'[i].inFlight /\ loads'[i].scale = scale
<1>0. loads \in Seq(Loads) /\ Len(loads) \in Nat /\ DOMAIN loads = 1..Len(loads)
  BY LoadsAreNumbered
<1>1. CASE InFlightFor(scale)
  <2>1. loads' = loads
    BY <1>1 DEF LoadHistory
  <2>2. \A i \in 1..Len(loads) : loads[i].inFlight => i = Len(loads) /\ ~loads[i].passed
    BY Zenon DEF LoadsInv
  <2>3. \E i \in DOMAIN loads : loads[i].inFlight /\ loads[i].scale = scale
    BY <1>1, Zenon DEF InFlightFor
  <2> QED
    BY <1>0, <2>1, <2>2, <2>3, Zenon
<1>2. CASE ~InFlightFor(scale)
  <2> DEFINE old == [i \in DOMAIN loads |-> [loads[i] EXCEPT !.inFlight = FALSE]]
             new == [scale |-> scale, inFlight |-> TRUE, stage |-> "asked", passed |-> FALSE]
  <2>1. loads' = Append(old, new)
    BY <1>2 DEF LoadHistory
  <2>2. ASSUME NEW i \in 1..Len(loads) PROVE old[i] \in Loads /\ ~old[i].inFlight
    <3>1. loads[i] \in Loads /\ old[i] = [loads[i] EXCEPT !.inFlight = FALSE]
      BY <1>0
    <3> QED
      BY <3>1 DEF Loads
  <2>3. old \in Seq(Loads) /\ Len(old) = Len(loads) /\ new \in Loads
    BY <1>0, <2>2 DEF Loads
  <2>4. new.inFlight /\ ~new.passed /\ new.scale = scale
    OBVIOUS
  <2> HIDE DEF old, new
  <2>5. /\ loads' \in Seq(Loads) /\ Len(loads') = Len(loads) + 1
        /\ loads'[Len(loads) + 1] = new /\ \A i \in 1..Len(loads) : loads'[i] = old[i]
    BY <1>0, <2>1, <2>3
  <2>6. Len(loads') \in DOMAIN loads'
    BY <1>0, <2>5
  <2>7. \E i \in DOMAIN loads' : loads'[i].inFlight /\ loads'[i].scale = scale
    BY <2>4, <2>5, <2>6, Zenon
  <2>8. ASSUME NEW i \in 1..Len(loads'), loads'[i].inFlight
        PROVE  i = Len(loads') /\ ~loads'[i].passed
    <3>1. i \in 1..Len(loads) \/ i = Len(loads) + 1
      BY <1>0, <2>5, <2>8
    <3>2. CASE i \in 1..Len(loads)
      BY <2>2, <2>5, <2>8, <3>2, Zenon
    <3>3. CASE i = Len(loads) + 1
      BY <2>4, <2>5, <3>3, Zenon
    <3> QED
      BY <3>1, <3>2, <3>3
  <2> QED
    BY <2>5, <2>7, <2>8
<1> QED
  BY <1>1, <1>2

(* Loads that go on without coming to an end.                              *)
LEMMA LoadsGoOn ==
  ASSUME LoadsInv, loads' \in Seq(Loads), Len(loads') = Len(loads), UNCHANGED <<timescale, chart>>,
         \A i \in 1..Len(loads) : /\ loads'[i].scale = loads[i].scale
                                  /\ loads'[i].inFlight = loads[i].inFlight
                                  /\ loads'[i].passed = loads[i].passed
  PROVE  LoadsInv'
<1>1. DOMAIN loads = 1..Len(loads) /\ DOMAIN loads' = 1..Len(loads)
  <2>1. DOMAIN loads' = 1..Len(loads')
    OBVIOUS
  <2> QED
    BY <2>1, LoadsAreNumbered
<1>2. \A i \in 1..Len(loads') : loads'[i].inFlight => i = Len(loads') /\ ~loads'[i].passed
  BY Zenon DEF LoadsInv
<1>3. InFlightFor(timescale)' \/
      (ChartIsRight' /\ \A i \in 1..Len(loads') : loads'[i].passed \/ loads'[i].scale = timescale')
  <2>1. CASE InFlightFor(timescale)
    BY <1>1, <2>1, Zenon DEF InFlightFor
  <2>2. CASE ~InFlightFor(timescale)
    <3>1. ChartIsRight /\ \A i \in 1..Len(loads) : loads[i].passed \/ loads[i].scale = timescale
      BY <2>2, Zenon DEF LoadsInv
    <3> QED
      BY <3>1, Zenon DEF ChartIsRight
  <2> QED
    BY <2>1, <2>2
<1>4. /\ chart' \in [scale : Timescales, error : BOOLEAN, passed : BOOLEAN]
      /\ timescale' \in Timescales
  BY Zenon DEF LoadsInv
<1> QED
  BY <1>2, <1>3, <1>4, Zenon DEF LoadsInv

(* A load comes to an end, with a history or an error for the chart.       *)
LEMMA LoadEnds ==
  ASSUME LoadsInv, NEW i \in DOMAIN loads, loads' = Rest(i), UNCHANGED timescale,
         \/ chart' = [scale |-> loads[i].scale, error |-> FALSE, passed |-> loads[i].passed]
         \/ chart' = [chart EXCEPT !.error = TRUE]
  PROVE  LoadsInv'
<1>0. loads \in Seq(Loads) /\ Len(loads) \in Nat /\ i \in 1..Len(loads)
      /\ DOMAIN loads = 1..Len(loads)
  BY LoadsAreNumbered
<1>1. /\ loads' \in Seq(Loads) /\ Len(loads') = Len(loads) - 1
      /\ \A j \in 1..Len(loads) - 1 :
           loads'[j] = IF j < i THEN [loads[j] EXCEPT !.passed = TRUE] ELSE loads[j + 1]
  BY <1>0, RestIs, Zenon
<1>2. ASSUME NEW j \in 1..Len(loads)
      PROVE  /\ loads[j].scale \in Timescales /\ loads[j].inFlight \in BOOLEAN
             /\ loads[j].passed \in BOOLEAN
             /\ [loads[j] EXCEPT !.passed = TRUE].inFlight = loads[j].inFlight
             /\ [loads[j] EXCEPT !.passed = TRUE].passed = TRUE
  <2>1. loads[j] \in Loads
    BY <1>0
  <2> QED
    BY <2>1 DEF Loads
<1>3. \A j \in 1..Len(loads) - 1 : j \in 1..Len(loads) /\ j + 1 \in 1..Len(loads)
  BY <1>0
<1>a. ASSUME NEW j \in 1..Len(loads) - 1
      PROVE  /\ j < i => loads'[j].passed /\ loads'[j].inFlight = loads[j].inFlight
             /\ ~(j < i) => loads'[j] = loads[j + 1]
  <2>1. loads'[j] = IF j < i THEN [loads[j] EXCEPT !.passed = TRUE] ELSE loads[j + 1]
    BY <1>1
  <2>2. j \in 1..Len(loads)
    BY <1>3
  <2> QED
    BY <1>2, <2>1, <2>2
<1>4. ASSUME NEW j \in 1..Len(loads'), loads'[j].inFlight
      PROVE  j = Len(loads') /\ ~loads'[j].passed
  <2>1. j \in 1..Len(loads) - 1 /\ j \in 1..Len(loads) /\ j + 1 \in 1..Len(loads)
    BY <1>0, <1>1, <1>3
  <2>2. j >= i
    <3> SUFFICES ASSUME j < i PROVE FALSE
      BY <1>0, <2>1
    <3>1. loads[j].inFlight
      BY <1>4, <1>a, <2>1
    <3>2. j = Len(loads)
      BY <2>1, <3>1 DEF LoadsInv
    <3> QED
      BY <1>0, <3>2
  <2>3. loads'[j] = loads[j + 1]
    <3>1. ~(j < i)
      BY <1>0, <2>1, <2>2
    <3> QED
      BY <1>a, <2>1, <3>1
  <2>4. j + 1 = Len(loads) /\ ~loads[j + 1].passed
    BY <1>4, <2>1, <2>3 DEF LoadsInv
  <2> QED
    BY <1>0, <1>1, <2>1, <2>3, <2>4, SMTT(30)
<1>5. chart' \in [scale : Timescales, error : BOOLEAN, passed : BOOLEAN]
  <2>1. chart \in [scale : Timescales, error : BOOLEAN, passed : BOOLEAN]
    BY DEF LoadsInv
  <2>2. loads[i].scale \in Timescales /\ loads[i].passed \in BOOLEAN
    BY <1>0, <1>2
  <2>3. CASE chart' = [chart EXCEPT !.error = TRUE]
    BY <2>1, <2>3
  <2>4. CASE chart' = [scale |-> loads[i].scale, error |-> FALSE, passed |-> loads[i].passed]
    BY <2>2, <2>4
  <2> QED
    BY <2>3, <2>4
<1>6. InFlightFor(timescale)' \/
      (ChartIsRight' /\ \A j \in 1..Len(loads') : loads'[j].passed \/ loads'[j].scale = timescale')
  <2>0. DOMAIN loads' = 1..Len(loads) - 1
    BY <1>1
  <2>1. CASE InFlightFor(timescale)
    <3>1. /\ loads[Len(loads)].inFlight /\ loads[Len(loads)].scale = timescale
          /\ ~loads[Len(loads)].passed
      BY <1>0, <2>1 DEF LoadsInv, InFlightFor
    <3>2. CASE i = Len(loads)
      <4>1. ChartIsRight'
        BY <1>5, <3>1, <3>2 DEF ChartIsRight, LoadsInv
      <4>2. \A j \in 1..Len(loads') : loads'[j].passed
        <5> SUFFICES ASSUME NEW j \in 1..Len(loads') PROVE loads'[j].passed
          OBVIOUS
        <5>1. j \in 1..Len(loads) - 1 /\ j < i
          BY <1>0, <1>1, <3>2
        <5> QED
          BY <1>a, <5>1
      <4> QED
        BY <4>1, <4>2
    <3>3. CASE i # Len(loads)
      <4>1. Len(loads) - 1 \in 1..Len(loads) - 1 /\ ~(Len(loads) - 1 < i)
        BY <1>0, <3>3
      <4>2. loads'[Len(loads) - 1] = loads[Len(loads) - 1 + 1] /\ Len(loads) - 1 + 1 = Len(loads)
        BY <1>0, <1>a, <4>1, SMTT(30)
      <4> QED
        BY <2>0, <3>1, <4>1, <4>2 DEF InFlightFor
    <3> QED
      BY <3>2, <3>3
  <2>2. CASE ~InFlightFor(timescale)
    <3>1. /\ ChartIsRight
          /\ \A j \in 1..Len(loads) : loads[j].passed \/ loads[j].scale = timescale
      BY <2>2 DEF LoadsInv
    <3>2. ChartIsRight'
      BY <1>0, <3>1 DEF ChartIsRight, LoadsInv
    <3>3. ASSUME NEW j \in 1..Len(loads') PROVE loads'[j].passed \/ loads'[j].scale = timescale'
      <4>1. j \in 1..Len(loads) - 1 /\ j \in 1..Len(loads) /\ j + 1 \in 1..Len(loads)
        BY <1>0, <1>1, <1>3
      <4> QED
        BY <1>a, <3>1, <4>1
    <3> QED
      BY <3>2, <3>3
  <2> QED
    BY <2>1, <2>2
<1>7. timescale' \in Timescales
  BY Zenon DEF LoadsInv
<1> QED
  BY <1>1, <1>4, <1>5, <1>6, <1>7, Zenon DEF LoadsInv

(* Every step keeps the chart right or a load for it in flight.            *)
LEMMA LoadsStep == LoadsInv /\ [Next]_vars => LoadsInv'
<1> SUFFICES ASSUME LoadsInv, [Next]_vars PROVE LoadsInv'
  OBVIOUS
<1> USE DEF collector, server, net, page, view
<1>0. loads \in Seq(Loads) /\ DOMAIN loads = 1..Len(loads) /\ timescale \in Timescales
  <2>1. timescale \in Timescales
    BY Zenon DEF LoadsInv
  <2> QED
    BY <2>1, LoadsAreNumbered
<1>1. ASSUME NEW scale \in Timescales, LoadHistory(scale), timescale' = scale, UNCHANGED chart
      PROVE  LoadsInv'
  BY <1>1, AskedIsInFlight DEF LoadsInv, InFlightFor
<1>2. ASSUME NEW scale \in Timescales, Select(scale) PROVE LoadsInv'
  BY <1>1, <1>2 DEF Select
<1>3. ASSUME NEW i \in DOMAIN loads, GetHistory(i) PROVE LoadsInv'
  <2>1. loads' = [loads EXCEPT ![i].stage = "answered"] /\ UNCHANGED <<timescale, chart>>
    BY <1>3 DEF GetHistory
  <2>2. ASSUME NEW j \in 1..Len(loads)
        PROVE  /\ loads'[j] \in Loads /\ loads'[j].scale = loads[j].scale
               /\ loads'[j].inFlight = loads[j].inFlight /\ loads'[j].passed = loads[j].passed
    <3>1. loads[j] \in Loads
      BY <1>0
    <3>2. loads'[j] = IF j = i THEN [loads[j] EXCEPT !.stage = "answered"] ELSE loads[j]
      BY <1>0, <2>1
    <3> QED
      BY <3>1, <3>2 DEF Loads
  <2>3. DOMAIN loads' = 1..Len(loads) /\ Len(loads) \in Nat
    BY <1>0, <2>1
  <2>4. loads' = [j \in 1..Len(loads) |-> loads'[j]]
    BY <1>0, <2>1
  <2>5. loads' \in Seq(Loads) /\ Len(loads') = Len(loads)
    BY <2>2, <2>3, <2>4
  <2> QED
    BY <2>1, <2>2, <2>5, LoadsGoOn
<1>4. ASSUME NEW i \in DOMAIN loads, SetHistory(i) \/ SetHistoryError(i) PROVE LoadsInv'
  BY <1>4, LoadEnds DEF SetHistory, SetHistoryError
<1>5. CASE Watchdog \/ PageShow \/ Show
  BY <1>0, <1>1, <1>5 DEF Watchdog, PageShow, Show, ForceReconnect
<1>6. ASSUME NEW s \in Sockets, Open(s) PROVE LoadsInv'
  BY <1>0, <1>1, <1>6 DEF Open
<1>7. ASSUME UNCHANGED view PROVE LoadsInv'
  BY <1>7 DEF LoadsInv, ChartIsRight, InFlightFor
<1>8. ASSUME NEW s \in Sockets, OnMessage(s) PROVE LoadsInv'
  <2>1. CASE visible
    <3>1. loads' = [i \in DOMAIN loads |-> Pushed(loads[i])] /\ UNCHANGED <<timescale, chart>>
      BY <1>8, <2>1 DEF OnMessage
    <3>2. ASSUME NEW j \in 1..Len(loads)
          PROVE  /\ Pushed(loads[j]) \in Loads /\ Pushed(loads[j]).scale = loads[j].scale
                 /\ Pushed(loads[j]).inFlight = loads[j].inFlight
                 /\ Pushed(loads[j]).passed = loads[j].passed
      <4>1. loads[j] \in Loads
        BY <1>0
      <4> QED
        BY <4>1 DEF Loads, Pushed
    <3>3. loads' \in Seq(Loads) /\ Len(loads') = Len(loads)
          /\ \A j \in 1..Len(loads) : loads'[j] = Pushed(loads[j])
      BY <1>0, <3>1, <3>2
    <3> QED
      BY <3>1, <3>2, <3>3, LoadsGoOn
  <2>2. CASE ~visible
    BY <1>7, <1>8, <2>2 DEF OnMessage
  <2> QED
    BY <2>1, <2>2
<1>9. CASE \/ ReconnectTimer \/ Hide \/ Second
           \/ \E s \in Sockets : OnClose(s) \/ Dies(s) \/ Send(s) \/ Skip(s) \/ Lagged(s)
           \/ \E others \in BOOLEAN : Collect(others)
           \/ Broadcast \/ UNCHANGED vars
  BY <1>7, <1>9 DEF ReconnectTimer, Hide, Second, OnClose, Dies, Send, Skip, Lagged, Collect,
     Broadcast, vars
<1> QED
  BY <1>2, <1>3, <1>4, <1>5, <1>6, <1>8, <1>9 DEF Next

(* The page begins with a load for the timescale it has selected.          *)
LEMMA LoadsInit == Init => LoadsInv
<1> SUFFICES ASSUME Init PROVE LoadsInv
  OBVIOUS
<1> DEFINE first == [scale |-> timescale, inFlight |-> TRUE, stage |-> "asked", passed |-> FALSE]
<1>1. loads = <<first>> /\ timescale \in Timescales
  BY DEF Init
<1>2. first \in Loads /\ first.inFlight /\ ~first.passed /\ first.scale = timescale
  BY <1>1 DEF Loads
<1> HIDE DEF first
<1>3. loads \in Seq(Loads) /\ Len(loads) = 1 /\ loads[1] = first /\ 1 \in DOMAIN loads
  BY <1>1, <1>2
<1>4. chart \in [scale : Timescales, error : BOOLEAN, passed : BOOLEAN]
  BY DEF Init
<1> QED
  BY <1>1, <1>2, <1>3, <1>4 DEF LoadsInv, InFlightFor

(* When no load is under way the chart is of the timescale that the reader *)
(* selected, or says that it failed, or shows an answer that was overtaken *)
(* by that of a later load: joining, reconnecting and turning back and     *)
(* forth lose none (use-history.ts:16-52).                                 *)
THEOREM ChartSettles == Spec => []ChartIsOfTheTimescale
<1>1. LoadsInv => ChartIsOfTheTimescale
  <2> SUFFICES ASSUME LoadsInv, loads = <<>>
               PROVE  chart.scale = timescale \/ chart.error \/ chart.passed
    BY DEF ChartIsOfTheTimescale
  <2>1. ~InFlightFor(timescale)
    BY DEF InFlightFor
  <2> QED
    BY <2>1 DEF LoadsInv, ChartIsRight
<1> QED
  BY <1>1, LoadsInit, LoadsStep, PTL DEF Spec

-----------------------------------------------------------------------------
(* What the clocks and the bounds of the model need.                       *)
LEMMA Bounds ==
  /\ Active \in Nat \ {0} /\ Idle \in Nat \ {0} /\ Stale \in Nat \ {0} /\ Active <= Idle
  /\ Sampling \in Nat /\ Longest \in Nat /\ Sampling <= Longest
  /\ Capacity <= MaxAge + 1 /\ MaxFetches \in Nat \ {0} /\ MaxBacklog \in Nat \ {0}
  /\ MaxFaults \in Nat
BY LiveFeedAssumption

(* The collector never sleeps longer than it does after the shortest of    *)
(* collections when nobody listens.                                        *)
LongestSleep == NextCollectorDelay(FALSE, Sampling)

LEMMA Sleeps ==
  /\ LongestSleep \in 0..Idle
  /\ \A listening \in BOOLEAN, e \in Nat :
       e >= Sampling => NextCollectorDelay(listening, e) \in 0..LongestSleep
BY Bounds DEF NextCollectorDelay, LongestSleep

(* Types, and the bounds of the clocks and of what is under way.           *)
ClockInv ==
  /\ countdown \in 0..LongestSleep /\ elapsed \in Nat /\ elapsed <= Longest + faults
  /\ countdown = 0 \/ elapsed = 0
  /\ backlog \in 0..MaxBacklog
  /\ quiet \in 0..Stale + 1 /\ faults \in 0..MaxFaults

FlagInv ==
  /\ intentional \in BOOLEAN /\ timer \in BOOLEAN /\ visible \in BOOLEAN /\ slow \in BOOLEAN
  /\ landed \in {None, "frame", "history"}

WireInv ==
  /\ last \in Ages \cup {NoAge}
  /\ \A s \in Sockets : Len(wire[s]) <= Wire /\ \A i \in 1..Len(wire[s]) : wire[s][i] \in Ages

(* Every step keeps the clocks within their bounds.                        *)
LEMMA ClockStep == ClockInv /\ [Next]_vars => ClockInv'
<1> SUFFICES ASSUME ClockInv, [Next]_vars PROVE ClockInv'
  OBVIOUS
<1> USE DEF collector, server, net, page, view
<1>1. CASE /\ UNCHANGED <<countdown, elapsed, backlog>> /\ quiet' \in {0, quiet}
           /\ Fault \/ UNCHANGED faults
  BY Bounds, <1>1 DEF ClockInv, Fault
<1>2. ASSUME NEW scale \in Timescales, Select(scale) PROVE ClockInv'
  BY <1>1, <1>2, Zenon DEF Select
<1>3. ASSUME NEW i \in DOMAIN loads, GetHistory(i) \/ SetHistory(i) \/ SetHistoryError(i)
      PROVE  ClockInv'
  BY <1>1, <1>3, Zenon DEF GetHistory, SetHistory, SetHistoryError
<1>4. CASE Watchdog \/ PageShow \/ Show
  BY <1>1, <1>4 DEF Watchdog, PageShow, Show, ForceReconnect
<1>5. CASE ReconnectTimer \/ Hide
  BY <1>1, <1>5 DEF ReconnectTimer, Hide
<1>6. ASSUME NEW s \in Sockets, Open(s) \/ OnClose(s) \/ OnMessage(s) \/ Dies(s)
      PROVE  ClockInv'
  BY <1>1, <1>6 DEF Open, OnClose, OnMessage, Dies
<1>7. ASSUME NEW s \in Sockets, Send(s) \/ Skip(s) \/ Lagged(s) PROVE ClockInv'
  BY <1>1, <1>7 DEF Send, Skip, Lagged
<1>8. ASSUME NEW others \in BOOLEAN, Collect(others) PROVE ClockInv'
  <2>1. /\ elapsed >= Sampling /\ elapsed' = 0
        /\ backlog < MaxBacklog /\ backlog' = backlog + 1 /\ UNCHANGED <<quiet, faults>>
    BY <1>8 DEF Collect
  <2>2. countdown' \in 0..LongestSleep
    <3>1. countdown' = NextCollectorDelay(others \/ \E s \in Sockets : handler[s], elapsed)
      BY <1>8 DEF Collect
    <3> QED
      BY <2>1, <3>1, Sleeps DEF ClockInv
  <2> QED
    BY Bounds, <2>1, <2>2 DEF ClockInv
<1>9. CASE Broadcast
  <2>1. /\ backlog > 0 /\ backlog' = backlog - 1 /\ UNCHANGED <<countdown, elapsed, quiet>>
        /\ Fault \/ UNCHANGED faults
    BY <1>9 DEF Broadcast
  <2> QED
    BY Bounds, <2>1 DEF ClockInv, Fault
<1>10. CASE Second
  <2>1. \/ countdown > 0 /\ countdown' = countdown - 1 /\ UNCHANGED elapsed
        \/ countdown = 0 /\ elapsed' = elapsed + 1 /\ UNCHANGED countdown
    BY <1>10, Sleeps DEF Second, ClockInv
  <2>2. quiet' = IF quiet > Stale THEN quiet ELSE quiet + 1
    BY <1>10 DEF Second
  <2>3. /\ UNCHANGED backlog
        /\ \/ Fault
           \/ UNCHANGED faults /\ ~(countdown = 0 /\ elapsed >= Longest)
    BY <1>10 DEF Second, Late
  <2>4. countdown' \in 0..LongestSleep /\ elapsed' \in Nat /\ (countdown' = 0 \/ elapsed' = 0)
    BY Sleeps, <2>1 DEF ClockInv
  <2>5. elapsed' <= Longest + faults'
    BY Bounds, Sleeps, <2>1, <2>3 DEF ClockInv, Fault
  <2>6. quiet' \in 0..Stale + 1
    BY Bounds, <2>2 DEF ClockInv
  <2>7. faults' \in 0..MaxFaults
    BY Bounds, <2>3 DEF ClockInv, Fault
  <2> QED
    BY <2>3, <2>4, <2>5, <2>6, <2>7 DEF ClockInv
<1>11. CASE UNCHANGED vars
  BY <1>1, <1>11 DEF vars
<1> QED
  BY <1>2, <1>3, <1>4, <1>5, <1>6, <1>7, <1>8, <1>9, <1>10, <1>11, Zenon DEF Next

(* Every step leaves a flag of the page up or down.                        *)
LEMMA FlagStep == FlagInv /\ [Next]_vars => FlagInv'
<1> SUFFICES ASSUME FlagInv, [Next]_vars PROVE FlagInv'
  OBVIOUS
<1> USE DEF collector, server, net, page, view, FlagInv
<1>1. ASSUME NEW scale \in Timescales, Select(scale) PROVE FlagInv'
  BY <1>1, Zenon DEF Select
<1>2. ASSUME NEW i \in DOMAIN loads, GetHistory(i) \/ SetHistory(i) \/ SetHistoryError(i)
      PROVE  FlagInv'
  BY <1>2, Zenon DEF GetHistory, SetHistory, SetHistoryError
<1>3. CASE ReconnectTimer \/ Hide
  BY <1>3, Zenon DEF ReconnectTimer, Connect, Hide
<1>4. CASE Watchdog \/ PageShow \/ Show
  BY <1>4, Zenon DEF Watchdog, PageShow, Show, ForceReconnect
<1>5. ASSUME NEW s \in Sockets,
             Open(s) \/ OnMessage(s) \/ Dies(s) \/ Send(s) \/ Skip(s) \/ Lagged(s)
      PROVE  FlagInv'
  BY <1>5, Zenon DEF Open, OnMessage, Dies, Send, Skip, Lagged
<1>6. ASSUME NEW s \in Sockets, OnClose(s) PROVE FlagInv'
  BY <1>6, Zenon DEF OnClose
<1>7. ASSUME Broadcast \/ \E others \in BOOLEAN : Collect(others) PROVE FlagInv'
  BY <1>7, Zenon DEF Broadcast, Collect
<1>8. CASE Second
  BY <1>8, Zenon DEF Second
<1>9. CASE UNCHANGED vars
  BY <1>9, Zenon DEF vars
<1> QED
  BY <1>1, <1>2, <1>3, <1>4, <1>5, <1>6, <1>7, <1>8, <1>9, Zenon DEF Next

(* A socket whose connection lost its frames, or kept them, stays bounded. *)
LEMMA WireKept ==
  ASSUME WireInv, last' \in {last, NoAge},
         \A s \in Sockets : wire'[s] = wire[s] \/ wire'[s] = <<>>
  PROVE  WireInv'
<1>1. Len(<<>>) = 0
  OBVIOUS
<1>2. ASSUME NEW s \in Sockets
      PROVE  Len(wire'[s]) <= Wire /\ \A i \in 1..Len(wire'[s]) : wire'[s][i] \in Ages
  BY <1>1, <1>2 DEF WireInv
<1> QED
  BY <1>2 DEF WireInv

(* Every step keeps the frames on their way within the bounds.             *)
LEMMA WireStep == FeedInv /\ WireInv /\ [Next]_vars => WireInv'
<1> SUFFICES ASSUME FeedInv, WireInv, [Next]_vars PROVE WireInv'
  OBVIOUS
<1> USE DEF collector, server, net, page, view
<1>0. \A s \in Sockets : wire[s] \in Seq(Nat) /\ Len(wire[s]) \in Nat
  BY DEF FeedInv, FeedTypes
<1>1. CASE UNCHANGED <<wire, last>>
  BY <1>1, WireKept
<1>2. CASE ReconnectTimer \/ Watchdog \/ PageShow \/ Show
  <2>1. /\ UNCHANGED last
        /\ \/ UNCHANGED wire
           \/ \E S \in SUBSET Sockets : Replaced(S)
    BY <1>2 DEF ReconnectTimer, Connect, Watchdog, PageShow, Show, ForceReconnect
  <2>2. ASSUME NEW S \in SUBSET Sockets, Replaced(S)
        PROVE  \A s \in Sockets : wire'[s] = wire[s] \/ wire'[s] = <<>>
    BY <2>2 DEF Replaced
  <2> QED
    BY <2>1, <2>2, WireKept
<1>3. ASSUME NEW s \in Sockets, Closed(s) \/ Dies(s), UNCHANGED last PROVE WireInv'
  BY <1>3, WireKept DEF Closed, Dies, FeedInv, FeedTypes
<1>4. CASE Hide
  BY <1>1, <1>3, <1>4 DEF Hide, FeedInv, FeedTypes
<1>5. ASSUME NEW s \in Sockets, Open(s) PROVE WireInv'
  BY <1>5, WireKept DEF Open
<1>6. ASSUME NEW s \in Sockets, OnMessage(s) PROVE WireInv'
  <2>1. /\ wire[s] # <<>> /\ wire' = [wire EXCEPT ![s] = Tail(wire[s])]
        /\ last' \in {last, Head(wire[s])}
    BY <1>6 DEF OnMessage
  <2>2. /\ Head(wire[s]) = wire[s][1] /\ Len(wire[s]) \in Nat \ {0}
        /\ Len(Tail(wire[s])) = Len(wire[s]) - 1
        /\ \A i \in 1..Len(wire[s]) - 1 : Tail(wire[s])[i] = wire[s][i + 1]
    BY <1>0, <2>1, SMTT(30)
  <2>3. wire'[s] = Tail(wire[s]) /\ \A t \in Sockets \ {s} : wire'[t] = wire[t]
    BY <2>1 DEF FeedInv, FeedTypes
  <2>4. Head(wire[s]) \in Ages
    BY <2>2 DEF WireInv
  <2>5. Len(wire'[s]) <= Wire /\ \A i \in 1..Len(wire'[s]) : wire'[s][i] \in Ages
    BY <2>2, <2>3 DEF WireInv
  <2>6. last' \in Ages \cup {NoAge}
    BY <2>1, <2>4 DEF WireInv
  <2> QED
    BY <2>3, <2>5, <2>6 DEF WireInv
<1>7. ASSUME NEW s \in Sockets, Send(s) PROVE WireInv'
  <2> DEFINE age == unread[s] - 1
  <2>1. /\ unread[s] \in 1..Capacity /\ Len(wire[s]) < Wire
        /\ wire' = [wire EXCEPT ![s] = Append(wire[s], age)] /\ UNCHANGED last
    BY <1>7, Zenon DEF Send
  <2>a. age \in Nat /\ age \in Ages
    BY Bounds, <2>1 DEF Ages
  <2> HIDE DEF age
  <2>2. /\ Len(Append(wire[s], age)) = Len(wire[s]) + 1
        /\ \A i \in 1..Len(wire[s]) : Append(wire[s], age)[i] = wire[s][i]
        /\ Append(wire[s], age)[Len(wire[s]) + 1] = age
    BY <1>0, <2>a, Appended
  <2>3. wire'[s] = Append(wire[s], age) /\ \A t \in Sockets \ {s} : wire'[t] = wire[t]
    BY <2>1 DEF FeedInv, FeedTypes
  <2>4. Len(wire'[s]) <= Wire
    BY <1>0, <2>1, <2>2, <2>3
  <2>5. ASSUME NEW i \in 1..Len(wire'[s]) PROVE wire'[s][i] \in Ages
    <3>1. i \in 1..Len(wire[s]) \/ i = Len(wire[s]) + 1
      BY <1>0, <2>2, <2>3
    <3> QED
      BY <2>a, <2>2, <2>3, <3>1 DEF WireInv
  <2> QED
    BY <2>1, <2>3, <2>4, <2>5 DEF WireInv
<1>8. CASE Broadcast
  <2>1. /\ wire' = [s \in Sockets |-> [i \in DOMAIN wire[s] |-> Older(wire[s][i])]]
        /\ last' = Older(last)
    BY <1>8 DEF Broadcast
  <2>2. \A a \in Ages \cup {NoAge} : Older(a) \in Ages \cup {NoAge} /\ (a \in Ages => Older(a) \in Ages)
    BY DEF Older, Ages
  <2>3. ASSUME NEW s \in Sockets
        PROVE  Len(wire'[s]) <= Wire /\ \A i \in 1..Len(wire'[s]) : wire'[s][i] \in Ages
    <3>1. wire'[s] = [i \in 1..Len(wire[s]) |-> Older(wire[s][i])]
      BY <1>0, <2>1
    <3>2. \A i \in 1..Len(wire[s]) : Older(wire[s][i]) \in Ages
      BY <2>2 DEF WireInv
    <3>3. Len(wire'[s]) = Len(wire[s])
      BY <1>0, <3>1
    <3> QED
      BY <3>1, <3>2, <3>3 DEF WireInv
  <2> QED
    BY <2>1, <2>2, <2>3 DEF WireInv
<1>9. ASSUME NEW s \in Sockets, OnClose(s) \/ Dies(s) \/ Lagged(s) PROVE WireInv'
  BY <1>1, <1>3, <1>9 DEF OnClose, Dies, Lagged
<1>10. ASSUME NEW scale \in Timescales, Select(scale) PROVE WireInv'
  BY <1>1, <1>10 DEF Select
<1>11. ASSUME NEW i \in DOMAIN loads, GetHistory(i) \/ SetHistory(i) \/ SetHistoryError(i)
       PROVE  WireInv'
  BY <1>1, <1>11 DEF GetHistory, SetHistory, SetHistoryError
<1>12. CASE Second \/ UNCHANGED vars \/ \E others \in BOOLEAN : Collect(others)
  BY <1>1, <1>12 DEF Second, Collect, vars
<1>13. ASSUME NEW s \in Sockets, Skip(s) PROVE WireInv'
  BY <1>1, <1>13 DEF Skip
<1> QED
  BY <1>2, <1>3, <1>4, <1>5, <1>6, <1>7, <1>8, <1>9, <1>10, <1>11, <1>12, <1>13,
     Zenon DEF Next

(* No more loads are under way than may be.                                *)
LEMMA LoadsAreBounded ==
  LoadsInv /\ Len(loads) <= MaxFetches /\ [Next]_vars => Len(loads') <= MaxFetches
<1> SUFFICES ASSUME LoadsInv, Len(loads) <= MaxFetches, [Next]_vars
             PROVE  Len(loads') <= MaxFetches
  OBVIOUS
<1> USE DEF collector, server, net, page, view
<1>0. loads \in Seq(Loads) /\ Len(loads) \in Nat /\ DOMAIN loads = 1..Len(loads)
  BY LoadsAreNumbered
<1>1. CASE UNCHANGED loads
  BY <1>1
<1>2. ASSUME NEW scale \in Timescales, LoadHistory(scale), ~UNCHANGED loads
      PROVE  Len(loads') <= MaxFetches
  <2> DEFINE old == [i \in DOMAIN loads |-> [loads[i] EXCEPT !.inFlight = FALSE]]
             new == [scale |-> scale, inFlight |-> TRUE, stage |-> "asked", passed |-> FALSE]
  <2>1. loads' = Append(old, new) /\ Len(loads) < MaxFetches
    BY <1>2 DEF LoadHistory
  <2>2. ASSUME NEW i \in 1..Len(loads) PROVE old[i] \in Loads
    <3>1. loads[i] \in Loads /\ old[i] = [loads[i] EXCEPT !.inFlight = FALSE]
      BY <1>0
    <3> QED
      BY <3>1 DEF Loads
  <2>3. old \in Seq(Loads) /\ Len(old) = Len(loads) /\ new \in Loads
    BY <1>0, <2>2 DEF Loads
  <2> HIDE DEF old, new
  <2>4. Len(loads') = Len(loads) + 1
    BY <2>1, <2>3
  <2> QED
    BY Bounds, <1>0, <2>1, <2>4
<1>3. ASSUME NEW scale \in Timescales, Select(scale) PROVE Len(loads') <= MaxFetches
  BY <1>1, <1>2, <1>3 DEF Select
<1>4. ASSUME NEW i \in DOMAIN loads, GetHistory(i) PROVE Len(loads') <= MaxFetches
  <2>1. loads' = [loads EXCEPT ![i].stage = "answered"]
    BY <1>4 DEF GetHistory
  <2>2. Len(loads') = Len(loads)
    BY <1>0, <2>1
  <2> QED
    BY <2>2
<1>5. ASSUME NEW i \in DOMAIN loads, SetHistory(i) \/ SetHistoryError(i)
      PROVE  Len(loads') <= MaxFetches
  <2>1. loads' = Rest(i)
    BY <1>5 DEF SetHistory, SetHistoryError
  <2>2. Len(Rest(i)) = Len(loads) - 1
    BY <1>0, RestIs, Zenon
  <2> QED
    BY Bounds, <1>0, <2>1, <2>2
<1>6. CASE Watchdog \/ PageShow \/ Show \/ \E s \in Sockets : Open(s)
  <2>1. LoadHistory(timescale) /\ timescale \in Timescales
    BY <1>6 DEF Watchdog, PageShow, Show, ForceReconnect, Open, LoadsInv
  <2> QED
    BY <1>1, <1>2, <2>1
<1>7. ASSUME NEW s \in Sockets, OnMessage(s) PROVE Len(loads') <= MaxFetches
  <2>1. loads' = loads \/ loads' = [i \in 1..Len(loads) |-> Pushed(loads[i])]
    BY <1>0, <1>7 DEF OnMessage
  <2>2. Len(loads') = Len(loads)
    BY <1>0, <2>1
  <2> QED
    BY <2>2
<1> QED
  BY <1>1, <1>3, <1>4, <1>5, <1>6, <1>7
     DEF Next, vars, ReconnectTimer, Hide, OnClose, Dies, Send, Skip, Lagged, Collect,
     Broadcast, Second

(* The state is of its types, within the bounds that the model sets.       *)
THEOREM FeedTypesHold == Spec => []TypeOK
<1> DEFINE Inv == /\ FeedInv /\ LoadsInv /\ ClockInv /\ WireInv
                  /\ FlagInv /\ Len(loads) <= MaxFetches
<1>1. Init => Inv
  <2> SUFFICES ASSUME Init PROVE ClockInv /\ FlagInv /\ WireInv /\ Len(loads) <= MaxFetches
    BY FeedInit, LoadsInit
  <2>1. ClockInv /\ FlagInv
    <3>1. /\ countdown \in 0..LongestSleep /\ elapsed \in 0..IF countdown = 0 THEN Longest ELSE 0
          /\ backlog = 0 /\ quiet = 0 /\ faults = 0
      BY Zenon DEF Init, LongestSleep
    <3>2. FlagInv
      BY Zenon DEF Init, FlagInv
    <3> QED
      BY Bounds, <3>1, <3>2 DEF ClockInv
  <2>2. \A s \in Sockets : wire[s] = <<>> /\ Len(wire[s]) = 0
    BY DEF Init
  <2>3. WireInv
    BY <2>2 DEF Init, WireInv
  <2>4. Len(loads) = 1
    BY DEF Init
  <2> QED
    BY Bounds, <2>1, <2>3, <2>4
<1>2. Inv /\ [Next]_vars => Inv'
  BY FeedStep, LoadsStep, ClockStep, FlagStep, WireStep, LoadsAreBounded, Zenon
<1>3. Inv => TypeOK
  <2> SUFFICES ASSUME Inv PROVE TypeOK
    OBVIOUS
  <2>1. \A s \in Sockets : Len(wire[s]) <= Wire /\ ToSet(wire[s]) \subseteq Ages
    <3> SUFFICES ASSUME NEW s \in Sockets PROVE ToSet(wire[s]) \subseteq Ages
      BY DEF WireInv
    <3>1. DOMAIN wire[s] = 1..Len(wire[s])
      BY DEF FeedInv, FeedTypes
    <3> QED
      BY <3>1 DEF ToSet, WireInv
  <2>2. Len(loads) <= MaxFetches /\ ToSet(loads) \subseteq Loads
    BY LoadsAreNumbered DEF ToSet
  <2>3. countdown \in 0..Idle /\ elapsed \in 0..Longest + MaxFaults
    BY Bounds, Sleeps DEF ClockInv
  <2> QED
    BY <2>1, <2>2, <2>3, Zenon
    DEF TypeOK, FeedInv, FeedTypes, LoadsInv, ClockInv, FlagInv, WireInv
<1> QED
  BY <1>1, <1>2, <1>3, PTL DEF Spec

-----------------------------------------------------------------------------
(* The watchdog.  What is alive is in use.  On a page that is visible and  *)
(* on which nothing was late since its last frame, the silence is never    *)
(* longer than the longest sleep and the longest collection; and when no   *)
(* frame, no close and no sample is on its way, the silence so far, the    *)
(* sleep that is left and the longest collection are not longer either.    *)
Patience == LongestSleep + Longest

Punctual ==
  /\ quiet <= Patience
  /\ \A s \in Sockets : alive[s] /\ ~OnItsWay(s) /\ backlog = 0 =>
       quiet + countdown + Longest <= Patience + elapsed

PaceInv ==
  /\ \A s \in Sockets : alive[s] => client[s] # None
  /\ visible /\ ~slow => Punctual

(* After no silence there is time for the sleep and the collection.         *)
LEMMA NoSilence ==
  \A c \in 0..LongestSleep, e \in Nat : 0 <= Patience /\ 0 + c + Longest <= Patience + e
BY Bounds, Sleeps DEF Patience

(* A second more of silence is one less of sleep or one more of collecting. *)
LEMMA MoreSilence ==
  \A q \in Nat, c \in Nat, e \in Nat :
    q + c + Longest <= Patience + e =>
      /\ c > 0 => q + (c - 1) + Longest <= Patience + e /\ q + 1 + (c - 1) + Longest <= Patience + e
      /\ q + c + Longest <= Patience + (e + 1) /\ q + 1 + c + Longest <= Patience + (e + 1)
BY Bounds, Sleeps DEF Patience

(* A page that has just heard from its socket is punctual.                 *)
LEMMA ResetIsPunctual ==
  ASSUME ClockInv', quiet' = 0
  PROVE  Punctual'
<1>1. countdown' \in 0..LongestSleep /\ elapsed' \in Nat
  BY Zenon DEF ClockInv
<1> QED
  BY <1>1, NoSilence, Zenon DEF Punctual

(* What is replaced is not alive.                                          *)
LEMMA ReplacedIsAlive ==
  ASSUME FeedInv, PaceInv, NEW S, S = {wsRef} \cap Sockets, Replaced(S)
  PROVE  \A s \in Sockets : /\ alive'[s] => client'[s] # None
                            /\ ~handler'[s]
<1> DEFINE n == CHOOSE s \in Sockets \ ({s \in Sockets : client[s] # None} \ S) : TRUE
<1>1. /\ client' = [t \in Sockets |-> IF t = n THEN "connecting" ELSE IF t \in S THEN None ELSE client[t]]
      /\ alive' = [t \in Sockets |-> t = n \/ (t \notin S /\ alive[t])]
      /\ handler' = [t \in Sockets |-> t \notin S \cup {n} /\ handler[t]]
  BY Zenon DEF Replaced
<1> HIDE DEF n
<1>2. \A t \in Sockets \ S : client[t] = None /\ ~handler[t]
  BY DEF FeedInv, OneSocket
<1> QED
  BY <1>1, <1>2 DEF PaceInv

(* Every step of a page keeps it punctual as long as nothing is late.      *)
LEMMA PaceStep ==
  FeedInv /\ FeedInv' /\ ClockInv /\ ClockInv' /\ PaceInv /\ [Next]_vars => PaceInv'
<1> SUFFICES ASSUME FeedInv, FeedInv', ClockInv, ClockInv', PaceInv, [Next]_vars PROVE PaceInv'
  OBVIOUS
<1> USE DEF collector, server, net, page, view
<1>1. ASSUME UNCHANGED <<collector, client, alive, handler, unread, wire, quiet, visible, slow>>
      PROVE  PaceInv'
  BY <1>1 DEF PaceInv, Punctual, OnItsWay
<1>2. CASE ReconnectTimer
  <2>1. CASE wsRef # None
    BY <1>1, <1>2, <2>1 DEF ReconnectTimer, Connect
  <2>2. CASE wsRef = None
    <3>1. Replaced({}) /\ {} = {wsRef} \cap Sockets /\ UNCHANGED <<quiet, visible, slow>>
      BY <1>2, <2>2 DEF ReconnectTimer, Connect
    <3>2. visible' /\ ~slow' => Punctual'
      BY <3>1, ReplacedIsAlive DEF PaceInv, Punctual, OnItsWay
    <3> QED
      BY <3>1, <3>2, ReplacedIsAlive DEF PaceInv
  <2> QED
    BY <2>1, <2>2
<1>3. CASE Watchdog \/ PageShow \/ Show
  <2>1. Replaced({wsRef} \cap Sockets) /\ quiet' = 0
    BY <1>3 DEF Watchdog, PageShow, Show, ForceReconnect
  <2> QED
    BY <2>1, ResetIsPunctual, ReplacedIsAlive DEF PaceInv
<1>4. CASE Hide
  <2>1. ~visible' /\ (UNCHANGED <<client, alive>> \/ \E s \in Sockets : Closed(s))
    BY <1>4 DEF Hide, FeedInv, FeedTypes
  <2> QED
    BY <2>1 DEF PaceInv, Closed, FeedInv, FeedTypes
<1>5. ASSUME NEW s \in Sockets, Open(s) PROVE PaceInv'
  <2>1. client' = [client EXCEPT ![s] = "open"] /\ quiet' = 0 /\ UNCHANGED alive
    BY <1>5 DEF Open
  <2>2. \A t \in Sockets : alive'[t] => client'[t] # None
    BY <2>1 DEF PaceInv, FeedInv, FeedTypes
  <2> QED
    BY <2>1, <2>2, ResetIsPunctual DEF PaceInv
<1>6. ASSUME NEW s \in Sockets, OnClose(s) PROVE PaceInv'
  <2>1. Closed(s) /\ client[s] # None /\ UNCHANGED <<quiet, visible, slow>>
    BY <1>6 DEF OnClose
  <2>2. \A t \in Sockets \ {s} : client[t] = None
    BY <2>1 DEF FeedInv, OneSocket
  <2>3. \A t \in Sockets : ~alive'[t]
    BY <2>1, <2>2 DEF Closed, FeedInv, FeedTypes, PaceInv
  <2> QED
    BY <2>1, <2>3 DEF PaceInv, Punctual
<1>7. ASSUME NEW s \in Sockets, OnMessage(s) PROVE PaceInv'
  <2>1. UNCHANGED <<client, alive, visible, slow>> /\ (visible => quiet' = 0)
    BY <1>7 DEF OnMessage
  <2> QED
    BY <2>1, ResetIsPunctual DEF PaceInv
<1>8. ASSUME NEW s \in Sockets, Dies(s) \/ Skip(s) PROVE PaceInv'
  <2>1. slow' /\ alive' \in {alive, [alive EXCEPT ![s] = FALSE]} /\ UNCHANGED client
    BY <1>8 DEF Dies, Skip
  <2> QED
    BY <2>1 DEF PaceInv, FeedInv, FeedTypes
<1>9. ASSUME NEW s \in Sockets, Send(s) PROVE PaceInv'
  <2>1. /\ unread[s] \in 1..Capacity
        /\ unread' = [unread EXCEPT ![s] = unread[s] - 1]
        /\ wire' = [wire EXCEPT ![s] = Append(wire[s], unread[s] - 1)]
        /\ UNCHANGED <<collector, client, alive, handler, quiet, visible, slow>>
    BY <1>9, Zenon DEF Send
  <2>2. Append(wire[s], unread[s] - 1) # <<>>
    <3>1. unread[s] - 1 \in Nat /\ wire[s] \in Seq(Nat)
      BY <2>1 DEF FeedInv, FeedTypes
    <3> QED
      BY <3>1, Appended
  <2>3. wire'[s] # <<>> /\ \A t \in Sockets \ {s} : wire'[t] = wire[t] /\ unread'[t] = unread[t]
    BY <2>1, <2>2 DEF FeedInv, FeedTypes
  <2>4. \A t \in Sockets : alive[t] /\ OnItsWay(t) => OnItsWay(t)'
    BY <2>1, <2>3 DEF OnItsWay
  <2>5. Punctual => Punctual'
    BY <2>1, <2>4 DEF Punctual
  <2> QED
    BY <2>1, <2>5 DEF PaceInv
<1>10. ASSUME NEW s \in Sockets, Lagged(s) PROVE PaceInv'
  <2>1. /\ handler' = [handler EXCEPT ![s] = FALSE] /\ unread' = [unread EXCEPT ![s] = 0]
        /\ UNCHANGED <<collector, client, alive, wire, quiet, visible, slow>>
    BY <1>10 DEF Lagged
  <2>2. \A t \in Sockets : OnItsWay(t) => OnItsWay(t)'
    BY <2>1 DEF OnItsWay, FeedInv, FeedTypes
  <2>3. Punctual => Punctual'
    BY <2>1, <2>2 DEF Punctual, OnItsWay
  <2> QED
    BY <2>1, <2>3 DEF PaceInv
<1>11. ASSUME NEW others \in BOOLEAN, Collect(others) PROVE PaceInv'
  <2>1. backlog' = backlog + 1 /\ UNCHANGED <<client, alive, quiet, visible, slow>>
    BY <1>11 DEF Collect
  <2>2. backlog' # 0
    BY <2>1, Bounds DEF ClockInv
  <2> QED
    BY <2>1, <2>2 DEF PaceInv, Punctual
<1>12. CASE Broadcast
  <2>1. /\ UNCHANGED <<handler, client, alive, quiet, visible, slow>>
        /\ unread' = [s \in Sockets |-> IF handler[s] /\ unread[s] <= Capacity
                                        THEN unread[s] + 1 ELSE unread[s]]
    BY <1>12 DEF Broadcast
  <2>2. \A s \in Sockets : alive[s] => OnItsWay(s)'
    BY <2>1, Bounds DEF OnItsWay, FeedInv, FeedTypes
  <2> QED
    BY <2>1, <2>2 DEF PaceInv, Punctual
<1>13. CASE Second
  <2>1. \/ countdown > 0 /\ countdown' = countdown - 1 /\ UNCHANGED elapsed
        \/ countdown = 0 /\ elapsed' = elapsed + 1 /\ UNCHANGED countdown
    BY <1>13, Sleeps DEF Second, ClockInv
  <2>2. quiet' = IF quiet > Stale THEN quiet ELSE quiet + 1
    BY <1>13 DEF Second
  <2>3. UNCHANGED <<client, alive, visible>>
    BY <1>13 DEF Second
  <2>4. ~slow' => ~slow /\ ~Late /\ \E s \in Sockets : alive[s]
    BY <1>13 DEF Second
  <2>5. ASSUME ~slow', visible PROVE Punctual'
    <3>1. PICK s \in Sockets : alive[s] /\ ~OnItsWay(s) /\ ~(backlog > 0)
      BY <2>4, <2>5 DEF Late
    <3>2. backlog = 0
      BY <3>1, Bounds DEF ClockInv
    <3>3. quiet + countdown + Longest <= Patience + elapsed
      BY <2>4, <2>5, <3>1, <3>2 DEF PaceInv, Punctual
    <3>4. ~(countdown = 0 /\ elapsed >= Longest)
      BY <2>4, <2>5 DEF Late
    <3>5. quiet' + countdown' + Longest <= Patience + elapsed'
      <4>1. quiet \in Nat /\ countdown \in Nat /\ elapsed \in Nat
        BY Sleeps DEF ClockInv
      <4>2. quiet' = quiet \/ quiet' = quiet + 1
        BY <2>2
      <4> QED
        BY <2>1, <3>3, <4>1, <4>2, MoreSilence, Zenon
    <3>6. quiet' <= Patience
      BY Bounds, Sleeps, <2>1, <2>2, <3>3, <3>4 DEF ClockInv, Patience
    <3> QED
      BY <3>5, <3>6 DEF Punctual
  <2> QED
    BY <2>3, <2>5 DEF PaceInv
<1>14. ASSUME NEW scale \in Timescales, Select(scale) PROVE PaceInv'
  BY <1>1, <1>14 DEF Select
<1>15. ASSUME NEW i \in DOMAIN loads, GetHistory(i) \/ SetHistory(i) \/ SetHistoryError(i)
       PROVE  PaceInv'
  BY <1>1, <1>15 DEF GetHistory, SetHistory, SetHistoryError
<1>16. CASE UNCHANGED vars
  BY <1>1, <1>16 DEF vars
<1> QED
  BY <1>2, <1>3, <1>4, <1>5, <1>6, <1>7, <1>8, <1>9, <1>10, <1>11, <1>12, <1>13, <1>14, <1>15,
     <1>16, Zenon DEF Next

(* If the watchdog's patience is that of the longest sleep, after the      *)
(* shortest collection, and the longest collection after it, it never      *)
(* replaces a socket on which nothing was late, at the change from one     *)
(* pace to the other, behind a frame or after a reconnection either        *)
(* (main.rs:155-222, use-websocket.ts:7-16, 135-140).                      *)
THEOREM PatienceIsEnough ==
  NextCollectorDelay(FALSE, Sampling) + Longest <= Stale => (Spec => HealthyIsLeftAlone)
<1> SUFFICES ASSUME Patience <= Stale PROVE Spec => HealthyIsLeftAlone
  BY DEF Patience, LongestSleep
<1> DEFINE Inv == FeedInv /\ ClockInv /\ PaceInv
<1>1. Init => Inv
  <2> SUFFICES ASSUME Init PROVE ClockInv /\ PaceInv
    BY FeedInit
  <2>1. /\ countdown \in 0..LongestSleep /\ elapsed \in 0..IF countdown = 0 THEN Longest ELSE 0
        /\ backlog = 0 /\ quiet = 0 /\ faults = 0
    BY Zenon DEF Init, LongestSleep
  <2>2. \A s \in Sockets : ~handler[s] /\ (alive[s] => client[s] # None)
    BY DEF Init
  <2>3. ClockInv
    BY Bounds, Sleeps, <2>1 DEF ClockInv
  <2>4. 0 <= Patience
    BY Bounds, Sleeps DEF Patience
  <2> QED
    BY <2>1, <2>2, <2>3, <2>4 DEF PaceInv, Punctual, OnItsWay
<1>2. Inv /\ [Next]_vars => Inv'
  BY FeedStep, ClockStep, PaceStep, Zenon
<1>3. Inv /\ [Next]_vars => [Watchdog => slow]_vars
  BY Bounds, Sleeps DEF PaceInv, Punctual, Patience, ClockInv, Watchdog
<1> QED
  BY <1>1, <1>2, <1>3, PTL DEF Spec, HealthyIsLeftAlone
=============================================================================
