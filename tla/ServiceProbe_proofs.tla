------------------------ MODULE ServiceProbe_proofs ------------------------
(***************************************************************************)
(* For any services, any number of processes, edits, controls and          *)
(* failures, and any grace: a load is current, a state that is told of a   *)
(* service whose process stayed is true, nothing is called unhealthy       *)
(* before its grace is over, and no process is counted twice.              *)
(***************************************************************************)
EXTENDS ServiceProbe, FiniteSetTheorems, WellFoundedInduction, TLAPS

-----------------------------------------------------------------------------
(* Numbers, and the trees of ps.  Induction is on sets of numbers.         *)

(* A set of naturals that is not empty has a least member.                 *)
LEMMA LeastOf == ASSUME NEW T, T \subseteq Nat, T # {} PROVE \E x \in T : \A y \in T : x <= y
<1> DEFINE R == {ss \in Nat \X Nat : ss[1] < ss[2]}
<1>1. IsWellFoundedOn(R, Nat)
  BY NatLessThanWellFounded DEF OpToRel
<1>2. \A x, y \in Nat : y < x => <<y, x>> \in R
  OBVIOUS
<1> HIDE DEF R
<1>3. PICK x \in T : \A y \in T : ~(<<y, x>> \in R)
  BY <1>1, WFMin
<1>4. \A y \in T : ~(y < x)
  BY <1>2, <1>3
<1> QED
  BY <1>4

(* A set of naturals that has 0 and with each its successor has all.       *)
LEMMA AllNaturals ==
  ASSUME NEW S, S \subseteq Nat, 0 \in S, \A n \in S : n + 1 \in S
  PROVE  S = Nat
<1> SUFFICES ASSUME Nat \ S # {} PROVE FALSE
  OBVIOUS
<1>1. PICK x \in Nat \ S : \A y \in Nat \ S : x <= y
  BY LeastOf
<1>2. x - 1 \in Nat /\ x - 1 \notin Nat \ S
  BY <1>1
<1> QED
  BY <1>1, <1>2

(* There is a function that begins with c and goes on by h, as each of its *)
(* beginnings exists and no two of them differ.                            *)
Begins(f, X, c, h, n) ==
  f \in [0..n -> X] /\ f[0] = c /\ \A k \in 0..n - 1 : f[k + 1] = h[f[k]]

LEMMA Iteration ==
  ASSUME NEW X, NEW c \in X, NEW h \in [X -> X]
  PROVE  \E g \in [Nat -> X] : g[0] = c /\ \A n \in Nat : g[n + 1] = h[g[n]]
<1> DEFINE P(f, n) == Begins(f, X, c, h, n)
           S == {n \in Nat : \E f \in [0..n -> X] : P(f, n)}
<1>1. S = Nat
  <2>1. 0 \in S
    <3>1. P([k \in 0..0 |-> c], 0)
      BY DEF Begins
    <3> QED
      BY <3>1 DEF Begins
  <2>2. ASSUME NEW n \in S PROVE n + 1 \in S
    <3>1. PICK f \in [0..n -> X] : P(f, n)
      OBVIOUS
    <3> DEFINE g == [k \in 0..n + 1 |-> IF k = n + 1 THEN h[f[n]] ELSE f[k]]
    <3>2. f \in [0..n -> X] /\ f[0] = c /\ \A k \in 0..n - 1 : f[k + 1] = h[f[k]]
      BY <3>1 DEF Begins
    <3>3. n \in Nat /\ f[n] \in X /\ h[f[n]] \in X
      BY <3>2
    <3>4. g \in [0..n + 1 -> X] /\ g[0] = c
      BY <3>2, <3>3
    <3>5. ASSUME NEW k \in 0..n PROVE g[k + 1] = h[g[k]]
      <4>1. CASE k = n
        BY <3>3, <4>1
      <4>2. CASE k # n
        <5>1. k \in 0..n - 1 /\ g[k + 1] = f[k + 1] /\ g[k] = f[k]
          BY <3>3, <4>2
        <5> QED
          BY <3>2, <5>1
      <4> QED
        BY <4>1, <4>2
    <3> HIDE DEF g
    <3>6. P(g, n + 1)
      BY <3>3, <3>4, <3>5 DEF Begins
    <3> QED
      BY <3>3, <3>4, <3>6
  <2> HIDE DEF S
  <2>3. S \subseteq Nat
    BY DEF S
  <2> QED
    BY <2>1, <2>2, <2>3, AllNaturals
<1>2. ASSUME NEW n \in Nat, NEW m \in Nat, NEW f, NEW g, P(f, n), P(g, m), NEW k \in Nat, k <= n, k <= m
      PROVE  f[k] = g[k]
  <2> DEFINE E == {j \in Nat : j <= n /\ j <= m => f[j] = g[j]}
  <2>1. 0 \in E
    BY <1>2 DEF Begins
  <2>2. ASSUME NEW j \in E PROVE j + 1 \in E
    BY <1>2 DEF Begins
  <2> HIDE DEF E
  <2>3. E \subseteq Nat
    BY DEF E
  <2>4. E = Nat
    BY <2>1, <2>2, <2>3, AllNaturals
  <2> QED
    BY <1>2, <2>4 DEF E
<1> DEFINE F(n) == CHOOSE f \in [0..n -> X] : P(f, n)
           g == [n \in Nat |-> F(n)[n]]
<1>3. \A n \in Nat : P(F(n), n)
  <2> TAKE n \in Nat
  <2>1. \E f \in [0..n -> X] : P(f, n)
    BY <1>1
  <2> HIDE DEF P
  <2> QED
    BY <2>1, Zenon
<1> HIDE DEF F
<1>4. g \in [Nat -> X]
  BY <1>3 DEF Begins
<1>5. g[0] = c
  BY <1>3 DEF Begins
<1>6. ASSUME NEW n \in Nat PROVE g[n + 1] = h[g[n]]
  <2>1. P(F(n), n) /\ P(F(n + 1), n + 1)
    BY <1>3
  <2>2. F(n)[n] = F(n + 1)[n]
    BY <1>2, <2>1
  <2>3. F(n + 1)[n + 1] = h[F(n + 1)[n]]
    BY <2>1 DEF Begins
  <2> QED
    BY <2>2, <2>3
<1> QED
  BY <1>4, <1>5, <1>6

(* A tree is what the table says, and nothing else.                        *)
LEMMA TreeKept == ASSUME NEW p, table' = table PROVE Tree(p)' = Tree(p)
BY DEF Tree

Grown(W) == W \cup {p \in DOMAIN table : table[p].parent \in W}

(* The recursion of Tree does what it says: it grows, generation after     *)
(* generation, from the root (probe.rs:236-256).                           *)
LEMMA TreeIs ==
  ASSUME DOMAIN table \subseteq Pids, NEW root \in Pids, ServiceProbeAssumption
  PROVE  \E w \in [Nat -> SUBSET Pids] : \E m \in Nat :
           w[0] = {root} /\ Tree(root) = w[m] /\ \A n \in Nat : w[n + 1] = Grown(w[n])
<1> DEFINE within == CHOOSE f : f = [n \in Nat |-> IF n = 0 THEN {root} ELSE Grown(f[n - 1])]
<1>1. Tree(root) = within[Cardinality(DOMAIN table)]
  BY DEF Tree, Grown
<1>2. Cardinality(DOMAIN table) \in Nat
  <2>1. IsFiniteSet(Pids)
    BY FS_Interval DEF Pids, ServiceProbeAssumption
  <2>2. IsFiniteSet(DOMAIN table)
    BY <2>1, FS_Subset
  <2> QED
    BY <2>2, FS_CardinalityType
<1> DEFINE Y == SUBSET Pids
           h == [W \in Y |-> Grown(W)]
<1>3. PICK g \in [Nat -> Y] : g[0] = {root} /\ \A n \in Nat : g[n + 1] = Grown(g[n])
  <2>1. h \in [Y -> Y] /\ {root} \in Y
    BY DEF Grown
  <2>2. \A W \in Y : h[W] = Grown(W)
    OBVIOUS
  <2> HIDE DEF h, Y
  <2>3. PICK g \in [Nat -> Y] : g[0] = {root} /\ \A n \in Nat : g[n + 1] = h[g[n]]
    BY <2>1, Iteration
  <2>4. \A n \in Nat : g[n + 1] = Grown(g[n])
    BY <2>2, <2>3
  <2> QED
    BY <2>3, <2>4
<1>4. g = [n \in Nat |-> IF n = 0 THEN {root} ELSE Grown(g[n - 1])]
  <2> DEFINE k == [n \in Nat |-> IF n = 0 THEN {root} ELSE Grown(g[n - 1])]
  <2>1. ASSUME NEW n \in Nat PROVE g[n] = k[n]
    <3>1. CASE n = 0
      BY <1>3, <3>1
    <3>2. CASE n # 0
      <4>1. n - 1 \in Nat /\ n - 1 + 1 = n
        BY <3>2
      <4>2. g[n] = Grown(g[n - 1])
        BY <1>3, <4>1, Zenon
      <4> QED
        BY <3>2, <4>2
    <3> QED
      BY <3>1, <3>2
  <2> HIDE DEF k
  <2>2. DOMAIN k = Nat /\ k = [n \in Nat |-> k[n]]
    BY DEF k
  <2>3. g = [n \in Nat |-> g[n]]
    BY <1>3
  <2>4. g = k
    BY <2>1, <2>2, <2>3
  <2> QED
    BY <2>4 DEF k
<1>5. within = [n \in Nat |-> IF n = 0 THEN {root} ELSE Grown(within[n - 1])]
  BY <1>4, Zenon
<1>6. \A n \in Nat : within[n] = IF n = 0 THEN {root} ELSE Grown(within[n - 1])
  <2> HIDE DEF within
  <2> QED
    BY <1>5
<1> HIDE DEF within
<1>7. \A n \in Nat : within[n] = g[n]
  <2> DEFINE E == {n \in Nat : within[n] = g[n]}
  <2>1. 0 \in E
    <3>1. within[0] = {root}
      BY <1>5
    <3> QED
      BY <1>3, <3>1
  <2>2. ASSUME NEW n \in E PROVE n + 1 \in E
    <3>1. n + 1 \in Nat /\ n + 1 # 0 /\ n + 1 - 1 = n
      OBVIOUS
    <3>2. within[n + 1] = Grown(within[n])
      <4>1. within[n + 1] = Grown(within[n + 1 - 1])
        BY <1>6, <3>1
      <4> QED
        BY <3>1, <4>1, Zenon
    <3>3. within[n] = g[n] /\ g[n + 1] = Grown(g[n])
      BY <1>3
    <3>4. within[n + 1] = g[n + 1]
      BY <3>2, <3>3, Zenon
    <3> QED
      BY <3>1, <3>4
  <2> HIDE DEF E
  <2>3. E \subseteq Nat
    BY DEF E
  <2>4. E = Nat
    BY <2>1, <2>2, <2>3, AllNaturals
  <2> QED
    BY <2>4 DEF E
<1> QED
  BY <1>1, <1>2, <1>3, <1>7

(* The trees of two processes that are nobody's children do not meet: who  *)
(* is first in both would be the root of one and have a parent.            *)
LEMMA TreesApart ==
  ASSUME DOMAIN table \subseteq Pids, ServiceProbeAssumption, NEW r \in Pids, NEW q \in Pids, r # q,
         \A p \in {r, q} \cap DOMAIN table : table[p].parent = None
  PROVE  Tree(r) \cap Tree(q) = {}
<1>1. PICK v \in [Nat -> SUBSET Pids] : \E m \in Nat :
        v[0] = {r} /\ Tree(r) = v[m] /\ \A n \in Nat : v[n + 1] = Grown(v[n])
  BY TreeIs
<1>2. PICK w \in [Nat -> SUBSET Pids] : \E m \in Nat :
        w[0] = {q} /\ Tree(q) = w[m] /\ \A n \in Nat : w[n + 1] = Grown(w[n])
  BY TreeIs
<1>3. \A n, m \in Nat : v[n] \cap w[m] = {}
  <2> DEFINE V == {n \in Nat : \A m \in Nat : v[n] \cap w[m] = {}}
  <2>0. \A W \in SUBSET Pids : None \notin W
    BY DEF Pids, None
  <2>1. 0 \in V
    <3> DEFINE E == {m \in Nat : r \notin w[m]}
    <3>1. 0 \in E
      BY <1>2
    <3>2. ASSUME NEW m \in E PROVE m + 1 \in E
      BY <1>2, <2>0 DEF Grown
    <3> HIDE DEF E
    <3>3. E \subseteq Nat
      BY DEF E
    <3>4. E = Nat
      BY <3>1, <3>2, <3>3, AllNaturals
    <3> QED
      BY <1>1, <3>4 DEF E
  <2>2. ASSUME NEW n \in V PROVE n + 1 \in V
    <3> DEFINE E == {m \in Nat : v[n + 1] \cap w[m] = {}}
    <3>1. 0 \in E
      BY <1>1, <1>2, <2>0, <2>2 DEF Grown
    <3>2. ASSUME NEW m \in E PROVE m + 1 \in E
      BY <1>1, <1>2, <2>0, <2>2 DEF Grown
    <3> HIDE DEF E
    <3>3. E \subseteq Nat
      BY DEF E
    <3>4. E = Nat
      BY <3>1, <3>2, <3>3, AllNaturals
    <3> QED
      BY <3>4 DEF E
  <2> HIDE DEF V
  <2>3. V \subseteq Nat
    BY DEF V
  <2>4. V = Nat
    BY <2>1, <2>2, <2>3, AllNaturals
  <2> QED
    BY <2>4 DEF V
<1> QED
  BY <1>1, <1>2, <1>3

-----------------------------------------------------------------------------
USE ServiceProbeAssumption DEF Pids, None, Gone, Never, Alive

-----------------------------------------------------------------------------
(* The manifest, its cache and the load under way.                         *)
Polls == [at : {"idle", "stat", "cache", "read", "store", "launchd", "ps", "ports", "error"},
          stamp : Nat, result : Results]

LoadTypes ==
  /\ file \in [stamp : Nat, content : Contents]
  /\ cache \in [stamp : Nat \cup {-1}, result : Results]
  /\ poll \in Polls
  /\ edits \in Nat

(* What is remembered under the present time of the file is what the file  *)
(* holds; so is, at each of its steps, what the load has under that time.  *)
LoadInv ==
  /\ LoadTypes
  /\ file.stamp = edits /\ cache.stamp <= edits /\ poll.stamp <= edits
  /\ cache.stamp = file.stamp => cache.result = Parse(file.content)
  /\ poll # Idle => Parse(file.content) \in since
  /\ poll.at = "cache" /\ cache.stamp = poll.stamp => cache.result \in since
  /\ poll.at = "store" /\ poll.stamp = file.stamp => poll.result = Parse(file.content)
  /\ LoadsAreCurrent

(* Whatever a file holds can be parsed or is an error.                     *)
LEMMA ParseIsResult == ASSUME NEW c \in Contents PROVE Parse(c) \in Results
<1>1. Failed \in Results
  BY DEF Results
<1>2. ASSUME c.kind = "schema 1" PROVE c.services \in SUBSET Services
  BY <1>2 DEF Contents
<1> QED
  BY <1>1, <1>2 DEF Parse, Results

Elsewhere == UNCHANGED <<manifest, cache, poll, since>>

(* The steps that touch neither the manifest nor its cache nor the load.   *)
LEMMA ElsewhereLoads == LoadInv /\ Elsewhere => LoadInv'
BY DEF Elsewhere, manifest, LoadInv, LoadTypes, LoadsAreCurrent

(* The request that controls a service loads what the file holds.          *)
LEMMA ControlLoads ==
  ASSUME LoadInv, cache' \in {cache, CacheAfter}, UNCHANGED <<manifest, poll, since>>
  PROVE  LoadInv'
<1> USE DEF manifest
<1>1. LoadAtOnce = Parse(file.content)
  BY DEF LoadAtOnce, LoadInv
<1>2. Parse(file.content) \in Results
  BY ParseIsResult DEF LoadInv, LoadTypes
<1>3. CASE cache' = cache
  BY <1>3, ElsewhereLoads DEF Elsewhere
<1>4. CASE cache' = [stamp |-> file.stamp, result |-> Parse(file.content)]
  <2>1. cache'.stamp = file.stamp /\ cache'.result = Parse(file.content)
    BY <1>4
  <2>2. LoadTypes'
    BY <1>2, <1>4 DEF LoadInv, LoadTypes
  <2>3. poll.at = "cache" => poll # Idle
    BY DEF Idle
  <2> QED
    BY <2>1, <2>2, <2>3 DEF LoadInv, LoadTypes, LoadsAreCurrent
<1> QED
  BY <1>1, <1>3, <1>4 DEF CacheAfter

(* A load that has found what the file held goes on with it.               *)
LEMMA FoundLoads ==
  ASSUME LoadInv, poll # Idle, NEW result \in Results, result \in since,
         Found(result), UNCHANGED cache
  PROVE  LoadInv'
<1>1. poll' \in Polls /\ poll'.at \in {"launchd", "error"} /\ poll'.stamp = 0
      /\ poll'.result = result
  BY DEF Found, Polls
<1>2. UNCHANGED <<file, edits, since, cache>>
  BY DEF Found, manifest
<1> QED
  BY <1>1, <1>2 DEF LoadInv, LoadTypes, LoadsAreCurrent

(* And one that has to read it goes on under the time it has seen.         *)
LEMMA GoesLoads ==
  ASSUME LoadInv, poll # Idle, NEW at \in {"read", "store"}, NEW result \in Results,
         at = "store" => result = Parse(file.content),
         Goes(at, result), UNCHANGED cache
  PROVE  LoadInv'
<1>1. poll' \in Polls /\ poll'.at = at /\ poll'.stamp = poll.stamp /\ poll'.result = result
  BY DEF Goes, LoadInv, LoadTypes, Polls
<1>2. UNCHANGED <<file, edits, since, cache>>
  BY DEF Goes, manifest
<1> QED
  BY <1>1, <1>2 DEF LoadInv, LoadTypes, LoadsAreCurrent

(* Every step keeps loads current (services/mod.rs:15-54).                 *)
LEMMA LoadStep == LoadInv /\ [Next]_vars => LoadInv'
<1> SUFFICES ASSUME LoadInv, [Next]_vars PROVE LoadInv'
  OBVIOUS
<1>0. Parse(file.content) \in Results /\ Failed \in Results
  BY ParseIsResult DEF LoadInv, LoadTypes, Results
<1>1. ASSUME NEW c \in Contents, Edit(c) PROVE LoadInv'
  <2>1. /\ edits' = edits + 1 /\ UNCHANGED <<cache, poll>>
        /\ since' = IF poll = Idle THEN {} ELSE since \cup {Parse(c)}
    BY <1>1 DEF Edit
  <2>2. file'.stamp = edits' /\ file'.content = c /\ file' \in [stamp : Nat, content : Contents]
    BY <1>1, SMT DEF Edit, LoadInv, LoadTypes
  <2>3. LoadTypes'
    BY <2>1, <2>2, SMT DEF LoadInv, LoadTypes
  <2>4. cache.stamp < edits' /\ poll.stamp < edits'
    BY <2>1, SMT DEF LoadInv, LoadTypes, Polls
  <2>5. poll.at \in {"cache", "store", "launchd", "ps", "ports", "error"} => poll # Idle
    BY DEF Idle
  <2>6. cache'.stamp # file'.stamp /\ poll'.stamp # file'.stamp
        /\ cache'.stamp <= edits' /\ poll'.stamp <= edits'
    BY <2>1, <2>2, <2>3, <2>4, SMT DEF LoadTypes, Polls
  <2> QED
    BY <2>1, <2>2, <2>3, <2>5, <2>6 DEF LoadInv, LoadsAreCurrent
<1>2. CASE Poll
  <2>1. poll' \in Polls /\ poll'.at = "stat" /\ poll'.stamp = 0
    BY <1>2 DEF Poll, Idle, Polls, Results
  <2>2. UNCHANGED <<file, edits, cache>> /\ since' = {Parse(file.content)}
    BY <1>2 DEF Poll, manifest
  <2> QED
    BY <2>1, <2>2 DEF LoadInv, LoadTypes, LoadsAreCurrent
<1>3. CASE Stat
  <2>1. poll # Idle
    BY <1>3 DEF Stat, Idle
  <2>2. CASE file.content.kind = "missing" /\ Found(Failed)
    <3>1. Parse(file.content) = Failed
      BY <2>2 DEF Parse
    <3> QED
      BY <1>0, <1>3, <2>1, <2>2, <3>1, FoundLoads DEF Stat, LoadInv
  <2>3. CASE poll' = [at |-> "cache", stamp |-> file.stamp, result |-> Failed]
    <3>1. UNCHANGED <<file, edits, since, cache>>
      BY <1>3, <2>3 DEF Stat, Found, manifest
    <3>2. poll' \in Polls /\ poll'.at = "cache" /\ poll'.stamp = file.stamp
      BY <1>0, <2>3 DEF Polls, LoadInv, LoadTypes
    <3> QED
      BY <2>1, <3>1, <3>2 DEF LoadInv, LoadTypes, LoadsAreCurrent
  <2> QED
    BY <1>3, <2>2, <2>3 DEF Stat
<1>4. CASE LookUp
  <2>1. poll # Idle /\ cache.result \in Results
    BY <1>4 DEF LookUp, Idle, LoadInv, LoadTypes
  <2>2. CASE cache.stamp = poll.stamp /\ Found(cache.result)
    BY <1>4, <2>1, <2>2, FoundLoads DEF LookUp, LoadInv
  <2>3. CASE Goes("read", Failed)
    BY <1>0, <1>4, <2>1, <2>3, GoesLoads DEF LookUp
  <2> QED
    BY <1>4, <2>2, <2>3 DEF LookUp
<1>5. CASE Read
  <2>1. poll # Idle /\ Parse(file.content) \in since
    BY <1>5 DEF Read, Idle, LoadInv
  <2> QED
    BY <1>0, <1>5, <2>1, FoundLoads, GoesLoads DEF Read
<1>6. CASE Store
  <2>1. poll # Idle /\ poll.result \in Results /\ poll.result \in since
    BY <1>6 DEF Store, Idle, LoadInv, LoadTypes, Polls, LoadsAreCurrent
  <2>2. poll' \in Polls /\ poll'.at \in {"launchd", "error"} /\ poll'.stamp = 0
        /\ poll'.result = poll.result
    BY <1>6, <2>1 DEF Store, Found, Polls
  <2>3. UNCHANGED <<file, edits, since>>
    BY <1>6 DEF Store, Found, manifest
  <2>4. cache' \in [stamp : Nat \cup {-1}, result : Results]
        /\ cache'.stamp = poll.stamp /\ cache'.result = poll.result
    BY <1>6, <2>1 DEF Store, LoadInv, LoadTypes, Polls
  <2> QED
    BY <1>6, <2>1, <2>2, <2>3, <2>4 DEF Store, LoadInv, LoadTypes, LoadsAreCurrent
<1>7. CASE ReadLaunchd \/ ReadPs
  <2>1. UNCHANGED <<file, edits, since, cache>>
    BY <1>7 DEF ReadLaunchd, ReadPs, manifest
  <2>2. \E at \in {"ps", "ports"} : poll' = [poll EXCEPT !.at = at]
    BY <1>7 DEF ReadLaunchd, ReadPs, At
  <2>3. poll' \in Polls /\ poll'.at \in {"ps", "ports"}
        /\ poll'.stamp = poll.stamp /\ poll'.result = poll.result
    BY <2>2 DEF LoadInv, LoadTypes, Polls
  <2>4. poll.at \in {"launchd", "ps"} /\ poll # Idle
    BY <1>7 DEF ReadLaunchd, ReadPs, Idle
  <2> QED
    BY <2>1, <2>3, <2>4 DEF LoadInv, LoadTypes, LoadsAreCurrent
<1>8. CASE Answer \/ Panic
  <2>1. UNCHANGED <<file, edits, cache>> /\ poll' = Idle
    BY <1>8 DEF Answer, Panic, Forget, manifest
  <2>2. Idle \in Polls /\ Idle.at = "idle" /\ Idle.stamp = 0
    BY DEF Idle, Polls, Results
  <2> QED
    BY <2>1, <2>2 DEF LoadInv, LoadTypes, LoadsAreCurrent
<1>9. ASSUME NEW s \in Services, NEW verb, NEW header \in BOOLEAN, Control(s, verb, header)
      PROVE  LoadInv'
  BY <1>9, ControlLoads DEF Control
<1>10. CASE \/ \E s \in Services : Spawn(s) \/ Bind(s) \/ Occupy(s) \/ Vacate(s) \/ TryPort(s)
            \/ \E p \in Pids : Fork(p) \/ Exit(p)
            \/ Tick \/ UNCHANGED vars
  <2>1. Elsewhere
    BY <1>10 DEF Elsewhere, Outside, Spawn, Bind, Occupy, Vacate, TryPort, Fork, Exit,
                 Tick, vars, manifest
  <2> QED
    BY <2>1, ElsewhereLoads
<1> QED
  BY <1>1, <1>2, <1>3, <1>4, <1>5, <1>6, <1>7, <1>8, <1>9, <1>10 DEF Next, Polling

(* A load, cached or not, gives what the manifest held at some moment      *)
(* since it began, through any edits and controls (services/mod.rs:15-54). *)
THEOREM LoadsGiveWhatWasThere == Spec => []LoadsAreCurrent
<1>1. Init => LoadInv
  BY DEF Init, LoadInv, LoadTypes, LoadsAreCurrent, Idle, Polls, Results
<1>2. LoadInv => LoadsAreCurrent
  BY DEF LoadInv
<1> QED
  BY <1>1, <1>2, LoadStep, PTL DEF Spec

-----------------------------------------------------------------------------
(* The machine, and what the poll under way has read of it.                *)
WorldTypes ==
  /\ job \in [Services -> Pids \cup {None, Gone}]
  /\ entry \in [Services -> Pids \cup {None, Gone}]
  /\ age \in [Pids -> Never..StartupGrace]
  /\ Alive \subseteq Pids
  /\ DOMAIN table \subseteq Pids

(* A live process was born; a job is a live process, and of one service.   *)
JobsLive ==
  /\ \A p \in Alive : age[p] # Never
  /\ \A s \in Services : job[s] \in Pids => job[s] \in Alive
  /\ \A s, t \in Services : job[s] = job[t] /\ job[s] \in Pids => s = t

(* What was read was so at the time: a process that was seen was born, and *)
(* is by now at least as old as it was.                                    *)
SeenWasBorn ==
  /\ \A s \in Services : entry[s] \in Pids => age[entry[s]] # Never
  /\ \A p \in DOMAIN table : table[p].age \in 0..age[p]

(* What stayed is still as it was read, and as old.                        *)
SteadyStays ==
  /\ \A s \in steady : s \in Services /\ entry[s] = job[s]
  /\ poll.at = "ports" =>
       \A s \in steady : job[s] \in Pids =>
         job[s] \in DOMAIN table /\ table[job[s]].age = age[job[s]]
  /\ poll.at # "ports" => told = NoStatus

MachineInv ==
  WorldTypes /\ JobsLive /\ SeenWasBorn /\ SteadyStays /\ SteadyIsTrue /\ UnhealthyHadItsGrace

(* What is called unhealthy was seen for as long as the grace.             *)
LEMMA UnhealthyIsOld ==
  ASSUME NEW s \in Services, NEW pid \in Pids \cup {None, Gone}, NEW uptime \in Nat,
         NEW open \in BOOLEAN, StateOf(s, pid, uptime, open) = "unhealthy"
  PROVE  pid \in Pids /\ uptime >= StartupGrace
BY DEF StateOf

(* Where there is no pid, the port makes no difference but for a rogue.    *)
LEMMA WithoutPid ==
  ASSUME NEW s \in Services, NEW pid \in {None, Gone}, NEW open \in BOOLEAN
  PROVE  StateOf(s, pid, 0, open) # "rogue" =>
           StateOf(s, pid, 0, FALSE) = StateOf(s, pid, 0, open)
BY DEF StateOf

(* The machine goes on beside the poll: ages only grow, and what stays     *)
(* neither changes its process nor its age.                                *)
LEMMA WorldMoves ==
  ASSUME MachineInv, WorldTypes', JobsLive', UNCHANGED <<poll, entry, table, told>>,
         \A p \in Pids : age[p] <= age'[p],
         steady' \subseteq steady,
         \A s \in steady' : job'[s] = job[s] /\ (job[s] \in Pids => age'[job[s]] = age[job[s]])
  PROVE  MachineInv'
<1>1. SeenWasBorn'
  <2>1. ASSUME NEW s \in Services, entry[s] \in Pids PROVE age'[entry[s]] # Never
    BY <2>1, SMT DEF MachineInv, WorldTypes, SeenWasBorn
  <2>2. ASSUME NEW p \in DOMAIN table PROVE table[p].age \in 0..age'[p]
    BY <2>2, SMT DEF MachineInv, WorldTypes, SeenWasBorn
  <2> QED
    BY <2>1, <2>2 DEF SeenWasBorn
<1>2. SteadyStays'
  BY DEF MachineInv, SteadyStays
<1>3. SteadyIsTrue'
  BY DEF MachineInv, SteadyIsTrue
<1>4. UnhealthyHadItsGrace'
  <2> SUFFICES ASSUME NEW s \in DOMAIN told, told[s].state = "unhealthy"
               PROVE  told[s].pid \in Pids /\ age'[told[s].pid] = StartupGrace
    BY DEF UnhealthyHadItsGrace
  <2>1. told[s].pid \in Pids /\ age[told[s].pid] = StartupGrace
    BY DEF MachineInv, UnhealthyHadItsGrace
  <2>2. age'[told[s].pid] \in Never..StartupGrace
    BY <2>1 DEF WorldTypes
  <2> QED
    BY <2>1, <2>2, SMT
<1> QED
  BY <1>1, <1>2, <1>3, <1>4 DEF MachineInv

(* A process is born, of a job that waited for one or of another process.  *)
LEMMA BirthMoves ==
  ASSUME MachineInv, NEW p \in NextPid, NEW under, Births(p, under),
         UNCHANGED <<poll, entry, table, told>>,
         \/ UNCHANGED <<job, steady>>
         \/ \E s \in Services : /\ job' = [job EXCEPT ![s] = p]
                                /\ steady' = steady \ {s}
  PROVE  MachineInv'
<1>1. p \in Pids /\ age[p] = Never
  BY DEF NextPid
<1>2. age' = [age EXCEPT ![p] = 0] /\ DOMAIN parent' = DOMAIN parent \cup {p}
  BY DEF Births
<1>3. 0 \in Never..StartupGrace
  OBVIOUS
<1>4. age' \in [Pids -> Never..StartupGrace]
  BY <1>1, <1>2, <1>3 DEF MachineInv, WorldTypes
<1>5. job' \in [Services -> Pids \cup {None, Gone}]
  BY <1>1 DEF MachineInv, WorldTypes
<1>6. WorldTypes'
  BY <1>1, <1>2, <1>4, <1>5 DEF MachineInv, WorldTypes
<1>7. p \notin Alive
  BY <1>1 DEF MachineInv, JobsLive
<1>8. \A s \in Services : job[s] # p
  BY <1>1, <1>7 DEF MachineInv, JobsLive
<1>9. JobsLive'
  <2>1. \A q \in Alive' : age'[q] # Never
    BY <1>1, <1>2 DEF MachineInv, WorldTypes, JobsLive
  <2>2. \A s \in Services : job'[s] = job[s] \/ job'[s] = p
    BY DEF MachineInv, WorldTypes
  <2>3. \A s, t \in Services : job'[s] = p /\ job'[t] = p => s = t
    BY <1>8 DEF MachineInv, WorldTypes
  <2> QED
    BY <1>1, <1>2, <1>8, <2>1, <2>2, <2>3 DEF MachineInv, JobsLive
<1>10. \A q \in Pids : age[q] <= age'[q]
  BY <1>1, <1>2, SMT DEF MachineInv, WorldTypes
<1>11. steady' \subseteq steady /\ \A s \in steady' : job'[s] = job[s]
  BY DEF MachineInv, WorldTypes, SteadyStays
<1>12. \A s \in steady' : job[s] \in Pids => age'[job[s]] = age[job[s]]
  BY <1>1, <1>2, <1>8, <1>11 DEF MachineInv, WorldTypes, SteadyStays
<1> QED
  BY <1>6, <1>9, <1>10, <1>11, <1>12, WorldMoves

(* A process ends, and with it the job whose process it was.               *)
LEMMA EndMoves ==
  ASSUME MachineInv, NEW p \in Pids, Ends(p),
         UNCHANGED <<poll, entry, table, told, age>>,
         job' \in [Services -> Pids \cup {None, Gone}],
         \A s \in Services : job'[s] \in Pids => job'[s] = job[s] /\ job[s] # p,
         steady' \subseteq steady, \A s \in steady' : job'[s] = job[s]
  PROVE  MachineInv'
<1>1. DOMAIN parent' = DOMAIN parent \ {p}
  BY DEF Ends
<1>2. WorldTypes'
  BY <1>1 DEF MachineInv, WorldTypes
<1>3. JobsLive'
  BY <1>1 DEF MachineInv, JobsLive
<1>4. \A q \in Pids : age[q] <= age'[q]
  BY SMT DEF MachineInv, WorldTypes
<1> QED
  BY <1>2, <1>3, <1>4, WorldMoves

(* The poll forgets what it has read when it answers.                      *)
LEMMA ForgetsAll ==
  ASSUME MachineInv, Forget, UNCHANGED world
  PROVE  MachineInv'
<1>1. /\ poll' = Idle /\ entry' = NoEntries /\ DOMAIN table' = {}
      /\ told' = NoStatus /\ DOMAIN told' = {} /\ steady' = {}
  BY DEF Forget, NoTable, NoStatus
<1>2. UNCHANGED <<job, parent, age>>
  BY DEF world
<1>3. Idle.at = "idle" /\ NoEntries \in [Services -> {Gone}]
  BY DEF Idle, NoEntries
<1>4. WorldTypes' /\ JobsLive'
  BY <1>1, <1>2, <1>3 DEF MachineInv, WorldTypes, JobsLive
<1>5. SeenWasBorn' /\ SteadyStays'
  BY <1>1, <1>2, <1>3 DEF SeenWasBorn, SteadyStays
<1> QED
  BY <1>1, <1>4, <1>5 DEF MachineInv, SteadyIsTrue, UnhealthyHadItsGrace

(* A step of the load reads nothing of the machine.                        *)
LEMMA LoadsApart ==
  ASSUME MachineInv, UNCHANGED <<world, probe, steady>>,
         poll.at # "ports", poll'.at # "ports"
  PROVE  MachineInv'
<1>1. UNCHANGED <<job, parent, age, entry, table, told, steady>>
  BY DEF world, probe
<1>2. WorldTypes' /\ JobsLive' /\ SeenWasBorn'
  BY <1>1 DEF MachineInv, WorldTypes, JobsLive, SeenWasBorn
<1> QED
  BY <1>1, <1>2 DEF MachineInv, SteadyStays, SteadyIsTrue, UnhealthyHadItsGrace

(* A service is gone through: its status is true if it stayed, and if it   *)
(* is called unhealthy, ps has seen it for the grace.                      *)
LEMMA TriedIsTrue ==
  ASSUME MachineInv, NEW s \in Services, TryPort(s)
  PROVE  MachineInv'
<1> DEFINE uptime == IF PidOf(s) = {} THEN 0 ELSE Uptime(entry[s])
           status == [state |-> StateOf(s, entry[s], uptime, Open(s)), truth |-> Truth(s),
                      pid |-> entry[s], tree |-> UNION {Tree(p) : p \in PidOf(s)}]
<1>1. /\ poll.at = "ports"
      /\ told' = [t \in DOMAIN told \cup {s} |-> IF t = s THEN status ELSE told[t]]
  BY DEF TryPort
<1>2. UNCHANGED <<poll, job, parent, age, entry, table, steady>>
  BY DEF TryPort, world
<1>3. PortOpen(s) \in BOOLEAN /\ Open(s) \in BOOLEAN
  BY DEF PortOpen, Open
<1>4. entry[s] \in Pids \cup {None, Gone} /\ job[s] \in Pids \cup {None, Gone}
  BY DEF MachineInv, WorldTypes
<1>5. entry[s] \in Pids => Uptime(entry[s]) \in 0..age[entry[s]] /\ age[entry[s]] \in 0..StartupGrace
  <2> SUFFICES ASSUME entry[s] \in Pids
               PROVE  Uptime(entry[s]) \in 0..age[entry[s]] /\ age[entry[s]] \in 0..StartupGrace
    OBVIOUS
  <2>1. age[entry[s]] \in 0..StartupGrace
    BY SMT DEF MachineInv, WorldTypes, SeenWasBorn
  <2> QED
    BY <2>1, SMT DEF MachineInv, SeenWasBorn, Uptime
<1>6. uptime \in Nat /\ (entry[s] \in Pids => uptime = Uptime(entry[s]))
  BY <1>4, <1>5, SMT DEF PidOf
<1>7. WorldTypes' /\ JobsLive' /\ SeenWasBorn' /\ SteadyStays'
  BY <1>1, <1>2 DEF MachineInv, WorldTypes, JobsLive, SeenWasBorn, SteadyStays
<1>8. status.state = "unhealthy" => status.pid \in Pids /\ age[status.pid] = StartupGrace
  <2> SUFFICES ASSUME StateOf(s, entry[s], uptime, Open(s)) = "unhealthy"
               PROVE  entry[s] \in Pids /\ age[entry[s]] = StartupGrace
    OBVIOUS
  <2>1. entry[s] \in Pids /\ uptime >= StartupGrace
    BY <1>3, <1>4, <1>6, UnhealthyIsOld
  <2> QED
    BY <1>5, <1>6, <2>1, SMT
<1>9. s \in steady /\ status.truth # "rogue" => status.state = status.truth
  <2> SUFFICES ASSUME s \in steady, Truth(s) # "rogue"
               PROVE  StateOf(s, entry[s], uptime, Open(s)) = Truth(s)
    OBVIOUS
  <2>1. entry[s] = job[s]
    BY DEF MachineInv, SteadyStays
  <2>2. CASE entry[s] \in Pids
    <3>1. uptime = age[job[s]]
      BY <1>1, <1>6, <2>1, <2>2 DEF MachineInv, SteadyStays, Uptime
    <3>2. Open(s) = PortOpen(s)
      BY <1>3, <2>2 DEF Open, PidOf
    <3>3. Truth(s) = StateOf(s, entry[s], uptime, Open(s))
      BY <2>1, <2>2, <3>1, <3>2 DEF Truth
    <3> QED
      BY <3>3
  <2>3. CASE entry[s] \in {None, Gone}
    <3>1. entry[s] \notin Pids
      BY <2>3
    <3>2. uptime = 0 /\ Open(s) = FALSE
      BY <3>1 DEF PidOf, Open
    <3> QED
      BY <1>3, <2>1, <2>3, <3>1, <3>2, WithoutPid DEF Truth
  <2> QED
    BY <1>4, <2>2, <2>3
<1> HIDE DEF status
<1>10. SteadyIsTrue' /\ UnhealthyHadItsGrace'
  BY <1>1, <1>2, <1>8, <1>9 DEF MachineInv, SteadyIsTrue, UnhealthyHadItsGrace
<1> QED
  BY <1>7, <1>10 DEF MachineInv

(* Every step keeps what is told of the services true (probe.rs:24-68).    *)
LEMMA MachineStep == MachineInv /\ [Next]_vars => MachineInv'
<1> SUFFICES ASSUME MachineInv, [Next]_vars PROVE MachineInv'
  OBVIOUS
<1>0. \A p \in Pids : age[p] \in Int /\ age[p] <= age[p]
  BY SMT DEF MachineInv, WorldTypes
<1>1. ASSUME NEW s \in Services, Spawn(s) PROVE MachineInv'
  <2>1. PICK p \in NextPid : Births(p, None) /\ job' = [job EXCEPT ![s] = p]
    BY <1>1 DEF Spawn
  <2>2. UNCHANGED <<poll, entry, table, told>> /\ steady' = steady \ {s}
    BY <1>1 DEF Spawn, Outside, probe
  <2> QED
    BY <2>1, <2>2, BirthMoves
<1>2. ASSUME NEW p \in Pids, Fork(p) PROVE MachineInv'
  <2>1. PICK q \in NextPid : Births(q, p)
    BY <1>2 DEF Fork
  <2>2. UNCHANGED <<poll, entry, table, told, job, steady>>
    BY <1>2 DEF Fork, Outside, probe
  <2> QED
    BY <2>1, <2>2, BirthMoves
<1>3. ASSUME NEW p \in Pids, Exit(p) PROVE MachineInv'
  <2> DEFINE rooted == {s \in Services : job[s] = p}
  <2>1. /\ Ends(p) /\ UNCHANGED <<poll, entry, table, told, age>>
        /\ job' = [s \in Services |-> IF s \in rooted THEN None ELSE job[s]]
        /\ steady' = steady \ rooted
    BY <1>3 DEF Exit, Outside, probe
  <2>2. job' \in [Services -> Pids \cup {None, Gone}]
    BY <2>1 DEF MachineInv, WorldTypes
  <2>3. \A s \in Services : job'[s] \in Pids => job'[s] = job[s] /\ job[s] # p
    BY <2>1
  <2>4. steady' \subseteq steady /\ \A s \in steady' : job'[s] = job[s]
    BY <2>1 DEF MachineInv, SteadyStays
  <2> QED
    BY <2>1, <2>2, <2>3, <2>4, EndMoves
<1>4. CASE Tick
  <2>1. /\ UNCHANGED <<poll, entry, table, told, job, parent>>
        /\ age' = [p \in Pids |-> IF p \in Alive /\ age[p] < StartupGrace THEN age[p] + 1 ELSE age[p]]
        /\ steady' = {s \in steady : job[s] \in Pids => age[job[s]] = age'[job[s]]}
    BY <1>4 DEF Tick, Outside, probe
  <2>2. ASSUME NEW p \in Pids
        PROVE  /\ age'[p] \in Never..StartupGrace /\ age[p] <= age'[p]
               /\ age[p] # Never => age'[p] # Never
    <3>1. age[p] \in Never..StartupGrace
      BY DEF MachineInv, WorldTypes
    <3>2. age'[p] = IF p \in Alive /\ age[p] < StartupGrace THEN age[p] + 1 ELSE age[p]
      BY <2>1
    <3> QED
      BY <3>1, <3>2, SMT
  <2>3. age' \in [Pids -> Never..StartupGrace]
    BY <2>1, <2>2
  <2>4. WorldTypes' /\ JobsLive'
    BY <2>1, <2>2, <2>3 DEF MachineInv, WorldTypes, JobsLive
  <2> QED
    BY <2>1, <2>2, <2>4, WorldMoves
<1>5. ASSUME NEW s \in Services, Bind(s) \/ Occupy(s) \/ Vacate(s) PROVE MachineInv'
  <2>1. UNCHANGED <<poll, entry, table, told, job, parent, age, steady>>
    BY <1>5 DEF Bind, Occupy, Vacate, Outside, probe
  <2> QED
    BY <1>0, <2>1, WorldMoves DEF MachineInv, WorldTypes, JobsLive
<1>6. ASSUME NEW c \in Contents, Edit(c) PROVE MachineInv'
  <2>1. UNCHANGED <<poll, entry, table, told, job, parent, age, steady>>
    BY <1>6 DEF Edit, world, probe
  <2> QED
    BY <1>0, <2>1, WorldMoves DEF MachineInv, WorldTypes, JobsLive
<1>7. CASE Poll \/ Stat \/ LookUp \/ Read \/ Store
  <2>1. UNCHANGED <<world, probe, steady>>
    BY <1>7 DEF Poll, Stat, LookUp, Read, Store, Found, Goes
  <2>2. poll.at # "ports"
    BY <1>7 DEF Poll, Stat, LookUp, Read, Store, Idle
  <2>3. poll'.at # "ports"
    <3>1. CASE Poll
      BY <3>1 DEF Poll, Idle
    <3>2. ASSUME NEW result, Found(result) PROVE poll'.at # "ports"
      BY <3>2 DEF Found
    <3>3. ASSUME NEW at \in {"read", "store"}, NEW result, Goes(at, result) PROVE poll'.at # "ports"
      BY <2>2, <3>3 DEF Goes
    <3>4. CASE poll' = [at |-> "cache", stamp |-> file.stamp, result |-> Failed]
      BY <3>4
    <3> QED
      BY <1>7, <3>1, <3>2, <3>3, <3>4 DEF Stat, LookUp, Read, Store
  <2> QED
    BY <2>1, <2>2, <2>3, LoadsApart
<1>8. CASE ReadLaunchd
  <2>1. /\ poll.at = "launchd" /\ poll' = [poll EXCEPT !.at = "ps"]
        /\ UNCHANGED <<job, parent, age, table, told>>
        /\ \/ entry' = job
           \/ entry' = NoEntries /\ steady' = {}
        /\ steady' \subseteq Services
    BY <1>8 DEF ReadLaunchd, At, world
  <2>2. poll'.at # "ports" /\ told = NoStatus /\ DOMAIN told' = {}
    BY <2>1 DEF MachineInv, SteadyStays, NoStatus
  <2>3. NoEntries \in [Services -> {Gone}]
    BY DEF NoEntries
  <2>4. WorldTypes' /\ JobsLive' /\ SeenWasBorn'
    BY <2>1, <2>3 DEF MachineInv, WorldTypes, JobsLive, SeenWasBorn
  <2> QED
    BY <2>1, <2>2, <2>4 DEF MachineInv, SteadyStays, SteadyIsTrue, UnhealthyHadItsGrace
<1>9. CASE ReadPs
  <2>1. /\ poll.at = "ps" /\ poll' = [poll EXCEPT !.at = "ports"]
        /\ UNCHANGED <<job, parent, age, entry, told>>
    BY <1>9 DEF ReadPs, At, world
  <2>2. told = NoStatus /\ DOMAIN told' = {}
    BY <2>1 DEF MachineInv, SteadyStays, NoStatus
  <2>3. CASE table' = [p \in Alive |-> [parent |-> parent[p], age |-> age[p]]] /\ steady' = steady
    <3>1. DOMAIN table' = Alive /\ \A p \in Alive : table'[p].age = age[p]
      BY <2>3
    <3>2. \A p \in Alive : age[p] \in 0..age[p]
      BY SMT DEF MachineInv, WorldTypes, JobsLive
    <3>3. WorldTypes' /\ JobsLive' /\ SeenWasBorn'
      BY <2>1, <3>1, <3>2 DEF MachineInv, WorldTypes, JobsLive, SeenWasBorn
    <3>4. \A s \in steady' : s \in Services /\ entry'[s] = job'[s]
      BY <2>1, <2>3 DEF MachineInv, SteadyStays
    <3>5. SteadyStays'
      BY <2>1, <2>2, <3>1, <3>4 DEF MachineInv, JobsLive, SteadyStays
    <3> QED
      BY <2>2, <3>3, <3>5 DEF MachineInv, SteadyIsTrue, UnhealthyHadItsGrace
  <2>4. CASE table' = NoTable /\ steady' = {}
    <3>1. DOMAIN table' = {}
      BY <2>4 DEF NoTable
    <3>2. WorldTypes' /\ JobsLive' /\ SeenWasBorn'
      BY <2>1, <3>1 DEF MachineInv, WorldTypes, JobsLive, SeenWasBorn
    <3> QED
      BY <2>1, <2>2, <2>4, <3>2 DEF MachineInv, SteadyStays, SteadyIsTrue, UnhealthyHadItsGrace
  <2> QED
    BY <1>9, <2>3, <2>4 DEF ReadPs
<1>10. ASSUME NEW s \in Services, TryPort(s) PROVE MachineInv'
  BY <1>10, TriedIsTrue
<1>11. CASE Answer \/ Panic
  BY <1>11, ForgetsAll DEF Answer, Panic
<1>12. ASSUME NEW s \in Services, NEW verb, NEW header \in BOOLEAN, Control(s, verb, header)
       PROVE  MachineInv'
  <2>1. /\ UNCHANGED <<poll, entry, table, told, age>>
        /\ steady' = {t \in steady : job'[t] = job[t]}
        /\ Helper(s, verb) \/ UNCHANGED <<job, parent>>
    BY <1>12 DEF Control, probe
  <2>2. job' \in [Services -> Pids \cup {None, Gone}]
    BY <2>1 DEF Helper, MachineInv, WorldTypes
  <2>3. \A t \in Services \ {s} : job'[t] = job[t]
    BY <2>1 DEF Helper, MachineInv, WorldTypes
  <2>4. job'[s] \in Pids => job'[s] = job[s]
    BY <2>1 DEF Helper, MachineInv, WorldTypes
  <2>5. CASE job[s] \in Pids /\ Ends(job[s]) /\ job'[s] \notin Pids
    <3>1. \A t \in Services : job'[t] \in Pids => job'[t] = job[t] /\ job[t] # job[s]
      BY <2>3, <2>5 DEF MachineInv, JobsLive
    <3> QED
      BY <2>1, <2>2, <2>5, <3>1, EndMoves
  <2>6. CASE UNCHANGED parent
    <3>1. WorldTypes' /\ JobsLive'
      BY <2>1, <2>2, <2>3, <2>4, <2>6 DEF MachineInv, WorldTypes, JobsLive
    <3>2. steady' \subseteq steady /\ \A t \in steady' : job'[t] = job[t] /\ age'[job[t]] = age[job[t]]
      BY <2>1
    <3> QED
      BY <1>0, <2>1, <3>1, <3>2, WorldMoves
  <2>7. UNCHANGED parent \/ (job[s] \in Pids /\ Ends(job[s]) /\ job'[s] \notin Pids)
    BY <2>1 DEF Helper, MachineInv, WorldTypes
  <2> QED
    BY <2>5, <2>6, <2>7
<1>13. CASE UNCHANGED vars
  <2>1. UNCHANGED <<poll, entry, table, told, job, parent, age, steady>>
    BY <1>13 DEF vars, world, probe
  <2> QED
    BY <1>0, <2>1, WorldMoves DEF MachineInv, WorldTypes, JobsLive
<1> QED
  BY <1>1, <1>2, <1>3, <1>4, <1>5, <1>6, <1>7, <1>8, <1>9, <1>10, <1>11, <1>12, <1>13
     DEF Next, Polling

(* Before the first poll nothing is read, and no process was born.         *)
LEMMA MachineInit == Init => MachineInv
<1> SUFFICES ASSUME Init PROVE MachineInv
  OBVIOUS
<1>1. /\ DOMAIN parent = {} /\ DOMAIN table = {} /\ steady = {} /\ DOMAIN told = {}
      /\ told = NoStatus
  BY DEF Init, NoTable, NoStatus
<1>2. WorldTypes
  BY <1>1 DEF Init, WorldTypes, NoEntries
<1>3. JobsLive /\ SeenWasBorn
  BY <1>1 DEF Init, JobsLive, SeenWasBorn, NoEntries
<1> QED
  BY <1>1, <1>2, <1>3 DEF MachineInv, SteadyStays, SteadyIsTrue, UnhealthyHadItsGrace

(* The state that an answer tells of a service whose process neither       *)
(* changed nor came of age between the readings is its state at the moment *)
(* its port was tried, however the machine moved beside (probe.rs:36-53);  *)
(* of a service without a job whose port is served it says nothing.        *)
THEOREM StayedIsToldTruly == Spec => []SteadyIsTrue
<1>1. MachineInv => SteadyIsTrue
  BY DEF MachineInv
<1> QED
  BY <1>1, MachineInit, MachineStep, PTL DEF Spec

(* No process is called unhealthy that was not up for the grace period,    *)
(* also when readings failed or it was replaced between them               *)
(* (probe.rs:24-30, 47-50).                                                *)
THEOREM NothingIsJudgedEarly == Spec => []UnhealthyHadItsGrace
<1>1. MachineInv => UnhealthyHadItsGrace
  BY DEF MachineInv
<1> QED
  BY <1>1, MachineInit, MachineStep, PTL DEF Spec

-----------------------------------------------------------------------------
(* Who is counted.  The processes are a forest whose roots launchd keeps;  *)
(* a process that was read as a service's root is no child, or has ended,  *)
(* so that its tree in the table of ps meets no other root's.              *)
Forest ==
  /\ \A p \in Alive : parent[p] \in {None} \cup Alive
  /\ \A s \in Services : job[s] \in Pids => parent[job[s]] = None
  /\ \A s \in Services : entry[s] \in Alive => parent[entry[s]] = None
  /\ \A s, t \in Services : entry[s] = entry[t] /\ entry[s] \in Pids => s = t
  /\ poll.at = "ports" =>
       \A s \in Services : entry[s] \in DOMAIN table => table[entry[s]].parent = None

Counts ==
  /\ DOMAIN told \subseteq Services
  /\ \A s \in DOMAIN told :
       /\ told[s].state \in States /\ told[s].pid = entry[s]
       /\ told[s].tree = UNION {Tree(p) : p \in PidOf(s)}

(* The world moves on beside the poll: processes are born and die, and a   *)
(* process keeps its parent or becomes launchd's.                          *)
LEMMA ForestMoves ==
  ASSUME Forest, MachineInv, MachineInv', UNCHANGED <<poll, entry, table>>,
         \A p \in Alive' : parent'[p] \in {None} \cup Alive',
         \A p \in Alive' : p \in Alive /\ parent[p] = None => parent'[p] = None,
         \A p \in Alive' : p \in Alive \/ age[p] = Never,
         \A s \in Services : job'[s] \in Pids => job'[s] = job[s] \/ parent'[job'[s]] = None
  PROVE  Forest'
<1>1. ASSUME NEW s \in Services, job'[s] \in Pids PROVE parent'[job'[s]] = None
  <2>1. job'[s] \in Alive'
    BY <1>1 DEF MachineInv, JobsLive
  <2>2. job'[s] = job[s] => job[s] \in Alive /\ parent[job[s]] = None
    BY <1>1 DEF Forest, MachineInv, JobsLive
  <2> QED
    BY <1>1, <2>1, <2>2
<1>2. ASSUME NEW s \in Services, entry[s] \in Alive' PROVE parent'[entry[s]] = None
  <2>1. entry[s] \in Pids
    BY <1>2 DEF MachineInv, WorldTypes
  <2>2. entry[s] \in Alive
    BY <1>2, <2>1 DEF MachineInv, SeenWasBorn
  <2> QED
    BY <1>2, <2>2 DEF Forest
<1> QED
  BY <1>1, <1>2 DEF Forest

(* A process is born as a root, or under one that is alive.                *)
LEMMA ForestGrows ==
  ASSUME Forest, MachineInv, MachineInv', UNCHANGED <<poll, entry, table>>,
         NEW p \in NextPid, NEW under \in {None} \cup Alive, Births(p, under),
         \/ UNCHANGED job
         \/ under = None /\ \E s \in Services : job' = [job EXCEPT ![s] = p]
  PROVE  Forest'
<1>1. p \in Pids /\ age[p] = Never
  BY DEF NextPid
<1>2. p \notin Alive
  BY <1>1 DEF MachineInv, JobsLive
<1>3. /\ parent' = [q \in Alive \cup {p} |-> IF q = p THEN under ELSE parent[q]]
      /\ Alive' = Alive \cup {p}
  BY DEF Births
<1>4. \A q \in Alive' : parent'[q] \in {None} \cup Alive'
  BY <1>3 DEF Forest
<1>5. \A q \in Alive' : /\ q \in Alive /\ parent[q] = None => parent'[q] = None
                        /\ q \in Alive \/ age[q] = Never
  BY <1>1, <1>2, <1>3
<1>6. \A s \in Services : job'[s] \in Pids => job'[s] = job[s] \/ parent'[job'[s]] = None
  BY <1>3 DEF MachineInv, WorldTypes
<1> QED
  BY <1>4, <1>5, <1>6, ForestMoves

(* A process ends; its children become launchd's.                          *)
LEMMA ForestThins ==
  ASSUME Forest, MachineInv, MachineInv', UNCHANGED <<poll, entry, table>>,
         NEW p \in Pids, Ends(p),
         \A s \in Services : job'[s] \in Pids => job'[s] = job[s]
  PROVE  Forest'
<1>1. /\ parent' = [q \in Alive \ {p} |-> IF parent[q] = p THEN None ELSE parent[q]]
      /\ Alive' = Alive \ {p}
  BY DEF Ends
<1>2. \A q \in Alive' : parent'[q] \in {None} \cup Alive'
  BY <1>1 DEF Forest
<1>3. \A q \in Alive' : /\ q \in Alive /\ parent[q] = None => parent'[q] = None
                        /\ q \in Alive \/ age[q] = Never
  BY <1>1
<1> QED
  BY <1>2, <1>3, ForestMoves

(* The forest stands as it is.                                             *)
LEMMA ForestStands ==
  ASSUME Forest, MachineInv, MachineInv', UNCHANGED <<entry, table, parent>>,
         poll'.at = "ports" => poll.at = "ports",
         \A s \in Services : job'[s] \in Pids => job'[s] = job[s]
  PROVE  Forest'
BY DEF Forest, MachineInv, WorldTypes

(* Every step keeps the roots of the services apart (probe.rs:36-68).      *)
LEMMA ForestStep == Forest /\ MachineInv /\ [Next]_vars => Forest'
<1> SUFFICES ASSUME Forest, MachineInv, [Next]_vars PROVE Forest'
  OBVIOUS
<1>0. MachineInv'
  BY MachineStep
<1>1. ASSUME NEW s \in Services, Spawn(s) PROVE Forest'
  <2>1. PICK p \in NextPid : Births(p, None) /\ job' = [job EXCEPT ![s] = p]
    BY <1>1 DEF Spawn
  <2>2. UNCHANGED <<poll, entry, table>>
    BY <1>1 DEF Spawn, Outside, probe
  <2> QED
    BY <1>0, <2>1, <2>2, ForestGrows
<1>2. ASSUME NEW p \in Pids, Fork(p) PROVE Forest'
  <2>1. PICK q \in NextPid : Births(q, p)
    BY <1>2 DEF Fork
  <2>2. UNCHANGED <<poll, entry, table, job>> /\ p \in Alive
    BY <1>2 DEF Fork, Outside, probe
  <2> QED
    BY <1>0, <2>1, <2>2, ForestGrows
<1>3. ASSUME NEW p \in Pids, Exit(p) PROVE Forest'
  <2>1. /\ Ends(p) /\ UNCHANGED <<poll, entry, table>>
        /\ job' = [s \in Services |-> IF job[s] = p THEN None ELSE job[s]]
    BY <1>3 DEF Exit, Outside, probe
  <2>2. \A s \in Services : job'[s] \in Pids => job'[s] = job[s]
    BY <2>1
  <2> QED
    BY <1>0, <2>1, <2>2, ForestThins
<1>4. CASE \/ Tick \/ \E c \in Contents : Edit(c)
           \/ \E s \in Services : Bind(s) \/ Occupy(s) \/ Vacate(s) \/ TryPort(s)
           \/ UNCHANGED vars
  <2>1. UNCHANGED <<poll, job, parent, entry, table>>
    BY <1>4 DEF Tick, Edit, Bind, Occupy, Vacate, TryPort, Outside, probe, world, vars
  <2> QED
    BY <1>0, <2>1, ForestStands
<1>5. CASE Poll \/ Stat \/ LookUp \/ Read \/ Store
  <2>1. UNCHANGED <<job, parent, entry, table>>
    BY <1>5 DEF Poll, Stat, LookUp, Read, Store, Found, Goes, world, probe
  <2>2. poll'.at # "ports"
    <3>1. CASE Poll
      BY <3>1 DEF Poll, Idle
    <3>2. ASSUME NEW result, Found(result) PROVE poll'.at # "ports"
      BY <3>2 DEF Found
    <3>3. ASSUME poll.at # "ports", NEW at \in {"read", "store"}, NEW result, Goes(at, result)
          PROVE  poll'.at # "ports"
      BY <3>3 DEF Goes
    <3>4. CASE poll' = [at |-> "cache", stamp |-> file.stamp, result |-> Failed]
      BY <3>4
    <3> QED
      BY <1>5, <3>1, <3>2, <3>3, <3>4 DEF Stat, LookUp, Read, Store
  <2> QED
    BY <1>0, <2>1, <2>2, ForestStands
<1>6. CASE ReadLaunchd
  <2>1. /\ poll.at = "launchd" /\ poll' = [poll EXCEPT !.at = "ps"]
        /\ UNCHANGED <<job, parent>> /\ entry' \in {job, NoEntries}
    BY <1>6 DEF ReadLaunchd, At, world
  <2>2. poll'.at # "ports" /\ \A s \in Services : NoEntries[s] \notin Pids
    BY <2>1 DEF NoEntries
  <2>3. \A s \in Services : entry'[s] \in Pids => entry' = job
    BY <2>1, <2>2
  <2>4. Alive \subseteq Pids
    BY DEF MachineInv, WorldTypes
  <2> QED
    BY <2>1, <2>2, <2>3, <2>4 DEF Forest, MachineInv, JobsLive
<1>7. CASE ReadPs
  <2>1. UNCHANGED <<job, parent, entry>>
    BY <1>7 DEF ReadPs, world
  <2>2. \A p \in DOMAIN table' : p \in Alive /\ table'[p].parent = parent[p]
    BY <1>7 DEF ReadPs, NoTable
  <2> QED
    BY <2>1, <2>2 DEF Forest
<1>8. CASE Answer \/ Panic
  <2>1. poll'.at # "ports" /\ entry' = NoEntries /\ UNCHANGED <<job, parent>>
    BY <1>8 DEF Answer, Panic, Forget, Idle, world
  <2>2. Alive \subseteq Pids /\ \A s \in Services : NoEntries[s] \notin Pids
    BY DEF MachineInv, WorldTypes, NoEntries
  <2> QED
    BY <2>1, <2>2 DEF Forest
<1>9. ASSUME NEW s \in Services, NEW verb, NEW header \in BOOLEAN, Control(s, verb, header)
      PROVE  Forest'
  <2>1. UNCHANGED <<poll, entry, table>> /\ (Helper(s, verb) \/ UNCHANGED <<job, parent>>)
    BY <1>9 DEF Control, probe
  <2>2. \A t \in Services : job'[t] \in Pids => job'[t] = job[t]
    BY <2>1 DEF Helper, MachineInv, WorldTypes
  <2>3. UNCHANGED parent \/ (job[s] \in Pids /\ Ends(job[s]))
    BY <2>1 DEF Helper
  <2> QED
    BY <1>0, <2>1, <2>2, <2>3, ForestStands, ForestThins
<1> QED
  BY <1>1, <1>2, <1>3, <1>4, <1>5, <1>6, <1>7, <1>8, <1>9 DEF Next, Polling

(* What a service is given is the tree of its own root, as ps listed it.   *)
LEMMA CountsStep == Counts /\ MachineInv /\ [Next]_vars => Counts'
<1> SUFFICES ASSUME Counts, MachineInv, [Next]_vars PROVE Counts'
  OBVIOUS
<1>1. ASSUME UNCHANGED probe PROVE Counts'
  <2>1. UNCHANGED <<entry, table, told>>
    BY <1>1 DEF probe
  <2>2. \A p \in Pids : Tree(p)' = Tree(p)
    BY <2>1, TreeKept
  <2>3. \A s \in Services : PidOf(s)' = PidOf(s) /\ PidOf(s) \subseteq Pids
    BY <2>1 DEF PidOf
  <2> QED
    BY <2>1, <2>2, <2>3 DEF Counts
<1>2. CASE ReadLaunchd \/ ReadPs
  <2>1. told = NoStatus /\ UNCHANGED told
    BY <1>2 DEF ReadLaunchd, ReadPs, MachineInv, SteadyStays
  <2> QED
    BY <2>1 DEF Counts, NoStatus
<1>3. CASE Answer \/ Panic
  BY <1>3 DEF Answer, Panic, Forget, Counts, NoStatus
<1>4. ASSUME NEW s \in Services, TryPort(s) PROVE Counts'
  <2> DEFINE uptime == IF PidOf(s) = {} THEN 0 ELSE Uptime(entry[s])
             status == [state |-> StateOf(s, entry[s], uptime, Open(s)), truth |-> Truth(s),
                        pid |-> entry[s], tree |-> UNION {Tree(p) : p \in PidOf(s)}]
  <2>1. /\ told' = [t \in DOMAIN told \cup {s} |-> IF t = s THEN status ELSE told[t]]
        /\ UNCHANGED <<entry, table>>
    BY <1>4 DEF TryPort
  <2>2. StateOf(s, entry[s], uptime, Open(s)) \in States
    <3>1. entry[s] \in Pids \cup {None, Gone}
      BY DEF MachineInv, WorldTypes
    <3> HIDE DEF uptime
    <3> QED
      BY <3>1, Zenon DEF StateOf, States
  <2>3. /\ status.state \in States /\ status.pid = entry[s]
        /\ status.tree = UNION {Tree(p) : p \in PidOf(s)}
    BY <2>2
  <2> HIDE DEF status
  <2>4. \A p \in Pids : Tree(p)' = Tree(p)
    BY <2>1, TreeKept
  <2>5. \A t \in Services : PidOf(t)' = PidOf(t) /\ PidOf(t) \subseteq Pids
    BY <2>1 DEF PidOf
  <2> QED
    BY <2>1, <2>3, <2>4, <2>5 DEF Counts
<1>5. UNCHANGED probe \/ ReadLaunchd \/ ReadPs \/ Answer \/ Panic \/ \E s \in Services : TryPort(s)
  BY Zenon DEF Next, Polling, Spawn, Fork, Exit, Tick, Bind, Occupy, Vacate, Outside, Edit, Poll, Stat,
     LookUp, Read, Store, Found, Goes, Control, vars
<1> QED
  BY <1>1, <1>2, <1>3, <1>4, <1>5

(* No process is counted for two services of an answer, nor any for a      *)
(* service without one, whatever forks, exits, is stopped or restarted     *)
(* between launchctl and ps (probe.rs:36-68, 236-256).                     *)
THEOREM NoProcessCountsTwice == Spec => []CountedOnce
<1> DEFINE Inv == MachineInv /\ Forest /\ Counts
<1>1. Init => Inv
  <2> SUFFICES ASSUME Init PROVE Forest /\ Counts
    BY MachineInit
  <2>1. DOMAIN parent = {} /\ DOMAIN told = {} /\ poll.at # "ports"
    BY DEF Init, NoStatus, Idle
  <2>2. \A s \in Services : job[s] \notin Pids /\ entry[s] \notin Pids
    BY DEF Init, NoEntries
  <2> QED
    BY <2>1, <2>2 DEF Forest, Counts
<1>2. Inv /\ [Next]_vars => Inv'
  BY MachineStep, ForestStep, CountsStep, Zenon
<1>3. Inv => CountedOnce
  <2> SUFFICES ASSUME Inv PROVE CountedOnce
    OBVIOUS
  <2>1. ASSUME NEW s \in DOMAIN told PROVE told[s].pid \notin Pids => told[s].tree = {}
    BY DEF Counts, PidOf
  <2>2. ASSUME NEW s \in DOMAIN told, NEW t \in DOMAIN told, s # t
        PROVE  told[s].tree \cap told[t].tree = {}
    <3>0. poll.at = "ports" /\ s \in Services /\ t \in Services /\ DOMAIN table \subseteq Pids
      BY DEF Counts, MachineInv, WorldTypes, SteadyStays, NoStatus
    <3>1. CASE entry[s] \in Pids /\ entry[t] \in Pids
      <4>1. entry[s] # entry[t]
        BY <2>2, <3>0, <3>1 DEF Forest
      <4>2. \A p \in {entry[s], entry[t]} \cap DOMAIN table : table[p].parent = None
        BY <3>0 DEF Forest
      <4>3. Tree(entry[s]) \cap Tree(entry[t]) = {}
        BY <3>0, <3>1, <4>1, <4>2, TreesApart
      <4>4. PidOf(s) = {entry[s]} /\ PidOf(t) = {entry[t]}
        BY <3>1 DEF PidOf
      <4>5. told[s].tree = Tree(entry[s]) /\ told[t].tree = Tree(entry[t])
        <5>1. \A p \in Pids : UNION {Tree(q) : q \in {p}} = Tree(p)
          BY Zenon
        <5>2. /\ told[s].tree = UNION {Tree(p) : p \in PidOf(s)}
              /\ told[t].tree = UNION {Tree(p) : p \in PidOf(t)}
          BY DEF Counts
        <5> QED
          BY <3>1, <4>4, <5>1, <5>2, Zenon
      <4> QED
        BY <4>3, <4>5
    <3>2. CASE entry[s] \notin Pids \/ entry[t] \notin Pids
      BY <3>0, <3>2 DEF Counts, PidOf
    <3> QED
      BY <3>1, <3>2
  <2>3. ASSUME NEW s \in DOMAIN told
        PROVE  told[s].tree \cap UNION {told[t].tree : t \in DOMAIN told \ {s}} = {}
    BY <2>2
  <2> QED
    BY <2>1, <2>3 DEF CountedOnce
<1> QED
  BY <1>1, <1>2, <1>3, PTL DEF Spec

-----------------------------------------------------------------------------
(* Types.                                                                  *)
QuotaInv ==
  edits \in 0..MaxEdits /\ controls \in 0..MaxControls /\ faults \in 0..MaxFaults

SetsInv ==
  /\ since \subseteq Results /\ steady \subseteq Services
  /\ listening \subseteq Ported /\ outsiders \subseteq Ported \ listening

(* No step spends more edits, controls or faults than there may be.        *)
LEMMA QuotaStep == QuotaInv /\ [Next]_vars => QuotaInv'
<1> SUFFICES ASSUME QuotaInv, [Next]_vars PROVE QuotaInv'
  OBVIOUS
<1>1. CASE UNCHANGED <<edits, controls>> /\ (Fault \/ Fine)
  BY <1>1 DEF QuotaInv, Fault, Fine
<1>2. ASSUME NEW c \in Contents, Edit(c) PROVE QuotaInv'
  BY <1>2 DEF QuotaInv, Edit
<1>3. ASSUME NEW s \in Services, NEW verb, NEW header \in BOOLEAN, Control(s, verb, header)
      PROVE  QuotaInv'
  <2>1. /\ controls < MaxControls /\ controls' = controls + 1 /\ UNCHANGED edits
        /\ Fault \/ Fine
    BY <1>3, Zenon DEF Control, manifest
  <2> QED
    BY <2>1 DEF QuotaInv, Fault, Fine
<1>4. \/ UNCHANGED <<edits, controls>> /\ (Fault \/ Fine)
      \/ \E c \in Contents : Edit(c)
      \/ \E s \in Services, verb \in Verbs \cup {"unknown"}, header \in BOOLEAN :
           Control(s, verb, header)
  <2>1. CASE UNCHANGED vars
    BY <2>1 DEF vars, manifest, Fine
  <2>2. CASE Polling
    BY <2>2, Zenon DEF Polling, Poll, Stat, LookUp, Read, Store, Found, Goes, ReadLaunchd,
       ReadPs, TryPort, Answer, Panic, manifest, Fine
  <2>3. ASSUME NEW s \in Services, Spawn(s) \/ Bind(s) \/ Occupy(s) \/ Vacate(s)
        PROVE  UNCHANGED <<edits, controls>> /\ (Fault \/ Fine)
    BY <2>3, Zenon DEF Spawn, Bind, Occupy, Vacate, Outside, manifest, Fine
  <2>4. ASSUME NEW p \in Pids, Fork(p) \/ Exit(p)
        PROVE  UNCHANGED <<edits, controls>> /\ (Fault \/ Fine)
    BY <2>4, Zenon DEF Fork, Exit, Outside, manifest, Fine
  <2>5. CASE Tick
    BY <2>5, Zenon DEF Tick, Outside, manifest, Fine
  <2> QED
    BY <2>1, <2>2, <2>3, <2>4, <2>5, Zenon DEF Next
<1> QED
  BY <1>1, <1>2, <1>3, <1>4, Zenon

(* Every step keeps the sets in their ranges, and no port has two owners.  *)
LEMMA SetsStep == SetsInv /\ LoadInv /\ [Next]_vars => SetsInv'
<1> SUFFICES ASSUME SetsInv, LoadInv, [Next]_vars PROVE SetsInv'
  OBVIOUS
<1>1. ASSUME NEW c \in Contents, Edit(c) PROVE SetsInv'
  BY <1>1, ParseIsResult DEF SetsInv, Edit, world
<1>2. CASE Poll \/ Stat \/ LookUp \/ Read \/ Store
  <2>1. UNCHANGED <<listening, outsiders, steady>> /\ (UNCHANGED since \/ since' = {Parse(file.content)})
    BY <1>2 DEF Poll, Stat, LookUp, Read, Store, Found, Goes, world
  <2>2. Parse(file.content) \in Results
    BY ParseIsResult DEF LoadInv, LoadTypes
  <2> QED
    BY <2>1, <2>2 DEF SetsInv
<1>3. CASE ReadLaunchd \/ ReadPs
  BY <1>3 DEF ReadLaunchd, ReadPs, world, SetsInv
<1>4. CASE Answer \/ Panic
  BY <1>4 DEF Answer, Panic, Forget, world, SetsInv
<1>5. ASSUME NEW s \in Services,
             TryPort(s) \/ Spawn(s) \/ Bind(s) \/ Occupy(s) \/ Vacate(s)
      PROVE  SetsInv'
  BY <1>5 DEF TryPort, Spawn, Bind, Occupy, Vacate, Outside, world, SetsInv
<1>6. ASSUME NEW p \in Pids, Fork(p) \/ Exit(p) PROVE SetsInv'
  BY <1>6 DEF Fork, Exit, Outside, SetsInv
<1>7. CASE Tick \/ UNCHANGED vars
  BY <1>7 DEF Tick, Outside, vars, world, SetsInv
<1>8. ASSUME NEW s \in Services, NEW verb, NEW header \in BOOLEAN, Control(s, verb, header)
      PROVE  SetsInv'
  BY <1>8 DEF Control, Helper, SetsInv
<1> QED
  BY <1>1, <1>2, <1>3, <1>4, <1>5, <1>6, <1>7, <1>8, Zenon DEF Next, Polling

(* The state is of its types, within the bounds that the model sets; no    *)
(* port has two owners and no answer calls a service a rogue.              *)
THEOREM ProbeTypes == Spec => []TypeOK
<1> DEFINE Inv == LoadInv /\ MachineInv /\ Forest /\ Counts /\ QuotaInv /\ SetsInv
<1>1. Init => Inv
  <2> SUFFICES ASSUME Init PROVE LoadInv /\ Forest /\ Counts /\ QuotaInv /\ SetsInv
    BY MachineInit
  <2>1. DOMAIN parent = {} /\ DOMAIN told = {} /\ poll.at # "ports"
    BY DEF Init, NoStatus, Idle
  <2>2. \A s \in Services : job[s] \notin Pids /\ entry[s] \notin Pids
    BY DEF Init, NoEntries
  <2>3. Forest /\ Counts
    BY <2>1, <2>2 DEF Forest, Counts
  <2>4. QuotaInv /\ SetsInv
    BY DEF Init, QuotaInv, SetsInv
  <2>5. LoadInv
    BY DEF Init, LoadInv, LoadTypes, LoadsAreCurrent, Idle, Polls, Results
  <2> QED
    BY <2>3, <2>4, <2>5
<1>2. Inv /\ [Next]_vars => Inv'
  BY LoadStep, MachineStep, ForestStep, CountsStep, QuotaStep, SetsStep, Zenon
<1>3. Inv => TypeOK
  <2> SUFFICES ASSUME Inv PROVE TypeOK
    OBVIOUS
  <2>1. file \in [stamp : 0..MaxEdits, content : Contents]
    BY DEF LoadInv, LoadTypes, QuotaInv
  <2>2. cache \in [stamp : -1..MaxEdits, result : Results]
    BY DEF LoadInv, LoadTypes, QuotaInv
  <2>3. poll \in [at : {"idle", "stat", "cache", "read", "store", "launchd", "ps", "ports", "error"},
                  stamp : 0..MaxEdits, result : Results]
    BY DEF LoadInv, LoadTypes, QuotaInv, Polls
  <2>4. \A s \in DOMAIN told : told[s].state \in States /\ told[s].tree \subseteq Pids
    <3> SUFFICES ASSUME NEW s \in DOMAIN told PROVE told[s].tree \subseteq Pids
      BY DEF Counts
    <3>1. told[s].tree = UNION {Tree(p) : p \in PidOf(s)} /\ PidOf(s) \subseteq Pids
      BY DEF Counts, PidOf
    <3>2. DOMAIN table \subseteq Pids
      BY DEF MachineInv, WorldTypes
    <3>3. \A p \in Pids : Tree(p) \subseteq Pids
      BY <3>2, TreeIs
    <3> QED
      BY <3>1, <3>3
  <2>5. \A p \in Alive : parent[p] \in {None} \cup Alive
    BY DEF Forest
  <2> QED
    BY <2>1, <2>2, <2>3, <2>4, <2>5 DEF TypeOK, MachineInv, WorldTypes, QuotaInv, SetsInv
<1> QED
  BY <1>1, <1>2, <1>3, PTL DEF Spec
=============================================================================
