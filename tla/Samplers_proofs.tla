---------------------------- MODULE Samplers_proofs --------------------------
(***************************************************************************)
(* What the samplers make of two readings of a counter, for any machine:   *)
(* any interfaces, drives, networks and processes that come and go, any    *)
(* window, age of the cache and number of readings that fail.  Each of the *)
(* three has an invariant of its own, which the steps of the other two     *)
(* leave alone.                                                            *)
(***************************************************************************)
EXTENDS Samplers, Sequences, FiniteSetTheorems, WellFoundedInduction, TLAPS

(* The instances have the operators of the library under their own names.  *)
LEMMA SameFiniteSets ==
  /\ \A S : Rates!IsFiniteSet(S) <=> IsFiniteSet(S)
  /\ \A S : Net!IsFiniteSet(S) <=> IsFiniteSet(S)
  /\ \A S : Net!Cardinality(S) = Cardinality(S)
BY DEF Rates!IsFiniteSet, Net!IsFiniteSet, Net!Cardinality, IsFiniteSet, Cardinality

LEMMA Constants ==
  /\ IsFiniteSet(Nics) /\ IsFiniteSet(Drives) /\ Nics \cap Tunnels = {}
  /\ IsFiniteSet(Ifaces) /\ Busy \subseteq Ifaces /\ WifiAge \in Nat \ {0}
  /\ MaxBytes \in Nat \ {0} /\ MaxFaults \in Nat
  /\ MaxCpu \in Nat /\ MaxGpu \in Nat /\ Window \in Nat
BY SamplersAssumption, SameFiniteSets
   DEF Rates!CollectorRatesAssumption, Net!InterfacesAssumption,
       Processes!ProcessSamplerAssumption

(* A set of naturals that is not empty has a least member.                 *)
LEMMA LeastOf == ASSUME NEW T, T \subseteq Nat, T # {} PROVE \E x \in T : \A y \in T : x <= y
<1> DEFINE R == {ss \in Nat \X Nat : ss[1] < ss[2]}
<1>1. IsWellFoundedOn(R, Nat)
  BY NatLessThanWellFounded DEF OpToRel
<1>2. \A x, y \in Nat : y < x => <<y, x>> \in R
  OBVIOUS
<1> HIDE DEF R
<1>3. PICK x \in T : \A y \in T : ~(<<y, x>> \in R)
  BY <1>1, WFMin
<1>4. \A y \in T : ~(y < x)
  BY <1>2, <1>3
<1> QED
  BY <1>4

-----------------------------------------------------------------------------
(* CollectorRates.  A sum of counters is the number of bytes that they     *)
(* have counted, as pairs of a counter and a number.                       *)
Bytes(c, S) == {u \in S \X Nat : 1 <= u[2] /\ u[2] <= c[u[1]]}

(* A table of counters, some of which are summed.                          *)
Counters(c, S) == IsFiniteSet(S) /\ \A i \in S : c[i] \in 0..MaxBytes

LEMMA BytesAreFinite ==
  ASSUME NEW c, NEW S, Counters(c, S)
  PROVE  IsFiniteSet(Bytes(c, S)) /\ Cardinality(Bytes(c, S)) \in Nat
<1>1. IsFiniteSet(S) /\ IsFiniteSet(1..MaxBytes)
  BY Constants, FS_Interval DEF Counters
<1>2. IsFiniteSet(S \X (1..MaxBytes))
  BY <1>1, FS_Product
<1>3. Bytes(c, S) \subseteq S \X (1..MaxBytes)
  BY Constants DEF Counters, Bytes
<1> QED
  BY <1>2, <1>3, FS_Subset, FS_CardinalityType

(* One counter has as many as it says.                                     *)
LEMMA BytesOfOne ==
  ASSUME NEW c, NEW k, c[k] \in Nat
  PROVE  IsFiniteSet(Bytes(c, {k})) /\ Cardinality(Bytes(c, {k})) = c[k]
<1> DEFINE f == [i \in 1..c[k] |-> <<k, i>>]
<1>1. f \in Bijection(1..c[k], Bytes(c, {k}))
  <2>1. f \in [1..c[k] -> Bytes(c, {k})]
    BY DEF Bytes
  <2>2. \A a, b \in 1..c[k] : f[a] = f[b] => a = b
    OBVIOUS
  <2>3. ASSUME NEW u \in Bytes(c, {k}) PROVE \E a \in 1..c[k] : f[a] = u
    <3>1. u[2] \in 1..c[k] /\ u = <<k, u[2]>>
      BY <2>3 DEF Bytes
    <3> QED
      BY <3>1
  <2> HIDE DEF f
  <2>4. f \in Injection(1..c[k], Bytes(c, {k}))
    BY <2>1, <2>2 DEF Injection, IsInjective
  <2>5. f \in Surjection(1..c[k], Bytes(c, {k}))
    BY <2>1, <2>3 DEF Surjection
  <2> QED
    BY <2>4, <2>5 DEF Bijection
<1>2. ExistsBijection(1..c[k], Bytes(c, {k}))
  BY <1>1 DEF ExistsBijection
<1> HIDE DEF f
<1>3. IsFiniteSet(Bytes(c, {k}))
  BY <1>2, FS_NatBijection
<1> QED
  BY <1>2, <1>3, FS_CountingElements

(* And the others as many less.                                            *)
LEMMA BytesWithout ==
  ASSUME NEW c, NEW S, Counters(c, S), NEW x \in S
  PROVE  /\ Counters(c, S \ {x})
         /\ Cardinality(Bytes(c, S)) = c[x] + Cardinality(Bytes(c, S \ {x}))
<1> DEFINE A == Bytes(c, {x})
           B == Bytes(c, S \ {x})
<1>1. Counters(c, S \ {x}) /\ Counters(c, {x}) /\ c[x] \in Nat
  BY Constants, FS_Subset, FS_Singleton DEF Counters
<1>2. Bytes(c, S) = A \cup B /\ A \cap B = {}
  BY DEF Bytes
<1>3. IsFiniteSet(A) /\ Cardinality(A) = c[x]
  BY <1>1, BytesOfOne
<1>4. IsFiniteSet(B) /\ Cardinality(B) \in Nat
  BY <1>1, BytesAreFinite
<1> HIDE DEF A, B
<1>5. Cardinality(A \cap B) = 0
  BY <1>2, FS_EmptySet
<1>6. Cardinality(A \cup B) = Cardinality(A) + Cardinality(B) - Cardinality(A \cap B)
  BY <1>3, <1>4, FS_Union
<1>7. Cardinality(A \cup B) = c[x] + Cardinality(B)
  BY <1>1, <1>3, <1>4, <1>5, <1>6
<1> QED
  BY <1>1, <1>2, <1>7 DEF B

(* The fold that sums counts them, whatever order it takes the counters in.*)
Folding(c, S) ==
  CHOOSE iter : iter = [s \in SUBSET S |->
    IF s = {} THEN 0
    ELSE c[CHOOSE x \in s : TRUE] + iter[s \ {CHOOSE x \in s : TRUE}]]

LEMMA FoldingCounts ==
  ASSUME NEW c, NEW S, Counters(c, S)
  PROVE  Folding(c, S)[S] = Cardinality(Bytes(c, S))
<1> DEFINE C(s) == CHOOSE x \in s : TRUE
           Body(g) == [s \in SUBSET S |-> IF s = {} THEN 0 ELSE c[C(s)] + g[s \ {C(s)}]]
           g == [s \in SUBSET S |-> Cardinality(Bytes(c, s))]
           f == Folding(c, S)
<1>0. \A s \in SUBSET S : Counters(c, s) /\ Cardinality(s) \in Nat
  BY FS_Subset, FS_CardinalityType DEF Counters
<1>1. ASSUME NEW s \in SUBSET S, s # {}
      PROVE  /\ C(s) \in s /\ s \ {C(s)} \in SUBSET S
             /\ g[s] = c[C(s)] + g[s \ {C(s)}]
  <2>1. C(s) \in s
    BY <1>1
  <2> DEFINE x == C(s)
  <2> HIDE DEF x
  <2>2. x \in s
    BY <2>1 DEF x
  <2>3. Cardinality(Bytes(c, s)) = c[x] + Cardinality(Bytes(c, s \ {x}))
    BY <1>0, <2>2, BytesWithout
  <2>4. s \ {x} \in SUBSET S
    OBVIOUS
  <2> QED
    BY <2>2, <2>3, <2>4 DEF x
<1>2. g = Body(g)
  <2>1. g[{}] = 0
    <3>1. Bytes(c, {}) = {}
      BY DEF Bytes
    <3> QED
      BY <3>1, FS_EmptySet
  <2>2. \A s \in SUBSET S : g[s] = Body(g)[s]
    <3> HIDE DEF g, C
    <3> QED
      BY <1>1, <2>1
  <2> QED
    BY <2>2
<1>3. f = Body(f)
  <2> HIDE DEF g
  <2>1. \E h : h = Body(h)
    BY <1>2, Zenon
  <2> QED
    BY <2>1, Zenon DEF Folding
<1>4. \A s \in SUBSET S : f[s] = IF s = {} THEN 0 ELSE c[C(s)] + f[s \ {C(s)}]
  <2> HIDE DEF f, C
  <2> QED
    BY <1>3
<1>5. \A s \in SUBSET S : g[s] = IF s = {} THEN 0 ELSE c[C(s)] + g[s \ {C(s)}]
  <2> HIDE DEF g, C
  <2> QED
    BY <1>2
<1> DEFINE Sizes == {Cardinality(s) : s \in {u \in SUBSET S : f[u] # g[u]}}
<1>6. \A s \in SUBSET S : f[s] = g[s]
  <2> SUFFICES ASSUME NEW s0 \in SUBSET S, f[s0] # g[s0] PROVE FALSE
    OBVIOUS
  <2> HIDE DEF f, g, C
  <2>1. Sizes \subseteq Nat /\ Sizes # {}
    BY <1>0
  <2>2. PICK n \in Sizes : \A m \in Sizes : n <= m
    BY <2>1, LeastOf
  <2>3. PICK s \in SUBSET S : f[s] # g[s] /\ n = Cardinality(s)
    BY <2>2
  <2>4. s # {}
    BY <1>4, <1>5, <2>3
  <2>5. C(s) \in s /\ s \ {C(s)} \in SUBSET S
    BY <1>1, <2>4
  <2>6. Cardinality(s \ {C(s)}) = Cardinality(s) - 1
    BY <1>0, <2>5, FS_RemoveElement DEF Counters
  <2>7. ~(n <= Cardinality(s \ {C(s)}))
    BY <1>0, <2>3, <2>6
  <2>8. f[s \ {C(s)}] = g[s \ {C(s)}]
    BY <2>2, <2>5, <2>7
  <2> QED
    BY <1>4, <1>5, <2>3, <2>4, <2>5, <2>8
<1> QED
  BY <1>6

(* The sums of the collector are such numbers.                             *)
LEMMA TotalsAre ==
  ASSUME NEW c, NEW S
  PROVE  /\ Counters(c, DOMAIN c \cap Nics) =>
              Rates!TotalNetwork(c) = Cardinality(Bytes(c, DOMAIN c \cap Nics))
         /\ Counters(c, DOMAIN c \cap S) =>
              Rates!ReadTotals(c, S) = Cardinality(Bytes(c, DOMAIN c \cap S))
<1>1. {i \in DOMAIN c : Rates!IsCountable(i)} = DOMAIN c \cap Nics
  BY DEF Rates!IsCountable
<1>2. Rates!TotalNetwork(c) = Folding(c, DOMAIN c \cap Nics)[DOMAIN c \cap Nics]
  BY <1>1 DEF Rates!TotalNetwork, Rates!FoldFunctionOnSet, Rates!MapThenFoldSet, Folding
<1>3. Rates!ReadTotals(c, S) = Folding(c, DOMAIN c \cap S)[DOMAIN c \cap S]
  BY DEF Rates!ReadTotals, Rates!FoldFunctionOnSet, Rates!MapThenFoldSet, Folding
<1> QED
  BY <1>2, <1>3, FoldingCounts

(* What the counters of a set that are there have counted together.        *)
Table(c) == \A i \in DOMAIN c : c[i] \in 0..MaxBytes
Sum(c, S) == Cardinality(Bytes(c, DOMAIN c \cap S))

LEMMA SumsAre ==
  ASSUME NEW c, Table(c), NEW S, IsFiniteSet(S)
  PROVE  /\ Counters(c, DOMAIN c \cap S) /\ Sum(c, S) \in Nat
         /\ Rates!TotalNetwork(c) = Sum(c, Nics)
         /\ Rates!ReadTotals(c, S) = Sum(c, S)
<1>1. \A T : IsFiniteSet(T) => IsFiniteSet(DOMAIN c \cap T)
  BY FS_Intersection
<1>2. Counters(c, DOMAIN c \cap S) /\ Counters(c, DOMAIN c \cap Nics)
  BY <1>1, Constants DEF Counters, Table
<1>3. Cardinality(Bytes(c, DOMAIN c \cap S)) \in Nat
  BY <1>2, BytesAreFinite
<1> QED
  BY <1>2, <1>3, TotalsAre DEF Sum

(* A byte more, a counter that begins, and counters that are gone.         *)
LEMMA OneMore ==
  ASSUME NEW c, NEW d, Table(c), Table(d), DOMAIN d = DOMAIN c, NEW S, IsFiniteSet(S),
         NEW x \in DOMAIN c \cap S, d[x] = c[x] + 1,
         \A i \in (DOMAIN c \cap S) \ {x} : d[i] = c[i]
  PROVE  Sum(d, S) = Sum(c, S) + 1
<1> DEFINE T == DOMAIN c \cap S
           u == <<x, c[x] + 1>>
<1>1. c[x] \in Nat /\ T \subseteq DOMAIN c /\ x \in T
  BY Constants DEF Table
<1>2. \A i \in T : c[i] \in Int
  BY Constants DEF Table
<1> HIDE DEF T
<1>3. Bytes(d, T) = Bytes(c, T) \cup {u} /\ u \notin Bytes(c, T)
  <2>1. \A v : v \in Bytes(d, T) <=> v \in Bytes(c, T) \/ v = u
    <3>1. ASSUME NEW v, v \in Bytes(d, T) PROVE v \in Bytes(c, T) \/ v = u
      <4>1. v = <<v[1], v[2]>> /\ v[1] \in T /\ v[2] \in Nat /\ 1 <= v[2] /\ v[2] <= d[v[1]]
        BY <3>1 DEF Bytes
      <4>2. CASE v[1] = x
        BY <1>1, <4>1, <4>2 DEF Bytes
      <4>3. CASE v[1] # x
        BY <4>1, <4>3 DEF Bytes, T
      <4> QED
        BY <4>2, <4>3
    <3>2. ASSUME NEW v, v \in Bytes(c, T) PROVE v \in Bytes(d, T)
      <4>1. v \in T \X Nat /\ v[1] \in T /\ v[2] \in Nat /\ 1 <= v[2] /\ v[2] <= c[v[1]]
        BY <3>2 DEF Bytes
      <4>2. v[2] <= d[v[1]]
        <5>1. CASE v[1] = x
          BY <1>1, <4>1, <5>1
        <5>2. CASE v[1] # x
          BY <4>1, <5>2 DEF T
        <5> QED
          BY <5>1, <5>2
      <4> QED
        BY <4>1, <4>2 DEF Bytes
    <3>3. u \in Bytes(d, T)
      BY <1>1 DEF Bytes
    <3> QED
      BY <3>1, <3>2, <3>3
  <2>2. u \notin Bytes(c, T)
    BY <1>1 DEF Bytes
  <2> QED
    BY <2>1, <2>2
<1>4. IsFiniteSet(Bytes(c, T))
  BY SumsAre, BytesAreFinite DEF T
<1>5. Cardinality(Bytes(c, T) \cup {u}) = Cardinality(Bytes(c, T)) + 1
  BY <1>3, <1>4, FS_AddElement
<1> QED
  BY <1>3, <1>5 DEF Sum, T

LEMMA ZeroMore ==
  ASSUME NEW c, NEW d, NEW x, x \notin DOMAIN c, DOMAIN d = DOMAIN c \cup {x}, d[x] = 0,
         \A i \in DOMAIN c : d[i] = c[i], NEW S
  PROVE  Sum(d, S) = Sum(c, S)
<1>1. Bytes(d, DOMAIN d \cap S) = Bytes(c, DOMAIN c \cap S)
  <2>1. \A n \in Nat : 1 <= n => ~(n <= d[x])
    OBVIOUS
  <2>2. \A i \in DOMAIN c \cap S : i # x
    OBVIOUS
  <2>3. (DOMAIN d \cap S) \ {x} = DOMAIN c \cap S
    OBVIOUS
  <2> QED
    BY <2>1, <2>2, <2>3 DEF Bytes
<1> QED
  BY <1>1 DEF Sum

LEMMA NoneMore ==
  ASSUME NEW c, NEW d, Table(c), NEW S, IsFiniteSet(S), NEW T, DOMAIN d \cap T \subseteq DOMAIN c \cap S,
         \A i \in DOMAIN d \cap T : d[i] = c[i]
  PROVE  Sum(d, T) <= Sum(c, S)
<1>1. Bytes(d, DOMAIN d \cap T) \subseteq Bytes(c, DOMAIN c \cap S)
  BY DEF Bytes
<1>2. IsFiniteSet(Bytes(c, DOMAIN c \cap S))
  BY SumsAre, BytesAreFinite
<1> QED
  BY <1>1, <1>2, FS_Subset DEF Sum

-----------------------------------------------------------------------------
(* A sum before is what it is now without what has moved since; unless     *)
(* something has gone, it is exactly that.                                 *)
NetDown == Sum(carried, Nics)
DiskDown == Sum(transferred, Drives)

RatesInv ==
  /\ Rates!TypeOK
  /\ NetDown <= prevNet + movedBytes["net"]
  /\ wholeTick["net"] => prevNet + movedBytes["net"] <= NetDown
  /\ ~missedDrive /\ prevDisk # Rates!NoReading => DiskDown <= prevDisk + movedBytes["disk"]
  /\ ~missedDrive /\ wholeTick["disk"] =>
       prevDisk # Rates!NoReading /\ prevDisk + movedBytes["disk"] <= DiskDown

LEMMA RatesFacts ==
  ASSUME Rates!TypeOK
  PROVE  /\ Table(carried) /\ Table(transferred) /\ NetDown \in Nat /\ DiskDown \in Nat
         /\ Rates!TotalNetwork(carried) = NetDown
         /\ \A S \in SUBSET Drives :
              /\ Rates!ReadTotals(transferred, S) = Sum(transferred, S)
              /\ Sum(transferred, S) \in Nat /\ Sum(transferred, S) <= DiskDown
         /\ movedBytes["net"] \in Nat /\ movedBytes["disk"] \in Nat
<1>1. Table(carried) /\ Table(transferred)
  BY DEF Rates!TypeOK, Rates!Range, Table
<1>2. \A S \in SUBSET Drives : IsFiniteSet(S)
  BY Constants, FS_Subset
<1>3. NetDown \in Nat /\ DiskDown \in Nat /\ Rates!TotalNetwork(carried) = NetDown
  BY <1>1, Constants, SumsAre DEF NetDown, DiskDown
<1>4. ASSUME NEW S \in SUBSET Drives
      PROVE  /\ Rates!ReadTotals(transferred, S) = Sum(transferred, S)
             /\ Sum(transferred, S) \in Nat /\ Sum(transferred, S) <= DiskDown
  <2>1. DOMAIN transferred \cap S \subseteq DOMAIN transferred \cap Drives
    OBVIOUS
  <2>2. IsFiniteSet(S) /\ IsFiniteSet(Drives)
    BY <1>2, Constants
  <2>3. Sum(transferred, S) <= Sum(transferred, Drives)
    BY <1>1, <2>1, <2>2, NoneMore
  <2> QED
    BY <1>1, <2>2, <2>3, SumsAre DEF DiskDown
<1>5. movedBytes["net"] \in Nat /\ movedBytes["disk"] \in Nat
  BY Constants DEF Rates!TypeOK, Rates!Kinds
<1> QED
  BY <1>1, <1>3, <1>4, <1>5

(* The kinds of steps: the machine moves a byte, gains or loses something, *)
(* or the collector reads.                                                 *)
LEMMA CarryStep ==
  ASSUME RatesInv, NEW nic \in Nics, NEW tunnel \in {{}} \cup {{i} : i \in Tunnels},
         Rates!Carry(nic, tunnel)
  PROVE  RatesInv'
<1> DEFINE over == {nic} \cup tunnel
<1>1. /\ over \subseteq DOMAIN carried /\ \A i \in over : carried[i] < MaxBytes
      /\ carried' = [i \in DOMAIN carried |-> IF i \in over THEN carried[i] + 1 ELSE carried[i]]
      /\ movedBytes["net"] < MaxBytes
      /\ movedBytes' = [movedBytes EXCEPT !["net"] = @ + 1]
      /\ collected' = FALSE
      /\ UNCHANGED <<transferred, prevNet, prevDisk, lastTick, rates, wholeTick, missedDrive, driveFaults>>
  BY DEF Rates!Carry, Rates!Add, Rates!collector
<1>2. over \cap Nics = {nic}
  BY Constants
<1>3. Table(carried)
  BY RatesFacts DEF RatesInv
<1>4. DOMAIN carried' = DOMAIN carried /\ nic \in DOMAIN carried
  BY <1>1
<1>5. /\ carried'[nic] = carried[nic] + 1
      /\ \A i \in (DOMAIN carried \cap Nics) \ {nic} : carried'[i] = carried[i]
  BY <1>1, <1>2
<1>6. Table(carried')
  BY <1>1, <1>3, Constants DEF Table
<1> HIDE DEF over
<1>7. /\ movedBytes' \in [Rates!Kinds -> 0..MaxBytes]
      /\ movedBytes'["net"] = movedBytes["net"] + 1 /\ movedBytes'["disk"] = movedBytes["disk"]
  BY <1>1, Constants DEF RatesInv, Rates!TypeOK, Rates!Kinds
<1>8. Rates!TypeOK'
  <2>1. Rates!Range(carried') \subseteq 0..MaxBytes
    BY <1>6 DEF Table, Rates!Range
  <2> QED
    BY <1>1, <1>4, <1>7, <2>1 DEF RatesInv, Rates!TypeOK
<1>9. NetDown' = NetDown + 1
  BY <1>3, <1>4, <1>5, <1>6, Constants, OneMore DEF NetDown
<1>10. DiskDown' = DiskDown
  BY <1>1 DEF DiskDown, Sum
<1>11. NetDown \in Nat /\ movedBytes["net"] \in Nat /\ prevNet \in Nat
  BY RatesFacts DEF RatesInv, Rates!TypeOK
<1>12. NetDown <= prevNet + movedBytes["net"]
       /\ (wholeTick["net"] => prevNet + movedBytes["net"] <= NetDown)
  BY DEF RatesInv
<1>13. NetDown' <= prevNet' + movedBytes'["net"]
       /\ (wholeTick["net"] => prevNet' + movedBytes'["net"] <= NetDown')
  BY <1>1, <1>7, <1>9, <1>11, <1>12
<1> QED
  BY <1>1, <1>7, <1>8, <1>10, <1>13 DEF RatesInv

LEMMA TransferStep ==
  ASSUME RatesInv, NEW d \in Drives, Rates!Transfer(d)
  PROVE  RatesInv'
<1>1. /\ d \in DOMAIN transferred /\ transferred[d] < MaxBytes
      /\ transferred' = [i \in DOMAIN transferred |->
                           IF i \in {d} THEN transferred[i] + 1 ELSE transferred[i]]
      /\ movedBytes["disk"] < MaxBytes
      /\ movedBytes' = [movedBytes EXCEPT !["disk"] = @ + 1]
      /\ collected' = FALSE
      /\ UNCHANGED <<carried, prevNet, prevDisk, lastTick, rates, wholeTick, missedDrive, driveFaults>>
  BY DEF Rates!Transfer, Rates!Add, Rates!collector
<1>2. Table(transferred)
  BY RatesFacts DEF RatesInv
<1>3. DOMAIN transferred' = DOMAIN transferred
  BY <1>1
<1>4. /\ transferred'[d] = transferred[d] + 1
      /\ \A i \in (DOMAIN transferred \cap Drives) \ {d} : transferred'[i] = transferred[i]
  BY <1>1
<1>5. Table(transferred')
  BY <1>1, <1>2, Constants DEF Table
<1>6. /\ movedBytes' \in [Rates!Kinds -> 0..MaxBytes]
      /\ movedBytes'["disk"] = movedBytes["disk"] + 1 /\ movedBytes'["net"] = movedBytes["net"]
  BY <1>1, Constants DEF RatesInv, Rates!TypeOK, Rates!Kinds
<1>7. Rates!TypeOK'
  <2>1. Rates!Range(transferred') \subseteq 0..MaxBytes
    BY <1>5 DEF Table, Rates!Range
  <2> QED
    BY <1>1, <1>3, <1>6, <2>1 DEF RatesInv, Rates!TypeOK
<1>8. DiskDown' = DiskDown + 1
  BY <1>1, <1>2, <1>3, <1>4, <1>5, Constants, OneMore DEF DiskDown
<1>9. NetDown' = NetDown
  BY <1>1 DEF NetDown, Sum
<1>10. DiskDown \in Nat /\ movedBytes["disk"] \in Nat /\ prevDisk \in Int
  BY RatesFacts DEF RatesInv, Rates!TypeOK, Rates!NoReading
<1>11. /\ DiskDown <= prevDisk + movedBytes["disk"] =>
            DiskDown' <= prevDisk' + movedBytes'["disk"]
       /\ prevDisk + movedBytes["disk"] <= DiskDown =>
            prevDisk' + movedBytes'["disk"] <= DiskDown'
  BY <1>1, <1>6, <1>8, <1>10
<1> QED
  BY <1>1, <1>6, <1>7, <1>9, <1>11 DEF RatesInv

LEMMA AttachStep ==
  ASSUME RatesInv, NEW i, Rates!Attach(i)
  PROVE  RatesInv'
<1> DEFINE Gains(c, d) == /\ i \notin DOMAIN c /\ DOMAIN d = DOMAIN c \cup {i} /\ d[i] = 0
                          /\ \A j \in DOMAIN c : d[j] = c[j]
<1>1. /\ \/ i \in Nics \cup Tunnels /\ Gains(carried, carried') /\ UNCHANGED transferred
         \/ i \in Drives /\ Gains(transferred, transferred') /\ UNCHANGED carried
      /\ collected' = FALSE
      /\ UNCHANGED <<prevNet, prevDisk, lastTick, rates, movedBytes, wholeTick, missedDrive, driveFaults>>
  BY DEF Rates!Attach, Rates!collector
<1>2. ASSUME NEW c, NEW d, Gains(c, d)
      PROVE  /\ \A S : Sum(d, S) = Sum(c, S)
             /\ Rates!Range(c) \subseteq 0..MaxBytes => Rates!Range(d) \subseteq 0..MaxBytes
  <2>1. \A S : Sum(d, S) = Sum(c, S)
    BY <1>2, ZeroMore
  <2>2. Rates!Range(c) \subseteq 0..MaxBytes => Rates!Range(d) \subseteq 0..MaxBytes
    BY <1>2, Constants DEF Rates!Range
  <2> QED
    BY <2>1, <2>2
<1>3. NetDown' = NetDown /\ DiskDown' = DiskDown
  BY <1>1, <1>2 DEF NetDown, DiskDown
<1>4. Rates!TypeOK'
  BY <1>1, <1>2 DEF RatesInv, Rates!TypeOK
<1> QED
  BY <1>1, <1>3, <1>4 DEF RatesInv

LEMMA DetachStep ==
  ASSUME RatesInv, NEW i, Rates!Detach(i)
  PROVE  RatesInv'
<1> DEFINE Loses(c, d) == DOMAIN d \subseteq DOMAIN c /\ \A j \in DOMAIN d : d[j] = c[j]
<1>1. /\ \/ Loses(carried, carried') /\ wholeTick' = [wholeTick EXCEPT !["net"] = FALSE]
            /\ UNCHANGED transferred
         \/ Loses(transferred, transferred') /\ wholeTick' = [wholeTick EXCEPT !["disk"] = FALSE]
            /\ UNCHANGED carried
      /\ collected' = FALSE
      /\ UNCHANGED <<prevNet, prevDisk, lastTick, rates, movedBytes, missedDrive, driveFaults>>
  BY DEF Rates!Detach, Rates!collector, Rates!Restrict
<1>2. ASSUME NEW c, NEW d, Loses(c, d), Rates!Range(c) \subseteq 0..MaxBytes
      PROVE  /\ \A S : IsFiniteSet(S) => Sum(d, S) <= Sum(c, S) /\ Sum(d, S) \in Nat
             /\ Rates!Range(d) \subseteq 0..MaxBytes
  <2>1. Table(c) /\ Table(d) /\ Rates!Range(d) \subseteq 0..MaxBytes
    BY <1>2 DEF Table, Rates!Range
  <2>2. ASSUME NEW S, IsFiniteSet(S) PROVE Sum(d, S) <= Sum(c, S)
    <3>1. DOMAIN d \cap S \subseteq DOMAIN c \cap S /\ \A j \in DOMAIN d \cap S : d[j] = c[j]
      BY <1>2
    <3> QED
      BY <2>1, <2>2, <3>1, NoneMore
  <2> QED
    BY <2>1, <2>2, SumsAre
<1>3. Rates!Range(carried) \subseteq 0..MaxBytes /\ Rates!Range(transferred) \subseteq 0..MaxBytes
  BY DEF RatesInv, Rates!TypeOK
<1>4. wholeTick' \in [Rates!Kinds -> BOOLEAN]
      /\ \/ ~wholeTick'["net"] /\ wholeTick'["disk"] = wholeTick["disk"] /\ Loses(carried, carried')
            /\ UNCHANGED transferred
         \/ ~wholeTick'["disk"] /\ wholeTick'["net"] = wholeTick["net"]
            /\ Loses(transferred, transferred') /\ UNCHANGED carried
  BY <1>1 DEF RatesInv, Rates!TypeOK, Rates!Kinds
<1>5. Rates!TypeOK'
  <2>1. DOMAIN carried' \subseteq Nics \cup Tunnels /\ Rates!Range(carried') \subseteq 0..MaxBytes
    BY <1>1, <1>2, <1>3 DEF RatesInv, Rates!TypeOK
  <2>2. DOMAIN transferred' \subseteq Drives /\ Rates!Range(transferred') \subseteq 0..MaxBytes
    BY <1>1, <1>2, <1>3 DEF RatesInv, Rates!TypeOK
  <2> QED
    BY <1>1, <1>4, <2>1, <2>2 DEF RatesInv, Rates!TypeOK
<1>6. /\ NetDown' <= NetDown /\ NetDown' \in Nat /\ (UNCHANGED carried => NetDown' = NetDown)
      /\ DiskDown' <= DiskDown /\ DiskDown' \in Nat /\ (UNCHANGED transferred => DiskDown' = DiskDown)
  <2>1. NetDown \in Nat /\ DiskDown \in Nat
    BY RatesFacts DEF RatesInv
  <2>2. UNCHANGED carried => NetDown' = NetDown
    BY DEF NetDown, Sum
  <2>3. UNCHANGED transferred => DiskDown' = DiskDown
    BY DEF DiskDown, Sum
  <2>4. Loses(carried, carried') => NetDown' <= NetDown /\ NetDown' \in Nat
    BY <1>2, <1>3, Constants DEF NetDown
  <2>5. Loses(transferred, transferred') => DiskDown' <= DiskDown /\ DiskDown' \in Nat
    BY <1>2, <1>3, Constants DEF DiskDown
  <2> HIDE DEF Loses
  <2> QED
    BY <1>1, <2>1, <2>2, <2>3, <2>4, <2>5
<1>7. /\ movedBytes["net"] \in Nat /\ movedBytes["disk"] \in Nat /\ NetDown \in Nat /\ DiskDown \in Nat
      /\ prevNet \in Nat /\ prevDisk \in Int
  BY RatesFacts DEF RatesInv, Rates!TypeOK, Rates!NoReading
<1>8. /\ NetDown <= prevNet + movedBytes["net"] => NetDown' <= prevNet + movedBytes["net"]
      /\ DiskDown <= prevDisk + movedBytes["disk"] => DiskDown' <= prevDisk + movedBytes["disk"]
  BY <1>6, <1>7
<1> HIDE DEF Loses
<1>9. /\ wholeTick'["net"] => wholeTick["net"] /\ NetDown' = NetDown
      /\ wholeTick'["disk"] => wholeTick["disk"] /\ DiskDown' = DiskDown
  BY <1>4, <1>6
<1> QED
  BY <1>1, <1>5, <1>8, <1>9 DEF RatesInv

(* What a reading gives is what has moved, if it is complete and so was    *)
(* the one before.                                                         *)
RatesMadeUp ==
  collected' =>
    /\ rates'["net"] <= movedBytes["net"]
    /\ ~missedDrive' => rates'["disk"] <= movedBytes["disk"]

RatesMissed ==
  collected' /\ lastTick =>
    /\ wholeTick["net"] => rates'["net"] >= movedBytes["net"]
    /\ wholeTick["disk"] /\ movedBytes'["disk"] = 0 /\ ~missedDrive' =>
         rates'["disk"] >= movedBytes["disk"]

LEMMA DeltaIs ==
  ASSUME NEW previous \in Nat \cup {Rates!NoReading}, NEW current \in Nat, NEW m \in Nat
  PROVE  /\ Rates!CounterDelta(previous, current) \in Nat
         /\ (previous # Rates!NoReading => current <= previous + m) =>
              Rates!CounterDelta(previous, current) <= m
         /\ previous # Rates!NoReading /\ previous + m <= current =>
              m <= Rates!CounterDelta(previous, current)
BY DEF Rates!CounterDelta, Rates!NoReading

LEMMA CollectStep ==
  ASSUME RatesInv, NEW disk \in {Rates!NoDelta} \cup {Rates!SampleDelta(r) : r \in SUBSET Drives},
         Rates!Collect(disk)
  PROVE  RatesInv' /\ RatesMadeUp /\ RatesMissed
<1> DEFINE net == Rates!CounterDelta(prevNet, NetDown)
<1>1. /\ rates' = [net |-> Rates!PerSecRate(net), disk |-> Rates!PerSecRate(disk.delta)]
      /\ prevNet' = NetDown /\ prevDisk' = disk.previous /\ lastTick' = TRUE
      /\ movedBytes' = [net |-> 0, disk |-> IF disk.read THEN 0 ELSE movedBytes["disk"]]
      /\ wholeTick' = [net |-> TRUE, disk |-> disk.read \/ wholeTick["disk"]]
      /\ missedDrive' = (missedDrive \/ ~disk.complete) /\ collected' = TRUE
      /\ UNCHANGED driveFaults \/ (driveFaults < MaxFaults /\ driveFaults' = driveFaults + 1)
      /\ UNCHANGED <<carried, transferred>>
  BY RatesFacts, Zenon DEF Rates!Collect, Rates!machine, RatesInv
<1>2. /\ NetDown \in Nat /\ DiskDown \in Nat /\ prevNet \in Nat /\ prevDisk \in Nat \cup {Rates!NoReading}
      /\ movedBytes["net"] \in Nat /\ movedBytes["disk"] \in Nat
      /\ wholeTick \in [Rates!Kinds -> BOOLEAN] /\ missedDrive \in BOOLEAN
  BY RatesFacts DEF RatesInv, Rates!TypeOK
<1>3. NetDown' = NetDown /\ DiskDown' = DiskDown
  BY <1>1 DEF NetDown, DiskDown, Sum
<1>4. /\ net \in Nat /\ net <= movedBytes["net"]
      /\ wholeTick["net"] => movedBytes["net"] <= net
  <2>1. prevNet \in Nat \cup {Rates!NoReading} /\ prevNet # Rates!NoReading
    BY <1>2 DEF Rates!NoReading
  <2>2. NetDown <= prevNet + movedBytes["net"]
        /\ (wholeTick["net"] => prevNet + movedBytes["net"] <= NetDown)
    BY DEF RatesInv
  <2> QED
    BY <1>2, <2>1, <2>2, DeltaIs
<1>5. /\ disk.delta \in Nat /\ disk.previous \in Nat \cup {Rates!NoReading}
      /\ disk.read \in BOOLEAN /\ disk.complete \in BOOLEAN
      /\ ~missedDrive' => disk.delta <= movedBytes["disk"]
      /\ disk.read /\ wholeTick["disk"] /\ ~missedDrive' => movedBytes["disk"] <= disk.delta
      /\ disk.read /\ ~missedDrive' => disk.previous = DiskDown
      /\ ~disk.read => disk.previous = prevDisk
  <2>1. CASE disk = Rates!NoDelta
    BY <1>2, <2>1, SMT DEF Rates!NoDelta
  <2>2. ASSUME NEW r \in SUBSET Drives, disk = Rates!SampleDelta(r)
        PROVE  <1>5
    <3> DEFINE read == Sum(transferred, r)
    <3>1. /\ disk.delta = Rates!CounterDelta(prevDisk, read) /\ disk.previous = read
          /\ disk.read = TRUE /\ disk.complete = (DOMAIN transferred \subseteq r)
          /\ read \in Nat
      BY <2>2, RatesFacts, Zenon DEF Rates!SampleDelta, RatesInv
    <3>2. ASSUME ~missedDrive' PROVE ~missedDrive /\ read = DiskDown
      <4>1. ~missedDrive /\ DOMAIN transferred \subseteq r
        BY <1>1, <3>1, <3>2
      <4>2. DOMAIN transferred \cap r = DOMAIN transferred \cap Drives
        BY <4>1 DEF RatesInv, Rates!TypeOK
      <4> QED
        BY <4>1, <4>2 DEF DiskDown, Sum
    <3> HIDE DEF read
    <3>3. ASSUME ~missedDrive'
          PROVE  /\ prevDisk # Rates!NoReading => read <= prevDisk + movedBytes["disk"]
                 /\ wholeTick["disk"] =>
                      prevDisk # Rates!NoReading /\ prevDisk + movedBytes["disk"] <= read
      BY <3>2, <3>3 DEF RatesInv
    <3>4. /\ disk.delta \in Nat
          /\ ~missedDrive' => disk.delta <= movedBytes["disk"]
          /\ wholeTick["disk"] /\ ~missedDrive' => movedBytes["disk"] <= disk.delta
      <4> DEFINE delta == Rates!CounterDelta(prevDisk, read)
                 m == movedBytes["disk"]
      <4>1. /\ delta \in Nat
            /\ (prevDisk # Rates!NoReading => read <= prevDisk + m) => delta <= m
            /\ prevDisk # Rates!NoReading /\ prevDisk + m <= read => m <= delta
        BY <1>2, <3>1, DeltaIs
      <4> HIDE DEF delta
      <4>2. disk.delta = delta
        BY <3>1 DEF delta
      <4>3. ~missedDrive' => disk.delta <= m
        BY ONLY <3>3, <4>1, <4>2, Zenon
      <4>4. wholeTick["disk"] /\ ~missedDrive' => m <= disk.delta
        BY ONLY <3>3, <4>1, <4>2, Zenon
      <4> QED
        BY <4>1, <4>2, <4>3, <4>4
    <3>5. disk.read \in BOOLEAN /\ disk.complete \in BOOLEAN
      BY <3>1
    <3> QED
      BY <3>1, <3>2, <3>4, <3>5, Zenon
  <2> QED
    BY <2>1, <2>2
<1> HIDE DEF net
<1>6. /\ movedBytes'["net"] = 0 /\ movedBytes'["disk"] = (IF disk.read THEN 0 ELSE movedBytes["disk"])
      /\ wholeTick'["net"] = TRUE /\ wholeTick'["disk"] = (disk.read \/ wholeTick["disk"])
      /\ rates'["net"] = (IF lastTick THEN net ELSE 0)
      /\ rates'["disk"] = (IF lastTick THEN disk.delta ELSE 0)
  BY <1>1, Zenon DEF Rates!PerSecRate
<1>7. Rates!TypeOK'
  <2>1. movedBytes \in [Rates!Kinds -> 0..MaxBytes] /\ lastTick \in BOOLEAN
        /\ driveFaults \in 0..MaxFaults
    BY DEF RatesInv, Rates!TypeOK
  <2>2. 0 \in 0..MaxBytes /\ movedBytes["disk"] \in 0..MaxBytes /\ 0 \in Nat
    BY <2>1, Constants DEF Rates!Kinds
  <2>3. movedBytes' \in [Rates!Kinds -> 0..MaxBytes]
    BY <1>1, <1>5, <2>2 DEF Rates!Kinds
  <2>4. rates' \in [Rates!Kinds -> Nat]
    BY <1>1, <1>4, <1>5, <2>1, <2>2 DEF Rates!Kinds, Rates!PerSecRate
  <2>5. (disk.read \/ wholeTick["disk"]) \in BOOLEAN
    BY Zenon
  <2>6. wholeTick' \in [Rates!Kinds -> BOOLEAN] /\ missedDrive' \in BOOLEAN
    <3>1. (missedDrive \/ ~disk.complete) \in BOOLEAN /\ TRUE \in BOOLEAN
      BY Zenon
    <3>2. \A b \in BOOLEAN : [net |-> TRUE, disk |-> b] \in [Rates!Kinds -> BOOLEAN]
      <4>1. \A S : \A a, b \in S : [net |-> a, disk |-> b] \in [Rates!Kinds -> S]
        BY DEF Rates!Kinds
      <4> QED
        BY <4>1, Zenon
    <3>3. wholeTick' \in [Rates!Kinds -> BOOLEAN]
      <4> DEFINE w == disk.read \/ wholeTick["disk"]
      <4>1. w \in BOOLEAN /\ wholeTick' = [net |-> TRUE, disk |-> w]
        BY <1>1, <2>5
      <4> HIDE DEF w
      <4> QED
        BY ONLY <3>2, <4>1, Zenon
    <3> DEFINE b == missedDrive \/ ~disk.complete
    <3>4. missedDrive' = b
      BY <1>1
    <3> HIDE DEF b
    <3> QED
      BY <3>1, <3>3, <3>4, Zenon DEF b
  <2>7. driveFaults' \in 0..MaxFaults
    BY <1>1, <2>1, Constants
  <2>8. /\ DOMAIN carried \subseteq Nics \cup Tunnels /\ Rates!Range(carried) \subseteq 0..MaxBytes
        /\ DOMAIN transferred \subseteq Drives /\ Rates!Range(transferred) \subseteq 0..MaxBytes
    BY DEF RatesInv, Rates!TypeOK
  <2>9. /\ DOMAIN carried' \subseteq Nics \cup Tunnels /\ Rates!Range(carried') \subseteq 0..MaxBytes
        /\ DOMAIN transferred' \subseteq Drives /\ Rates!Range(transferred') \subseteq 0..MaxBytes
    BY <1>1, <2>8
  <2>10. prevNet' \in Nat /\ prevDisk' \in Nat \cup {Rates!NoReading} /\ lastTick' \in BOOLEAN
         /\ collected' \in BOOLEAN
    BY <1>1, <1>2, <1>5
  <2> QED
    BY <2>3, <2>4, <2>6, <2>7, <2>9, <2>10 DEF Rates!TypeOK
<1>8. NetDown' <= prevNet' + movedBytes'["net"] /\ prevNet' + movedBytes'["net"] <= NetDown'
  BY <1>1, <1>2, <1>3, <1>6
<1>9. ASSUME ~missedDrive'
      PROVE  /\ prevDisk' # Rates!NoReading => DiskDown' <= prevDisk' + movedBytes'["disk"]
             /\ wholeTick'["disk"] =>
                  prevDisk' # Rates!NoReading /\ prevDisk' + movedBytes'["disk"] <= DiskDown'
  <2>1. ~missedDrive
    BY <1>1, <1>9
  <2>2. CASE disk.read
    <3>1. prevDisk' = DiskDown /\ movedBytes'["disk"] = 0
      BY <1>1, <1>5, <1>6, <1>9, <2>2
    <3>2. DiskDown # Rates!NoReading /\ DiskDown <= DiskDown + 0 /\ DiskDown + 0 <= DiskDown
      BY <1>2 DEF Rates!NoReading
    <3> QED
      BY <1>3, <3>1, <3>2, Zenon
  <2>3. CASE ~disk.read
    <3>1. prevDisk' = prevDisk /\ movedBytes'["disk"] = movedBytes["disk"]
          /\ (wholeTick'["disk"] => wholeTick["disk"])
      BY <1>1, <1>5, <1>6, <2>3, Zenon
    <3> QED
      BY <1>3, <2>1, <3>1, Zenon DEF RatesInv
  <2> QED
    BY <2>2, <2>3
<1>10. RatesMadeUp
  BY <1>2, <1>4, <1>5, <1>6 DEF RatesMadeUp
<1>11. RatesMissed
  <2> SUFFICES ASSUME lastTick
               PROVE  /\ wholeTick["net"] => rates'["net"] >= movedBytes["net"]
                      /\ wholeTick["disk"] /\ movedBytes'["disk"] = 0 /\ ~missedDrive' =>
                           rates'["disk"] >= movedBytes["disk"]
    BY DEF RatesMissed
  <2>1. rates'["net"] = net /\ rates'["disk"] = disk.delta
    BY <1>6, Zenon
  <2>2. wholeTick["net"] => rates'["net"] >= movedBytes["net"]
    BY <1>2, <1>4, <2>1
  <2>3. ASSUME wholeTick["disk"], movedBytes'["disk"] = 0, ~missedDrive'
        PROVE  movedBytes["disk"] <= disk.delta
    <3>1. CASE disk.read
      BY <1>5, <2>3, <3>1
    <3>2. CASE ~disk.read
      <4>1. movedBytes["disk"] = 0
        BY <1>6, <2>3, <3>2, Zenon
      <4> QED
        BY <1>5, <4>1
    <3> QED
      BY <3>1, <3>2
  <2>4. movedBytes["disk"] <= disk.delta => rates'["disk"] >= movedBytes["disk"]
    BY <1>2, <1>5, <2>1
  <2> QED
    BY <2>2, <2>3, <2>4
<1> QED
  BY <1>7, <1>8, <1>9, <1>10, <1>11 DEF RatesInv

(* Every step of the collector, and none.                                  *)
LEMMA RatesStep ==
  RatesInv /\ [Rates!Next]_(Rates!vars) =>
    /\ RatesInv' /\ [RatesMadeUp]_(Rates!vars) /\ [RatesMissed]_(Rates!vars)
<1> SUFFICES ASSUME RatesInv, [Rates!Next]_(Rates!vars)
             PROVE  /\ RatesInv' /\ [RatesMadeUp]_(Rates!vars) /\ [RatesMissed]_(Rates!vars)
  OBVIOUS
<1>1. CASE UNCHANGED Rates!vars
  <2>1. UNCHANGED <<carried, transferred, prevNet, prevDisk, lastTick, rates, movedBytes, wholeTick,
                    missedDrive, collected, driveFaults>>
    BY <1>1 DEF Rates!vars, Rates!machine, Rates!collector
  <2>2. RatesInv'
    BY <2>1 DEF RatesInv, Rates!TypeOK, NetDown, DiskDown, Sum
  <2> QED
    BY <1>1, <2>2
<1>2. \A m : collected' = FALSE => RatesMadeUp /\ RatesMissed
  BY DEF RatesMadeUp, RatesMissed
<1>3. ASSUME NEW nic \in Nics, NEW tunnel \in {{}} \cup {{i} : i \in Tunnels}, Rates!Carry(nic, tunnel)
      PROVE  RatesInv' /\ RatesMadeUp /\ RatesMissed
  BY <1>2, <1>3, CarryStep DEF Rates!Carry
<1>4. ASSUME NEW d \in Drives, Rates!Transfer(d)
      PROVE  RatesInv' /\ RatesMadeUp /\ RatesMissed
  BY <1>2, <1>4, TransferStep DEF Rates!Transfer
<1>5. ASSUME NEW i, Rates!Attach(i) \/ Rates!Detach(i)
      PROVE  RatesInv' /\ RatesMadeUp /\ RatesMissed
  BY <1>2, <1>5, AttachStep, DetachStep DEF Rates!Attach, Rates!Detach
<1>6. CASE Rates!Next
  BY <1>3, <1>4, <1>5, <1>6, CollectStep DEF Rates!Next
<1> QED
  BY <1>1, <1>6

LEMMA RatesInit == Rates!Init => RatesInv
<1> SUFFICES ASSUME Rates!Init PROVE RatesInv
  OBVIOUS
<1>1. 0 \in 0..MaxBytes /\ 1 \in 0..MaxBytes /\ 0..1 \subseteq 0..MaxBytes /\ 0 \in 0..MaxFaults
  BY Constants
<1>2. /\ carried \in [Nics \cup Tunnels -> 0..1] /\ transferred \in [Drives -> 0..1]
      /\ prevNet = Rates!TotalNetwork(carried)
      /\ prevDisk \in {Rates!ReadTotals(transferred, Drives), Rates!NoReading}
      /\ movedBytes = Rates!Nothing /\ wholeTick = [k \in Rates!Kinds |-> FALSE]
  BY DEF Rates!Init
<1>3. Table(carried) /\ Table(transferred)
  BY <1>1, <1>2 DEF Table
<1>4. /\ prevNet = NetDown /\ prevDisk \in {DiskDown, Rates!NoReading}
      /\ NetDown \in Nat /\ DiskDown \in Nat
  BY <1>2, <1>3, Constants, SumsAre DEF NetDown, DiskDown
<1>5. Rates!TypeOK
  <2>1. Rates!Range(carried) \subseteq 0..MaxBytes /\ Rates!Range(transferred) \subseteq 0..MaxBytes
    BY <1>3 DEF Table, Rates!Range
  <2>2. Rates!Nothing \in [Rates!Kinds -> Nat] /\ Rates!Nothing \in [Rates!Kinds -> 0..MaxBytes]
    BY <1>1 DEF Rates!Nothing, Rates!Kinds
  <2> QED
    BY <1>1, <1>2, <1>4, <2>1, <2>2 DEF Rates!Init, Rates!TypeOK
<1>6. /\ movedBytes["net"] = 0 /\ movedBytes["disk"] = 0
      /\ ~wholeTick["net"] /\ ~wholeTick["disk"]
  BY <1>2 DEF Rates!Nothing, Rates!Kinds
<1>7. NetDown <= prevNet + 0 /\ (prevDisk # Rates!NoReading => DiskDown <= prevDisk + 0)
  BY <1>4
<1> QED
  BY <1>5, <1>6, <1>7 DEF RatesInv

-----------------------------------------------------------------------------
(* Interfaces.  A counter that was there is what was remembered and what   *)
(* has moved since; what the cache says of an interface is what it has     *)
(* joined, unless it joined that after the look-up.                        *)
Unread(failed) == IF failed > 0 THEN {Net!Unknown} ELSE {}
Shown(nets, unread, i) == {nets[i]} \cup unread
Recent(cache, nets, ages, unread, i) ==
  cache.iface = i /\ cache.age < WifiAge /\ cache.age <= ages[i] =>
    cache.info \in Shown(nets, unread, i)

(* What a request may be told of an interface.                             *)
Good(info, nets, ages, unread, i) == ages[i] = WifiAge => info \in Shown(nets, unread, i)

CountersAreKept ==
  /\ \A i \in DOMAIN prev : prev[i] \in 0..MaxBytes
  /\ \A i \in DOMAIN prev \cap DOMAIN counter : counter[i] <= prev[i] + moved[i]
  /\ \A i \in Ifaces : whole[i] =>
       i \in DOMAIN prev \cap DOMAIN counter /\ counter[i] = prev[i] + moved[i]

NetInv ==
  /\ Net!TypeOK /\ CountersAreKept
  /\ \A i \in Ifaces : Recent(wifi, joined, steady, Unread(wifiFaults), i)
  /\ Net!WifiIsRecent

NetMadeUp == \A i \in DOMAIN answer' : answer'[i].bytes <= moved[i]
NetMissed == \A i \in DOMAIN answer' : whole[i] => answer'[i].bytes = moved[i]

(* The loop over the interfaces is what its equation says.                 *)
LEMMA EnrichRuns ==
  ASSUME NEW order, Len(order) \in Nat, NEW elapsed, NEW failing
  PROVE  \E asked :
           /\ asked[0] = [cache |-> Net!Older(wifi, elapsed),
                          infos |-> [i \in Ifaces |-> Net!Unknown]]
           /\ \A n \in 1..Len(order) :
                asked[n] = Net!CachedWifiInfo(asked[n - 1], order[n], failing)
           /\ Net!Enrich(order, elapsed, failing) = asked[Len(order)]
<1> DEFINE L == Len(order)
           start == [cache |-> Net!Older(wifi, elapsed), infos |-> [i \in Ifaces |-> Net!Unknown]]
           Next1(asked, n) == Net!CachedWifiInfo(asked, order[n], failing)
           Body(g, m) == [n \in 0..m |-> IF n = 0 THEN start ELSE Next1(g[n - 1], n)]
           Missing == {m \in 0..L : \A g : g # Body(g, m)}
<1> HIDE DEF start, Next1
<1>1. Missing = {}
  <2> SUFFICES ASSUME Missing # {} PROVE FALSE
    OBVIOUS
  <2>1. Missing \subseteq Nat
    OBVIOUS
  <2>2. PICK m \in Missing : \A k \in Missing : m <= k
    BY <2>1, LeastOf
  <2>3. m \in 0..L /\ \A g : g # Body(g, m)
    BY <2>2
  <2>4. CASE m = 0
    <3> DEFINE g == [n \in 0..0 |-> start]
    <3>1. g = Body(g, 0)
      OBVIOUS
    <3> QED
      BY <2>3, <2>4, <3>1
  <2>5. CASE m # 0
    <3>1. m - 1 \in 0..L /\ ~(m <= m - 1)
      BY <2>3, <2>5
    <3>2. PICK g : g = Body(g, m - 1)
      <4>1. \A k \in 0..L : k \notin Missing => \E g : g = Body(g, k)
        BY Zenon
      <4> HIDE DEF Missing
      <4>2. m - 1 \notin Missing
        BY <2>2, <3>1
      <4> QED
        BY <3>1, <4>1, <4>2, Zenon
    <3> DEFINE h == [n \in 0..m |-> IF n = m THEN Next1(g[m - 1], m) ELSE g[n]]
    <3>3. \A n \in 0..m - 1 : g[n] = IF n = 0 THEN start ELSE Next1(g[n - 1], n)
      BY <3>2
    <3>4. \A n \in 0..m : h[n] = IF n = 0 THEN start ELSE Next1(h[n - 1], n)
      <4> TAKE n \in 0..m
      <4>1. CASE n = m
        <5>1. h[m - 1] = g[m - 1] /\ h[m] = Next1(g[m - 1], m)
          BY <2>3, <2>5
        <5> QED
          BY <2>5, <4>1, <5>1
      <4>2. CASE n # m
        <5>1. n \in 0..m - 1 /\ h[n] = g[n]
          BY <2>3, <4>2
        <5>2. n # 0 => h[n - 1] = g[n - 1]
          BY <2>3, <5>1
        <5> QED
          BY <3>3, <5>1, <5>2
      <4> QED
        BY <4>1, <4>2
    <3>5. h = Body(h, m)
      <4>1. h = [n \in 0..m |-> h[n]]
        OBVIOUS
      <4> HIDE DEF h
      <4> QED
        BY <3>4, <4>1
    <3> QED
      BY <2>3, <3>5
  <2> QED
    BY <2>4, <2>5
<1>2. \E g : g = Body(g, L)
  BY <1>1
<1> DEFINE asked == CHOOSE g : g = Body(g, L)
<1>3. asked = Body(asked, L)
  BY <1>2
<1>4. Net!Enrich(order, elapsed, failing) = asked[L]
  BY DEF Net!Enrich, start, Next1
<1> HIDE DEF asked
<1>5. asked[0] = start /\ \A n \in 1..L : asked[n] = Next1(asked[n - 1], n)
  BY <1>3
<1> QED
  BY <1>4, <1>5 DEF start, Next1

(* Every interface that is listed is asked for.                            *)
LEMMA EachIsAsked ==
  ASSUME NEW listed, IsFiniteSet(listed), NEW order \in Net!SetToSeqs(listed)
  PROVE  /\ Len(order) \in Nat /\ \A n \in 1..Len(order) : order[n] \in listed
         /\ \A i \in listed : \E n \in 1..Len(order) : order[n] = i
<1> DEFINE c == Cardinality(listed)
<1>1. c \in Nat /\ Net!Cardinality(listed) = c
  BY FS_CardinalityType, SameFiniteSets
<1> HIDE DEF c
<1>2. order \in [1..c -> listed] /\ \A i, j \in 1..c : i # j => order[i] # order[j]
  BY <1>1 DEF Net!SetToSeqs
<1>3. order \in Injection(1..c, listed)
  BY <1>2 DEF Injection, IsInjective
<1>4. Cardinality(1..c) = c
  BY <1>1, FS_Interval
<1>5. order \in Surjection(1..c, listed)
  BY <1>3, <1>4, FS_Injection DEF c
<1>6. Len(order) = c
  BY <1>1, <1>2
<1> QED
  BY <1>1, <1>2, <1>5, <1>6 DEF Surjection

Asked(asked, nets, ages, unread) ==
  /\ asked.cache \in Net!Cached /\ asked.infos \in [Ifaces -> Net!Info]
  /\ \A j \in Ifaces : Recent(asked.cache, nets, ages, unread, j)

(* cached_wifi_info, for what a look-up gives.                             *)
Told(asked, i, look) ==
  LET cache == IF Net!Fresh(asked.cache, i) THEN asked.cache
               ELSE [iface |-> i, info |-> look, age |-> 0]
  IN  [cache |-> cache, infos |-> [asked.infos EXCEPT ![i] = cache.info]]

(* What a request does with the cache, whatever the order in which it asks *)
(* for the interfaces: what it is told of each is on the network that it   *)
(* has been on for as long, or could not be read.                          *)
LEMMA OneIsAsked ==
  ASSUME NEW nets, NEW ages, NEW unread, NEW asked, Asked(asked, nets, ages, unread),
         NEW i \in Ifaces, NEW look \in Net!Info, look \in Shown(nets, unread, i),
         NEW next, next = Told(asked, i, look)
  PROVE  /\ Asked(next, nets, ages, unread)
         /\ Good(next.infos[i], nets, ages, unread, i)
         /\ \A j \in Ifaces \ {i} : next.infos[j] = asked.infos[j]
<1> USE Constants DEF Asked
<1> DEFINE new == [iface |-> i, info |-> look, age |-> 0]
           cache == IF Net!Fresh(asked.cache, i) THEN asked.cache ELSE new
<1>1. next = [cache |-> cache, infos |-> [asked.infos EXCEPT ![i] = cache.info]]
  BY DEF Told
<1>3. new \in Net!Cached /\ \A j \in Ifaces : Recent(new, nets, ages, unread, j)
  BY DEF Net!Cached, Recent
<1>4. Good(new.info, nets, ages, unread, i)
  BY DEF Good
<1>5. Net!Fresh(asked.cache, i) => Good(asked.cache.info, nets, ages, unread, i)
  <2> SUFFICES ASSUME asked.cache.iface = i, asked.cache.age < WifiAge, ages[i] = WifiAge
               PROVE  asked.cache.info \in Shown(nets, unread, i)
    BY DEF Net!Fresh, Good
  <2>1. asked.cache.age \in 0..WifiAge
    BY DEF Net!Cached
  <2>2. asked.cache.age <= ages[i]
    BY <2>1
  <2> QED
    BY <2>2 DEF Recent
<1> HIDE DEF new
<1>6. /\ cache \in Net!Cached /\ \A j \in Ifaces : Recent(cache, nets, ages, unread, j)
      /\ Good(cache.info, nets, ages, unread, i)
  BY <1>3, <1>4, <1>5
<1> HIDE DEF cache
<1>7. cache.info \in Net!Info
  BY <1>6 DEF Net!Cached
<1>8. next.cache = cache /\ next.infos \in [Ifaces -> Net!Info] /\ next.infos[i] = cache.info
      /\ \A j \in Ifaces \ {i} : next.infos[j] = asked.infos[j]
  BY <1>1, <1>7
<1> QED
  BY <1>6, <1>8, Zenon

LEMMA AllAreAsked ==
  ASSUME NEW order, Len(order) \in Nat, \A n \in 1..Len(order) : order[n] \in Ifaces,
         NEW nets, NEW ages, NEW unread, NEW asked, Asked(asked[0], nets, ages, unread),
         \A n \in 1..Len(order) : \E look \in Net!Info :
           look \in Shown(nets, unread, order[n]) /\ asked[n] = Told(asked[n - 1], order[n], look)
  PROVE  /\ Asked(asked[Len(order)], nets, ages, unread)
         /\ \A n \in 1..Len(order) : Good(asked[Len(order)].infos[order[n]], nets, ages, unread, order[n])
<1> DEFINE Fine(n) == /\ Asked(asked[n], nets, ages, unread)
                      /\ \A k \in 1..n : Good(asked[n].infos[order[k]], nets, ages, unread, order[k])
           Failing == {n \in 0..Len(order) : ~Fine(n)}
<1>1. Fine(0)
  OBVIOUS
<1>2. ASSUME NEW n \in 1..Len(order), Fine(n - 1) PROVE Fine(n)
  <2>0. PICK before, i, after : before = asked[n - 1] /\ i = order[n] /\ after = asked[n]
    OBVIOUS
  <2>1. i \in Ifaces
    BY <2>0
  <2>2. PICK look \in Net!Info : look \in Shown(nets, unread, i) /\ after = Told(before, i, look)
    BY <2>0
  <2>3. /\ Asked(before, nets, ages, unread)
        /\ \A k \in 1..n - 1 : Good(before.infos[order[k]], nets, ages, unread, order[k])
    BY <1>2, <2>0
  <2>4. /\ Asked(after, nets, ages, unread)
        /\ Good(after.infos[i], nets, ages, unread, i)
        /\ \A j \in Ifaces \ {i} : after.infos[j] = before.infos[j]
    BY <2>1, <2>2, <2>3, OneIsAsked
  <2>5. ASSUME NEW k \in 1..n PROVE Good(after.infos[order[k]], nets, ages, unread, order[k])
    <3>1. order[k] \in Ifaces /\ order[n] = i
      BY <2>0
    <3>2. CASE order[k] = i
      BY <2>4, <3>2
    <3>3. CASE order[k] # i
      <4>1. k \in 1..n - 1
        BY <3>1, <3>3
      <4>2. after.infos[order[k]] = before.infos[order[k]]
        BY <2>4, <3>1, <3>3
      <4> QED
        BY <2>3, <4>1, <4>2
    <3> QED
      BY <3>2, <3>3
  <2> QED
    BY <2>0, <2>4, <2>5
<1> HIDE DEF Fine
<1>3. Failing = {}
  <2> SUFFICES ASSUME Failing # {} PROVE FALSE
    OBVIOUS
  <2>0. Failing \subseteq Nat
    OBVIOUS
  <2> HIDE DEF Failing
  <2>1. PICK n \in Failing : \A k \in Failing : n <= k
    BY <2>0, LeastOf
  <2> USE DEF Failing
  <2>2. n # 0 /\ n \in 0..Len(order) /\ ~Fine(n)
    BY <1>1, <2>1
  <2>3. n \in 1..Len(order) /\ n - 1 \in 0..Len(order) /\ ~(n <= n - 1)
    BY <2>2
  <2>4. Fine(n - 1)
    BY <2>1, <2>3
  <2> QED
    BY <1>2, <2>2, <2>3, <2>4
<1>4. Fine(Len(order))
  BY <1>3
<1> QED
  BY <1>4 DEF Fine


(* A step without an answer shows nothing.                                 *)
LEMMA NotAnswered ==
  answer' = Net!NoAnswer =>
    /\ NetMadeUp /\ NetMissed /\ Net!WifiIsRecent'
    /\ DOMAIN answer' \subseteq Ifaces
    /\ \A i \in DOMAIN answer' : answer'[i] \in [bytes : Nat, wireless : Net!Info]
BY DEF Net!NoAnswer, NetMadeUp, NetMissed, Net!WifiIsRecent

LEMMA NetFacts ==
  ASSUME NetInv
  PROVE  /\ \A i \in DOMAIN counter : i \in Ifaces /\ counter[i] \in Nat /\ counter[i] <= MaxBytes
         /\ \A i \in DOMAIN prev : i \in Ifaces /\ prev[i] \in Nat /\ prev[i] <= MaxBytes
         /\ moved \in [Ifaces -> 0..MaxBytes] /\ whole \in [Ifaces -> BOOLEAN]
         /\ \A i \in Ifaces : moved[i] \in Nat /\ moved[i] <= MaxBytes
         /\ steady \in [Ifaces -> Net!Changed..WifiAge]
         /\ \A i \in Ifaces : steady[i] \in Int /\ -1 <= steady[i] /\ steady[i] <= WifiAge
         /\ joined \in [Ifaces -> Networks] /\ wifi \in Net!Cached
         /\ wifi.age \in Nat /\ wifi.age <= WifiAge
         /\ wifiFaults \in Nat /\ wifiFaults <= MaxFaults
BY Constants DEF NetInv, Net!TypeOK, Net!There, Net!Changed, Net!Cached, CountersAreKept

LEMMA NetCarryStep ==
  ASSUME NetInv, NEW i \in Ifaces, Net!Carry(i)
  PROVE  NetInv'
<1>1. /\ i \in DOMAIN counter /\ counter[i] < MaxBytes /\ moved[i] < MaxBytes
      /\ counter' = [counter EXCEPT ![i] = @ + 1] /\ moved' = [moved EXCEPT ![i] = @ + 1]
      /\ UNCHANGED <<joined, prev, wifi, whole, steady, wifiFaults>> /\ answer' = Net!NoAnswer
  BY DEF Net!Carry, Net!There, Net!server
<1>2. /\ DOMAIN counter' = DOMAIN counter /\ counter'[i] = counter[i] + 1
      /\ \A j \in DOMAIN counter \ {i} : counter'[j] = counter[j]
      /\ moved'[i] = moved[i] + 1 /\ \A j \in Ifaces \ {i} : moved'[j] = moved[j]
  BY <1>1, NetFacts
<1>3. moved' \in [Ifaces -> 0..MaxBytes]
  BY <1>1, NetFacts, Constants
<1>4. \A j \in DOMAIN counter' : counter'[j] \in 0..MaxBytes
  BY <1>1, <1>2, NetFacts, Constants
<1>5. Net!TypeOK'
  BY <1>1, <1>2, <1>3, <1>4, NotAnswered DEF NetInv, Net!TypeOK, Net!There, Net!Cached
<1>6. CountersAreKept'
  <2>1. ASSUME NEW j \in DOMAIN prev \cap DOMAIN counter
        PROVE  /\ counter'[j] <= prev[j] + moved'[j]
               /\ counter[j] = prev[j] + moved[j] => counter'[j] = prev[j] + moved'[j]
    <3>1. counter[j] \in Nat /\ prev[j] \in Nat /\ moved[j] \in Nat /\ counter[j] <= prev[j] + moved[j]
      BY NetFacts DEF NetInv, CountersAreKept
    <3>2. j \in Ifaces
      BY NetFacts
    <3>3. CASE j = i
      BY <1>2, <3>1, <3>3
    <3>4. CASE j # i
      BY <1>2, <3>1, <3>2, <3>4
    <3> QED
      BY <3>3, <3>4
  <2> QED
    BY <1>1, <1>2, <2>1 DEF NetInv, CountersAreKept
<1> QED
  BY <1>1, <1>5, <1>6, NotAnswered DEF NetInv

LEMMA NetJoinStep ==
  ASSUME NetInv, NEW i \in Ifaces, NEW network \in Networks, Net!Join(i, network)
  PROVE  NetInv'
<1>1. /\ joined' = [joined EXCEPT ![i] = network] /\ steady' = [steady EXCEPT ![i] = Net!Changed]
      /\ UNCHANGED <<counter, prev, wifi, moved, whole, wifiFaults>> /\ answer' = Net!NoAnswer
  BY DEF Net!Join, Net!server
<1>2. Net!TypeOK'
  <2>1. joined' \in [Ifaces -> Networks] /\ steady' \in [Ifaces -> Net!Changed..WifiAge]
    BY <1>1, NetFacts, Constants DEF Net!Changed
  <2> QED
    BY <1>1, <2>1, NotAnswered DEF NetInv, Net!TypeOK, Net!There, Net!Cached
<1>3. ASSUME NEW j \in Ifaces PROVE Recent(wifi', joined', steady', Unread(wifiFaults'), j)
  <2>1. CASE j = i
    <3>1. ~(wifi.age <= steady'[i])
      BY <1>1, NetFacts DEF Net!Changed
    <3> QED
      BY <1>1, <2>1, <3>1 DEF Recent
  <2>2. CASE j # i
    <3>1. joined'[j] = joined[j] /\ steady'[j] = steady[j]
      BY <1>1, <2>2, NetFacts
    <3>2. Recent(wifi, joined, steady, Unread(wifiFaults), j)
      BY DEF NetInv
    <3> QED
      BY <1>1, <3>1, <3>2 DEF Recent, Shown
  <2> QED
    BY <2>1, <2>2
<1>4. CountersAreKept'
  BY <1>1 DEF NetInv, CountersAreKept
<1> QED
  BY <1>1, <1>2, <1>3, <1>4, NotAnswered DEF NetInv

LEMMA NetAttachStep ==
  ASSUME NetInv, NEW i \in Ifaces, Net!Attach(i) \/ Net!Detach(i)
  PROVE  NetInv'
<1>1. /\ UNCHANGED <<joined, prev, wifi, moved, steady, wifiFaults>> /\ answer' = Net!NoAnswer
      /\ \/ /\ i \notin DOMAIN counter /\ DOMAIN counter' = DOMAIN counter \cup {i}
            /\ counter'[i] = 0 /\ \A j \in DOMAIN counter : counter'[j] = counter[j]
            /\ UNCHANGED whole
         \/ /\ DOMAIN counter' = DOMAIN counter \ {i}
            /\ \A j \in DOMAIN counter' : counter'[j] = counter[j]
            /\ whole' = [whole EXCEPT ![i] = FALSE]
  BY DEF Net!Attach, Net!Detach, Net!There, Net!server, Net!history
<1>2. whole' \in [Ifaces -> BOOLEAN]
  BY <1>1, NetFacts
<1>3. Net!TypeOK'
  <2>1. /\ DOMAIN counter' \subseteq Ifaces
        /\ \A j \in DOMAIN counter' : counter'[j] \in 0..MaxBytes
    BY <1>1, NetFacts, Constants
  <2> QED
    BY <1>1, <1>2, <2>1, NotAnswered DEF NetInv, Net!TypeOK, Net!There, Net!Cached
<1>4. CountersAreKept'
  <2>1. ASSUME NEW j \in DOMAIN prev \cap DOMAIN counter' PROVE counter'[j] <= prev[j] + moved[j]
    <3>1. prev[j] \in Nat /\ moved[j] \in Nat
      BY NetFacts
    <3>2. CASE j \in DOMAIN counter
      BY <1>1, <3>2 DEF NetInv, CountersAreKept
    <3>3. CASE j \notin DOMAIN counter
      BY <1>1, <3>1, <3>3
    <3> QED
      BY <3>2, <3>3
  <2>2. ASSUME NEW j \in Ifaces, whole'[j]
        PROVE  whole[j] /\ j \in DOMAIN counter' /\ counter'[j] = counter[j]
    <3>1. whole[j] => j \in DOMAIN counter
      BY DEF NetInv, CountersAreKept
    <3>2. CASE UNCHANGED whole /\ DOMAIN counter' = DOMAIN counter \cup {i}
               /\ \A k \in DOMAIN counter : counter'[k] = counter[k]
      BY <2>2, <3>1, <3>2
    <3>3. CASE whole' = [whole EXCEPT ![i] = FALSE] /\ DOMAIN counter' = DOMAIN counter \ {i}
               /\ \A k \in DOMAIN counter' : counter'[k] = counter[k]
      <4>1. j # i /\ whole'[j] = whole[j]
        BY <2>2, <3>3, NetFacts
      <4> QED
        BY <2>2, <3>1, <3>3, <4>1
    <3> QED
      BY <1>1, <3>2, <3>3
  <2> QED
    BY <1>1, <2>1, <2>2 DEF NetInv, CountersAreKept
<1> QED
  BY <1>1, <1>3, <1>4, NotAnswered DEF NetInv

(* What an interface is given as moved.                                    *)
LEMMA DeltaOfOne ==
  ASSUME NetInv, NEW i \in DOMAIN counter
  PROVE  /\ Net!Delta(i) \in Nat /\ Net!Delta(i) <= moved[i]
         /\ whole[i] => Net!Delta(i) = moved[i]
<1>1. counter[i] \in Nat /\ i \in Ifaces /\ moved[i] \in Nat
  BY NetFacts
<1>2. CASE i \in DOMAIN prev
  <2>1. prev[i] \in Nat /\ counter[i] <= prev[i] + moved[i]
    BY <1>2, NetFacts DEF NetInv, CountersAreKept
  <2>2. whole[i] => counter[i] = prev[i] + moved[i]
    BY <1>1 DEF NetInv, CountersAreKept
  <2>3. Net!Delta(i) = IF counter[i] > prev[i] THEN counter[i] - prev[i] ELSE 0
    BY <1>2 DEF Net!Delta
  <2>4. counter[i] = prev[i] + moved[i] => Net!Delta(i) = moved[i]
    BY <1>1, <2>1, <2>3
  <2>5. Net!Delta(i) \in Nat /\ Net!Delta(i) <= moved[i]
    BY <1>1, <2>1, <2>3
  <2> QED
    BY <2>2, <2>4, <2>5
<1>3. CASE i \notin DOMAIN prev
  <2>1. Net!Delta(i) = 0
    BY <1>1, <1>3 DEF Net!Delta
  <2>2. ~whole[i]
    BY <1>1, <1>3 DEF NetInv, CountersAreKept
  <2> QED
    BY <1>1, <2>1, <2>2
<1> QED
  BY <1>2, <1>3

(* The cache has aged with the network of each interface.                  *)
LEMMA OlderIsRecent ==
  ASSUME NetInv, NEW elapsed \in 1..WifiAge, NEW ages, NEW unread,
         ages = [i \in Ifaces |-> IF steady[i] = Net!Changed THEN 0
                                  ELSE IF steady[i] + elapsed > WifiAge THEN WifiAge
                                  ELSE steady[i] + elapsed],
         Unread(wifiFaults) \subseteq unread
  PROVE  /\ Net!Older(wifi, elapsed) \in Net!Cached
         /\ \A j \in Ifaces : Recent(Net!Older(wifi, elapsed), joined, ages, unread, j)
<1>0. PICK older : older = Net!Older(wifi, elapsed)
  OBVIOUS
<1>1. /\ older.iface = wifi.iface /\ older.info = wifi.info
      /\ older.age = IF wifi.age + elapsed > WifiAge THEN WifiAge ELSE wifi.age + elapsed
  BY <1>0, NetFacts DEF Net!Older, Net!Cached
<1>2. older \in Net!Cached
  <2>1. older.age \in 0..WifiAge
    BY <1>1, NetFacts, Constants
  <2> QED
    BY <1>0, <1>1, <2>1, NetFacts DEF Net!Older, Net!Cached
<1>3. ASSUME NEW j \in Ifaces, older.iface = j, older.age < WifiAge, older.age <= ages[j]
      PROVE  older.info \in Shown(joined, unread, j)
  <2>1. steady[j] \in Int /\ wifi.age \in Nat /\ elapsed \in Nat /\ 1 <= elapsed /\ WifiAge \in Nat
    BY NetFacts, Constants
  <2>2. ages[j] = IF steady[j] = -1 THEN 0
                  ELSE IF steady[j] + elapsed > WifiAge THEN WifiAge ELSE steady[j] + elapsed
    BY DEF Net!Changed
  <2>3. wifi.age < WifiAge /\ wifi.age <= steady[j]
    BY <1>1, <1>3, <2>1, <2>2
  <2>4. wifi.info \in Shown(joined, Unread(wifiFaults), j)
    BY <1>1, <1>3, <2>3 DEF NetInv, Recent
  <2> QED
    BY <1>1, <2>4 DEF Shown
<1> QED
  BY <1>0, <1>2, <1>3 DEF Recent

LEMMA ListStep ==
  ASSUME NetInv, NEW listed \in SUBSET Net!There, NEW elapsed \in 1..WifiAge,
         NEW failing \in SUBSET Ifaces, Net!ListInterfaces(listed, elapsed, failing)
  PROVE  NetInv' /\ NetMadeUp /\ NetMissed
<1> DEFINE asked(order) == Net!Enrich(order, elapsed, failing)
           unread == Unread(wifiFaults')
<1>1. PICK order \in Net!SetToSeqs(listed) :
        /\ wifi' = asked(order).cache
        /\ answer' = [i \in listed |-> [bytes |-> Net!Delta(i), wireless |-> asked(order).infos[i]]]
  BY DEF Net!ListInterfaces
<1>2. /\ prev' = counter /\ counter' = counter /\ joined' = joined
      /\ moved' = [i \in Ifaces |-> 0] /\ whole' = [i \in Ifaces |-> i \in DOMAIN counter]
      /\ steady' = [i \in Ifaces |-> IF steady[i] = Net!Changed THEN 0
                                     ELSE IF steady[i] + elapsed > WifiAge THEN WifiAge
                                     ELSE steady[i] + elapsed]
      /\ IF failing = {} THEN UNCHANGED wifiFaults
         ELSE wifiFaults < MaxFaults /\ wifiFaults' = wifiFaults + 1
  BY DEF Net!ListInterfaces, Net!There, Net!machine
<1>3. listed \subseteq Ifaces /\ listed \subseteq DOMAIN counter /\ IsFiniteSet(listed)
  <2>1. listed \subseteq Ifaces /\ listed \subseteq DOMAIN counter
    BY NetFacts DEF Net!There
  <2> QED
    BY <2>1, Constants, FS_Subset
<1>4. /\ wifiFaults' \in 0..MaxFaults /\ Unread(wifiFaults) \subseteq unread
      /\ failing # {} => Net!Unknown \in unread
  BY <1>2, NetFacts, Constants DEF Unread
<1>5. /\ Len(order) \in Nat /\ \A n \in 1..Len(order) : order[n] \in listed
      /\ \A i \in listed : \E n \in 1..Len(order) : order[n] = i
  BY <1>3, EachIsAsked
<1> HIDE DEF unread, asked
<1>6. /\ Asked(asked(order), joined, steady', unread)
      /\ \A i \in listed : Good(asked(order).infos[i], joined, steady', unread, i)
  <2>1. PICK run :
          /\ run[0] = [cache |-> Net!Older(wifi, elapsed), infos |-> [i \in Ifaces |-> Net!Unknown]]
          /\ \A n \in 1..Len(order) : run[n] = Net!CachedWifiInfo(run[n - 1], order[n], failing)
          /\ asked(order) = run[Len(order)]
    BY <1>5, EnrichRuns DEF asked
  <2>2. Asked(run[0], joined, steady', unread)
    <3>1. /\ Net!Older(wifi, elapsed) \in Net!Cached
          /\ \A j \in Ifaces : Recent(Net!Older(wifi, elapsed), joined, steady', unread, j)
      BY <1>2, <1>4, OlderIsRecent
    <3>2. [i \in Ifaces |-> Net!Unknown] \in [Ifaces -> Net!Info]
      BY DEF Net!Info
    <3> QED
      BY <2>1, <3>1, <3>2 DEF Asked
  <2>3. ASSUME NEW n \in 1..Len(order)
        PROVE  \E look \in Net!Info :
                 look \in Shown(joined, unread, order[n]) /\ run[n] = Told(run[n - 1], order[n], look)
    <3>0. order[n] \in Ifaces
      BY <1>3, <1>5
    <3>1. Net!LookUp(order[n], failing) \in Net!Info
          /\ Net!LookUp(order[n], failing) \in Shown(joined, unread, order[n])
      BY <1>4, <3>0, NetFacts DEF Net!LookUp, Net!Info, Shown
    <3>2. run[n] = Told(run[n - 1], order[n], Net!LookUp(order[n], failing))
      BY <2>1 DEF Net!CachedWifiInfo, Told
    <3> QED
      BY <3>1, <3>2, Zenon
  <2>4. \A n \in 1..Len(order) : order[n] \in Ifaces
    BY <1>3, <1>5
  <2>5. /\ Asked(run[Len(order)], joined, steady', unread)
        /\ \A n \in 1..Len(order) :
             Good(run[Len(order)].infos[order[n]], joined, steady', unread, order[n])
    BY <1>5, <2>2, <2>3, <2>4, AllAreAsked
  <2> QED
    BY <1>5, <2>1, <2>5
<1>7. /\ wifi' \in Net!Cached /\ \A i \in Ifaces : Recent(wifi', joined', steady', unread, i)
  BY <1>1, <1>2, <1>6 DEF Asked
<1>8. \A i \in listed :
        /\ answer'[i].bytes = Net!Delta(i) /\ answer'[i].wireless = asked(order).infos[i]
        /\ answer'[i].wireless \in Net!Info
        /\ answer'[i] = [bytes |-> answer'[i].bytes, wireless |-> answer'[i].wireless]
  BY <1>1, <1>3, <1>6 DEF Asked
<1>9. DOMAIN answer' = listed
  BY <1>1
<1>10. NetMadeUp /\ NetMissed
  BY <1>3, <1>8, <1>9, DeltaOfOne DEF NetMadeUp, NetMissed
<1>11. Net!WifiIsRecent'
  <2>1. ASSUME NEW i \in listed, steady'[i] = WifiAge
        PROVE  answer'[i].wireless \in Shown(joined', unread, i)
    BY <1>2, <1>6, <1>8, <2>1 DEF Good
  <2> QED
    BY <1>9, <2>1 DEF Net!WifiIsRecent, Shown, Unread, unread
<1>12. Net!TypeOK'
  <2>1. steady' \in [Ifaces -> Net!Changed..WifiAge]
    <3>1. \A i \in Ifaces : steady'[i] \in Net!Changed..WifiAge
      BY <1>2, NetFacts, Constants DEF Net!Changed
    <3> QED
      BY <1>2, <3>1
  <2>2. moved' \in [Ifaces -> 0..MaxBytes]
    BY <1>2, Constants
  <2>3. whole' \in [Ifaces -> BOOLEAN]
    BY <1>2
  <2>4. \A i \in DOMAIN answer' : answer'[i] \in [bytes : Nat, wireless : Net!Info]
    BY <1>3, <1>8, <1>9, DeltaOfOne
  <2>5. DOMAIN counter \subseteq Ifaces /\ joined \in [Ifaces -> Networks]
        /\ \A i \in DOMAIN counter : counter[i] \in 0..MaxBytes
    BY DEF NetInv, Net!TypeOK, Net!There
  <2>6. DOMAIN prev' \subseteq Ifaces /\ DOMAIN answer' \subseteq Ifaces
    BY <1>2, <1>3, <1>9, <2>5
  <2>7. DOMAIN counter' \subseteq Ifaces /\ joined' \in [Ifaces -> Networks]
        /\ \A i \in DOMAIN counter' : counter'[i] \in 0..MaxBytes
    BY <1>2, <2>5
  <2> QED
    BY <1>4, <1>7, <2>1, <2>2, <2>3, <2>4, <2>6, <2>7 DEF Net!TypeOK, Net!There
<1>13. CountersAreKept'
  <2>1. \A i \in DOMAIN prev' : prev'[i] \in 0..MaxBytes /\ counter'[i] = prev'[i]
    BY <1>2, NetFacts, Constants
  <2>2. \A i \in Ifaces : moved'[i] = 0 /\ (whole'[i] => i \in DOMAIN prev' \cap DOMAIN counter')
    BY <1>2
  <2>3. DOMAIN prev' \subseteq Ifaces
    BY <1>2, NetFacts
  <2>4. \A i \in DOMAIN prev' \cap DOMAIN counter' :
          counter'[i] = prev'[i] + moved'[i] /\ counter'[i] <= prev'[i] + moved'[i]
    BY <2>1, <2>2, <2>3, Constants
  <2> QED
    BY <2>1, <2>2, <2>4 DEF CountersAreKept
<1> QED
  BY <1>7, <1>10, <1>11, <1>12, <1>13 DEF NetInv, unread

LEMMA NetStep ==
  NetInv /\ [Net!Next]_(Net!vars) =>
    NetInv' /\ [NetMadeUp]_(Net!vars) /\ [NetMissed]_(Net!vars)
<1> SUFFICES ASSUME NetInv, [Net!Next]_(Net!vars)
             PROVE  NetInv' /\ [NetMadeUp]_(Net!vars) /\ [NetMissed]_(Net!vars)
  OBVIOUS
<1>1. CASE UNCHANGED Net!vars
  <2>1. UNCHANGED <<counter, joined, prev, wifi, answer, moved, whole, steady, wifiFaults>>
    BY <1>1 DEF Net!vars, Net!machine, Net!server, Net!history
  <2>2. NetInv'
    BY <2>1 DEF NetInv, Net!TypeOK, Net!There, CountersAreKept, Net!WifiIsRecent
  <2> QED
    BY <1>1, <2>2
<1>2. ASSUME NEW i \in Ifaces,
             \/ Net!Carry(i) \/ Net!Attach(i) \/ Net!Detach(i)
             \/ \E network \in Networks : Net!Join(i, network)
      PROVE  NetInv' /\ NetMadeUp /\ NetMissed
  <2>1. answer' = Net!NoAnswer
    BY <1>2 DEF Net!Carry, Net!Attach, Net!Detach, Net!Join
  <2> QED
    BY <1>2, <2>1, NotAnswered, NetCarryStep, NetJoinStep, NetAttachStep
<1>3. CASE Net!Next
  BY <1>2, <1>3, ListStep DEF Net!Next
<1> QED
  BY <1>1, <1>3

LEMMA NetInit == Net!Init => NetInv
<1> SUFFICES ASSUME Net!Init PROVE NetInv
  OBVIOUS
<1>1. 0 \in 0..MaxBytes /\ 1 \in 0..MaxBytes /\ 0 \in 0..MaxFaults
      /\ -1 \in -1..WifiAge /\ WifiAge \in 0..WifiAge
  BY Constants
<1>2. Net!TypeOK
  <2>1. wifi \in Net!Cached
    BY <1>1 DEF Net!Init, Net!Cached, Net!Info
  <2>2. steady \in [Ifaces -> Net!Changed..WifiAge]
    BY <1>1 DEF Net!Init, Net!Changed
  <2>3. counter = [i \in Ifaces |-> IF i \in Busy THEN 1 ELSE 0]
    BY DEF Net!Init
  <2> QED
    BY <1>1, <2>1, <2>2, <2>3 DEF Net!Init, Net!TypeOK, Net!There, Net!NoAnswer
<1>3. CountersAreKept
  BY DEF Net!Init, Net!NoAnswer, CountersAreKept
<1>4. \A i \in Ifaces : ~(wifi.age < WifiAge)
  BY Constants DEF Net!Init
<1> QED
  BY <1>2, <1>3, <1>4 DEF NetInv, Recent, Net!WifiIsRecent, Net!Init, Net!NoAnswer

-----------------------------------------------------------------------------
(* ProcessSampler.  The samples of a process are kept from the oldest to   *)
(* the newest; when one is older than the window, so are those before it.  *)
Raw == [age : Nat, cpu : 0..MaxCpu, gpu : 0..MaxGpu]
Aging(s) == \A i, j \in 1..Len(s) : i <= j => s[j].age <= s[i].age

LEMMA RawIs == \A x \in Raw : x.age \in Nat /\ x.cpu \in 0..MaxCpu /\ x.gpu \in 0..MaxGpu
BY DEF Raw

LEMMA SampleIs ==
  /\ \A x \in Processes!Samples :
       /\ x \in Raw /\ x.age \in 0..Window
       /\ \A e \in Nat : [x EXCEPT !.age = @ + e] =
                           [age |-> x.age + e, cpu |-> x.cpu, gpu |-> x.gpu]
  /\ \A age \in Nat, cpu \in 0..MaxCpu, gpu \in 0..MaxGpu :
       [age |-> age, cpu |-> cpu, gpu |-> gpu] \in Raw
BY Constants DEF Processes!Samples, Raw

LEMMA PoppedIs ==
  ASSUME NEW s \in Seq(Raw), Len(s) >= 1, s[Len(s)].age = 0, Aging(s),
         NEW next, next = Processes!Popped(s)
  PROVE  /\ next \in Seq(Processes!Samples) /\ Len(next) >= 1 /\ next[Len(next)] = s[Len(s)]
         /\ Aging(next) /\ \A i \in 1..Len(next) : \E j \in 1..Len(s) : next[i] = s[j]
<1> DEFINE Within == {i \in DOMAIN s : s[i].age <= Window}
           L == Len(s)
<1>1. L \in Nat /\ DOMAIN s = 1..L /\ \A i \in 1..L : s[i] \in Raw /\ s[i].age \in Nat
  BY RawIs
<1>2. Within \subseteq Nat /\ L \in Within
  BY <1>1, Constants
<1> DEFINE k == Processes!Min(Within)
<1>3. k \in Within /\ \A y \in Within : k <= y
  <2>1. \E x \in Within : \A y \in Within : x <= y
    BY <1>2, LeastOf
  <2> HIDE DEF Within
  <2> QED
    BY <2>1 DEF Processes!Min
<1>4. next = SubSeq(s, k, L)
  BY DEF Processes!Popped
<1> HIDE DEF k
<1>5. k \in 1..L /\ s[k].age <= Window
  BY <1>1, <1>3
<1>6. /\ Len(next) = L - k + 1 /\ DOMAIN next = 1..Len(next)
      /\ \A i \in 1..Len(next) : next[i] = s[k + i - 1] /\ k + i - 1 \in 1..L /\ k <= k + i - 1
  <2>1. SubSeq(s, k, L) = [i \in 1..L - k + 1 |-> s[i + k - 1]]
    BY <1>1, <1>5
  <2> DEFINE m == L - k + 1
  <2>2. m \in Nat /\ \A i \in 1..m : i + k - 1 = k + i - 1 /\ k + i - 1 \in 1..L /\ k <= k + i - 1
    BY <1>1, <1>5
  <2> HIDE DEF m
  <2>3. Len(next) = m
    BY <1>4, <2>1, <2>2 DEF m
  <2> QED
    BY <1>4, <2>1, <2>2, <2>3 DEF m
<1>7. \A i \in 1..Len(next) : next[i] \in Processes!Samples
  <2> TAKE i \in 1..Len(next)
  <2>1. PICK j \in 1..L : j = k + i - 1 /\ k <= j /\ next[i] = s[j]
    BY <1>6
  <2>2. s[j].age <= s[k].age
    BY <1>5, <2>1 DEF Aging
  <2>3. s[j].age \in 0..Window
    BY <1>1, <1>5, <2>2, Constants
  <2> QED
    BY <1>1, <2>1, <2>3 DEF Raw, Processes!Samples
<1>8. next \in Seq(Processes!Samples)
  <2>1. next = [i \in 1..Len(next) |-> next[i]] /\ Len(next) \in Nat
    BY <1>1, <1>4, <1>5, <1>6
  <2> QED
    BY <1>7, <2>1
<1>9. Aging(next)
  <2> SUFFICES ASSUME NEW i \in 1..Len(next), NEW j \in 1..Len(next), i <= j
               PROVE  next[j].age <= next[i].age
    BY DEF Aging
  <2>1. k + i - 1 <= k + j - 1
    BY <1>1, <1>5, <1>6
  <2> QED
    BY <1>6, <2>1 DEF Aging
<1>10. Len(next) >= 1 /\ next[Len(next)] = s[L]
  <2>1. L - k + 1 >= 1 /\ k + (L - k + 1) - 1 = L /\ L - k + 1 \in 1..(L - k + 1)
    BY <1>1, <1>5
  <2> QED
    BY <1>6, <2>1
<1> QED
  BY <1>6, <1>8, <1>9, <1>10

(* A sample is added to what was kept of a process.                        *)
LEMMA OneMoreSample ==
  ASSUME NEW old \in Seq(Processes!Samples), Aging(old), NEW elapsed \in 1..Window + 1,
         NEW new \in Processes!Samples, new.age = 0,
         NEW next, next = Processes!Popped(Append(Processes!Older(old, elapsed), new))
  PROVE  /\ next \in Seq(Processes!Samples) /\ Aging(next) /\ Processes!Last(next) = new
         /\ \A i \in 1..Len(next) :
              \/ next[i] = new
              \/ \E j \in 1..Len(old) :
                   /\ next[i].age = old[j].age + elapsed
                   /\ next[i].cpu = old[j].cpu /\ next[i].gpu = old[j].gpu
<1> DEFINE L == Len(old)
           older == Processes!Older(old, elapsed)
<1>1. L \in Nat /\ DOMAIN old = 1..L /\ \A i \in 1..L : old[i] \in Processes!Samples
  OBVIOUS
<1>2. \A i \in 1..L : /\ old[i].age \in Nat /\ old[i].cpu \in 0..MaxCpu /\ old[i].gpu \in 0..MaxGpu
                      /\ [old[i] EXCEPT !.age = @ + elapsed] =
                           [age |-> old[i].age + elapsed, cpu |-> old[i].cpu, gpu |-> old[i].gpu]
  <2> TAKE i \in 1..L
  <2>1. old[i] \in Processes!Samples /\ elapsed \in Nat
    BY <1>1, Constants
  <2> QED
    BY <2>1, SampleIs, RawIs
<1>3. older = [i \in 1..L |-> [age |-> old[i].age + elapsed, cpu |-> old[i].cpu, gpu |-> old[i].gpu]]
  BY <1>1, <1>2 DEF Processes!Older
<1>4. older \in Seq(Raw) /\ Len(older) = L /\ new \in Raw
  <2>1. \A i \in 1..L : [age |-> old[i].age + elapsed, cpu |-> old[i].cpu, gpu |-> old[i].gpu] \in Raw
    <3> TAKE i \in 1..L
    <3>0. old[i].age \in Nat /\ elapsed \in Nat /\ old[i].cpu \in 0..MaxCpu /\ old[i].gpu \in 0..MaxGpu
      BY <1>1, SampleIs, RawIs, Constants
    <3>1. old[i].age + elapsed \in Nat
      BY <3>0
    <3> QED
      BY <3>0, <3>1, SampleIs
  <2>2. older \in [1..L -> Raw]
    BY <1>3, <2>1
  <2> HIDE DEF older
  <2> QED
    BY <1>1, <2>2, SampleIs
<1>5. \A i \in 1..L : /\ older[i].age = old[i].age + elapsed
                      /\ older[i].cpu = old[i].cpu /\ older[i].gpu = old[i].gpu
  BY <1>3
<1> HIDE DEF older
<1> DEFINE s == Append(older, new)
<1>6. /\ s \in Seq(Raw) /\ Len(s) = L + 1 /\ s[L + 1] = new
      /\ \A i \in 1..L : s[i] = older[i]
  BY <1>1, <1>4
<1>7. next = Processes!Popped(s)
  BY DEF older
<1> HIDE DEF s
<1>8. Aging(s)
  <2> SUFFICES ASSUME NEW i \in 1..L + 1, NEW j \in 1..L + 1, i <= j
               PROVE  s[j].age <= s[i].age
    BY <1>6 DEF Aging
  <2>1. CASE j = L + 1
    <3>1. s[i].age \in Nat
      BY <1>6, RawIs
    <3> QED
      BY <1>6, <2>1, <3>1
  <2>2. CASE j # L + 1
    <3>1. i \in 1..L /\ j \in 1..L
      BY <1>1, <2>2
    <3>2. old[j].age <= old[i].age /\ old[i].age \in Nat /\ old[j].age \in Nat
      BY <1>2, <3>1 DEF Aging
    <3>3. s[i].age = old[i].age + elapsed /\ s[j].age = old[j].age + elapsed
      BY <1>5, <1>6, <3>1
    <3> QED
      BY <3>2, <3>3
  <2> QED
    BY <2>1, <2>2
<1>9. Len(s) >= 1 /\ s[Len(s)].age = 0 /\ s[Len(s)] = new
  BY <1>1, <1>6
<1>10. /\ next \in Seq(Processes!Samples) /\ Len(next) >= 1 /\ next[Len(next)] = new
       /\ Aging(next) /\ \A i \in 1..Len(next) : \E j \in 1..Len(s) : next[i] = s[j]
  BY <1>6, <1>7, <1>8, <1>9, PoppedIs
<1>11. Processes!Last(next) = new
  BY <1>10 DEF Processes!Last
<1>12. ASSUME NEW i \in 1..Len(next), next[i] # new
       PROVE  \E j \in 1..L : /\ next[i].age = old[j].age + elapsed
                              /\ next[i].cpu = old[j].cpu /\ next[i].gpu = old[j].gpu
  <2>1. PICK j \in 1..Len(s) : next[i] = s[j]
    BY <1>10
  <2>2. j \in 1..L
    BY <1>1, <1>6, <1>12, <2>1
  <2> QED
    BY <1>5, <1>6, <2>1, <2>2
<1> QED
  BY <1>10, <1>11, <1>12

-----------------------------------------------------------------------------
(* The time of a process is what it had at the last sample and its work    *)
(* since; a sample that shows work is no younger than that work.           *)
Done == [cpu : Nat, gpu : Nat, whole : BOOLEAN]
Before(times, p) == IF p \in DOMAIN times THEN times[p] ELSE 0
Active(s, incomplete) == s.cpu > 0 \/ (~incomplete /\ s.gpu > 0)

CpuIsKept ==
  /\ \A p \in DOMAIN prevCpu : prevCpu[p] \in 0..MaxCpu
  /\ \A p \in DOMAIN prevCpu \cap DOMAIN cpuTime : cpuTime[p] <= prevCpu[p] + done[p].cpu
  /\ \A p \in Pids : done[p].whole =>
       /\ sampled /\ p \in DOMAIN prevCpu \cap DOMAIN cpuTime
       /\ cpuTime[p] = prevCpu[p] + done[p].cpu

GpuIsKept ==
  /\ \A p \in DOMAIN prevGpu : prevGpu[p] \in 0..MaxGpu
  /\ ~blind /\ sampled => \A p \in DOMAIN gpuTime : gpuTime[p] <= Before(prevGpu, p) + done[p].gpu

SamplesAreKept ==
  /\ DOMAIN kept \subseteq Pids
  /\ \A p \in DOMAIN kept :
       /\ kept[p] \in Seq(Processes!Samples) /\ Aging(kept[p])
       /\ \A i \in 1..Len(kept[p]) : Active(kept[p][i], blind) => calm[p] <= kept[p][i].age

ProcInv == Processes!TypeOK /\ CpuIsKept /\ GpuIsKept /\ SamplesAreKept

ProcMadeUp ==
  answered' => \A p \in DOMAIN kept' :
    /\ Processes!Last(kept'[p]).cpu <= done[p].cpu
    /\ ~blind' => Processes!Last(kept'[p]).gpu <= done[p].gpu
ProcMissed ==
  answered' => \A p \in DOMAIN kept' :
    done[p].whole => Processes!Last(kept'[p]).cpu = done[p].cpu

LEMMA DoneIs ==
  /\ \A d \in Done : d.cpu \in Nat /\ d.gpu \in Nat /\ d.whole \in BOOLEAN
  /\ Processes!Idle \in Done /\ ~Processes!Idle.whole
  /\ \A d \in Done : /\ [d EXCEPT !.cpu = @ + 1] \in Done
                     /\ [d EXCEPT !.cpu = @ + 1].cpu = d.cpu + 1
                     /\ [d EXCEPT !.cpu = @ + 1].gpu = d.gpu
                     /\ [d EXCEPT !.cpu = @ + 1].whole = d.whole
  /\ \A d \in Done : /\ [d EXCEPT !.gpu = @ + 1] \in Done
                     /\ [d EXCEPT !.gpu = @ + 1].cpu = d.cpu
                     /\ [d EXCEPT !.gpu = @ + 1].gpu = d.gpu + 1
                     /\ [d EXCEPT !.gpu = @ + 1].whole = d.whole
BY DEF Done, Processes!Idle

LEMMA ProcFacts ==
  ASSUME Processes!TypeOK
  PROVE  /\ DOMAIN cpuTime \subseteq Pids /\ DOMAIN gpuTime \subseteq DOMAIN cpuTime
         /\ \A p \in DOMAIN cpuTime : cpuTime[p] \in Nat /\ cpuTime[p] <= MaxCpu
         /\ \A p \in DOMAIN gpuTime : gpuTime[p] \in Nat /\ gpuTime[p] <= MaxGpu
         /\ DOMAIN prevCpu \subseteq Pids /\ DOMAIN prevGpu \subseteq Pids
         /\ done \in [Pids -> Done] /\ \A p \in Pids : done[p] \in Done
         /\ \A p \in Pids : done[p].cpu \in Nat /\ done[p].gpu \in Nat
         /\ calm \in [Pids -> 0..Window + 1]
<1>1. /\ DOMAIN cpuTime \subseteq Pids /\ DOMAIN gpuTime \subseteq DOMAIN cpuTime
      /\ \A p \in DOMAIN cpuTime : cpuTime[p] \in 0..MaxCpu
      /\ \A p \in DOMAIN gpuTime : gpuTime[p] \in 0..MaxGpu
      /\ DOMAIN prevCpu \subseteq Pids /\ DOMAIN prevGpu \subseteq Pids
      /\ done \in [Pids -> Done] /\ calm \in [Pids -> 0..Window + 1]
  BY DEF Processes!TypeOK, Processes!Live, Done
<1>2. \A p \in Pids : done[p] \in Done
  BY <1>1
<1> QED
  BY <1>1, <1>2, DoneIs, Constants

(* What the machine does between two samples: a time that grows does so by *)
(* the work that is done.                                                  *)
MachineMoves ==
  /\ UNCHANGED <<prevCpu, prevGpu, sampled, kept, calm, blind, faults>> /\ answered' = FALSE
  /\ DOMAIN cpuTime' \subseteq Pids /\ DOMAIN gpuTime' \subseteq DOMAIN cpuTime'
  /\ \A q \in DOMAIN cpuTime' : cpuTime'[q] \in 0..MaxCpu
  /\ \A q \in DOMAIN gpuTime' : gpuTime'[q] \in 0..MaxGpu
  /\ done' \in [Pids -> Done]
  /\ \A q \in DOMAIN cpuTime' :
       \/ cpuTime'[q] = 0 /\ ~done'[q].whole
       \/ /\ q \in DOMAIN cpuTime
          /\ \E n \in Nat : cpuTime'[q] = cpuTime[q] + n /\ done'[q].cpu = done[q].cpu + n
  /\ \A q \in Pids : done'[q].whole => done[q].whole /\ q \in DOMAIN cpuTime'
  /\ \A q \in DOMAIN gpuTime' :
       \E n \in Nat : gpuTime'[q] = Before(gpuTime, q) + n /\ done'[q].gpu = done[q].gpu + n

LEMMA MachineStep == ASSUME ProcInv, MachineMoves PROVE ProcInv'
<1>1. Processes!TypeOK'
  BY DEF ProcInv, MachineMoves, Processes!TypeOK, Processes!Live, Done
<1>2. UNCHANGED <<prevCpu, prevGpu, sampled, kept, calm, blind>>
  BY DEF MachineMoves
<1>3. /\ \A q \in Pids : done[q].cpu \in Nat /\ done[q].gpu \in Nat
      /\ \A q \in Pids : done'[q].cpu \in Nat /\ done'[q].gpu \in Nat
      /\ DOMAIN cpuTime' \subseteq Pids /\ DOMAIN gpuTime' \subseteq Pids
      /\ \A q \in DOMAIN prevCpu : prevCpu[q] \in Nat
      /\ \A q \in DOMAIN prevGpu : prevGpu[q] \in Nat
      /\ \A q \in DOMAIN cpuTime : cpuTime[q] \in Nat
      /\ \A q \in DOMAIN gpuTime : gpuTime[q] \in Nat
  <2>1. \A q \in Pids : done'[q] \in Done
    BY DEF MachineMoves
  <2>2. /\ \A q \in DOMAIN prevCpu : prevCpu[q] \in Nat
        /\ \A q \in DOMAIN prevGpu : prevGpu[q] \in Nat
    BY Constants DEF ProcInv, CpuIsKept, GpuIsKept
  <2>3. DOMAIN cpuTime' \subseteq Pids /\ DOMAIN gpuTime' \subseteq Pids
    BY DEF MachineMoves
  <2> QED
    BY <2>1, <2>2, <2>3, ProcFacts, DoneIs DEF ProcInv
<1>4. CpuIsKept'
  <2>1. ASSUME NEW q \in DOMAIN prevCpu \cap DOMAIN cpuTime'
        PROVE  /\ cpuTime'[q] <= prevCpu[q] + done'[q].cpu
               /\ done'[q].whole => cpuTime'[q] = prevCpu[q] + done'[q].cpu
    <3>1. prevCpu[q] \in Nat /\ q \in Pids /\ done'[q].cpu \in Nat /\ done[q].cpu \in Nat
      BY <1>3
    <3>2. CASE cpuTime'[q] = 0 /\ ~done'[q].whole
      <4>1. 0 <= prevCpu[q] + done'[q].cpu
        BY <3>1
      <4> QED
        BY <3>2, <4>1
    <3>3. CASE q \in DOMAIN cpuTime
               /\ \E n \in Nat : cpuTime'[q] = cpuTime[q] + n /\ done'[q].cpu = done[q].cpu + n
      <4>1. PICK n \in Nat : cpuTime'[q] = cpuTime[q] + n /\ done'[q].cpu = done[q].cpu + n
        BY <3>3
      <4>2. cpuTime[q] \in Nat /\ cpuTime[q] <= prevCpu[q] + done[q].cpu
        BY <1>3, <3>3 DEF ProcInv, CpuIsKept
      <4>3. done'[q].whole => cpuTime[q] = prevCpu[q] + done[q].cpu
        BY <3>1 DEF ProcInv, CpuIsKept, MachineMoves
      <4>4. cpuTime'[q] <= prevCpu[q] + done'[q].cpu
            /\ (cpuTime[q] = prevCpu[q] + done[q].cpu => cpuTime'[q] = prevCpu[q] + done'[q].cpu)
        BY <3>1, <4>1, <4>2
      <4> QED
        BY <4>3, <4>4
    <3> QED
      BY <3>2, <3>3 DEF MachineMoves
  <2>2. ASSUME NEW q \in Pids, done'[q].whole
        PROVE  sampled /\ q \in DOMAIN prevCpu \cap DOMAIN cpuTime'
    BY <2>2 DEF ProcInv, CpuIsKept, MachineMoves
  <2>3. \A q \in DOMAIN prevCpu : prevCpu[q] \in 0..MaxCpu
    BY DEF ProcInv, CpuIsKept
  <2> QED
    BY <1>2, <2>1, <2>2, <2>3 DEF CpuIsKept
<1>5. GpuIsKept'
  <2>1. ASSUME ~blind, sampled, NEW q \in DOMAIN gpuTime'
        PROVE  gpuTime'[q] <= Before(prevGpu, q) + done'[q].gpu
    <3>1. PICK n \in Nat : gpuTime'[q] = Before(gpuTime, q) + n /\ done'[q].gpu = done[q].gpu + n
      BY DEF MachineMoves
    <3>2. Before(prevGpu, q) \in Nat /\ Before(gpuTime, q) \in Nat /\ done[q].gpu \in Nat
      BY <1>3 DEF Before
    <3>3. Before(gpuTime, q) <= Before(prevGpu, q) + done[q].gpu
      <4>1. CASE q \in DOMAIN gpuTime
        BY <2>1, <4>1 DEF ProcInv, GpuIsKept, Before
      <4>2. CASE q \notin DOMAIN gpuTime
        BY <3>2, <4>2 DEF Before
      <4> QED
        BY <4>1, <4>2
    <3> QED
      BY <3>1, <3>2, <3>3
  <2> QED
    BY <1>2, <2>1 DEF ProcInv, GpuIsKept
<1>6. SamplesAreKept'
  BY <1>2 DEF ProcInv, SamplesAreKept
<1> QED
  BY <1>1, <1>4, <1>5, <1>6 DEF ProcInv

(* The steps of the machine are such moves.                                *)
LEMMA OthersAreLeft ==
  ASSUME ProcInv, NEW p \in Pids, NEW new \in Done, done' = [done EXCEPT ![p] = new]
  PROVE  /\ done' \in [Pids -> Done] /\ done'[p] = new /\ done[p] \in Done
         /\ \A q \in Pids \ {p} : done'[q] = done[q]
         /\ \A q \in Pids : /\ done[q].cpu \in Nat /\ done[q].cpu = done[q].cpu + 0
                            /\ done[q].gpu \in Nat /\ done[q].gpu = done[q].gpu + 0
<1>1. done \in [Pids -> Done] /\ \A q \in Pids : done[q].cpu \in Nat /\ done[q].gpu \in Nat
  BY ProcFacts DEF ProcInv
<1> QED
  BY <1>1

LEMMA TimesAre ==
  ASSUME ProcInv
  PROVE  /\ DOMAIN cpuTime \subseteq Pids /\ DOMAIN gpuTime \subseteq DOMAIN cpuTime
         /\ \A q \in DOMAIN cpuTime : cpuTime[q] \in 0..MaxCpu /\ cpuTime[q] = cpuTime[q] + 0
         /\ \A q \in DOMAIN gpuTime : gpuTime[q] \in 0..MaxGpu /\ gpuTime[q] = Before(gpuTime, q) + 0
BY ProcFacts, Constants DEF ProcInv, Processes!TypeOK, Processes!Live, Before

LEMMA StartMoves == ASSUME ProcInv, NEW p \in Pids, Processes!Start(p) PROVE MachineMoves
<1>1. /\ p \notin DOMAIN cpuTime
      /\ cpuTime' = [q \in DOMAIN cpuTime \cup {p} |-> IF q = p THEN 0 ELSE cpuTime[q]]
      /\ done' = [done EXCEPT ![p] = Processes!Idle]
      /\ UNCHANGED <<gpuTime, prevCpu, prevGpu, sampled, kept, calm, blind, faults>> /\ answered' = FALSE
  BY DEF Processes!Start, Processes!Live, Processes!With, Processes!sampler
<1>2. /\ done' \in [Pids -> Done] /\ ~done'[p].whole /\ \A q \in Pids \ {p} : done'[q] = done[q]
      /\ \A q \in Pids : done[q].cpu = done[q].cpu + 0 /\ done[q].gpu = done[q].gpu + 0
  BY <1>1, DoneIs, OthersAreLeft
<1>3. /\ DOMAIN cpuTime' = DOMAIN cpuTime \cup {p} /\ cpuTime'[p] = 0
      /\ \A q \in DOMAIN cpuTime : q # p /\ cpuTime'[q] = cpuTime[q]
  BY <1>1
<1>4. \A q \in Pids : done'[q].whole => done[q].whole /\ q \in DOMAIN cpuTime'
  BY <1>2, <1>3 DEF ProcInv, CpuIsKept
<1>5. \A q \in DOMAIN cpuTime' :
        \/ cpuTime'[q] = 0 /\ ~done'[q].whole
        \/ /\ q \in DOMAIN cpuTime
           /\ \E n \in Nat : cpuTime'[q] = cpuTime[q] + n /\ done'[q].cpu = done[q].cpu + n
  BY <1>2, <1>3, TimesAre
<1>6. \A q \in DOMAIN gpuTime' :
        \E n \in Nat : gpuTime'[q] = Before(gpuTime, q) + n /\ done'[q].gpu = done[q].gpu + n
  BY <1>1, <1>2, <1>3, TimesAre
<1>7. /\ DOMAIN cpuTime' \subseteq Pids /\ DOMAIN gpuTime' \subseteq DOMAIN cpuTime'
      /\ \A q \in DOMAIN cpuTime' : cpuTime'[q] \in 0..MaxCpu
      /\ \A q \in DOMAIN gpuTime' : gpuTime'[q] \in 0..MaxGpu
  BY <1>1, <1>3, TimesAre, Constants
<1> QED
  BY <1>1, <1>2, <1>4, <1>5, <1>6, <1>7 DEF MachineMoves

LEMMA ComputeMoves == ASSUME ProcInv, NEW p \in Pids, Processes!Compute(p) PROVE MachineMoves
<1>1. /\ p \in DOMAIN cpuTime /\ cpuTime[p] < MaxCpu
      /\ cpuTime' = [cpuTime EXCEPT ![p] = @ + 1]
      /\ done' = [done EXCEPT ![p] = [done[p] EXCEPT !.cpu = @ + 1]]
      /\ UNCHANGED <<gpuTime, prevCpu, prevGpu, sampled, kept, calm, blind, faults>> /\ answered' = FALSE
  BY DEF Processes!Compute, Processes!Live, Processes!sampler
<1> DEFINE new == [done[p] EXCEPT !.cpu = @ + 1]
<1>2. /\ new \in Done /\ new.cpu = done[p].cpu + 1 /\ new.gpu = done[p].gpu /\ new.whole = done[p].whole
  BY ProcFacts, DoneIs DEF ProcInv
<1>3. done' = [done EXCEPT ![p] = new]
  BY <1>1
<1> HIDE DEF new
<1>4. /\ done' \in [Pids -> Done] /\ \A q \in Pids \ {p} : done'[q] = done[q]
      /\ done'[p].cpu = done[p].cpu + 1 /\ done'[p].gpu = done[p].gpu /\ done'[p].whole = done[p].whole
      /\ \A q \in Pids : done[q].cpu = done[q].cpu + 0 /\ done[q].gpu = done[q].gpu + 0
  BY <1>2, <1>3, OthersAreLeft
<1>5. /\ DOMAIN cpuTime' = DOMAIN cpuTime /\ cpuTime'[p] = cpuTime[p] + 1
      /\ \A q \in DOMAIN cpuTime \ {p} : cpuTime'[q] = cpuTime[q]
  BY <1>1
<1>6. \A q \in Pids : done'[q].whole => done[q].whole /\ q \in DOMAIN cpuTime'
  BY <1>4, <1>5 DEF ProcInv, CpuIsKept
<1>7. ASSUME NEW q \in DOMAIN cpuTime
      PROVE  \E n \in Nat : cpuTime'[q] = cpuTime[q] + n /\ done'[q].cpu = done[q].cpu + n
  <2>1. CASE q = p
    BY <1>4, <1>5, <2>1
  <2>2. CASE q # p
    BY <1>4, <1>5, <2>2, TimesAre
  <2> QED
    BY <2>1, <2>2
<1>8. \A q \in Pids : done'[q].gpu = done[q].gpu + 0
  BY <1>4
<1>9. \A q \in DOMAIN gpuTime' :
        \E n \in Nat : gpuTime'[q] = Before(gpuTime, q) + n /\ done'[q].gpu = done[q].gpu + n
  BY <1>1, <1>8, TimesAre
<1>10. /\ DOMAIN cpuTime' \subseteq Pids /\ DOMAIN gpuTime' \subseteq DOMAIN cpuTime'
       /\ \A q \in DOMAIN cpuTime' : cpuTime'[q] \in 0..MaxCpu
       /\ \A q \in DOMAIN gpuTime' : gpuTime'[q] \in 0..MaxGpu
  BY <1>1, <1>5, TimesAre, Constants
<1> QED
  BY <1>1, <1>4, <1>5, <1>6, <1>7, <1>9, <1>10 DEF MachineMoves

LEMMA RenderMoves == ASSUME ProcInv, NEW p \in Pids, Processes!Render(p) PROVE MachineMoves
<1>1. /\ p \in DOMAIN cpuTime /\ Before(gpuTime, p) < MaxGpu
      /\ gpuTime' = [q \in DOMAIN gpuTime \cup {p} |->
                       IF q = p THEN Before(gpuTime, p) + 1 ELSE gpuTime[q]]
      /\ done' = [done EXCEPT ![p] = [done[p] EXCEPT !.gpu = @ + 1]]
      /\ UNCHANGED <<cpuTime, prevCpu, prevGpu, sampled, kept, calm, blind, faults>> /\ answered' = FALSE
  BY DEF Processes!Render, Processes!Live, Processes!With, Processes!sampler, Before
<1> DEFINE new == [done[p] EXCEPT !.gpu = @ + 1]
<1>2. /\ new \in Done /\ new.gpu = done[p].gpu + 1 /\ new.cpu = done[p].cpu /\ new.whole = done[p].whole
  BY ProcFacts, DoneIs DEF ProcInv
<1>3. done' = [done EXCEPT ![p] = new]
  BY <1>1
<1> HIDE DEF new
<1>4. /\ done' \in [Pids -> Done] /\ \A q \in Pids \ {p} : done'[q] = done[q]
      /\ done'[p].gpu = done[p].gpu + 1 /\ done'[p].cpu = done[p].cpu /\ done'[p].whole = done[p].whole
      /\ \A q \in Pids : done[q].cpu = done[q].cpu + 0 /\ done[q].gpu = done[q].gpu + 0
  BY <1>2, <1>3, OthersAreLeft
<1>5. /\ DOMAIN gpuTime' = DOMAIN gpuTime \cup {p} /\ gpuTime'[p] = Before(gpuTime, p) + 1
      /\ \A q \in DOMAIN gpuTime \ {p} : gpuTime'[q] = gpuTime[q]
  BY <1>1
<1>6. \A q \in Pids : done'[q].whole => done[q].whole /\ q \in DOMAIN cpuTime'
  BY <1>1, <1>4 DEF ProcInv, CpuIsKept
<1>7. \A q \in Pids : done'[q].cpu = done[q].cpu + 0
  BY <1>4
<1>8. \A q \in DOMAIN cpuTime :
        \E n \in Nat : cpuTime'[q] = cpuTime[q] + n /\ done'[q].cpu = done[q].cpu + n
  BY <1>1, <1>7, TimesAre
<1>9. ASSUME NEW q \in DOMAIN gpuTime'
      PROVE  \E n \in Nat : gpuTime'[q] = Before(gpuTime, q) + n /\ done'[q].gpu = done[q].gpu + n
  <2>1. CASE q = p
    BY <1>4, <1>5, <2>1
  <2>2. CASE q # p
    BY <1>4, <1>5, <2>2, TimesAre
  <2> QED
    BY <2>1, <2>2
<1>10. Before(gpuTime, p) \in Nat
  BY TimesAre, Constants DEF Before
<1>11. /\ DOMAIN cpuTime' \subseteq Pids /\ DOMAIN gpuTime' \subseteq DOMAIN cpuTime'
       /\ \A q \in DOMAIN cpuTime' : cpuTime'[q] \in 0..MaxCpu
       /\ \A q \in DOMAIN gpuTime' : gpuTime'[q] \in 0..MaxGpu
  BY <1>1, <1>5, <1>10, TimesAre, Constants
<1> QED
  BY <1>1, <1>4, <1>6, <1>8, <1>9, <1>11 DEF MachineMoves

LEMMA CloseMoves == ASSUME ProcInv, NEW p \in Pids, Processes!CloseGpu(p) PROVE MachineMoves
<1>1. /\ DOMAIN gpuTime' \subseteq DOMAIN gpuTime /\ \A q \in DOMAIN gpuTime' : gpuTime'[q] = gpuTime[q]
      /\ UNCHANGED <<cpuTime, prevCpu, prevGpu, sampled, kept, calm, done, blind, faults>>
      /\ answered' = FALSE
  BY DEF Processes!CloseGpu, Processes!Without, Processes!sampler
<1>2. /\ done \in [Pids -> Done]
      /\ \A q \in Pids : done'[q].cpu = done[q].cpu + 0 /\ done'[q].gpu = done[q].gpu + 0
  BY <1>1, ProcFacts DEF ProcInv
<1>3. \A q \in Pids : done'[q].whole => done[q].whole /\ q \in DOMAIN cpuTime'
  BY <1>1 DEF ProcInv, CpuIsKept
<1>4. \A q \in DOMAIN cpuTime :
        \E n \in Nat : cpuTime'[q] = cpuTime[q] + n /\ done'[q].cpu = done[q].cpu + n
  BY <1>1, <1>2, TimesAre
<1>5. \A q \in DOMAIN gpuTime' :
        \E n \in Nat : gpuTime'[q] = Before(gpuTime, q) + n /\ done'[q].gpu = done[q].gpu + n
  BY <1>1, <1>2, TimesAre
<1>6. /\ DOMAIN cpuTime' \subseteq Pids /\ DOMAIN gpuTime' \subseteq DOMAIN cpuTime'
      /\ \A q \in DOMAIN cpuTime' : cpuTime'[q] \in 0..MaxCpu
      /\ \A q \in DOMAIN gpuTime' : gpuTime'[q] \in 0..MaxGpu
  BY <1>1, TimesAre
<1> QED
  BY <1>1, <1>2, <1>3, <1>4, <1>5, <1>6 DEF MachineMoves

LEMMA ExitMoves == ASSUME ProcInv, NEW p \in Pids, Processes!Exit(p) PROVE MachineMoves
<1>1. /\ DOMAIN cpuTime' = DOMAIN cpuTime \ {p} /\ \A q \in DOMAIN cpuTime' : cpuTime'[q] = cpuTime[q]
      /\ DOMAIN gpuTime' = DOMAIN gpuTime \ {p} /\ \A q \in DOMAIN gpuTime' : gpuTime'[q] = gpuTime[q]
      /\ done' = [done EXCEPT ![p] = Processes!Idle]
      /\ UNCHANGED <<prevCpu, prevGpu, sampled, kept, calm, blind, faults>> /\ answered' = FALSE
  BY DEF Processes!Exit, Processes!Without, Processes!sampler
<1>2. /\ done' \in [Pids -> Done] /\ ~done'[p].whole /\ \A q \in Pids \ {p} : done'[q] = done[q]
      /\ \A q \in Pids : done[q].cpu = done[q].cpu + 0 /\ done[q].gpu = done[q].gpu + 0
  BY <1>1, DoneIs, OthersAreLeft
<1>3. \A q \in Pids : done'[q].whole => done[q].whole /\ q \in DOMAIN cpuTime'
  BY <1>1, <1>2 DEF ProcInv, CpuIsKept
<1>4. \A q \in DOMAIN cpuTime' :
        /\ q \in DOMAIN cpuTime
        /\ \E n \in Nat : cpuTime'[q] = cpuTime[q] + n /\ done'[q].cpu = done[q].cpu + n
  BY <1>1, <1>2, TimesAre
<1>5. \A q \in DOMAIN gpuTime' :
        \E n \in Nat : gpuTime'[q] = Before(gpuTime, q) + n /\ done'[q].gpu = done[q].gpu + n
  BY <1>1, <1>2, TimesAre
<1>6. /\ DOMAIN cpuTime' \subseteq Pids /\ DOMAIN gpuTime' \subseteq DOMAIN cpuTime'
      /\ \A q \in DOMAIN cpuTime' : cpuTime'[q] \in 0..MaxCpu
      /\ \A q \in DOMAIN gpuTime' : gpuTime'[q] \in 0..MaxGpu
  BY <1>1, TimesAre
<1> QED
  BY <1>1, <1>2, <1>3, <1>4, <1>5, <1>6 DEF MachineMoves

(* What a sample gives a process.                                          *)
LEMMA CpuDeltaIs ==
  ASSUME ProcInv, NEW rows, NEW p \in DOMAIN cpuTime, rows[p] = cpuTime[p]
  PROVE  /\ Processes!CpuDelta(rows, p) \in 0..MaxCpu /\ Processes!CpuDelta(rows, p) <= done[p].cpu
         /\ done[p].whole => Processes!CpuDelta(rows, p) = done[p].cpu
<1>1. cpuTime[p] \in Nat /\ cpuTime[p] <= MaxCpu /\ p \in Pids /\ done[p].cpu \in Nat
  BY ProcFacts DEF ProcInv
<1>2. CASE sampled /\ p \in DOMAIN prevCpu
  <2>1. prevCpu[p] \in Nat /\ cpuTime[p] <= prevCpu[p] + done[p].cpu
    BY <1>2, Constants DEF ProcInv, CpuIsKept
  <2>2. done[p].whole => cpuTime[p] = prevCpu[p] + done[p].cpu
    BY <1>1 DEF ProcInv, CpuIsKept
  <2>3. Processes!CpuDelta(rows, p) = IF cpuTime[p] >= prevCpu[p] THEN cpuTime[p] - prevCpu[p] ELSE 0
    <3>1. CASE cpuTime[p] >= prevCpu[p]
      BY <1>2, <3>1 DEF Processes!CpuDelta
    <3>2. CASE ~(cpuTime[p] >= prevCpu[p])
      BY <1>2, <3>2 DEF Processes!CpuDelta
    <3> QED
      BY <3>1, <3>2
  <2>4. /\ Processes!CpuDelta(rows, p) \in 0..MaxCpu /\ Processes!CpuDelta(rows, p) <= done[p].cpu
        /\ cpuTime[p] = prevCpu[p] + done[p].cpu => Processes!CpuDelta(rows, p) = done[p].cpu
    BY <1>1, <2>1, <2>3, Constants
  <2> QED
    BY <2>2, <2>4
<1>3. CASE ~(sampled /\ p \in DOMAIN prevCpu)
  <2>1. Processes!CpuDelta(rows, p) = 0
    BY <1>3 DEF Processes!CpuDelta
  <2>2. ~done[p].whole
    BY <1>1, <1>3 DEF ProcInv, CpuIsKept
  <2>3. 0 \in 0..MaxCpu /\ 0 <= done[p].cpu
    BY <1>1, Constants
  <2> QED
    BY <2>1, <2>2, <2>3
<1> QED
  BY <1>2, <1>3

LEMMA GpuDeltaIs ==
  ASSUME ProcInv, NEW gpu, NEW p \in Pids,
         p \in DOMAIN gpu => p \in DOMAIN gpuTime /\ gpu[p] = gpuTime[p]
  PROVE  /\ Processes!GpuDelta(gpu, p) \in 0..MaxGpu
         /\ ~blind => Processes!GpuDelta(gpu, p) <= done[p].gpu
<1>1. done[p].gpu \in Nat /\ 0 \in 0..MaxGpu
  BY ProcFacts, Constants DEF ProcInv
<1>2. CASE sampled /\ p \in DOMAIN gpu /\ gpu[p] > Before(prevGpu, p)
  <2>1. gpuTime[p] \in Nat /\ gpuTime[p] <= MaxGpu /\ gpu[p] = gpuTime[p]
    BY <1>2, ProcFacts DEF ProcInv
  <2>2. Before(prevGpu, p) \in Nat
    BY Constants DEF ProcInv, GpuIsKept, Before
  <2>3. Processes!GpuDelta(gpu, p) = gpuTime[p] - Before(prevGpu, p)
    BY <1>2, <2>1 DEF Processes!GpuDelta, Before
  <2>4. ~blind => gpuTime[p] <= Before(prevGpu, p) + done[p].gpu
    BY <1>2 DEF ProcInv, GpuIsKept
  <2>5. /\ Processes!GpuDelta(gpu, p) \in 0..MaxGpu
        /\ gpuTime[p] <= Before(prevGpu, p) + done[p].gpu => Processes!GpuDelta(gpu, p) <= done[p].gpu
    BY <1>1, <1>2, <2>1, <2>2, <2>3, Constants
  <2> QED
    BY <2>4, <2>5
<1>3. CASE ~(sampled /\ p \in DOMAIN gpu /\ gpu[p] > Before(prevGpu, p))
  <2>1. Processes!GpuDelta(gpu, p) = 0
    BY <1>3 DEF Processes!GpuDelta, Before
  <2> QED
    BY <1>1, <2>1
<1> QED
  BY <1>2, <1>3

LEMMA SampleStep ==
  ASSUME ProcInv, NEW elapsed \in 1..Window + 1, NEW readable \in SUBSET Pids, NEW ok \in BOOLEAN,
         Processes!Sample(elapsed, readable, ok)
  PROVE  ProcInv' /\ ProcMadeUp /\ ProcMissed
<1> DEFINE rows == Processes!ReadPs(ok)
           gpu == Processes!ReadGpu(readable)
           new(p) == [age |-> 0, cpu |-> Processes!CpuDelta(rows, p), gpu |-> Processes!GpuDelta(gpu, p)]
           old(p) == IF p \in DOMAIN kept THEN kept[p] ELSE <<>>
<1>1. /\ kept' = Processes!Keep(rows, gpu, elapsed)
      /\ prevCpu' = rows /\ prevGpu' = gpu /\ sampled' = TRUE /\ answered' = TRUE
      /\ done' = [p \in Pids |-> [cpu |-> 0, gpu |-> 0, whole |-> ok /\ p \in DOMAIN cpuTime]]
      /\ calm' = [p \in Pids |-> IF Processes!Worked(done[p]) THEN 0
                                 ELSE IF calm[p] + elapsed > Window THEN Window + 1
                                 ELSE calm[p] + elapsed]
      /\ UNCHANGED <<cpuTime, gpuTime>>
  BY Zenon DEF Processes!Sample, Processes!machine, Processes!Live
<1>2. /\ \/ DOMAIN gpuTime \subseteq readable /\ blind' = blind
         \/ blind' = TRUE
      /\ \/ faults' = faults
         \/ faults < MaxFaults /\ faults' = faults + 1
  BY Zenon DEF Processes!Sample, Processes!Fault
<1>3. /\ DOMAIN rows \subseteq DOMAIN cpuTime /\ \A p \in DOMAIN rows : rows[p] = cpuTime[p]
      /\ ok => rows = cpuTime
  BY DEF Processes!ReadPs, Processes!Nothing
<1>4. /\ DOMAIN gpu = DOMAIN gpuTime \cap readable /\ \A p \in DOMAIN gpu : gpu[p] = gpuTime[p]
  BY DEF Processes!ReadGpu
<1> HIDE DEF rows, gpu
<1>5. DOMAIN rows \subseteq Pids /\ DOMAIN gpu \subseteq Pids
  BY <1>3, <1>4, ProcFacts DEF ProcInv
<1>6. ASSUME NEW p \in DOMAIN rows
      PROVE  /\ new(p) \in Processes!Samples /\ new(p).age = 0
             /\ new(p).cpu <= done[p].cpu /\ (done[p].whole => new(p).cpu = done[p].cpu)
             /\ ~blind => new(p).gpu <= done[p].gpu
  <2>1. /\ Processes!CpuDelta(rows, p) \in 0..MaxCpu /\ Processes!CpuDelta(rows, p) <= done[p].cpu
        /\ done[p].whole => Processes!CpuDelta(rows, p) = done[p].cpu
    BY <1>3, CpuDeltaIs
  <2>2. /\ Processes!GpuDelta(gpu, p) \in 0..MaxGpu
        /\ ~blind => Processes!GpuDelta(gpu, p) <= done[p].gpu
    BY <1>4, <1>5, GpuDeltaIs
  <2>3. 0 \in 0..Window
    BY Constants
  <2> QED
    BY <2>1, <2>2, <2>3 DEF Processes!Samples
<1>7. ASSUME NEW p \in Pids PROVE old(p) \in Seq(Processes!Samples) /\ Aging(old(p))
  <2>1. Aging(<<>>) /\ <<>> \in Seq(Processes!Samples)
    BY DEF Aging
  <2> QED
    BY <2>1 DEF ProcInv, SamplesAreKept
<1>8. /\ DOMAIN kept' = DOMAIN rows
      /\ \A p \in DOMAIN rows :
           kept'[p] = Processes!Popped(Append(Processes!Older(old(p), elapsed), new(p)))
  <2>1. Processes!Older(<<>>, elapsed) = <<>>
    BY DEF Processes!Older
  <2> DEFINE old2(p) == IF p \in DOMAIN kept THEN Processes!Older(kept[p], elapsed) ELSE <<>>
  <2>2. \A p : old2(p) = Processes!Older(old(p), elapsed)
    BY <2>1
  <2>3. kept' = [p \in DOMAIN rows |-> Processes!Popped(Append(old2(p), new(p)))]
    BY <1>1 DEF Processes!Keep
  <2> HIDE DEF old, old2, new
  <2> QED
    BY <2>2, <2>3
<1> HIDE DEF new, old
<1>9. ASSUME NEW p \in DOMAIN rows
      PROVE  /\ kept'[p] \in Seq(Processes!Samples) /\ Aging(kept'[p])
             /\ Processes!Last(kept'[p]) = new(p)
             /\ \A i \in 1..Len(kept'[p]) :
                  \/ kept'[p][i] = new(p)
                  \/ \E j \in 1..Len(old(p)) :
                       /\ kept'[p][i].age = old(p)[j].age + elapsed
                       /\ kept'[p][i].cpu = old(p)[j].cpu /\ kept'[p][i].gpu = old(p)[j].gpu
  <2>1. old(p) \in Seq(Processes!Samples) /\ Aging(old(p))
    BY <1>5, <1>7
  <2>2. new(p) \in Processes!Samples /\ new(p).age = 0
    BY <1>6
  <2>3. PICK o, n, next : o = old(p) /\ n = new(p) /\ next = kept'[p]
    OBVIOUS
  <2>4. next = Processes!Popped(Append(Processes!Older(o, elapsed), n))
    BY <1>8, <2>3
  <2>5. /\ next \in Seq(Processes!Samples) /\ Aging(next) /\ Processes!Last(next) = n
        /\ \A i \in 1..Len(next) :
             \/ next[i] = n
             \/ \E j \in 1..Len(o) :
                  /\ next[i].age = o[j].age + elapsed
                  /\ next[i].cpu = o[j].cpu /\ next[i].gpu = o[j].gpu
    <3>1. o \in Seq(Processes!Samples) /\ Aging(o) /\ n \in Processes!Samples /\ n.age = 0
      BY <2>1, <2>2, <2>3
    <3> QED
      BY ONLY <2>4, <3>1, elapsed \in 1..Window + 1, OneMoreSample, SMTT(20)
  <2> QED
    BY <2>3, <2>5
<1>10. ProcMadeUp /\ ProcMissed
  <2>1. ~blind' => ~blind
    BY <1>2
  <2> QED
    BY <1>6, <1>8, <1>9, <2>1 DEF ProcMadeUp, ProcMissed
<1>11. \A p \in Pids : done'[p].cpu = 0 /\ done'[p].gpu = 0
                       /\ done'[p].whole = (ok /\ p \in DOMAIN cpuTime) /\ done'[p] \in Done
  BY <1>1 DEF Done
<1>12. CpuIsKept'
  <2>1. \A p \in DOMAIN rows : rows[p] \in Nat /\ rows[p] <= MaxCpu /\ cpuTime[p] = rows[p]
    BY <1>3, ProcFacts DEF ProcInv
  <2>2. \A p \in DOMAIN rows : rows[p] \in 0..MaxCpu /\ cpuTime[p] = rows[p] + 0 /\ cpuTime[p] <= rows[p] + 0
    BY <2>1, Constants
  <2>3. \A p \in Pids : done'[p].whole => p \in DOMAIN rows \cap DOMAIN cpuTime
    BY <1>3, <1>11
  <2> QED
    BY <1>1, <1>5, <1>11, <2>2, <2>3 DEF CpuIsKept
<1>13. GpuIsKept'
  <2>1. \A p \in DOMAIN gpu : gpu[p] \in Nat /\ gpu[p] <= MaxGpu /\ gpuTime[p] = gpu[p]
    BY <1>4, ProcFacts DEF ProcInv
  <2>2. \A p \in DOMAIN gpu : gpu[p] \in 0..MaxGpu /\ gpuTime[p] <= gpu[p] + 0
    BY <2>1, Constants
  <2>3. ~blind' => DOMAIN gpu = DOMAIN gpuTime
    BY <1>2, <1>4
  <2> QED
    BY <1>1, <1>5, <1>11, <2>2, <2>3 DEF GpuIsKept, Before
<1>14. \A p \in Pids : /\ calm[p] \in Nat /\ calm'[p] \in 0..Window + 1
                       /\ Processes!Worked(done[p]) => calm'[p] = 0
                       /\ calm'[p] <= calm[p] + elapsed
  <2>1. \A p \in Pids : calm[p] \in Nat
    BY ProcFacts, Constants DEF ProcInv
  <2> TAKE p \in Pids
  <2>2. CASE Processes!Worked(done[p])
    BY <1>1, <2>1, <2>2, Constants
  <2>3. CASE ~Processes!Worked(done[p])
    BY <1>1, <2>1, <2>3, Constants
  <2> QED
    BY <2>2, <2>3
<1>15. SamplesAreKept'
  <2>1. ASSUME NEW p \in DOMAIN rows, NEW i \in 1..Len(kept'[p]), Active(kept'[p][i], blind')
        PROVE  calm'[p] <= kept'[p][i].age
    <3>0. p \in Pids /\ calm[p] \in Nat /\ calm'[p] \in Nat
      BY <1>5, <1>14, Constants
    <3>1. CASE kept'[p][i] = new(p)
      <4>1. /\ new(p).age = 0 /\ new(p).cpu \in Nat /\ new(p).gpu \in Nat
            /\ new(p).cpu <= done[p].cpu /\ (~blind => new(p).gpu <= done[p].gpu)
        BY <1>6, Constants DEF Processes!Samples
      <4>2. done[p].cpu \in Nat /\ done[p].gpu \in Nat
        BY <3>0, ProcFacts DEF ProcInv
      <4>3. CASE new(p).cpu > 0
        BY <1>14, <3>0, <3>1, <4>1, <4>2, <4>3 DEF Processes!Worked
      <4>4. CASE ~blind' /\ new(p).gpu > 0
        <5>1. new(p).gpu <= done[p].gpu
          BY <1>2, <4>1, <4>4
        <5> QED
          BY <1>14, <3>0, <3>1, <4>1, <4>2, <4>4, <5>1 DEF Processes!Worked
      <4> QED
        BY <2>1, <3>1, <4>3, <4>4 DEF Active
    <3>2. CASE kept'[p][i] # new(p)
      <4>1. PICK j \in 1..Len(old(p)) :
              /\ kept'[p][i].age = old(p)[j].age + elapsed
              /\ kept'[p][i].cpu = old(p)[j].cpu /\ kept'[p][i].gpu = old(p)[j].gpu
        BY <1>9, <3>2
      <4>2. p \in DOMAIN kept /\ old(p) = kept[p]
        BY <4>1 DEF old
      <4>3. Active(kept[p][j], blind)
        BY <1>2, <2>1, <4>1, <4>2 DEF Active
      <4>4. calm[p] <= kept[p][j].age
        BY <4>1, <4>2, <4>3 DEF ProcInv, SamplesAreKept
      <4>5. kept[p][j].age \in Nat
        <5>1. kept[p][j] \in Processes!Samples
          BY <4>1, <4>2 DEF ProcInv, SamplesAreKept
        <5> QED
          BY <5>1, SampleIs, RawIs
      <4> QED
        BY <1>14, <3>0, <4>1, <4>2, <4>4, <4>5
    <3> QED
      BY <3>1, <3>2
  <2> QED
    BY <1>5, <1>8, <1>9, <2>1 DEF SamplesAreKept
<1>16. Processes!TypeOK'
  <2>1. done' \in [Pids -> Done] /\ calm' \in [Pids -> 0..Window + 1]
    <3>1. \A p \in Pids : done'[p] \in Done /\ calm'[p] \in 0..Window + 1
      BY <1>11, <1>14, Zenon
    <3>2. DOMAIN done' = Pids /\ DOMAIN calm' = Pids
          /\ done' = [p \in Pids |-> done'[p]] /\ calm' = [p \in Pids |-> calm'[p]]
      BY <1>1
    <3> QED
      BY <3>1, <3>2
  <2>2. \A p \in DOMAIN kept' : Processes!ToSet(kept'[p]) \subseteq Processes!Samples
    BY <1>8, <1>9 DEF Processes!ToSet
  <2>3. faults' \in 0..MaxFaults
    BY <1>2, Constants DEF ProcInv, Processes!TypeOK
  <2>4. blind' \in BOOLEAN
    BY <1>2 DEF ProcInv, Processes!TypeOK
  <2>5. /\ DOMAIN cpuTime \subseteq Pids /\ DOMAIN gpuTime \subseteq DOMAIN cpuTime
        /\ \A p \in DOMAIN cpuTime : cpuTime[p] \in 0..MaxCpu
        /\ \A p \in DOMAIN gpuTime : gpuTime[p] \in 0..MaxGpu
    BY TimesAre
  <2>6. /\ DOMAIN cpuTime' \subseteq Pids /\ DOMAIN gpuTime' \subseteq DOMAIN cpuTime'
        /\ \A p \in DOMAIN cpuTime' : cpuTime'[p] \in 0..MaxCpu
        /\ \A p \in DOMAIN gpuTime' : gpuTime'[p] \in 0..MaxGpu
        /\ DOMAIN prevCpu' \subseteq Pids /\ DOMAIN prevGpu' \subseteq Pids
        /\ sampled' \in BOOLEAN /\ answered' \in BOOLEAN
    BY <1>1, <1>5, <2>5
  <2> QED
    BY <2>1, <2>2, <2>3, <2>4, <2>6 DEF Processes!TypeOK, Processes!Live, Done
<1> QED
  BY <1>10, <1>12, <1>13, <1>15, <1>16 DEF ProcInv

LEMMA ProcStep ==
  ProcInv /\ [Processes!Next]_(Processes!vars) =>
    ProcInv' /\ [ProcMadeUp]_(Processes!vars) /\ [ProcMissed]_(Processes!vars)
<1> SUFFICES ASSUME ProcInv, [Processes!Next]_(Processes!vars)
             PROVE  ProcInv' /\ [ProcMadeUp]_(Processes!vars) /\ [ProcMissed]_(Processes!vars)
  OBVIOUS
<1>1. CASE UNCHANGED Processes!vars
  <2>1. UNCHANGED <<cpuTime, gpuTime, prevCpu, prevGpu, sampled, kept, calm, answered, done, blind, faults>>
    BY <1>1 DEF Processes!vars, Processes!machine, Processes!sampler
  <2>2. Processes!TypeOK'
    BY <2>1 DEF ProcInv, Processes!TypeOK, Processes!Live
  <2>3. CpuIsKept' /\ GpuIsKept' /\ SamplesAreKept'
    BY <2>1 DEF ProcInv, CpuIsKept, GpuIsKept, SamplesAreKept
  <2> QED
    BY <1>1, <2>2, <2>3 DEF ProcInv
<1>2. ASSUME NEW p \in Pids,
             \/ Processes!Start(p) \/ Processes!Compute(p) \/ Processes!Render(p)
             \/ Processes!CloseGpu(p) \/ Processes!Exit(p)
      PROVE  ProcInv' /\ ProcMadeUp /\ ProcMissed
  <2>1. MachineMoves
    BY <1>2, StartMoves, ComputeMoves, RenderMoves, CloseMoves, ExitMoves
  <2>2. ~answered'
    BY <2>1 DEF MachineMoves
  <2> QED
    BY <2>1, <2>2, MachineStep DEF ProcMadeUp, ProcMissed
<1>3. CASE Processes!Next
  BY <1>2, <1>3, SampleStep DEF Processes!Next
<1> QED
  BY <1>1, <1>3

LEMMA ProcInit == Processes!Init => ProcInv
<1> SUFFICES ASSUME Processes!Init PROVE ProcInv
  OBVIOUS
<1>1. /\ DOMAIN cpuTime = {} /\ DOMAIN gpuTime = {} /\ DOMAIN prevCpu = {} /\ DOMAIN prevGpu = {}
      /\ DOMAIN kept = {} /\ sampled = FALSE /\ blind = FALSE /\ answered = FALSE
      /\ done = [p \in Pids |-> Processes!Idle] /\ calm = [p \in Pids |-> 0] /\ faults = 0
  BY DEF Processes!Init, Processes!Nothing
<1>2. /\ done \in [Pids -> Done] /\ \A p \in Pids : ~done[p].whole
      /\ calm \in [Pids -> 0..Window + 1] /\ 0 \in 0..MaxFaults
  BY <1>1, DoneIs, Constants
<1>3. Processes!TypeOK
  BY <1>1, <1>2 DEF Processes!TypeOK, Processes!Live, Done
<1> QED
  BY <1>1, <1>2, <1>3 DEF ProcInv, CpuIsKept, GpuIsKept, SamplesAreKept

(* A pid that has been calm for longer than the window has no sample of    *)
(* work left: such a sample would be as old.                               *)
LEMMA TheOldIsGone == ProcInv => Processes!IdleIsShownIdle
<1> SUFFICES ASSUME ProcInv, NEW p \in DOMAIN kept, calm[p] > Window,
                    NEW s \in Processes!ToSet(kept[p])
             PROVE  s.cpu = 0 /\ (blind \/ s.gpu = 0)
  BY DEF Processes!IdleIsShownIdle
<1>1. PICK i \in 1..Len(kept[p]) : s = kept[p][i]
  BY DEF Processes!ToSet, ProcInv, SamplesAreKept
<1>2. s \in Processes!Samples /\ p \in Pids
  BY <1>1 DEF ProcInv, SamplesAreKept
<1>3. s.age \in 0..Window /\ s.cpu \in Nat /\ s.gpu \in Nat /\ calm[p] \in Nat
  BY <1>2, Constants, ProcFacts DEF ProcInv, Processes!Samples
<1>4. ~Active(s, blind)
  BY <1>1, <1>3, Constants DEF ProcInv, SamplesAreKept
<1>5. ~(s.cpu > 0) /\ (blind \/ ~(s.gpu > 0))
  BY <1>4, Zenon DEF Active
<1> QED
  BY <1>3, <1>5

-----------------------------------------------------------------------------
(* The three together: a step is one of the three samplers, or none.       *)
SInv == RatesInv /\ NetInv /\ ProcInv

LEMMA SamplersInit == Init => SInv
BY RatesInit, NetInit, ProcInit DEF Init, SInv

LEMMA SamplersStep ==
  SInv /\ [Next]_vars =>
    /\ SInv'
    /\ [RatesMadeUp]_(Rates!vars) /\ [NetMadeUp]_(Net!vars) /\ [ProcMadeUp]_(Processes!vars)
    /\ [RatesMissed]_(Rates!vars) /\ [NetMissed]_(Net!vars) /\ [ProcMissed]_(Processes!vars)
<1> SUFFICES ASSUME SInv, [Next]_vars
             PROVE  /\ SInv'
                    /\ [RatesMadeUp]_(Rates!vars) /\ [NetMadeUp]_(Net!vars)
                    /\ [ProcMadeUp]_(Processes!vars)
                    /\ [RatesMissed]_(Rates!vars) /\ [NetMissed]_(Net!vars)
                    /\ [ProcMissed]_(Processes!vars)
  OBVIOUS
<1>1. /\ UNCHANGED ratesVars => UNCHANGED Rates!vars
      /\ UNCHANGED netVars => UNCHANGED Net!vars
      /\ UNCHANGED processVars => UNCHANGED Processes!vars
  BY DEF ratesVars, netVars, processVars, Rates!vars, Rates!machine, Rates!collector,
         Net!vars, Net!machine, Net!server, Net!history,
         Processes!vars, Processes!machine, Processes!sampler
<1>2. [Rates!Next]_(Rates!vars) /\ [Net!Next]_(Net!vars) /\ [Processes!Next]_(Processes!vars)
  BY <1>1 DEF Next, vars
<1> QED
  BY <1>2, RatesStep, NetStep, ProcStep DEF SInv

(* The variables of all three samplers keep their types.                   *)
THEOREM SamplerTypes == Spec => []TypeOK
<1>1. SInv => TypeOK
  BY DEF SInv, RatesInv, NetInv, ProcInv, TypeOK
<1> QED
  BY <1>1, SamplersInit, SamplersStep, PTL DEF Spec

(* An idle pid is shown idle once the window has passed, and a Wi-Fi is    *)
(* the one that was joined once the cache has aged, whatever was read in   *)
(* which order (processes.rs:117-137, net_interfaces.rs:270-285).          *)
THEOREM TheOldIsForgotten == Spec => []NothingIsStale
<1>1. SInv => NothingIsStale
  BY TheOldIsGone DEF SInv, NetInv, NothingIsStale
<1> QED
  BY <1>1, SamplersInit, SamplersStep, PTL DEF Spec

(* No reading gives more than has moved since the one before, for any      *)
(* number of interfaces, drives and processes that come and go             *)
(* (metrics.rs:424-501, net_interfaces.rs:62-90, processes.rs:47-107).     *)
THEOREM WhatIsShownHasMoved == Spec => NothingIsMadeUp
BY SamplersInit, SamplersStep, PTL
   DEF Spec, NothingIsMadeUp, Rates!NothingIsMadeUp, Net!NothingIsMadeUp,
       Processes!NothingIsMadeUp, RatesMadeUp, NetMadeUp, ProcMadeUp

(* Nor less, of what was there all the time (disk_io.rs:35-47,             *)
(* net_interfaces.rs:62-90, processes.rs:96-112).                          *)
THEOREM WhatHasMovedIsShown == Spec => NothingIsMissed
BY SamplersInit, SamplersStep, PTL
   DEF Spec, NothingIsMissed, Rates!NothingIsMissed, Net!NothingIsMissed,
       Processes!NothingIsMissed, RatesMissed, NetMissed, ProcMissed
=============================================================================
