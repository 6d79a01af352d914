---------------------------- MODULE Ledger_proofs ---------------------------
(***************************************************************************)
(* The ledgers of Ledger and the charts of Reports, for every length of    *)
(* days, months, weeks and hours, every clamp and retention, any rows of   *)
(* an older version and every bound.                                       *)
(*                                                                         *)
(* A total is a sum over a table.  It is reasoned about as a number of     *)
(* units: a set that has Booked(table[k]) pairs for each key k, and whose  *)
(* cardinality the library's theorems count.  From then on only lemmas     *)
(* about totals are used: of no keys, of one more, of parts, of pieces.    *)
(***************************************************************************)
EXTENDS Reports, FiniteSetTheorems, WellFoundedInduction, TLAPS

-----------------------------------------------------------------------------
(* A set of naturals that is not empty has a least member.                 *)
LEMMA LeastOf == ASSUME NEW T, T \subseteq Nat, T # {} PROVE \E x \in T : \A y \in T : x <= y
<1> DEFINE R == {ss \in Nat \X Nat : ss[1] < ss[2]}
<1>1. IsWellFoundedOn(R, Nat)
  BY NatLessThanWellFounded DEF OpToRel
<1>2. \A x, y \in Nat : y < x => <<y, x>> \in R
  OBVIOUS
<1> HIDE DEF R
<1>3. PICK x \in T : \A y \in T : ~(<<y, x>> \in R)
  BY <1>1, WFMin
<1>4. \A y \in T : ~(y < x)
  BY <1>2, <1>3
<1> QED
  BY <1>4

(* A family of subsets of a finite set that has the empty one, and with    *)
(* each the one that has a member more, has them all.                      *)
LEMMA AllSubsets ==
  ASSUME NEW S, IsFiniteSet(S), NEW F, {} \in F,
         \A T \in SUBSET S : \A x \in S \ T : T \in F => T \cup {x} \in F
  PROVE  \A T \in SUBSET S : T \in F
<1> DEFINE Missed == {Cardinality(T) : T \in (SUBSET S) \ F}
<1> SUFFICES ASSUME NEW T0 \in SUBSET S, T0 \notin F PROVE FALSE
  OBVIOUS
<1>1. \A T \in SUBSET S : IsFiniteSet(T) /\ Cardinality(T) \in Nat
  BY FS_Subset, FS_CardinalityType
<1>2. Missed \subseteq Nat /\ Missed # {}
  BY <1>1
<1>3. PICK T \in (SUBSET S) \ F : \A U \in (SUBSET S) \ F : Cardinality(T) <= Cardinality(U)
  <2>1. PICK n \in Missed : \A m \in Missed : n <= m
    BY <1>2, LeastOf
  <2> QED
    BY <2>1
<1>4. PICK x \in T : TRUE
  <2>1. T # {}
    BY <1>3
  <2> QED
    BY <2>1
<1>5. Cardinality(T \ {x}) = Cardinality(T) - 1
  BY <1>1, <1>3, <1>4, FS_RemoveElement
<1>6. T \ {x} \in F
  BY <1>1, <1>3, <1>5
<1>7. (T \ {x}) \cup {x} = T /\ x \in S \ (T \ {x}) /\ T \ {x} \in SUBSET S
  BY <1>3, <1>4
<1>8. T \in F
  BY <1>6, <1>7, Zenon
<1> QED
  BY <1>3, <1>8

-----------------------------------------------------------------------------
(* Sums over tables: a sum of naturals counts that many units.             *)
Units(v, S) == {u \in S \X Nat : 1 <= u[2] /\ u[2] <= v[u[1]]}

(* A single key has as many as its value.                                  *)
LEMMA UnitsOfOne ==
  ASSUME NEW v, NEW k, v[k] \in Nat
  PROVE  IsFiniteSet(Units(v, {k})) /\ Cardinality(Units(v, {k})) = v[k]
<1> DEFINE f == [i \in 1..v[k] |-> <<k, i>>]
<1>1. f \in Bijection(1..v[k], Units(v, {k}))
  <2>1. f \in [1..v[k] -> Units(v, {k})]
    BY DEF Units
  <2>2. \A a, b \in 1..v[k] : f[a] = f[b] => a = b
    OBVIOUS
  <2>3. ASSUME NEW u \in Units(v, {k}) PROVE \E a \in 1..v[k] : f[a] = u
    <3>1. u[2] \in 1..v[k] /\ u = <<k, u[2]>>
      BY <2>3 DEF Units
    <3> QED
      BY <3>1
  <2> HIDE DEF f
  <2>4. f \in Injection(1..v[k], Units(v, {k}))
    BY <2>1, <2>2 DEF Injection, IsInjective
  <2>5. f \in Surjection(1..v[k], Units(v, {k}))
    BY <2>1, <2>3 DEF Surjection
  <2> QED
    BY <2>4, <2>5 DEF Bijection
<1>2. ExistsBijection(1..v[k], Units(v, {k}))
  BY <1>1 DEF ExistsBijection
<1> HIDE DEF f
<1>3. IsFiniteSet(Units(v, {k}))
  BY <1>2, FS_NatBijection
<1> QED
  BY <1>2, <1>3, FS_CountingElements

(* Finitely many keys have finitely many.                                  *)
LEMMA UnitsAreFinite ==
  ASSUME NEW v, NEW S, IsFiniteSet(S), \A k \in S : v[k] \in Nat
  PROVE  IsFiniteSet(Units(v, S)) /\ Cardinality(Units(v, S)) \in Nat
<1> DEFINE F == {T \in SUBSET S : IsFiniteSet(Units(v, T))}
<1>1. {} \in F
  <2>1. Units(v, {}) = {}
    BY DEF Units
  <2> QED
    BY <2>1, FS_EmptySet
<1>2. ASSUME NEW T \in SUBSET S, NEW x \in S \ T, T \in F PROVE T \cup {x} \in F
  <2>1. Units(v, T \cup {x}) = Units(v, T) \cup Units(v, {x})
    BY DEF Units
  <2>2. IsFiniteSet(Units(v, {x}))
    BY UnitsOfOne
  <2>3. IsFiniteSet(Units(v, T) \cup Units(v, {x}))
    BY <1>2, <2>2, FS_Union
  <2> QED
    BY <2>1, <2>3
<1> HIDE DEF F
<1>3. S \in F
  BY <1>1, <1>2, AllSubsets
<1> QED
  BY <1>3, FS_CardinalityType DEF F

(* Sets that have no key in common add up.                                 *)
LEMMA UnitsAddUp ==
  ASSUME NEW v, NEW S, NEW T, IsFiniteSet(S), IsFiniteSet(T), S \cap T = {},
         \A k \in S \cup T : v[k] \in Nat
  PROVE  Cardinality(Units(v, S \cup T)) = Cardinality(Units(v, S)) + Cardinality(Units(v, T))
<1>1. Units(v, S \cup T) = Units(v, S) \cup Units(v, T)
  BY DEF Units
<1>2. Units(v, S) \cap Units(v, T) = {}
  BY DEF Units
<1>3. IsFiniteSet(Units(v, S)) /\ IsFiniteSet(Units(v, T))
  BY UnitsAreFinite
<1>4. Cardinality(Units(v, S) \cap Units(v, T)) = 0
  BY <1>2, FS_EmptySet
<1>5. /\ Cardinality(Units(v, S)) \in Nat /\ Cardinality(Units(v, T)) \in Nat
      /\ Cardinality(Units(v, S) \cup Units(v, T))
           = Cardinality(Units(v, S)) + Cardinality(Units(v, T))
               - Cardinality(Units(v, S) \cap Units(v, T))
  BY <1>3, FS_Union, FS_CardinalityType
<1> DEFINE a == Cardinality(Units(v, S))
           b == Cardinality(Units(v, T))
<1>6. a \in Nat /\ b \in Nat /\ Cardinality(Units(v, S \cup T)) = a + b - 0
  BY <1>1, <1>4, <1>5, Zenon
<1> HIDE DEF a, b
<1>7. Cardinality(Units(v, S \cup T)) = a + b
  BY <1>6, SMT
<1> QED
  BY <1>7 DEF a, b

(* The fold that sums.                                                     *)
Folding(v, S) ==
  CHOOSE iter : iter = [s \in SUBSET S |->
    IF s = {} THEN 0
    ELSE v[CHOOSE x \in s : TRUE] + iter[s \ {CHOOSE x \in s : TRUE}]]

(* The fold counts the units, whatever order it takes the keys in.         *)
LEMMA FoldingCounts ==
  ASSUME NEW v, NEW S, IsFiniteSet(S), \A k \in S : v[k] \in Nat
  PROVE  Folding(v, S)[S] = Cardinality(Units(v, S))
<1> DEFINE C(s) == CHOOSE x \in s : TRUE
           Body(g) == [s \in SUBSET S |-> IF s = {} THEN 0 ELSE v[C(s)] + g[s \ {C(s)}]]
           g == [s \in SUBSET S |-> Cardinality(Units(v, s))]
           f == Folding(v, S)
<1>1. ASSUME NEW s \in SUBSET S, s # {}
      PROVE  /\ C(s) \in s /\ s \ {C(s)} \in SUBSET S
             /\ g[s] = v[C(s)] + g[s \ {C(s)}]
  <2>1. C(s) \in s
    BY <1>1
  <2> DEFINE x == C(s)
             rest == s \ {x}
  <2>2. x \in s /\ x \in S /\ v[x] \in Nat
    BY <2>1
  <2> HIDE DEF x
  <2>3. s = rest \cup {x} /\ rest \cap {x} = {} /\ rest \in SUBSET S /\ IsFiniteSet(rest) /\ IsFiniteSet({x})
    BY <2>2, FS_Subset, FS_Singleton
  <2>4. Cardinality(Units(v, rest \cup {x})) = Cardinality(Units(v, rest)) + Cardinality(Units(v, {x}))
    BY <2>2, <2>3, UnitsAddUp
  <2>5. Cardinality(Units(v, {x})) = v[x]
    BY <2>2, UnitsOfOne
  <2>6. Cardinality(Units(v, rest)) \in Nat
    BY <2>3, UnitsAreFinite
  <2>7. Cardinality(Units(v, s)) = v[x] + Cardinality(Units(v, rest))
    <3> HIDE DEF rest
    <3>1. Cardinality(Units(v, s)) = Cardinality(Units(v, rest)) + Cardinality(Units(v, {x}))
      BY <2>3, <2>4, Zenon
    <3> QED
      BY <2>2, <2>5, <2>6, <3>1, SMT
  <2>8. g[s] = v[x] + g[rest]
    BY <2>3, <2>7
  <2> QED
    BY <2>1, <2>3, <2>8 DEF x
<1>2. g = Body(g)
  <2>1. g[{}] = 0
    <3>1. Units(v, {}) = {}
      BY DEF Units
    <3> QED
      BY <3>1, FS_EmptySet
  <2>2. \A s \in SUBSET S : g[s] = Body(g)[s]
    <3> HIDE DEF g, C
    <3> QED
      BY <1>1, <2>1
  <2> QED
    BY <2>2
<1>3. f = Body(f)
  <2> HIDE DEF g
  <2>1. \E h : h = Body(h)
    BY <1>2, Zenon
  <2> QED
    BY <2>1, Zenon DEF Folding
<1>4. \A s \in SUBSET S : f[s] = IF s = {} THEN 0 ELSE v[C(s)] + f[s \ {C(s)}]
  <2> HIDE DEF f, C
  <2> QED
    BY <1>3
<1>5. \A s \in SUBSET S : g[s] = IF s = {} THEN 0 ELSE v[C(s)] + g[s \ {C(s)}]
  <2> HIDE DEF g, C
  <2> QED
    BY <1>2
<1> DEFINE Sizes == {Cardinality(s) : s \in {u \in SUBSET S : f[u] # g[u]}}
<1>6. \A s \in SUBSET S : f[s] = g[s]
  <2> SUFFICES ASSUME NEW s0 \in SUBSET S, f[s0] # g[s0] PROVE FALSE
    OBVIOUS
  <2> HIDE DEF f, g, C
  <2>1. \A s \in SUBSET S : IsFiniteSet(s) /\ Cardinality(s) \in Nat
    BY FS_Subset, FS_CardinalityType
  <2>2. Sizes \subseteq Nat /\ Sizes # {}
    BY <2>1
  <2>3. PICK n \in Sizes : \A m \in Sizes : n <= m
    BY <2>2, LeastOf
  <2>4. PICK s \in SUBSET S : f[s] # g[s] /\ n = Cardinality(s)
    BY <2>3
  <2>5. s # {}
    BY <1>4, <1>5, <2>4
  <2>6. C(s) \in s /\ s \ {C(s)} \in SUBSET S
    BY <1>1, <2>5
  <2>7. Cardinality(s \ {C(s)}) = Cardinality(s) - 1
    BY <2>1, <2>6, FS_RemoveElement
  <2>8. ~(n <= Cardinality(s \ {C(s)}))
    BY <2>1, <2>4, <2>7
  <2>9. f[s \ {C(s)}] = g[s \ {C(s)}]
    BY <2>3, <2>6, <2>8
  <2> QED
    BY <1>4, <1>5, <2>4, <2>5, <2>9
<1> QED
  BY <1>6

-----------------------------------------------------------------------------
(* The keys of a table over which it can be summed.                        *)
CanSum(table, keys) == IsFiniteSet(keys) /\ \A k \in keys : Booked(table[k]) \in Nat

(* A total counts the units of the values that its keys have.              *)
LEMMA TotalCounts ==
  ASSUME NEW table, NEW D, CanSum(table, D), NEW S \in SUBSET D
  PROVE  /\ Total(table, S) = Cardinality(Units([k \in D |-> Booked(table[k])], S))
         /\ Total(table, S) \in Nat /\ IsFiniteSet(S) /\ CanSum(table, S)
<1> DEFINE v == [k \in D |-> Booked(table[k])]
           w == [k \in S |-> Booked(table[k])]
<1>1. Total(table, S) = Folding(w, S)[S]
  BY DEF Total, MapThenSumSet, MapThenFoldSet, Folding
<1>2. IsFiniteSet(S) /\ \A k \in S : v[k] \in Nat /\ w[k] = v[k]
  BY FS_Subset DEF CanSum
<1>3. Units(w, S) = Units(v, S)
  <2> HIDE DEF v, w
  <2> QED
    BY <1>2 DEF Units
<1> HIDE DEF v, w
<1>4. Folding(w, S)[S] = Cardinality(Units(w, S))
  BY <1>2, FoldingCounts
<1>5. Cardinality(Units(v, S)) \in Nat
  BY <1>2, UnitsAreFinite
<1>6. CanSum(table, S)
  BY <1>2 DEF CanSum
<1> QED
  BY <1>1, <1>2, <1>3, <1>4, <1>5, <1>6 DEF v

(* Nothing adds up to nothing.                                             *)
LEMMA TotalOfNone == ASSUME NEW table PROVE Total(table, {}) = 0
<1>1. CanSum(table, {})
  BY FS_EmptySet DEF CanSum
<1> DEFINE v == [k \in {} |-> Booked(table[k])]
<1>2. Total(table, {}) = Cardinality(Units(v, {}))
  BY <1>1, TotalCounts
<1>3. Units(v, {}) = {}
  BY DEF Units
<1> QED
  BY <1>2, <1>3, FS_EmptySet

(* A single key adds up to what it has.                                    *)
LEMMA TotalOfOne ==
  ASSUME NEW table, NEW k, Booked(table[k]) \in Nat
  PROVE  Total(table, {k}) = Booked(table[k])
<1> DEFINE v == [x \in {k} |-> Booked(table[x])]
<1>1. CanSum(table, {k})
  BY FS_Singleton DEF CanSum
<1>2. Total(table, {k}) = Cardinality(Units(v, {k}))
  BY <1>1, TotalCounts
<1>3. v[k] = Booked(table[k])
  OBVIOUS
<1> HIDE DEF v
<1> QED
  BY <1>2, <1>3, UnitsOfOne

(* Keys of which none is in both sets add up.                              *)
LEMMA TotalAddsUp ==
  ASSUME NEW table, NEW S, NEW T, CanSum(table, S), CanSum(table, T), S \cap T = {}
  PROVE  /\ Total(table, S \cup T) = Total(table, S) + Total(table, T)
         /\ CanSum(table, S \cup T)
         /\ Total(table, S) \in Nat /\ Total(table, T) \in Nat
<1> DEFINE D == S \cup T
           v == [k \in D |-> Booked(table[k])]
<1>1. CanSum(table, D)
  BY FS_Union DEF CanSum
<1>2. \A k \in D : v[k] \in Nat
  BY <1>1 DEF CanSum
<1> HIDE DEF v
<1>3. IsFiniteSet(S) /\ IsFiniteSet(T)
  BY DEF CanSum
<1>4. Cardinality(Units(v, D)) = Cardinality(Units(v, S)) + Cardinality(Units(v, T))
  BY <1>2, <1>3, UnitsAddUp
<1>5. S \in SUBSET D /\ T \in SUBSET D /\ D \in SUBSET D
  OBVIOUS
<1> HIDE DEF D
<1>6. /\ Total(table, D) = Cardinality(Units(v, D))
      /\ Total(table, S) = Cardinality(Units(v, S))
      /\ Total(table, T) = Cardinality(Units(v, T))
      /\ Total(table, S) \in Nat /\ Total(table, T) \in Nat
  BY <1>1, <1>5, TotalCounts DEF v
<1> QED
  BY <1>1, <1>4, <1>6 DEF D

(* A key more adds what it has.                                            *)
LEMMA TotalOfOneMore ==
  ASSUME NEW table, NEW S, NEW k, CanSum(table, S), k \notin S, Booked(table[k]) \in Nat
  PROVE  /\ Total(table, S \cup {k}) = Total(table, S) + Booked(table[k])
         /\ CanSum(table, S \cup {k})
<1>1. CanSum(table, {k}) /\ S \cap {k} = {}
  BY FS_Singleton DEF CanSum
<1>2. /\ Total(table, S \cup {k}) = Total(table, S) + Total(table, {k})
      /\ CanSum(table, S \cup {k})
  BY <1>1, TotalAddsUp, Zenon
<1>3. Total(table, {k}) = Booked(table[k])
  BY TotalOfOne
<1> QED
  BY <1>2, <1>3, Zenon

(* More keys never add up to less.                                         *)
LEMMA TotalGrows ==
  ASSUME NEW table, NEW T, NEW S \in SUBSET T, CanSum(table, T)
  PROVE  Total(table, S) <= Total(table, T)
<1>1. CanSum(table, S) /\ CanSum(table, T \ S)
  BY FS_Subset, T \ S \in SUBSET T DEF CanSum
<1>2. S \cap (T \ S) = {} /\ S \cup (T \ S) = T
  OBVIOUS
<1>3. /\ Total(table, T) = Total(table, S) + Total(table, T \ S)
      /\ Total(table, S) \in Nat /\ Total(table, T \ S) \in Nat
  <2> DEFINE R == T \ S
  <2>1. S \cap R = {} /\ S \cup R = T /\ CanSum(table, S) /\ CanSum(table, R)
    BY <1>1, <1>2
  <2> HIDE DEF R
  <2>2. /\ Total(table, S \cup R) = Total(table, S) + Total(table, R)
        /\ Total(table, S) \in Nat /\ Total(table, R) \in Nat
    BY <2>1, TotalAddsUp, Zenon
  <2> QED
    BY <2>1, <2>2 DEF R
<1> HIDE DEF Total
<1> QED
  BY <1>3, SMT

(* Nor do values of which none is less.                                    *)
LEMMA TotalAtMost ==
  ASSUME NEW t, NEW u, NEW S, CanSum(t, S), CanSum(u, S),
         \A k \in S : Booked(t[k]) <= Booked(u[k])
  PROVE  Total(t, S) <= Total(u, S)
<1> DEFINE v == [k \in S |-> Booked(t[k])]
           w == [k \in S |-> Booked(u[k])]
<1>1. \A k \in S : v[k] \in Nat /\ w[k] \in Nat /\ v[k] <= w[k]
  BY DEF CanSum
<1>2. IsFiniteSet(S)
  BY DEF CanSum
<1>3. Total(t, S) = Cardinality(Units(v, S)) /\ Total(u, S) = Cardinality(Units(w, S))
  BY TotalCounts
<1> HIDE DEF v, w
<1>4. Units(v, S) \in SUBSET Units(w, S) /\ IsFiniteSet(Units(w, S))
  BY <1>1, <1>2, UnitsAreFinite DEF Units
<1> QED
  BY <1>3, <1>4, FS_Subset

(* Tables with the same values have the same total.                        *)
LEMMA TotalAgrees ==
  ASSUME NEW t, NEW u, NEW S, CanSum(t, S), \A k \in S : Booked(t[k]) = Booked(u[k])
  PROVE  Total(t, S) = Total(u, S) /\ CanSum(u, S)
<1> DEFINE v == [k \in S |-> Booked(t[k])]
           w == [k \in S |-> Booked(u[k])]
<1>1. v = w /\ CanSum(u, S)
  BY DEF CanSum
<1>2. Total(t, S) = Cardinality(Units(v, S)) /\ Total(u, S) = Cardinality(Units(w, S))
  BY <1>1, TotalCounts
<1> QED
  BY <1>1, <1>2

(* A sum of naturals that is not written as a total is one.                *)
LEMMA SumIsTotal ==
  ASSUME NEW v, NEW S, IsFiniteSet(S), \A i \in S : v[i] \in Nat
  PROVE  MapThenSumSet(LAMBDA i : v[i], S) = Total(v, S) /\ CanSum(v, S)
<1> DEFINE a == [k \in S |-> v[k]]
           b == [k \in S |-> Booked(v[k])]
<1>1. \A i \in S : Booked(v[i]) = v[i]
  BY DEF Booked, None
<1>2. a = b /\ CanSum(v, S)
  BY <1>1 DEF CanSum
<1>3. MapThenSumSet(LAMBDA i : v[i], S) = Folding(a, S)[S]
  BY DEF MapThenSumSet, MapThenFoldSet, Folding
<1>4. Total(v, S) = Folding(b, S)[S]
  BY DEF Total, MapThenSumSet, MapThenFoldSet, Folding
<1> QED
  BY <1>2, <1>3, <1>4

(* The totals of the parts that keys fall into add up to the total.        *)
LEMMA TotalOfParts ==
  ASSUME NEW table, NEW S, CanSum(table, S), NEW P, IsFiniteSet(P),
         NEW part, \A k \in S : part[k] \in P,
         NEW v, \A i \in P : v[i] = Total(table, {k \in S : part[k] = i})
  PROVE  Total(v, P) = Total(table, S) /\ CanSum(v, P)
<1> DEFINE Of(Q) == {k \in S : part[k] \in Q}
           F == {Q \in SUBSET P : Total(v, Q) = Total(table, Of(Q))}
<1>0. \A Q : CanSum(table, Of(Q))
  <2> TAKE Q
  <2>1. Of(Q) \in SUBSET S
    OBVIOUS
  <2> QED
    BY <2>1, TotalCounts
<1>1. \A i \in P : v[i] \in Nat /\ Booked(v[i]) = v[i] /\ v[i] = Total(table, Of({i}))
  <2> TAKE i \in P
  <2>1. {k \in S : part[k] = i} = Of({i})
    OBVIOUS
  <2>2. Total(table, Of({i})) \in Nat
    BY <1>0, TotalCounts
  <2> HIDE DEF Of
  <2>3. v[i] = Total(table, Of({i}))
    BY <2>1
  <2> QED
    BY <2>2, <2>3 DEF Booked, None
<1>2. CanSum(v, P)
  BY <1>1 DEF CanSum
<1>3. {} \in F
  <2>1. Of({}) = {}
    OBVIOUS
  <2> QED
    BY <2>1, TotalOfNone
<1>4. ASSUME NEW Q \in SUBSET P, NEW i \in P \ Q, Q \in F PROVE Q \cup {i} \in F
  <2>1. Of(Q \cup {i}) = Of(Q) \cup Of({i}) /\ Of(Q) \cap Of({i}) = {}
    OBVIOUS
  <2> HIDE DEF Of
  <2>2. CanSum(v, Q)
    BY <1>2, TotalCounts
  <2>3. Total(v, Q \cup {i}) = Total(v, Q) + v[i]
    <3>1. i \notin Q /\ Booked(v[i]) \in Nat /\ Booked(v[i]) = v[i]
      BY <1>1
    <3>2. Total(v, Q \cup {i}) = Total(v, Q) + Booked(v[i])
      BY <2>2, <3>1, TotalOfOneMore, Zenon
    <3> QED
      BY <3>1, <3>2, Zenon
  <2>4. Total(table, Of(Q \cup {i})) = Total(table, Of(Q)) + Total(table, Of({i}))
    <3>1. CanSum(table, Of(Q)) /\ CanSum(table, Of({i}))
      BY <1>0
    <3>2. Total(table, Of(Q) \cup Of({i})) = Total(table, Of(Q)) + Total(table, Of({i}))
      BY <2>1, <3>1, TotalAddsUp, Zenon
    <3> QED
      BY <2>1, <3>2
  <2> QED
    BY <1>1, <1>4, <2>3, <2>4
<1> HIDE DEF F
<1>5. P \in F
  BY <1>3, <1>4, AllSubsets
<1>6. Of(P) = S
  OBVIOUS
<1> QED
  BY <1>2, <1>5, <1>6 DEF F

(* The parts may be given otherwise.                                       *)
LEMMA TotalOfPieces ==
  ASSUME NEW table, NEW S, CanSum(table, S), NEW P, IsFiniteSet(P),
         NEW part, \A k \in S : part[k] \in P,
         NEW piece, \A i \in P : piece[i] \subseteq S,
         \A i \in P : \A k \in S : k \in piece[i] <=> part[k] = i,
         NEW v, \A i \in P : v[i] = Total(table, piece[i])
  PROVE  Total(v, P) = Total(table, S)
<1>1. \A i \in P : piece[i] = {k \in S : part[k] = i}
  OBVIOUS
<1>2. \A i \in P : v[i] = Total(table, {k \in S : part[k] = i})
  BY <1>1
<1> QED
  BY <1>2, TotalOfParts

(* What is nothing everywhere adds up to nothing.                          *)
LEMMA TotalOfNothing ==
  ASSUME NEW table, NEW S, CanSum(table, S), \A k \in S : Booked(table[k]) = 0
  PROVE  Total(table, S) = 0
<1> DEFINE v == [k \in S |-> Booked(table[k])]
<1>1. Total(table, S) = Cardinality(Units(v, S))
  BY TotalCounts
<1>2. \A k \in S : v[k] = 0
  OBVIOUS
<1> HIDE DEF v
<1>3. Units(v, S) = {}
  BY <1>2 DEF Units
<1> QED
  BY <1>1, <1>3, FS_EmptySet

(* A total grows by no more than the one value that does.                  *)
LEMMA TotalGrowsByOne ==
  ASSUME NEW t, NEW u, NEW S, CanSum(t, S), CanSum(u, S), NEW key \in S, NEW n \in Nat,
         \A k \in S \ {key} : Booked(u[k]) <= Booked(t[k]),
         Booked(u[key]) <= Booked(t[key]) + n
  PROVE  Total(u, S) <= Total(t, S) + n
<1> DEFINE R == S \ {key}
<1>1. CanSum(t, R) /\ CanSum(u, R) /\ key \notin R /\ R \cup {key} = S
  <2>1. R \in SUBSET S
    OBVIOUS
  <2> QED
    BY <2>1, TotalCounts
<1>2. Booked(t[key]) \in Nat /\ Booked(u[key]) \in Nat
  BY DEF CanSum
<1>3. \A k \in R : Booked(u[k]) <= Booked(t[k])
  OBVIOUS
<1> HIDE DEF R
<1>4. Total(u, R \cup {key}) = Total(u, R) + Booked(u[key])
  BY <1>1, <1>2, TotalOfOneMore, Zenon
<1>5. Total(t, R \cup {key}) = Total(t, R) + Booked(t[key])
  BY <1>1, <1>2, TotalOfOneMore, Zenon
<1>6. Total(u, R) <= Total(t, R)
  BY <1>1, <1>3, TotalAtMost
<1>7. Total(u, R) \in Nat /\ Total(t, R) \in Nat
  <2>1. R \in SUBSET R
    OBVIOUS
  <2> QED
    BY <1>1, <2>1, TotalCounts
<1> DEFINE a == Total(u, R)
           b == Total(t, R)
<1>8. /\ Total(u, S) = a + Booked(u[key]) /\ Total(t, S) = b + Booked(t[key])
      /\ a <= b /\ a \in Nat /\ b \in Nat
  BY <1>1, <1>4, <1>5, <1>6, <1>7, Zenon
<1> HIDE DEF a, b
<1> QED
  BY <1>2, <1>8, SMT

(* A set splits into what it shares with another one, and the rest.        *)
LEMMA TotalSplits ==
  ASSUME NEW table, NEW S, CanSum(table, S), NEW T
  PROVE  /\ Total(table, S) = Total(table, S \cap T) + Total(table, S \ T)
         /\ Total(table, S \cap T) \in Nat /\ Total(table, S \ T) \in Nat
<1> DEFINE A == S \cap T
           B == S \ T
<1>1. A \in SUBSET S /\ B \in SUBSET S /\ A \cap B = {} /\ A \cup B = S
  OBVIOUS
<1>2. CanSum(table, A) /\ CanSum(table, B)
  BY <1>1, TotalCounts
<1> HIDE DEF A, B
<1>3. /\ Total(table, A \cup B) = Total(table, A) + Total(table, B)
      /\ Total(table, A) \in Nat /\ Total(table, B) \in Nat
  BY <1>1, <1>2, TotalAddsUp, Zenon
<1> QED
  BY <1>1, <1>3 DEF A, B

-----------------------------------------------------------------------------
(* Times, days and months.                                                 *)
LEMMA Times ==
  /\ Time \subseteq Nat /\ IsFiniteSet(Time) /\ 0 \in Time /\ StartAt \in Time
  /\ \A t \in Time : \A u \in Nat : u <= t => u \in Time
<1>1. MaxTime \in Nat /\ StartAt \in 0..MaxTime
  BY LedgerAssumption
<1>2. IsFiniteSet(0..MaxTime)
  BY <1>1, FS_Interval
<1> QED
  BY <1>1, <1>2 DEF Time

(* A number is between the multiple that its quotient gives and the next.  *)
LEMMA Quotient ==
  ASSUME NEW n \in Nat \ {0}, NEW t \in Nat
  PROVE  /\ t \div n \in Nat /\ (t \div n) * n \in Nat
         /\ (t \div n) * n <= t /\ t < (t \div n) * n + n
<1>1. t \div n \in Nat
  BY SMT
<1>2. t = n * (t \div n) + (t % n) /\ t % n \in 0..n - 1
  BY SMT
<1> QED
  BY <1>1, <1>2, SMT

(* What a multiple does not reach begins before it.                        *)
LEMMA Multiples ==
  ASSUME NEW n \in Nat \ {0}, NEW a \in Nat, NEW b \in Nat
  PROVE  /\ a <= b => a * n <= b * n
         /\ a < b => a * n + n <= b * n
         /\ a * n \in Nat /\ b * n \in Nat
BY SMT

(* A greater number has no smaller quotient.                               *)
LEMMA QuotientsGrow ==
  ASSUME NEW n \in Nat \ {0}, NEW t \in Nat, NEW u \in Nat, t <= u
  PROVE  t \div n <= u \div n
<1> DEFINE a == t \div n
           b == u \div n
<1>1. a \in Nat /\ b \in Nat /\ a * n <= t /\ u < b * n + n
  BY Quotient
<1> HIDE DEF a, b
<1> SUFFICES ASSUME ~(a <= b) PROVE FALSE
  BY DEF a, b
<1>2. b * n + n <= a * n /\ a * n \in Nat /\ b * n \in Nat
  BY <1>1, Multiples
<1> QED
  BY <1>1, <1>2, SMT

(* Where a whole number of small parts makes a large one, the small part   *)
(* that a number is in begins in the large one that it is in.              *)
LEMMA PartsOfParts ==
  ASSUME NEW n \in Nat \ {0}, NEW m \in Nat \ {0}, m % n = 0, NEW t \in Nat
  PROVE  ((t \div n) * n) \div m = t \div m
<1>1. PICK k \in Nat : m = k * n
  <2>1. m \div n \in Nat
    BY SMT
  <2>2. m = n * (m \div n) + (m % n)
    BY SMT
  <2> DEFINE k == m \div n
  <2>3. k \in Nat /\ m = n * k + 0
    BY <2>1, <2>2, Zenon
  <2> HIDE DEF k
  <2>4. m = k * n
    BY <2>3, SMT
  <2> QED
    BY <2>3, <2>4, Zenon
<1> DEFINE d == t \div n
           e == t \div m
           b == d * n
           p == b \div m
<1>2. d \in Nat /\ b \in Nat /\ b <= t /\ t < b + n /\ e \in Nat /\ e * m <= t
  BY Quotient
<1>3. p \in Nat /\ p <= e /\ b < p * m + m
  BY <1>2, Quotient, QuotientsGrow
<1> HIDE DEF d, e, b, p
<1>4. e * k \in Nat /\ e * m = (e * k) * n
  BY <1>1, <1>2, SMT
<1> DEFINE ek == e * k
<1> HIDE DEF ek
<1>5. ek <= d
  <2> SUFFICES ASSUME ~(ek <= d) PROVE FALSE
    OBVIOUS
  <2>1. ek \in Nat /\ d < ek
    BY <1>2, <1>4, SMT DEF ek
  <2>2. d * n + n <= ek * n /\ ek * n \in Nat
    BY <1>2, <2>1, Multiples
  <2>3. ek * n <= t
    BY <1>2, <1>4 DEF ek
  <2> QED
    BY <1>2, <2>2, <2>3, SMT DEF b
<1>6. e * m <= b
  <2>1. ek \in Nat
    BY <1>4 DEF ek
  <2>2. ek * n <= d * n
    BY <1>2, <1>5, <2>1, Multiples
  <2> QED
    BY <1>4, <2>2 DEF ek, b
<1>7. e <= p
  <2> SUFFICES ASSUME ~(e <= p) PROVE FALSE
    OBVIOUS
  <2>1. p * m + m <= e * m /\ p * m \in Nat /\ e * m \in Nat
    BY <1>2, <1>3, Multiples
  <2> QED
    BY <1>2, <1>3, <1>6, <2>1, SMT
<1>8. p = e
  BY <1>2, <1>3, <1>7, SMT
<1> QED
  BY <1>8 DEF p, e, b, d

(* A day has the times from its beginning to before that of the next.      *)
LEMMA DayBegins ==
  ASSUME NEW t \in Nat
  PROVE  /\ DayOf(t) \in Nat /\ DayOf(t) * DayLength \in Nat
         /\ DayOf(t) * DayLength <= t /\ t < DayOf(t) * DayLength + DayLength
BY Quotient, LedgerAssumption DEF DayOf

(* And so has a month.                                                     *)
LEMMA MonthBegins ==
  ASSUME NEW t \in Nat
  PROVE  /\ MonthOf(t) \in Nat /\ MonthOf(t) * MonthLength \in Nat
         /\ MonthOf(t) * MonthLength <= t /\ t < MonthOf(t) * MonthLength + MonthLength
BY Quotient, LedgerAssumption DEF MonthOf

(* Later times are of no earlier day, and of no earlier month.             *)
LEMMA DaysPass ==
  ASSUME NEW t \in Nat, NEW u \in Nat, t <= u
  PROVE  DayOf(t) <= DayOf(u) /\ MonthOf(t) <= MonthOf(u)
<1>1. DayLength \in Nat \ {0} /\ MonthLength \in Nat \ {0}
  BY LedgerAssumption
<1> QED
  BY <1>1, QuotientsGrow DEF DayOf, MonthOf

(* A day is of the month that its times are of: months are whole days.     *)
LEMMA MonthOfDay ==
  ASSUME NEW t \in Nat
  PROVE  MonthOf(DayOf(t) * DayLength) = MonthOf(t)
<1>1. DayLength \in Nat \ {0} /\ MonthLength \in Nat \ {0} /\ MonthLength % DayLength = 0
  BY LedgerAssumption
<1>2. ((t \div DayLength) * DayLength) \div MonthLength = t \div MonthLength
  BY <1>1, PartsOfParts
<1> QED
  BY <1>2 DEF DayOf, MonthOf

(* The days and months that there are.                                     *)
LEMMA Calendar ==
  /\ \A t \in Time : DayOf(t) \in Days /\ MonthOf(t) \in Months
  /\ Days \subseteq Nat /\ Months \subseteq Nat /\ 0 \in Days /\ 0 \in Months
  /\ IsFiniteSet(Days)
<1>1. \A t \in Time : DayOf(t) \in Nat /\ MonthOf(t) \in Nat /\ DayOf(t) \in Time
  <2> TAKE t \in Time
  <2>1. t \in Nat
    BY Times
  <2>2. DayOf(t) \in Nat /\ MonthOf(t) \in Nat
    BY <2>1, DayBegins, MonthBegins
  <2>3. DayOf(t) <= t
    <3>1. DayOf(t) * DayLength <= t /\ DayLength \in Nat \ {0}
      BY <2>1, DayBegins, LedgerAssumption
    <3>2. DayOf(t) <= DayOf(t) * DayLength /\ DayOf(t) * DayLength \in Nat
      BY <2>2, <3>1, SMT
    <3> QED
      BY <2>1, <2>2, <3>1, <3>2, SMT
  <2> QED
    BY <2>2, <2>3, Times
<1>2. DayOf(0) = 0 /\ MonthOf(0) = 0
  BY LedgerAssumption, SMT DEF DayOf, MonthOf
<1>3. Days \subseteq Time
  BY <1>1 DEF Days
<1>4. IsFiniteSet(Days)
  BY <1>3, Times, FS_Subset
<1> QED
  BY <1>1, <1>2, <1>4, Times DEF Days, Months

(* The latest of some times.                                               *)
LEMMA LatestOf ==
  ASSUME NEW R \in SUBSET Time, R # {}
  PROVE  Max(R) \in R /\ Max(R) \in Nat /\ \A u \in R : u <= Max(R)
<1> DEFINE Left == {MaxTime - u : u \in R}
<1>0. MaxTime \in Nat /\ \A u \in R : u \in Nat /\ u <= MaxTime
  BY LedgerAssumption, SMT DEF Time
<1>1. Left \subseteq Nat /\ Left # {}
  BY <1>0
<1>2. PICK n \in Left : \A m \in Left : n <= m
  BY <1>1, LeastOf
<1>3. PICK x \in R : n = MaxTime - x
  BY <1>2
<1>4. \A y \in R : x >= y
  <2> TAKE y \in R
  <2>1. MaxTime - x <= MaxTime - y
    BY <1>2, <1>3
  <2> QED
    BY <1>0, <2>1
<1>5. Max(R) \in R /\ \A y \in R : Max(R) >= y
  BY <1>3, <1>4, Zenon DEF Max
<1> QED
  BY <1>0, <1>5

-----------------------------------------------------------------------------
(* What a row at a time stands for, by the rows that there are.            *)
Since(R, t) == IF R = {} \/ t <= Max(R) THEN 0 ELSE Least(t - Max(R), Clamp)

(* It is never more than the clamp, nor than the time since any of them.   *)
LEMMA Intervals ==
  ASSUME NEW R \in SUBSET Time, NEW t \in Time
  PROVE  /\ Since(R, t) \in 0..Clamp
         /\ \A u \in R : u <= t => Since(R, t) <= t - u
<1>0. Clamp \in Nat /\ t \in Nat
  BY LedgerAssumption, Times
<1>1. CASE R = {}
  BY <1>0, <1>1 DEF Since
<1>2. CASE R # {}
  <2>1. Max(R) \in Nat /\ \A u \in R : u \in Nat /\ u <= Max(R)
    BY <1>2, LatestOf, Times
  <2> QED
    BY <1>0, <1>2, <2>1, SMT DEF Since, Least
<1> QED
  BY <1>1, <1>2

(* It is of the rows of the table that Interval and Gap speak.             *)
LEMMA GapsAndIntervals ==
  ASSUME NEW t \in Time
  PROVE  Rows \in SUBSET Time /\ Interval(t) = Since(Rows, t)
         /\ Predecessors(t) \in SUBSET Time /\ Gap(t) = Since(Predecessors(t), t)
<1>1. Rows \in SUBSET Time /\ Predecessors(t) \in SUBSET Time
  BY DEF Rows, Predecessors
<1>2. Gap(t) = Since(Predecessors(t), t)
  <2>1. CASE Predecessors(t) = {}
    BY <2>1 DEF Gap, Since
  <2>2. CASE Predecessors(t) # {}
    <3>1. Max(Predecessors(t)) \in Predecessors(t) /\ Max(Predecessors(t)) \in Nat /\ t \in Nat
      BY <1>1, <2>2, LatestOf, Times
    <3>2. Max(Predecessors(t)) < t
      BY <3>1 DEF Predecessors
    <3>3. ~(t <= Max(Predecessors(t)))
      BY <3>1, <3>2
    <3> QED
      BY <2>2, <3>3, Zenon DEF Gap, Since
  <2> QED
    BY <2>1, <2>2
<1> QED
  BY <1>1, <1>2, Zenon DEF Interval, Since

-----------------------------------------------------------------------------
(* The types.                                                              *)
RawTables == [Time -> {None} \cup 0..Clamp]
DayTables == [Days -> {None} \cup Nat]
Snapshots == [at : Time, session : Nat]
Metas == [session : {None} \cup Nat, month : {None} \cup Months,
          prev : {None} \cup Nat, healed : BOOLEAN, reconciled : BOOLEAN]

CounterTypes ==
  /\ clock \in Time /\ peak \in Time /\ stamp \in Time
  /\ today \in Days /\ month \in Months /\ session \in Nat /\ prevMonth \in Nat
  /\ lapse \in {None} \cup 0..Clamp
  /\ queue \in Seq(Snapshots)
  /\ meta \in Metas

TableTypes == raw \in RawTables /\ daily \in DayTables

FlagTypes ==
  /\ pc \in {"down", "heal", "healed", "restore", "newMonth", "newCounter", "seed",
             "reconcile", "reconciled", "ready", "savePrev", "saveMonth", "saveCounter", "send"}
  /\ strayed \in BOOLEAN /\ spoiled \in BOOLEAN
  /\ faults \in 0..MaxFaults

(* Together they are those of TypeOK.                                      *)
LEMMA TypesAre == TypeOK <=> CounterTypes /\ TableTypes /\ FlagTypes
BY Zenon DEF TypeOK, CounterTypes, TableTypes, FlagTypes, RawTables, DayTables, Snapshots, Metas

(* Tables can be summed.                                                   *)
LEMMA TablesCanBeSummed ==
  /\ \A r \in RawTables : CanSum(r, Time)
  /\ \A dl \in DayTables : CanSum(dl, Days)
<1>1. Clamp \in Nat
  BY LedgerAssumption
<1>2. \A r \in RawTables : \A t \in Time : Booked(r[t]) \in Nat
  BY <1>1 DEF RawTables, Booked, None
<1>3. \A dl \in DayTables : \A d \in Days : Booked(dl[d]) \in Nat
  BY DEF DayTables, Booked, None
<1> QED
  BY <1>2, <1>3, Times, Calendar DEF CanSum

(* A key that is missing counts for nothing.                               *)
LEMMA BookedIsNat == ASSUME NEW n \in {None} \cup Nat PROVE Booked(n) \in Nat
  BY DEF Booked, None

(* A statement that saves a key leaves the types alone.                    *)
LEMMA SaveTypes ==
  ASSUME CounterTypes, NEW from, NEW to, NEW saved \in Metas, Save(from, to, saved)
  PROVE  CounterTypes'
<1>1. meta' \in Metas
  BY DEF Save, CounterTypes
<1>2. UNCHANGED <<clock, peak, stamp, today, month, session, prevMonth, lapse, queue>>
  BY DEF Save
<1> QED
  BY <1>1, <1>2 DEF CounterTypes

(* The oldest snapshot of the channel is one, and the others stay.         *)
LEMMA OldestSnapshot ==
  ASSUME NEW q \in Seq(Snapshots), q # <<>>
  PROVE  /\ Head(q) = q[1] /\ Len(q) \in Nat /\ 1 <= Len(q)
         /\ Head(q) \in Snapshots
         /\ Tail(q) \in Seq(Snapshots) /\ Len(Tail(q)) = Len(q) - 1
         /\ \A i \in 1..Len(Tail(q)) : Tail(q)[i] = q[i + 1]
<1>1. Len(q) \in Nat /\ 1 <= Len(q)
  BY SMT
<1>2. Head(q) = q[1] /\ q[1] \in Snapshots
  BY <1>1, SMT
<1> QED
  BY <1>1, <1>2, SMT

(* Every step keeps the types of the counter and what it depends on        *)
(* (metrics.rs:86-114, 336-372).                                           *)
LEMMA CounterTypesStep == CounterTypes /\ [Next]_vars => CounterTypes'
<1> SUFFICES ASSUME CounterTypes, [Next]_vars PROVE CounterTypes'
  OBVIOUS
<1> USE DEF history, database, process
<1>0. /\ clock \in Time /\ DayOf(clock) \in Days /\ MonthOf(clock) \in Months
      /\ 0 \in Time /\ 0 \in Days /\ 0 \in Months
  BY Calendar, Times DEF CounterTypes
<1>1. CASE Open
  BY <1>1 DEF Open, CounterTypes
<1>2. CASE Heal
  BY <1>2 DEF Heal, CounterTypes
<1>3. CASE MarkHealed
  <2>1. meta' \in Metas
    BY <1>3 DEF MarkHealed, CounterTypes, Metas
  <2> QED
    BY <1>3, <2>1 DEF MarkHealed, CounterTypes
<1>4. CASE Restore
  <2>1. Booked(meta.prev) \in Nat /\ Booked(meta.session) \in Nat
    BY BookedIsNat DEF CounterTypes, Metas
  <2> QED
    BY <1>4, <1>0, <2>1 DEF Restore, CounterTypes
<1>5. CASE NewMonth
  <2>1. [meta EXCEPT !.month = month] \in Metas
    BY DEF CounterTypes, Metas
  <2> QED
    BY <1>5, <2>1, SaveTypes DEF NewMonth
<1>6. CASE NewCounter
  <2>1. [meta EXCEPT !.session = 0] \in Metas
    BY DEF CounterTypes, Metas
  <2> QED
    BY <1>6, <2>1, SaveTypes DEF NewCounter
<1>7. CASE Seed
  BY <1>0, <1>7 DEF Seed, CounterTypes
<1>8. CASE Reconcile
  BY <1>8 DEF Reconcile, CounterTypes
<1>9. CASE MarkReconciled
  <2>1. meta' \in Metas
    BY <1>9 DEF MarkReconciled, CounterTypes, Metas
  <2> QED
    BY <1>0, <1>9, <2>1 DEF MarkReconciled, CounterTypes
<1>10. CASE Collect
  BY <1>10, <1>0 DEF Collect, CounterTypes
<1>11. CASE SavePrev
  <2>1. [meta EXCEPT !.prev = prevMonth] \in Metas
    BY DEF CounterTypes, Metas
  <2> QED
    BY <1>11, <2>1, SaveTypes DEF SavePrev
<1>12. CASE SaveMonth
  <2>1. [meta EXCEPT !.month = month] \in Metas
    BY DEF CounterTypes, Metas
  <2> QED
    BY <1>12, <2>1, SaveTypes DEF SaveMonth
<1>13. CASE SaveCounter
  <2>1. [meta EXCEPT !.session = 0] \in Metas
    BY DEF CounterTypes, Metas
  <2> QED
    BY <1>13, <2>1, SaveTypes DEF SaveCounter
<1>14. CASE Send
  <2>0. Booked(lapse) \in Nat
    BY LedgerAssumption, SMT DEF CounterTypes, Booked, None
  <2>1. session' \in Nat
    BY <1>14, <2>0 DEF Send, CounterTypes
  <2>2. [at |-> stamp, session |-> session'] \in Snapshots
    BY <2>1 DEF Snapshots, CounterTypes
  <2>3. queue' \in Seq(Snapshots)
    BY <1>14, <2>2 DEF Send, CounterTypes
  <2>4. lapse' = 0 /\ stamp' = 0 /\ UNCHANGED <<clock, peak, today, month, prevMonth, meta>>
    BY <1>14 DEF Send
  <2>5. 0 \in 0..Clamp
    BY LedgerAssumption, SMT
  <2> QED
    BY <1>0, <2>1, <2>3, <2>4, <2>5 DEF CounterTypes
<1>15. CASE Store
  <2>1. Head(queue).session \in Nat /\ queue' \in Seq(Snapshots)
    BY <1>15, OldestSnapshot DEF Store, CounterTypes, Snapshots
  <2>2. meta' = [meta EXCEPT !.session = Head(queue).session] \/ meta' = meta
    BY <1>15 DEF Store, InsertRaw
  <2>3. meta' \in Metas
    BY <2>1, <2>2 DEF CounterTypes, Metas
  <2>4. UNCHANGED <<clock, today, month, session, prevMonth, lapse, stamp, peak>>
    BY <1>15 DEF Store
  <2> QED
    BY <2>1, <2>3, <2>4 DEF CounterTypes
<1>16. CASE Crash
  <2>1. <<>> \in Seq(Snapshots)
    BY SMT
  <2> QED
    BY <1>0, <1>16, <2>1 DEF Crash, CounterTypes
<1>17. CASE Tick
  <2>1. clock' \in Time /\ peak' \in Time
    BY <1>17, LedgerAssumption, SMT DEF Tick, CounterTypes, Time
  <2>2. lapse' \in {None} \cup 0..Clamp
    BY <1>17, LedgerAssumption, SMT DEF Tick, Least, CounterTypes, None
  <2>3. UNCHANGED <<today, month, session, prevMonth, stamp, queue, meta>>
    BY <1>17 DEF Tick
  <2> QED
    BY <2>1, <2>2, <2>3 DEF CounterTypes
<1>18. CASE SetBack
  <2>1. clock' \in Time
    BY <1>18, LedgerAssumption, SMT DEF SetBack, CounterTypes, Time
  <2>2. UNCHANGED <<peak, stamp, today, month, session, prevMonth, lapse, queue, meta>>
    BY <1>18 DEF SetBack
  <2> QED
    BY <2>1, <2>2 DEF CounterTypes
<1>19. CASE UNCHANGED vars
  BY <1>19 DEF vars, CounterTypes
<1> QED
  BY <1>1, <1>2, <1>3, <1>4, <1>5, <1>6, <1>7, <1>8, <1>9, <1>10, <1>11, <1>12,
     <1>13, <1>14, <1>15, <1>16, <1>17, <1>18, <1>19 DEF Next

-----------------------------------------------------------------------------
(* The times of a day.                                                     *)
DayTimes(d) == {t \in Time : DayOf(t) = d}

(* A time without a row has nothing: the rows have what the times have.    *)
LEMMA RowsOfADay ==
  ASSUME NEW r \in RawTables, NEW S \in SUBSET Time
  PROVE  /\ Total(r, {t \in S : r[t] # None}) = Total(r, S)
         /\ Total(r, S) \in Nat /\ CanSum(r, S)
<1>1. CanSum(r, S) /\ Total(r, S) \in Nat
  BY TablesCanBeSummed, TotalCounts
<1> DEFINE Empty == {t \in S : r[t] = None}
<1>2. S \cap Empty = Empty /\ S \ Empty = {t \in S : r[t] # None}
  OBVIOUS
<1>3. Total(r, Empty) = 0
  <2>1. Empty \in SUBSET S
    OBVIOUS
  <2>2. CanSum(r, Empty)
    BY <1>1, <2>1, TotalCounts
  <2>3. \A t \in Empty : Booked(r[t]) = 0
    BY DEF Booked
  <2> HIDE DEF Empty
  <2> QED
    BY <2>2, <2>3, TotalOfNothing
<1> DEFINE Full == {t \in S : r[t] # None}
<1> HIDE DEF Empty, Full
<1>4. /\ Total(r, S) = Total(r, S \cap Empty) + Total(r, S \ Empty)
      /\ Total(r, S \ Empty) \in Nat
  BY <1>1, TotalSplits
<1>5. Total(r, S) = 0 + Total(r, Full) /\ Total(r, Full) \in Nat
  BY <1>2, <1>3, <1>4, Zenon DEF Full
<1>6. Total(r, S) = Total(r, Full)
  BY <1>5, SMT
<1> QED
  BY <1>1, <1>6 DEF Full

(* What backfill_energy_daily would find for a day.                        *)
LEMMA SeededIs ==
  ASSUME raw \in RawTables, NEW d \in Days
  PROVE  /\ Total(raw, RowsOfDay(d)) = Total(raw, DayTimes(d))
         /\ Total(raw, DayTimes(d)) \in Nat /\ CanSum(raw, DayTimes(d))
         /\ RowsOfDay(d) = {} => Total(raw, DayTimes(d)) = 0
<1>1. DayTimes(d) \in SUBSET Time
  BY DEF DayTimes
<1>2. RowsOfDay(d) = {t \in DayTimes(d) : raw[t] # None}
  BY DEF RowsOfDay, Rows, DayTimes
<1>3. /\ Total(raw, RowsOfDay(d)) = Total(raw, DayTimes(d))
      /\ Total(raw, DayTimes(d)) \in Nat /\ CanSum(raw, DayTimes(d))
  BY <1>1, <1>2, RowsOfADay, Zenon
<1> QED
  BY <1>3, TotalOfNone, Zenon

-----------------------------------------------------------------------------
(* A prune keeps the rows that it does not remove.                         *)
LEMMA PrunedTable ==
  ASSUME NEW r \in RawTables, NEW cutoff
  PROVE  /\ Pruned(r, cutoff) \in RawTables
         /\ \A t \in Time : Pruned(r, cutoff)[t] = IF t < cutoff THEN None ELSE r[t]
BY DEF Pruned, RawTables

(* The two outcomes of insert_raw for a snapshot.                          *)
Booking(s, cutoff) ==
  /\ raw' = Pruned([raw EXCEPT ![s.at] = Interval(s.at)], cutoff)
  /\ daily' = IF Interval(s.at) = 0 THEN daily
              ELSE [daily EXCEPT ![DayOf(clock)] = Booked(@) + Interval(s.at)]
  /\ meta' = [meta EXCEPT !.session = s.session]
  /\ strayed' = (strayed \/ DayOf(s.at) # DayOf(clock))
  /\ spoiled' = (spoiled \/ MonthOf(s.at) < meta.month)

Failing(cutoff) == raw' = Pruned(raw, cutoff) /\ UNCHANGED <<daily, meta, strayed, spoiled>>

(* Storing a snapshot has one of the two, for a cutoff of 0 or of a        *)
(* retention.                                                              *)
LEMMA StoreOutcomes ==
  ASSUME CounterTypes, Store
  PROVE  \E s \in Snapshots, cutoff \in Time :
           /\ s = Head(queue) /\ (cutoff = 0 \/ cutoff = s.at - Retention)
           /\ Booking(s, cutoff) \/ Failing(cutoff)
<1> DEFINE s == Head(queue)
<1>1. s \in Snapshots
  BY OldestSnapshot DEF Store, CounterTypes
<1>2. PICK cutoff \in {0, s.at - Retention} \cap Time : InsertRaw(s, cutoff)
  BY Zenon DEF Store
<1>3. Booking(s, cutoff) \/ Failing(cutoff)
  BY <1>2, Zenon DEF InsertRaw, Booking, Failing, Spoil
<1> HIDE DEF s
<1>4. cutoff \in Time /\ (cutoff = 0 \/ cutoff = s.at - Retention)
  BY <1>2
<1> QED
  BY <1>1, <1>3, <1>4, Zenon DEF s

(* Each step keeps the types of the tables (db.rs: heal, backfill,         *)
(* reconcile and insert_raw).                                              *)
LEMMA TableTypesStep == CounterTypes /\ TableTypes /\ [Next]_vars => TableTypes'
<1> SUFFICES ASSUME CounterTypes, TableTypes, [Next]_vars PROVE TableTypes'
  OBVIOUS
<1> USE DEF database
<1>1. CASE Heal
  <2>1. \A t \in Time : Gap(t) \in 0..Clamp
    <3> TAKE t \in Time
    <3> QED
      BY GapsAndIntervals, Intervals
  <2>2. raw' \in RawTables
    BY <1>1, <2>1 DEF Heal, RawTables, TableTypes
  <2>3. daily' = daily
    BY <1>1 DEF Heal
  <2> QED
    BY <2>2, <2>3 DEF TableTypes
<1>2. CASE Seed
  <2>1. \A d \in Days : Seeded(d) \in {None} \cup Nat
    BY SeededIs DEF Seeded, TableTypes, DayTables
  <2>2. daily' \in DayTables
    <3>1. CASE daily' = [d \in Days |-> Seeded(d)]
      BY <2>1, <3>1 DEF DayTables
    <3>2. CASE daily' = daily
      BY <3>2 DEF TableTypes
    <3> QED
      BY <1>2, <3>1, <3>2 DEF Seed
  <2>3. raw' = raw
    BY <1>2 DEF Seed
  <2> QED
    BY <2>2, <2>3 DEF TableTypes
<1>3. CASE Reconcile
  <2>1. raw' = raw
    BY <1>3 DEF Reconcile
  <2>2. CounterGap \in Int
    <3>1. DaysOfMonth(month) \in SUBSET Days
      BY DEF DaysOfMonth
    <3>2. Total(daily, DaysOfMonth(month)) \in Nat
      BY <3>1, TablesCanBeSummed, TotalCounts DEF TableTypes
    <3>3. session \in Nat
      BY DEF CounterTypes
    <3> QED
      BY <3>2, <3>3, SMT DEF CounterGap
  <2>3. daily' \in DayTables
    <3>1. CASE CounterGap > MinGap /\ daily' = [daily EXCEPT ![today] = Booked(@) + CounterGap]
      <4>1. Booked(daily[today]) \in Nat
        BY BookedIsNat DEF CounterTypes, TableTypes, DayTables
      <4>2. Booked(daily[today]) + CounterGap \in Nat
        BY <2>2, <3>1, <4>1, LedgerAssumption, SMT
      <4> QED
        BY <3>1, <4>2 DEF TableTypes, DayTables
    <3>2. CASE daily' = daily
      BY <3>2 DEF TableTypes
    <3> QED
      BY <1>3, <3>1, <3>2 DEF Reconcile
  <2> QED
    BY <2>1, <2>3 DEF TableTypes
<1>4. CASE Store
  <2>1. PICK s \in Snapshots, cutoff \in Time :
          s = Head(queue) /\ (Booking(s, cutoff) \/ Failing(cutoff))
    BY <1>4, StoreOutcomes, Zenon
  <2>2. s.at \in Time /\ Interval(s.at) \in 0..Clamp
    BY GapsAndIntervals, Intervals DEF Snapshots
  <2>3. CASE Booking(s, cutoff)
    <3>1. [raw EXCEPT ![s.at] = Interval(s.at)] \in RawTables
      BY <2>2 DEF TableTypes, RawTables
    <3>2. raw' \in RawTables
      BY <2>3, <3>1, PrunedTable DEF Booking
    <3>3. daily' \in DayTables
      <4>1. DayOf(clock) \in Days
        BY Calendar DEF CounterTypes
      <4>2. Booked(daily[DayOf(clock)]) \in Nat
        BY <4>1, BookedIsNat DEF TableTypes, DayTables
      <4>3. Booked(daily[DayOf(clock)]) + Interval(s.at) \in Nat
        BY <2>2, <4>2, LedgerAssumption, SMT
      <4> QED
        BY <2>3, <4>1, <4>3 DEF Booking, TableTypes, DayTables
    <3> QED
      BY <3>2, <3>3 DEF TableTypes
  <2>4. CASE Failing(cutoff)
    BY <2>4, PrunedTable DEF Failing, TableTypes
  <2> QED
    BY <2>1, <2>3, <2>4
<1>5. CASE UNCHANGED <<raw, daily>>
  BY <1>5 DEF TableTypes
<1>6. Heal \/ Seed \/ Reconcile \/ Store \/ UNCHANGED <<raw, daily>>
  BY DEF Next, Open, MarkHealed, Restore, NewMonth, NewCounter, Save, MarkReconciled,
         Collect, SavePrev, SaveMonth, SaveCounter, Send, Crash, Tick, SetBack, vars
<1> QED
  BY <1>1, <1>2, <1>3, <1>4, <1>5, <1>6

(* Where the process is, and what is counted for the bound.                *)
LEMMA FlagTypesStep == FlagTypes /\ [Next]_vars => FlagTypes'
<1> SUFFICES ASSUME FlagTypes, [Next]_vars PROVE FlagTypes'
  OBVIOUS
<1>1. faults' \in 0..MaxFaults
  <2>1. UNCHANGED faults \/ (faults < MaxFaults /\ faults' = faults + 1)
    BY Zenon DEF Next, Open, Heal, MarkHealed, Restore, NewMonth, NewCounter, Save, Seed, Reconcile,
           MarkReconciled, Collect, SavePrev, SaveMonth, SaveCounter, Send, Store, InsertRaw,
           Crash, Tick, SetBack, vars, Fine, Fault
  <2> QED
    BY <2>1, LedgerAssumption, SMT DEF FlagTypes
<1>2. pc' \in {"down", "heal", "healed", "restore", "newMonth", "newCounter", "seed",
               "reconcile", "reconciled", "ready", "savePrev", "saveMonth", "saveCounter", "send"}
  BY DEF FlagTypes, Next, Open, Heal, MarkHealed, Restore, NewMonth, NewCounter, Save, Seed,
         Reconcile, MarkReconciled, Collect, SavePrev, SaveMonth, SaveCounter, Send, Store,
         Crash, Tick, SetBack, vars, process, Goto
<1>3. strayed' \in BOOLEAN
  BY Zenon DEF FlagTypes, Next, Open, Heal, MarkHealed, Restore, NewMonth, NewCounter, Save, Seed,
         Reconcile, MarkReconciled, Collect, SavePrev, SaveMonth, SaveCounter, Send, Store,
         InsertRaw, Crash, Tick, SetBack, vars, history
<1>4. spoiled' \in BOOLEAN
  BY Zenon DEF FlagTypes, Next, Open, Heal, MarkHealed, Restore, NewMonth, NewCounter, Save, Seed,
         Reconcile, MarkReconciled, Collect, SavePrev, SaveMonth, SaveCounter, Send, Store,
         InsertRaw, Spoil, Crash, Tick, SetBack, vars, history
<1> QED
  BY <1>1, <1>2, <1>3, <1>4, Zenon DEF FlagTypes

(* What a fresh or an older database has is of these types.                *)
LEMMA TypesInit == Init => TypeOK
<1> SUFFICES ASSUME Init PROVE CounterTypes /\ TableTypes /\ FlagTypes
  BY TypesAre
<1>0. /\ StartAt \in Time /\ 0 \in Time /\ 0 \in Days /\ 0 \in Months
      /\ MonthOf(StartAt) \in Months /\ StartAt % MonthLength \in Nat
      /\ MaxFaults \in Nat /\ Clamp \in Nat
  <2>1. StartAt % MonthLength \in Nat
    BY LedgerAssumption, SMT
  <2> QED
    BY <2>1, Times, Calendar, LedgerAssumption
<1>1. meta \in Metas
  BY <1>0 DEF Init, Metas
<1>2. raw \in RawTables /\ daily \in DayTables
  BY <1>0 DEF Init, RawTables, DayTables
<1>3. queue \in Seq(Snapshots)
  BY SMT DEF Init
<1>4. CounterTypes
  BY <1>0, <1>1, <1>3 DEF Init, CounterTypes
<1>5. FlagTypes
  BY <1>0 DEF Init, FlagTypes
<1> QED
  BY <1>2, <1>4, <1>5 DEF TableTypes

(* So every step keeps the types.                                          *)
LEMMA TypesStep == TypeOK /\ [Next]_vars => TypeOK'
<1> SUFFICES ASSUME TypeOK, [Next]_vars PROVE TypeOK'
  OBVIOUS
<1>1. CounterTypes /\ TableTypes /\ FlagTypes
  BY TypesAre
<1>2. CounterTypes' /\ TableTypes' /\ FlagTypes'
  BY <1>1, CounterTypesStep, TableTypesStep, FlagTypesStep
<1> QED
  BY <1>2, Zenon DEF TypeOK, CounterTypes, TableTypes, FlagTypes, RawTables, DayTables,
     Snapshots, Metas

(* The types hold throughout, whatever fails: no total and no counter ever *)
(* becomes negative, and no interval is longer than the clamp              *)
(* (metrics.rs:86-132, 336-372; db.rs:298-344, 470-494).                   *)
THEOREM LedgerTypes == Spec => []TypeOK
  BY TypesInit, TypesStep, PTL DEF Spec

-----------------------------------------------------------------------------
(* What the phases of a start have done.  Until the reconciliation is      *)
(* marked as done no snapshot is stored: there are only older rows.        *)
StartUp == {"down", "heal", "healed", "restore", "newMonth", "newCounter", "seed",
            "reconcile", "reconciled"}

Phases ==
  /\ pc \in StartUp => queue = <<>>
  /\ ~strayed =>
       /\ ~meta.healed => /\ pc \in {"down", "heal", "healed"} /\ ~meta.reconciled
                          /\ \A d \in Days : daily[d] = None
       /\ pc \in {"heal", "healed"} => ~meta.healed
       /\ ~meta.reconciled => pc \in StartUp /\ Rows \subseteq LegacyRows
       /\ pc \in {"reconcile", "reconciled"} => ~meta.reconciled

(* No step makes up for what was lost.                                     *)
LEMMA FlagsStay == [Next]_vars => (~strayed' => ~strayed) /\ (~spoiled' => ~spoiled)
<1>1. [Next]_vars => (~strayed' => ~strayed)
  BY Zenon DEF Next, Open, Heal, MarkHealed, Restore, NewMonth, NewCounter, Save, Seed,
         Reconcile, MarkReconciled, Collect, SavePrev, SaveMonth, SaveCounter, Send, Store,
         InsertRaw, Crash, Tick, SetBack, vars, history
<1>2. [Next]_vars => (~spoiled' => ~spoiled)
  BY Zenon DEF Next, Open, Heal, MarkHealed, Restore, NewMonth, NewCounter, Save, Seed,
         Reconcile, MarkReconciled, Collect, SavePrev, SaveMonth, SaveCounter, Send, Store,
         InsertRaw, Spoil, Crash, Tick, SetBack, vars, history
<1> QED
  BY <1>1, <1>2

(* The statements of the turn of a month follow each other, and leave      *)
(* everything but the counter's keys alone.                                *)
Saving == NewMonth \/ NewCounter \/ SavePrev \/ SaveMonth \/ SaveCounter

(* What each of them leaves alone, and where the process goes.             *)
LEMMA SavedFlags ==
  ASSUME CounterTypes, Saving
  PROVE  /\ \/ pc = "newMonth" /\ pc' = "newCounter"
            \/ pc = "newCounter" /\ pc' = "seed"
            \/ pc = "savePrev" /\ pc' = "saveMonth"
            \/ pc = "saveMonth" /\ pc' = "saveCounter"
            \/ pc = "saveCounter" /\ pc' = "send"
         /\ meta'.healed = meta.healed /\ meta'.reconciled = meta.reconciled
         /\ UNCHANGED <<clock, today, month, session, prevMonth, lapse, stamp, queue,
                        raw, daily, peak, strayed>>
<1>1. ASSUME NEW from, NEW to, NEW saved, Save(from, to, saved),
             saved.healed = meta.healed, saved.reconciled = meta.reconciled
      PROVE  /\ pc = from /\ pc' = to
             /\ meta'.healed = meta.healed /\ meta'.reconciled = meta.reconciled
             /\ UNCHANGED <<clock, today, month, session, prevMonth, lapse, stamp, queue,
                            raw, daily, peak, strayed>>
  BY <1>1 DEF Save, Goto
<1>2. \A n : /\ [meta EXCEPT !.month = n].healed = meta.healed
             /\ [meta EXCEPT !.month = n].reconciled = meta.reconciled
             /\ [meta EXCEPT !.session = n].healed = meta.healed
             /\ [meta EXCEPT !.session = n].reconciled = meta.reconciled
             /\ [meta EXCEPT !.prev = n].healed = meta.healed
             /\ [meta EXCEPT !.prev = n].reconciled = meta.reconciled
  BY DEF CounterTypes, Metas
<1>3. CASE NewMonth
  BY <1>1, <1>2, <1>3, Zenon DEF NewMonth
<1>4. CASE NewCounter
  BY <1>1, <1>2, <1>4, Zenon DEF NewCounter
<1>5. CASE SavePrev
  BY <1>1, <1>2, <1>5, Zenon DEF SavePrev
<1>6. CASE SaveMonth
  BY <1>1, <1>2, <1>6, Zenon DEF SaveMonth
<1>7. CASE SaveCounter
  BY <1>1, <1>2, <1>7, Zenon DEF SaveCounter
<1> QED
  BY <1>3, <1>4, <1>5, <1>6, <1>7 DEF Saving

(* A start goes through its phases one by one.                             *)
LEMMA PhasesStep == TypeOK /\ TypeOK' /\ Phases /\ [Next]_vars => Phases'
<1> SUFFICES ASSUME TypeOK, TypeOK', Phases, [Next]_vars PROVE Phases'
  OBVIOUS
<1> USE DEF history, database, process, Goto
<1>0. /\ meta \in Metas /\ meta' \in Metas /\ CounterTypes
      /\ ~strayed' => ~strayed
  <2>1. CounterTypes /\ meta' \in Metas
    BY TypesAre, Zenon DEF TypeOK, Metas
  <2> QED
    BY <2>1, FlagsStay DEF CounterTypes
<1>a. Rows' = {t \in Time : raw'[t] # None}
  BY DEF Rows
<1>b. ASSUME UNCHANGED <<queue, raw, daily, strayed>>,
             meta'.healed = meta.healed, meta'.reconciled = meta.reconciled,
             pc' \in StartUp => pc \in StartUp,
             pc' \in {"heal", "healed"} => pc \in {"heal", "healed"} \/ ~meta.healed,
             pc' \in {"reconcile", "reconciled"} =>
               pc \in {"reconcile", "reconciled"} \/ ~meta.reconciled,
             pc \in {"down", "heal", "healed"} /\ ~meta.healed =>
               pc' \in {"down", "heal", "healed"},
             pc \in StartUp /\ ~meta.reconciled => pc' \in StartUp
      PROVE  Phases'
  <2>1. Rows' = Rows
    BY <1>b DEF Rows
  <2> QED
    BY <1>b, <2>1 DEF Phases
<1>1. CASE Open
  <2>1. /\ pc = "down" /\ pc' = IF meta.healed THEN "restore" ELSE "heal"
        /\ UNCHANGED <<queue, raw, daily, meta, strayed>>
    BY <1>1 DEF Open
  <2> QED
    BY <1>b, <2>1 DEF StartUp
<1>2. CASE Heal
  <2>1. pc = "heal" /\ pc' = "healed" /\ UNCHANGED <<queue, daily, meta, strayed>>
    BY <1>2 DEF Heal
  <2>2. Rows' \subseteq Rows
    BY <1>2 DEF Heal, Rows
  <2> QED
    BY <2>1, <2>2 DEF Phases, StartUp
<1>3. CASE MarkHealed
  <2>1. pc = "healed" /\ pc' = "restore" /\ UNCHANGED <<queue, raw, daily>>
    BY <1>3 DEF MarkHealed
  <2>2. meta' = [meta EXCEPT !.healed = TRUE] \/ strayed'
    BY <1>3 DEF MarkHealed
  <2>3. meta' = [meta EXCEPT !.healed = TRUE]
          => meta'.healed /\ meta'.reconciled = meta.reconciled
    BY <1>0 DEF Metas
  <2>4. Rows' = Rows
    BY <2>1 DEF Rows
  <2> QED
    BY <1>0, <2>1, <2>2, <2>3, <2>4 DEF Phases, StartUp
<1>4. CASE Restore
  <2>1. /\ pc = "restore" /\ pc' \in {"seed", "newMonth"}
        /\ UNCHANGED <<queue, raw, daily, meta, strayed>>
    BY <1>4 DEF Restore
  <2> QED
    BY <1>b, <2>1 DEF StartUp
<1>5. CASE Saving
  BY <1>0, <1>5, <1>b, SavedFlags DEF StartUp
<1>6. CASE Seed
  <2>1. /\ pc = "seed" /\ pc' = IF meta.reconciled THEN "ready" ELSE "reconcile"
        /\ UNCHANGED <<queue, raw, meta>>
    BY <1>6 DEF Seed
  <2>2. Rows' = Rows
    BY <2>1 DEF Rows
  <2> QED
    BY <1>0, <2>1, <2>2 DEF Phases, StartUp
<1>7. CASE Reconcile
  <2>1. pc = "reconcile" /\ pc' = "reconciled" /\ UNCHANGED <<queue, raw, meta, strayed>>
    BY <1>7 DEF Reconcile
  <2>2. Rows' = Rows
    BY <2>1 DEF Rows
  <2> QED
    BY <2>1, <2>2 DEF Phases, StartUp
<1>8. CASE MarkReconciled
  <2>1. pc = "reconciled" /\ pc' = "ready" /\ UNCHANGED <<queue, raw, daily>>
    BY <1>8 DEF MarkReconciled
  <2>2. meta' = [meta EXCEPT !.reconciled = TRUE] \/ strayed'
    BY <1>8 DEF MarkReconciled
  <2>3. meta' = [meta EXCEPT !.reconciled = TRUE]
          => meta'.reconciled /\ meta'.healed = meta.healed
    BY <1>0 DEF Metas
  <2> QED
    BY <1>0, <2>1, <2>2, <2>3 DEF Phases, StartUp
<1>9. CASE Collect
  <2>1. /\ pc = "ready" /\ pc' \in {"savePrev", "send"}
        /\ UNCHANGED <<queue, raw, daily, meta, strayed>>
    BY <1>9 DEF Collect
  <2> QED
    BY <1>b, <2>1 DEF StartUp
<1>10. CASE Send
  <2>1. pc = "send" /\ pc' = "ready" /\ UNCHANGED <<raw, daily, meta, strayed>>
    BY <1>10 DEF Send
  <2> QED
    BY <2>1 DEF Phases, StartUp
<1>11. CASE Store
  <2>1. queue # <<>> /\ pc' = pc
    BY <1>11 DEF Store
  <2>2. pc \notin StartUp
    BY <2>1 DEF Phases
  <2>3. meta' = [meta EXCEPT !.session = Head(queue).session] \/ meta' = meta
    BY <1>11 DEF Store, InsertRaw
  <2>4. meta'.healed = meta.healed /\ meta'.reconciled = meta.reconciled
    BY <1>0, <2>3 DEF Metas
  <2> QED
    BY <1>0, <2>1, <2>2, <2>4 DEF Phases, StartUp
<1>12. CASE Crash
  <2>1. pc' = "down" /\ queue' = <<>> /\ UNCHANGED <<raw, daily, meta, strayed>>
    BY <1>12 DEF Crash
  <2>2. Rows' = Rows
    BY <2>1 DEF Rows
  <2> QED
    BY <2>1, <2>2 DEF Phases, StartUp
<1>13. CASE Tick
  <2>1. UNCHANGED <<pc, queue, raw, daily, meta, strayed>>
    BY <1>13 DEF Tick
  <2> QED
    BY <1>b, <2>1
<1>14. CASE SetBack
  <2>1. UNCHANGED <<pc, queue, raw, daily, meta, strayed>>
    BY <1>14 DEF SetBack
  <2> QED
    BY <1>b, <2>1
<1>15. CASE UNCHANGED vars
  <2>1. UNCHANGED <<pc, queue, raw, daily, meta, strayed>>
    BY <1>15 DEF vars
  <2> QED
    BY <1>b, <2>1
<1> QED
  BY <1>1, <1>2, <1>3, <1>4, <1>5, <1>6, <1>7, <1>8, <1>9, <1>10, <1>11, <1>12,
     <1>13, <1>14, <1>15 DEF Next, Saving

-----------------------------------------------------------------------------
(* The times that a row may still be stored for: those of the snapshots in *)
(* the channel, that of the one which is being made, and all from now on.  *)
Collecting == {"savePrev", "saveMonth", "saveCounter", "send"}

Coming(u) ==
  \/ clock <= u
  \/ pc \in Collecting /\ u = stamp
  \/ \E i \in 1..Len(queue) : u = queue[i].at

(* Unless the clock is set back, they come in order, and after all rows.   *)
InOrder ==
  /\ clock = peak /\ StartAt <= clock
  /\ pc \in Collecting => StartAt <= stamp /\ stamp <= clock
  /\ \A i \in 1..Len(queue) :
       /\ StartAt <= queue[i].at /\ queue[i].at <= clock
       /\ pc \in Collecting => queue[i].at <= stamp
  /\ \A i, j \in 1..Len(queue) : i <= j => queue[i].at <= queue[j].at

AfterAllRows == \A t \in Rows, u \in Time : Coming(u) => t <= u

Ordered == ~spoiled => InOrder /\ AfterAllRows

(* A snapshot more is the last one.                                        *)
LEMMA OneSnapshotMore ==
  ASSUME NEW q \in Seq(Snapshots), NEW s \in Snapshots
  PROVE  /\ Len(Append(q, s)) = Len(q) + 1 /\ Len(q) \in Nat
         /\ \A i \in 1..Len(Append(q, s)) :
              \/ i \in 1..Len(q) /\ Append(q, s)[i] = q[i]
              \/ i = Len(q) + 1 /\ Append(q, s)[i] = s
BY SMT

(* Numbers of what is in the channel.                                      *)
LEMMA SnapshotTimes ==
  ASSUME CounterTypes
  PROVE  /\ clock \in Nat /\ stamp \in Nat /\ peak \in Nat /\ StartAt \in Nat /\ Len(queue) \in Nat
         /\ \A i \in 1..Len(queue) : queue[i] \in Snapshots /\ queue[i].at \in Nat
<1>1. \A i \in 1..Len(queue) : queue[i] \in Snapshots
  BY DEF CounterTypes
<1>2. \A i \in 1..Len(queue) : queue[i].at \in Nat
  BY <1>1, Times DEF Snapshots
<1>3. Len(queue) \in Nat
  BY SMT DEF CounterTypes
<1> QED
  BY <1>1, <1>2, <1>3, Times DEF CounterTypes

(* What a step of Send puts into the channel.                              *)
LEMMA SentIs ==
  ASSUME CounterTypes, CounterTypes', Send
  PROVE  \E s \in Snapshots : s.at = stamp /\ s.session = session' /\ queue' = Append(queue, s)
<1> DEFINE s == [at |-> stamp, session |-> session']
<1>1. s \in Snapshots
  BY DEF Snapshots, CounterTypes
<1> QED
  BY <1>1 DEF Send

(* No time comes that was not to come, unless the clock is set back.       *)
LEMMA ComingStays ==
  ASSUME CounterTypes, CounterTypes', [Next]_vars, ~SetBack, NEW u \in Time, Coming(u)'
  PROVE  Coming(u)
<1> USE DEF history, database, process, Goto, Collecting
<1>0. clock \in Nat /\ u \in Nat
  BY Times DEF CounterTypes
<1>a. ASSUME UNCHANGED <<clock, stamp, queue>>, pc' \in Collecting => pc \in Collecting
      PROVE  Coming(u)
  BY <1>a DEF Coming
<1>1. CASE Open \/ Heal \/ MarkHealed \/ Restore \/ Seed \/ Reconcile \/ UNCHANGED vars
  <2>1. UNCHANGED <<clock, stamp, queue>>
    BY <1>1 DEF Open, Heal, MarkHealed, Restore, Seed, Reconcile, vars
  <2>2. pc' \in Collecting => pc \in Collecting
    BY <1>1 DEF Open, Heal, MarkHealed, Restore, Seed, Reconcile, vars
  <2> QED
    BY <1>a, <2>1, <2>2
<1>2. CASE Saving
  <2>1. /\ UNCHANGED <<clock, stamp, queue>>
        /\ pc' \in Collecting => pc \in Collecting
    BY <1>2, SavedFlags
  <2> QED
    BY <1>a, <2>1
<1>3. CASE MarkReconciled
  <2>1. UNCHANGED <<clock, stamp, queue>> /\ pc' = "ready"
    BY <1>3 DEF MarkReconciled
  <2> QED
    BY <1>a, <2>1
<1>4. CASE Collect
  <2>1. UNCHANGED <<clock, queue>> /\ stamp' = clock
    BY <1>4 DEF Collect
  <2>2. CASE u = clock
    BY <1>0, <2>2, SMT DEF Coming
  <2> QED
    BY <2>1, <2>2 DEF Coming
<1>5. CASE Send
  <2>1. PICK s \in Snapshots : s.at = stamp /\ queue' = Append(queue, s)
    BY <1>5, SentIs
  <2>2. UNCHANGED clock /\ pc' = "ready" /\ pc = "send"
    BY <1>5 DEF Send
  <2>3. CASE \E i \in 1..Len(queue') : u = queue'[i].at
    <3>1. PICK i \in 1..Len(Append(queue, s)) : u = Append(queue, s)[i].at
      BY <2>1, <2>3
    <3>2. (i \in 1..Len(queue) /\ Append(queue, s)[i] = queue[i]) \/ Append(queue, s)[i] = s
      BY OneSnapshotMore DEF CounterTypes
    <3> QED
      BY <2>1, <2>2, <3>1, <3>2 DEF Coming
  <2> QED
    BY <2>2, <2>3 DEF Coming
<1>6. CASE Store
  <2>1. UNCHANGED <<clock, pc, stamp>> /\ queue # <<>> /\ queue' = Tail(queue)
    BY <1>6 DEF Store
  <2>2. CASE \E i \in 1..Len(queue') : u = queue'[i].at
    <3>1. PICK i \in 1..Len(Tail(queue)) : u = Tail(queue)[i].at
      BY <2>1, <2>2
    <3>2. Tail(queue)[i] = queue[i + 1] /\ i + 1 \in 1..Len(queue)
      BY <2>1, OldestSnapshot DEF CounterTypes
    <3> QED
      BY <3>1, <3>2 DEF Coming
  <2> QED
    BY <2>1, <2>2 DEF Coming
<1>7. CASE Crash
  <2>1. queue' = <<>> /\ pc' = "down" /\ UNCHANGED clock
    BY <1>7 DEF Crash
  <2>2. ~\E i \in 1..Len(queue') : u = queue'[i].at
    BY <2>1, SMT
  <2> QED
    BY <2>1, <2>2 DEF Coming
<1>8. CASE Tick
  <2>1. clock' = clock + 1 /\ UNCHANGED <<pc, stamp, queue>>
    BY <1>8 DEF Tick
  <2>2. clock + 1 <= u => clock <= u
    BY <1>0
  <2> QED
    BY <2>1, <2>2 DEF Coming
<1> QED
  BY <1>1, <1>2, <1>3, <1>4, <1>5, <1>6, <1>7, <1>8 DEF Next, Saving

(* A row that is stored is of the oldest snapshot.                         *)
LEMMA StoredRows ==
  ASSUME CounterTypes, TableTypes, Store
  PROVE  Rows' \subseteq Rows \cup {Head(queue).at}
<1>1. PICK s \in Snapshots, cutoff \in Time :
        s = Head(queue) /\ (Booking(s, cutoff) \/ Failing(cutoff))
  BY StoreOutcomes, Zenon
<1>2. s.at \in Time /\ Interval(s.at) \in 0..Clamp
  BY GapsAndIntervals, Intervals DEF Snapshots
<1> DEFINE stored == [raw EXCEPT ![s.at] = Interval(s.at)]
<1>3. stored \in RawTables /\ \A t \in Time \ {s.at} : stored[t] = raw[t]
  BY <1>2 DEF TableTypes, RawTables
<1>4. \A t \in Time \ {s.at} : raw'[t] \in {None, raw[t]}
  <2>1. CASE raw' = Pruned(stored, cutoff)
    <3> HIDE DEF stored
    <3> QED
      BY <1>3, <2>1, PrunedTable
  <2>2. CASE raw' = Pruned(raw, cutoff)
    BY <2>2, PrunedTable DEF TableTypes
  <2> QED
    BY <1>1, <2>1, <2>2 DEF Booking, Failing
<1> QED
  BY <1>1, <1>4 DEF Rows

(* The oldest snapshot comes before what comes after it.                   *)
LEMMA OldestIsFirst ==
  ASSUME CounterTypes, InOrder, Store
  PROVE  /\ Head(queue).at \in Time /\ StartAt <= Head(queue).at /\ Head(queue).at <= clock
         /\ Coming(Head(queue).at)
         /\ \A u \in Time : Coming(u)' => Head(queue).at <= u
<1> DEFINE s == Head(queue)
<1>1. /\ queue # <<>> /\ queue' = Tail(queue)
      /\ UNCHANGED <<clock, pc, stamp>>
  BY DEF Store
<1>2. s = queue[1] /\ 1 \in 1..Len(queue) /\ s \in Snapshots
  BY <1>1, OldestSnapshot DEF CounterTypes
<1>3. s.at \in Time /\ s.at \in Nat /\ clock \in Nat
  BY <1>2, Times DEF Snapshots, CounterTypes
<1>4. /\ StartAt <= s.at /\ s.at <= clock
      /\ pc \in Collecting => s.at <= stamp
      /\ \A j \in 1..Len(queue) : 1 <= j => s.at <= queue[j].at
  BY <1>2, Zenon DEF InOrder
<1>5. ASSUME NEW u \in Time, Coming(u)' PROVE s.at <= u
  <2>1. CASE clock <= u
    BY <1>3, <1>4, <2>1, Times, SMT
  <2>2. CASE pc \in Collecting /\ u = stamp
    BY <1>4, <2>2
  <2>3. CASE \E i \in 1..Len(Tail(queue)) : u = Tail(queue)[i].at
    <3>1. PICK i \in 1..Len(Tail(queue)) : u = Tail(queue)[i].at
      BY <2>3
    <3>2. Tail(queue)[i] = queue[i + 1] /\ i + 1 \in 1..Len(queue) /\ 1 <= i + 1
      BY <1>1, OldestSnapshot DEF CounterTypes
    <3> QED
      BY <1>4, <3>1, <3>2
  <2> QED
    BY <1>1, <1>5, <2>1, <2>2, <2>3 DEF Coming
<1>6. Coming(s.at)
  BY <1>2 DEF Coming
<1> QED
  BY <1>3, <1>4, <1>5, <1>6

(* The order stays while the clock is not set back (metrics.rs:300-372;    *)
(* the channel is in order).                                               *)
LEMMA InOrderStep ==
  ASSUME CounterTypes, CounterTypes', InOrder, [Next]_vars, ~SetBack
  PROVE  InOrder'
<1> USE DEF history, database, process, Goto, Collecting
<1>0. /\ clock \in Nat /\ stamp \in Nat /\ peak \in Nat /\ StartAt \in Nat /\ Len(queue) \in Nat
      /\ clock = peak /\ StartAt <= clock
      /\ \A i \in 1..Len(queue) : queue[i].at \in Nat
  BY SnapshotTimes DEF InOrder
<1>a. ASSUME UNCHANGED <<clock, peak, stamp, queue>>, pc' \in Collecting => pc \in Collecting
      PROVE  InOrder'
  BY <1>a DEF InOrder
<1>1. CASE Open \/ Heal \/ MarkHealed \/ Restore \/ Seed \/ Reconcile \/ UNCHANGED vars
  <2>1. UNCHANGED <<clock, peak, stamp, queue>>
    BY <1>1 DEF Open, Heal, MarkHealed, Restore, Seed, Reconcile, vars
  <2>2. pc' \in Collecting => pc \in Collecting
    BY <1>1 DEF Open, Heal, MarkHealed, Restore, Seed, Reconcile, vars
  <2> QED
    BY <1>a, <2>1, <2>2
<1>2. CASE Saving
  <2>1. /\ UNCHANGED <<clock, peak, stamp, queue>>
        /\ pc' \in Collecting => pc \in Collecting
    BY <1>2, SavedFlags
  <2> QED
    BY <1>a, <2>1
<1>3. CASE MarkReconciled
  <2>1. UNCHANGED <<clock, peak, stamp, queue>> /\ pc' = "ready"
    BY <1>3 DEF MarkReconciled
  <2> QED
    BY <1>a, <2>1
<1>4. CASE Collect
  <2>1. UNCHANGED <<clock, peak, queue>> /\ stamp' = clock
    BY <1>4 DEF Collect
  <2>2. StartAt <= stamp' /\ stamp' <= clock'
    BY <1>0, <2>1
  <2> QED
    BY <2>1, <2>2 DEF InOrder
<1>5. CASE Send
  <2>1. PICK s \in Snapshots : s.at = stamp /\ queue' = Append(queue, s)
    BY <1>5, SentIs
  <2>2. UNCHANGED <<clock, peak>> /\ pc' = "ready" /\ pc = "send"
    BY <1>5 DEF Send
  <2>3. /\ Len(queue') = Len(queue) + 1
        /\ \A i \in 1..Len(queue') : \/ i \in 1..Len(queue) /\ queue'[i] = queue[i]
                                     \/ i = Len(queue) + 1 /\ queue'[i] = s
    BY <2>1, OneSnapshotMore DEF CounterTypes
  <2>4. StartAt <= stamp /\ stamp <= clock /\ \A i \in 1..Len(queue) : queue[i].at <= stamp
    BY <2>2 DEF InOrder
  <2>5. \A i \in 1..Len(queue') : StartAt <= queue'[i].at /\ queue'[i].at <= clock
    BY <2>1, <2>3, <2>4 DEF InOrder
  <2>6. ASSUME NEW i \in 1..Len(queue'), NEW j \in 1..Len(queue'), i <= j
        PROVE  queue'[i].at <= queue'[j].at
    <3>1. CASE j \in 1..Len(queue) /\ queue'[j] = queue[j]
      <4>1. i \in 1..Len(queue) /\ queue'[i] = queue[i]
        BY <1>0, <2>3, <2>6, <3>1, SMT
      <4> QED
        BY <2>6, <3>1, <4>1 DEF InOrder
    <3>2. CASE queue'[j] = s
      <4>1. queue'[i] = s \/ (i \in 1..Len(queue) /\ queue'[i] = queue[i])
        BY <2>3
      <4> QED
        BY <1>0, <2>1, <2>4, <3>2, <4>1
    <3> QED
      BY <2>3, <3>1, <3>2
  <2> QED
    BY <1>0, <2>2, <2>5, <2>6 DEF InOrder
<1>6. CASE Store
  <2>1. UNCHANGED <<clock, peak, pc, stamp>> /\ queue # <<>> /\ queue' = Tail(queue)
    BY <1>6 DEF Store
  <2>2. /\ Len(queue') = Len(queue) - 1
        /\ \A i \in 1..Len(queue') : queue'[i] = queue[i + 1]
    BY <2>1, OldestSnapshot DEF CounterTypes
  <2>3. \A i \in 1..Len(queue') : i + 1 \in 1..Len(queue)
    BY <1>0, <2>2, SMT
  <2>4. \A i \in 1..Len(queue') :
          /\ StartAt <= queue'[i].at /\ queue'[i].at <= clock
          /\ pc \in Collecting => queue'[i].at <= stamp
    BY <2>2, <2>3 DEF InOrder
  <2>5. ASSUME NEW i \in 1..Len(queue'), NEW j \in 1..Len(queue'), i <= j
        PROVE  queue'[i].at <= queue'[j].at
    <3>1. i + 1 <= j + 1
      BY <1>0, <2>2, <2>5, SMT
    <3> QED
      BY <2>2, <2>3, <3>1 DEF InOrder
  <2> QED
    BY <2>1, <2>4, <2>5 DEF InOrder
<1>7. CASE Crash
  <2>1. queue' = <<>> /\ pc' = "down" /\ UNCHANGED <<clock, peak>>
    BY <1>7 DEF Crash
  <2>2. Len(queue') = 0
    BY <2>1
  <2> QED
    BY <1>0, <2>1, <2>2 DEF InOrder
<1>8. CASE Tick
  <2>1. clock' = clock + 1 /\ UNCHANGED <<pc, stamp, queue>>
    BY <1>8 DEF Tick
  <2>2. peak' = clock'
    BY <1>0, <1>8, <2>1, SMT DEF Tick
  <2>3. \A n \in Nat : n <= clock => n <= clock + 1
    BY <1>0
  <2>4. StartAt <= clock + 1 /\ (pc \in Collecting => StartAt <= stamp /\ stamp <= clock + 1)
    BY <1>0, <2>3 DEF InOrder
  <2>5. \A i \in 1..Len(queue) :
          /\ StartAt <= queue[i].at /\ queue[i].at <= clock + 1
          /\ pc \in Collecting => queue[i].at <= stamp
    BY <1>0, <2>3 DEF InOrder
  <2> QED
    BY <2>1, <2>2, <2>4, <2>5 DEF InOrder
<1> QED
  BY <1>1, <1>2, <1>3, <1>4, <1>5, <1>6, <1>7, <1>8 DEF Next, Saving

(* And so rows are stored in order.                                        *)
LEMMA OrderedStep ==
  TypeOK /\ TypeOK' /\ Ordered /\ [Next]_vars => Ordered'
<1> SUFFICES ASSUME TypeOK, TypeOK', Ordered, [Next]_vars, ~spoiled'
             PROVE  InOrder' /\ AfterAllRows'
  BY DEF Ordered
<1>1. CounterTypes /\ TableTypes /\ CounterTypes'
  BY TypesAre, Zenon DEF TypeOK, CounterTypes, Snapshots, Metas
<1>2. InOrder /\ AfterAllRows
  BY FlagsStay DEF Ordered
<1>3. ~SetBack
  BY DEF SetBack
<1>4. InOrder'
  BY <1>1, <1>2, <1>3, InOrderStep
<1>5. ASSUME NEW t \in Rows', NEW u \in Time, Coming(u)' PROVE t <= u
  <2>1. Coming(u)
    BY <1>1, <1>3, <1>5, ComingStays
  <2>2. CASE t \in Rows
    BY <1>2, <2>1, <2>2 DEF AfterAllRows
  <2>3. CASE t \notin Rows
    <3>1. Store
      <4>1. Heal => Rows' \subseteq Rows
        BY DEF Heal, Rows
      <4>2. raw' = raw => Rows' = Rows
        BY DEF Rows
      <4>3. Heal \/ Store \/ raw' = raw
        BY DEF Next, Open, MarkHealed, Restore, NewMonth, NewCounter, Save, Seed, Reconcile,
           MarkReconciled, Collect, SavePrev, SaveMonth, SaveCounter, Send, Crash, Tick,
           SetBack, vars, database
      <4> QED
        BY <2>3, <4>1, <4>2, <4>3
    <3>2. t = Head(queue).at
      BY <1>1, <2>3, <3>1, StoredRows
    <3> QED
      BY <1>1, <1>2, <1>5, <3>1, <3>2, OldestIsFirst
  <2> QED
    BY <2>2, <2>3
<1> QED
  BY <1>4, <1>5 DEF AfterAllRows

-----------------------------------------------------------------------------
(* What the rows of a day have is in its ledger: always for a day that is  *)
(* after the upgrade, for an earlier one once it is seeded.                *)
Covered(d) == Total(raw, DayTimes(d)) <= Booked(daily[d])

Covers ==
  ~strayed => \A d \in Days :
    /\ d > DayOf(StartAt) => Covered(d)
    /\ d < DayOf(StartAt) /\ ~spoiled => Covered(d) \/ (Starting /\ daily[d] = None)

(* A row that is stored with its day adds to both what it stands for, and  *)
(* to no other day; one that replaces a row adds nothing.                  *)
LEMMA StoreBooks ==
  ASSUME CounterTypes, TableTypes, TableTypes', Store, ~strayed'
  PROVE  \E n \in Nat :
           /\ n <= Interval(Head(queue).at)
           /\ n = 0 => daily' = daily
           /\ n # 0 => daily' = [daily EXCEPT ![DayOf(clock)] = Booked(@) + n]
           /\ \A d \in Days : Total(raw', DayTimes(d))
                                <= Total(raw, DayTimes(d)) + (IF d = DayOf(clock) THEN n ELSE 0)
<1>1. PICK s \in Snapshots, cutoff \in Time :
        s = Head(queue) /\ (Booking(s, cutoff) \/ Failing(cutoff))
  BY StoreOutcomes, Zenon
<1>2. s.at \in Time /\ Interval(s.at) \in Nat /\ Interval(s.at) \in 0..Clamp
  <2>1. s.at \in Time /\ Interval(s.at) \in 0..Clamp
    BY GapsAndIntervals, Intervals DEF Snapshots
  <2> QED
    BY <2>1, LedgerAssumption, SMT
<1> DEFINE n == IF Booking(s, cutoff) THEN Interval(s.at) ELSE 0
           stored == [raw EXCEPT ![s.at] = Interval(s.at)]
<1>3. n \in Nat /\ n <= Interval(s.at) /\ (n # 0 => Booking(s, cutoff) /\ n = Interval(s.at))
  BY <1>2
<1>4. /\ n = 0 => daily' = daily
      /\ n # 0 => daily' = [daily EXCEPT ![DayOf(clock)] = Booked(@) + n]
  BY <1>1, Zenon DEF Booking, Failing
<1>5. \A t \in Time : Booked(raw[t]) \in Nat /\ Booked(raw'[t]) \in Nat
  BY TablesCanBeSummed DEF TableTypes, CanSum
<1>6. /\ stored \in RawTables /\ stored[s.at] = Interval(s.at)
      /\ \A t \in Time \ {s.at} : stored[t] = raw[t]
  BY <1>2 DEF TableTypes, RawTables
<1>7. \A t \in Time : raw'[t] \in {None, stored[t]} \/ (raw'[t] \in {None, raw[t]} /\ n = 0)
  <2>1. CASE Booking(s, cutoff)
    <3>1. raw' = Pruned(stored, cutoff)
      BY <2>1 DEF Booking
    <3> HIDE DEF stored
    <3> QED
      BY <1>6, <3>1, PrunedTable
  <2>2. CASE ~Booking(s, cutoff)
    <3>1. raw' = Pruned(raw, cutoff) /\ n = 0
      BY <1>1, <2>2 DEF Failing
    <3> QED
      BY <3>1, PrunedTable DEF TableTypes
  <2> QED
    BY <2>1, <2>2
<1>8. DayOf(s.at) = DayOf(clock) \/ n = 0
  BY <1>3 DEF Booking
<1>a. Booking(s, cutoff) => n = Interval(s.at)
  OBVIOUS
<1>b. ~Booking(s, cutoff) => raw' = Pruned(raw, cutoff)
  BY <1>1 DEF Failing
<1> HIDE DEF n, stored
<1>9. \A t \in Time \ {s.at} : Booked(raw'[t]) <= Booked(raw[t])
  <2> TAKE t \in Time \ {s.at}
  <2>1. raw'[t] = None \/ raw'[t] = raw[t]
    BY <1>6, <1>7
  <2>2. raw'[t] = None => Booked(raw'[t]) = 0
    BY DEF Booked
  <2> QED
    BY <1>5, <2>1, <2>2
<1>10. Booked(raw'[s.at]) <= Booked(raw[s.at]) + n
  <2>1. Booked(raw'[s.at]) = 0 \/ Booked(raw'[s.at]) = n \/ Booked(raw'[s.at]) = Booked(raw[s.at])
    <3>1. CASE raw'[s.at] = None
      BY <3>1 DEF Booked
    <3>2. CASE raw'[s.at] = raw[s.at]
      BY <3>2
    <3>3. CASE raw'[s.at] # None /\ raw'[s.at] # raw[s.at]
      <4>1. Booking(s, cutoff)
        BY <1>2, <1>b, <3>3, PrunedTable DEF TableTypes
      <4>2. raw'[s.at] = n
        BY <1>2, <1>6, <1>7, <1>a, <3>3, <4>1
      <4> QED
        BY <3>3, <4>2 DEF Booked
    <3> QED
      BY <3>1, <3>2, <3>3
  <2> QED
    BY <1>2, <1>3, <1>5, <2>1, SMT
<1>11. ASSUME NEW d \in Days
       PROVE  Total(raw', DayTimes(d))
                <= Total(raw, DayTimes(d)) + (IF d = DayOf(clock) THEN n ELSE 0)
  <2> DEFINE S == DayTimes(d)
  <2>1. /\ S \in SUBSET Time /\ CanSum(raw, S) /\ CanSum(raw', S)
        /\ Total(raw, S) \in Nat /\ Total(raw', S) \in Nat
    <3>1. S \in SUBSET Time
      BY DEF DayTimes
    <3>2. raw \in RawTables /\ raw' \in RawTables
      BY DEF TableTypes
    <3> HIDE DEF S
    <3> QED
      BY <3>1, <3>2, RowsOfADay
  <2>2. CASE s.at \in S /\ n # 0
    <3>1. d = DayOf(clock)
      BY <1>8, <2>2 DEF DayTimes
    <3>2. \A t \in S \ {s.at} : Booked(raw'[t]) <= Booked(raw[t])
      BY <1>9, <2>1
    <3> HIDE DEF S
    <3>3. Total(raw', S) <= Total(raw, S) + n
      BY <1>3, <1>10, <2>1, <2>2, <3>2, TotalGrowsByOne
    <3> QED
      BY <3>1, <3>3 DEF S
  <2>3. CASE ~(s.at \in S /\ n # 0)
    <3>1. \A t \in S : Booked(raw'[t]) <= Booked(raw[t])
      <4> TAKE t \in S
      <4>1. CASE t = s.at
        <5>1. n = 0 /\ Booked(raw[t]) \in Nat /\ Booked(raw'[t]) \in Nat
          BY <1>5, <2>1, <2>3, <4>1
        <5> QED
          BY <1>10, <4>1, <5>1
      <4>2. CASE t # s.at
        BY <1>9, <2>1, <4>2
      <4> QED
        BY <4>1, <4>2
    <3> HIDE DEF S
    <3>2. Total(raw', S) <= Total(raw, S)
      BY <2>1, <3>1, TotalAtMost
    <3>3. \A a, b, c \in Nat : a <= b => a <= b + c
      OBVIOUS
    <3>4. (IF d = DayOf(clock) THEN n ELSE 0) \in Nat
      BY <1>3
    <3>5. Total(raw', S) <= Total(raw, S) + (IF d = DayOf(clock) THEN n ELSE 0)
      BY <2>1, <3>2, <3>3, <3>4
    <3> QED
      BY <3>5 DEF S
  <2> QED
    BY <2>2, <2>3
<1> QED
  BY <1>1, <1>3, <1>4, <1>11, Zenon

(* Other than in a store, what is in the tables is kept or seeded.         *)
LEMMA OtherSteps ==
  ASSUME [Next]_vars
  PROVE  Heal \/ Seed \/ Reconcile \/ Store \/ UNCHANGED <<raw, daily>>
BY DEF Next, Open, MarkHealed, Restore, NewMonth, NewCounter, Save, MarkReconciled,
       Collect, SavePrev, SaveMonth, SaveCounter, Send, Crash, Tick, SetBack, vars, database

(* The ledger has all of a day when a row is stored, if it had before.     *)
LEMMA StoreCovers ==
  ASSUME CounterTypes, TableTypes, TableTypes', Store, ~strayed', NEW d \in Days, Covered(d)
  PROVE  Covered(d)'
<1>1. PICK n \in Nat :
        /\ n <= Interval(Head(queue).at)
        /\ n = 0 => daily' = daily
        /\ n # 0 => daily' = [daily EXCEPT ![DayOf(clock)] = Booked(@) + n]
        /\ \A e \in Days : Total(raw', DayTimes(e))
                             <= Total(raw, DayTimes(e)) + (IF e = DayOf(clock) THEN n ELSE 0)
  BY StoreBooks
<1>2. /\ Total(raw, DayTimes(d)) \in Nat /\ Total(raw', DayTimes(d)) \in Nat
      /\ Booked(daily[d]) \in Nat
  <2>1. DayTimes(d) \in SUBSET Time
    BY DEF DayTimes
  <2>2. raw \in RawTables /\ raw' \in RawTables
    BY DEF TableTypes
  <2> QED
    BY <2>1, <2>2, RowsOfADay, BookedIsNat DEF TableTypes, DayTables
<1>3. Booked(daily'[d]) = Booked(daily[d]) + (IF d = DayOf(clock) THEN n ELSE 0)
  <2>1. CASE n = 0
    BY <1>1, <1>2, <2>1
  <2>2. CASE n # 0 /\ d = DayOf(clock)
    <3>1. daily'[d] = Booked(daily[d]) + n
      BY <1>1, <2>2 DEF TableTypes, DayTables
    <3>2. Booked(daily[d]) + n \in Nat /\ Booked(daily[d]) + n # None
      BY <1>2 DEF None
    <3> QED
      BY <2>2, <3>1, <3>2, Zenon DEF Booked
  <2>3. CASE n # 0 /\ d # DayOf(clock)
    <3>1. daily'[d] = daily[d]
      BY <1>1, <2>3 DEF TableTypes, DayTables
    <3> QED
      BY <1>2, <2>3, <3>1
  <2> QED
    BY <2>1, <2>2, <2>3
<1> DEFINE a == Total(raw, DayTimes(d))
           b == Total(raw', DayTimes(d))
           c == Booked(daily[d])
           k == IF d = DayOf(clock) THEN n ELSE 0
<1>4. a \in Nat /\ b \in Nat /\ c \in Nat /\ k \in Nat /\ b <= a + k /\ a <= c
  BY <1>1, <1>2 DEF Covered
<1>5. Booked(daily'[d]) = c + k
  BY <1>3
<1> HIDE DEF a, b, c, k
<1>6. b <= c + k
  BY <1>4, SMT
<1> QED
  BY <1>5, <1>6 DEF Covered, DayTimes, b

(* Every step keeps the days covered (db.rs:298-344, 470-494, metrics.rs   *)
(* 116-137).                                                               *)
LEMMA CoversStep ==
  TypeOK /\ TypeOK' /\ Phases /\ Ordered /\ Covers /\ [Next]_vars => Covers'
<1> SUFFICES ASSUME TypeOK, TypeOK', Phases, Ordered, Covers, [Next]_vars, ~strayed',
                    NEW d \in Days
             PROVE  /\ d > DayOf(StartAt) => Covered(d)'
                    /\ d < DayOf(StartAt) /\ ~spoiled' => Covered(d)' \/ (Starting /\ daily[d] = None)'
  BY DEF Covers
<1>0. /\ CounterTypes /\ TableTypes /\ TableTypes'
      /\ raw \in RawTables /\ raw' \in RawTables /\ daily \in DayTables
      /\ ~strayed /\ (~spoiled' => ~spoiled)
  <2>1. CounterTypes /\ TableTypes
    BY TypesAre
  <2>2. TableTypes'
    BY Zenon DEF TypeOK, TableTypes, RawTables, DayTables
  <2> QED
    BY <2>1, <2>2, FlagsStay DEF TableTypes
<1>1. /\ d > DayOf(StartAt) => Covered(d)
      /\ d < DayOf(StartAt) /\ ~spoiled' => Covered(d) \/ (Starting /\ daily[d] = None)
  BY <1>0 DEF Covers
<1>2. /\ d \in Nat /\ DayOf(StartAt) \in Nat /\ DayOf(clock) \in Nat
      /\ Booked(daily[d]) \in Nat
      /\ Total(raw, DayTimes(d)) \in Nat /\ Total(raw', DayTimes(d)) \in Nat
  <2>1. DayTimes(d) \in SUBSET Time
    BY DEF DayTimes
  <2>2. Booked(daily[d]) \in Nat
    BY <1>0, BookedIsNat DEF DayTables
  <2>3. DayOf(StartAt) \in Nat /\ DayOf(clock) \in Nat /\ d \in Nat
    BY <1>0, Calendar, Times DEF CounterTypes
  <2> QED
    BY <1>0, <2>1, <2>2, <2>3, RowsOfADay
<1>3. ~spoiled' => DayOf(StartAt) <= DayOf(clock)
  <2>1. StartAt \in Nat /\ clock \in Nat
    BY <1>0, Times DEF CounterTypes
  <2> QED
    BY <1>0, <2>1, DaysPass DEF Ordered, InOrder
<1>4. CASE UNCHANGED <<raw, daily>>
  <2>1. Covered(d) => Covered(d)'
    BY <1>4 DEF Covered, DayTimes
  <2>2. Starting => Starting' \/ Seed
    BY DEF Starting, Next, Open, Heal, MarkHealed, Restore, NewMonth, NewCounter, Save,
       Reconcile, MarkReconciled, Collect, SavePrev, SaveMonth, SaveCounter, Send, Store,
       Crash, Tick, SetBack, vars, process, Goto
  <2>3. CASE Seed /\ d < DayOf(StartAt) /\ ~spoiled' /\ daily[d] = None
    <3>1. daily' = [e \in Days |-> Seeded(e)]
      BY <1>0, <2>3 DEF Seed
    <3>2. Seeded(d) = None /\ d # DayOf(clock)
      BY <1>2, <1>3, <1>4, <2>3, <3>1
    <3>3. Total(raw, RowsOfDay(d)) # None
      BY <1>0, <1>2, SeededIs DEF None
    <3>4. RowsOfDay(d) = {}
      BY <2>3, <3>2, <3>3 DEF Seeded
    <3>5. Total(raw, DayTimes(d)) = 0
      BY <1>0, <3>4, SeededIs
    <3>6. Covered(d)
      BY <1>2, <3>5 DEF Covered
    <3> QED
      BY <1>2, <2>1, <2>3, <3>6
  <2> QED
    BY <1>1, <1>4, <2>1, <2>2, <2>3
<1>5. CASE Heal
  <2>1. /\ pc = "heal" /\ pc' = "healed" /\ daily' = daily
        /\ raw' = [t \in Time |-> IF t \in Rows THEN Gap(t) ELSE None]
           \/ raw' = raw
    BY <1>5 DEF Heal, Goto
  <2>2. daily[d] = None /\ Rows \subseteq LegacyRows
    BY <1>0, <2>1 DEF Phases
  <2>3. ASSUME d > DayOf(StartAt) PROVE Covered(d)'
    <3>1. \A t \in DayTimes(d) : t \notin Rows
      <4> SUFFICES ASSUME NEW t \in Time, DayOf(t) = d, t \in Rows PROVE FALSE
        BY DEF DayTimes
      <4>1. t \in Nat /\ StartAt \in Nat /\ t <= StartAt
        BY <2>2, LedgerAssumption, Times
      <4>2. DayOf(t) <= DayOf(StartAt)
        BY <4>1, DaysPass
      <4> QED
        BY <1>2, <2>3, <4>2
    <3>2. \A t \in DayTimes(d) : Booked(raw'[t]) = 0
      BY <2>1, <3>1 DEF Rows, DayTimes, Booked
    <3>3. CanSum(raw', DayTimes(d))
      <4>1. DayTimes(d) \in SUBSET Time
        BY DEF DayTimes
      <4> QED
        BY <1>0, <4>1, RowsOfADay
    <3>4. Total(raw', DayTimes(d)) = 0
      BY <3>2, <3>3, TotalOfNothing
    <3> QED
      BY <1>2, <2>1, <3>4 DEF Covered, DayTimes
  <2> QED
    BY <2>1, <2>2, <2>3 DEF Starting
<1>6. CASE Seed
  <2>1. daily' = [e \in Days |-> Seeded(e)] /\ raw' = raw
    BY <1>0, <1>6 DEF Seed
  <2>2. daily'[d] = Seeded(d)
    BY <2>1
  <2>3. CASE d = DayOf(clock) \/ daily[d] # None
    <3>1. daily'[d] = daily[d]
      BY <2>2, <2>3 DEF Seeded
    <3>2. Covered(d) => Covered(d)'
      BY <2>1, <3>1 DEF Covered, DayTimes
    <3>3. d < DayOf(StartAt) /\ ~spoiled' => daily[d] # None
      BY <1>2, <1>3, <2>3
    <3> QED
      BY <1>1, <3>2, <3>3
  <2>4. CASE d # DayOf(clock) /\ daily[d] = None /\ RowsOfDay(d) = {}
    <3>1. daily'[d] = None /\ Total(raw, DayTimes(d)) = 0
      BY <1>0, <2>2, <2>4, SeededIs DEF Seeded
    <3> QED
      BY <2>1, <3>1 DEF Covered, DayTimes, Booked
  <2>5. CASE d # DayOf(clock) /\ daily[d] = None /\ RowsOfDay(d) # {}
    <3>1. daily'[d] = Total(raw, DayTimes(d))
      BY <1>0, <2>2, <2>5, SeededIs DEF Seeded
    <3>2. Booked(daily'[d]) = Total(raw, DayTimes(d))
      BY <1>2, <3>1 DEF Booked, None
    <3> QED
      BY <1>2, <2>1, <3>2 DEF Covered, DayTimes
  <2> QED
    BY <2>3, <2>4, <2>5
<1>7. CASE Reconcile
  <2>1. /\ pc = "reconcile" /\ raw' = raw
        /\ \/ CounterGap > MinGap /\ daily' = [daily EXCEPT ![today] = Booked(@) + CounterGap]
           \/ daily' = daily
    BY <1>7 DEF Reconcile
  <2>2. Booked(daily[d]) <= Booked(daily'[d])
    <3>1. CASE daily' = daily
      BY <1>2, <3>1
    <3>2. CASE CounterGap > MinGap /\ daily' = [daily EXCEPT ![today] = Booked(@) + CounterGap]
      <4>1. CounterGap \in Nat
        <5>1. DaysOfMonth(month) \in SUBSET Days
          BY DEF DaysOfMonth
        <5>2. Total(daily, DaysOfMonth(month)) \in Nat
          BY <1>0, <5>1, TablesCanBeSummed, TotalCounts
        <5>3. session \in Nat
          BY <1>0 DEF CounterTypes
        <5> QED
          BY <3>2, <5>2, <5>3, LedgerAssumption, SMT DEF CounterGap
      <4>2. CASE d = today
        <5>1. daily'[d] = Booked(daily[d]) + CounterGap
          BY <1>0, <3>2, <4>2 DEF DayTables
        <5> DEFINE c == Booked(daily[d])
                   g == CounterGap
        <5> HIDE DEF c, g
        <5>2. c \in Nat /\ g \in Nat /\ daily'[d] = c + g
          BY <1>2, <4>1, <5>1 DEF c, g
        <5>3. c + g \in Nat /\ c <= c + g /\ c + g # None
          BY <5>2, SMT DEF None
        <5>4. Booked(daily'[d]) = c + g
          BY <5>2, <5>3, Zenon DEF Booked
        <5> QED
          BY <5>3, <5>4 DEF c
      <4>3. CASE d # today
        <5>1. daily'[d] = daily[d]
          BY <1>0, <3>2, <4>3 DEF DayTables
        <5> QED
          BY <1>2, <5>1
      <4> QED
        BY <4>2, <4>3
    <3> QED
      BY <2>1, <3>1, <3>2
  <2>3. Covered(d) => Covered(d)'
    <3>1. Booked(daily'[d]) \in Nat
      BY <1>0, BookedIsNat DEF TableTypes, DayTables
    <3>2. \A a, b, c \in Nat : a <= b /\ b <= c => a <= c
      OBVIOUS
    <3> QED
      BY <1>2, <2>1, <2>2, <3>1, <3>2 DEF Covered, DayTimes
  <2> QED
    BY <1>1, <2>1, <2>3 DEF Starting
<1>8. CASE Store
  <2>1. Covered(d) => Covered(d)'
    BY <1>0, <1>8, StoreCovers
  <2>2. ASSUME d < DayOf(StartAt), ~spoiled', Starting, daily[d] = None
        PROVE  (Starting /\ daily[d] = None)'
    <3>1. d # DayOf(clock)
      BY <1>2, <1>3, <2>2
    <3>2. daily'[d] = daily[d]
      <4>1. PICK n \in Nat :
              /\ n = 0 => daily' = daily
              /\ n # 0 => daily' = [daily EXCEPT ![DayOf(clock)] = Booked(@) + n]
        BY <1>0, <1>8, StoreBooks, Zenon
      <4> QED
        BY <1>0, <3>1, <4>1 DEF DayTables
    <3>3. pc' = pc
      BY <1>8 DEF Store
    <3> QED
      BY <2>2, <3>2, <3>3 DEF Starting
  <2> QED
    BY <1>1, <2>1, <2>2
<1> QED
  BY <1>4, <1>5, <1>6, <1>7, <1>8, OtherSteps

-----------------------------------------------------------------------------
(* What a day has, or will have once it is seeded.                         *)
Has(r, dl, d) == IF dl[d] = None THEN Total(r, DayTimes(d)) ELSE dl[d]
Having(r, dl) == [d \in Days |-> Has(r, dl, d)]
Owed(days) == Total(Having(raw, daily), days)

(* It is at least what the day has.                                        *)
LEMMA HavingIs ==
  ASSUME NEW r \in RawTables, NEW dl \in DayTables
  PROVE  /\ CanSum(Having(r, dl), Days)
         /\ \A days \in SUBSET Days : /\ Total(Having(r, dl), days) \in Nat
                                      /\ CanSum(Having(r, dl), days)
         /\ \A d \in Days : /\ Has(r, dl, d) \in Nat /\ Booked(dl[d]) \in Nat
                            /\ Booked(Having(r, dl)[d]) = Has(r, dl, d)
                            /\ Booked(dl[d]) <= Has(r, dl, d)
<1>1. ASSUME NEW d \in Days
      PROVE  /\ Has(r, dl, d) \in Nat /\ Booked(dl[d]) \in Nat
             /\ Booked(Having(r, dl)[d]) = Has(r, dl, d)
             /\ Booked(dl[d]) <= Has(r, dl, d)
  <2>1. Total(r, DayTimes(d)) \in Nat
    <3>1. DayTimes(d) \in SUBSET Time
      BY DEF DayTimes
    <3> QED
      BY <3>1, RowsOfADay
  <2>2. dl[d] \in {None} \cup Nat /\ Booked(dl[d]) \in Nat
    BY BookedIsNat DEF DayTables
  <2>3. Has(r, dl, d) \in Nat
    BY <2>1, <2>2 DEF Has
  <2>4. Having(r, dl)[d] = Has(r, dl, d)
    BY DEF Having
  <2>5. Booked(Has(r, dl, d)) = Has(r, dl, d)
    BY <2>3 DEF Booked, None
  <2>6. Booked(dl[d]) <= Has(r, dl, d)
    BY <2>1, <2>2 DEF Has, Booked
  <2> QED
    BY <2>2, <2>3, <2>4, <2>5, <2>6
<1>2. CanSum(Having(r, dl), Days)
  BY <1>1, Calendar DEF CanSum
<1>3. \A days \in SUBSET Days : /\ Total(Having(r, dl), days) \in Nat
                                /\ CanSum(Having(r, dl), days)
  BY <1>2, TotalCounts
<1> QED
  BY <1>1, <1>2, <1>3

(* Before any day is booked, days have what their rows have.               *)
LEMMA HavingOfRows ==
  ASSUME NEW r \in RawTables, NEW dl \in DayTables, \A d \in Days : dl[d] = None,
         NEW days \in SUBSET Days
  PROVE  Total(Having(r, dl), days) = Total(r, {t \in Time : DayOf(t) \in days})
<1> DEFINE S == {t \in Time : DayOf(t) \in days}
           part == [t \in Time |-> DayOf(t)]
           v == Having(r, dl)
<1>1. S \in SUBSET Time
  OBVIOUS
<1>2. CanSum(r, S)
  <2> HIDE DEF S
  <2> QED
    BY <1>1, RowsOfADay
<1>3. IsFiniteSet(days)
  BY Calendar, FS_Subset
<1>4. \A t \in S : part[t] \in days
  OBVIOUS
<1>5. \A d \in days : v[d] = Total(r, {t \in S : part[t] = d})
  <2> TAKE d \in days
  <2>1. {t \in S : part[t] = d} = DayTimes(d)
    BY DEF DayTimes
  <2> HIDE DEF S, part
  <2> QED
    BY <2>1 DEF Having, Has
<1> HIDE DEF S, part, v
<1>6. Total(v, days) = Total(r, S)
  BY ONLY <1>2, <1>3, <1>4, <1>5, TotalOfParts
<1> QED
  BY <1>6 DEF S, v

-----------------------------------------------------------------------------
(* A set of naturals that has 0 and with each its successor has all.       *)
LEMMA AllNaturals ==
  ASSUME NEW S, S \subseteq Nat, 0 \in S, \A n \in S : n + 1 \in S
  PROVE  S = Nat
<1> SUFFICES ASSUME Nat \ S # {} PROVE FALSE
  OBVIOUS
<1>1. PICK x \in Nat \ S : \A y \in Nat \ S : x <= y
  BY LeastOf
<1>2. x - 1 \in Nat /\ x - 1 \notin Nat \ S
  BY <1>1
<1> QED
  BY <1>1, <1>2

(* Gaps between rows add up to no more than the time there was.            *)
LEMMA GapsAddUp ==
  ASSUME NEW R \in SUBSET Time, NEW r \in RawTables,
         \A t \in Time : r[t] = IF t \in R THEN Since({u \in R : u < t}, t) ELSE None,
         NEW c \in Nat
  PROVE  Total(r, {t \in Time : t < c}) <= c
<1> DEFINE Below(n) == {t \in Time : t < n}
           Last(u, n) == u \in R /\ u < n /\ Total(r, Below(n)) <= u
                           /\ \A w \in R : w < n => w <= u
           Fits(n) == \/ Total(r, Below(n)) = 0 /\ \A w \in R : ~(w < n)
                      \/ \E u \in R : Last(u, n)
           S == {n \in Nat : Fits(n)}
<1>0. \A n \in Nat : Below(n) \in SUBSET Time /\ CanSum(r, Below(n)) /\ Total(r, Below(n)) \in Nat
  <2> TAKE n \in Nat
  <2>1. Below(n) \in SUBSET Time
    OBVIOUS
  <2> HIDE DEF Below
  <2> QED
    BY <2>1, RowsOfADay
<1>a. (\A t \in Time : t \in Nat) /\ (\A u \in R : u \in Nat /\ u \in Time)
  BY Times
<1>b. \A n \in Time : Below(n + 1) = Below(n) \cup {n} /\ n \notin Below(n)
  <2>1. \A t, n \in Nat : (t < n + 1 <=> t < n \/ t = n) /\ ~(n < n)
    OBVIOUS
  <2> QED
    BY <1>a, <2>1
<1>1. 0 \in S
  <2>1. Below(0) = {}
    BY <1>a
  <2>2. \A w \in R : ~(w < 0)
    BY <1>a
  <2> QED
    BY <2>1, <2>2, TotalOfNone
<1>2. ASSUME NEW n \in Nat, Fits(n) PROVE Fits(n + 1)
  <2>1. CASE n \notin R
    <3>1. Total(r, Below(n + 1)) = Total(r, Below(n))
      <4>1. CASE n \notin Time
        <5>1. Below(n + 1) = Below(n)
          BY <1>a, <4>1
        <5> QED
          BY <5>1
      <4>2. CASE n \in Time
        <5>1. Below(n + 1) = Below(n) \cup {n} /\ n \notin Below(n)
          BY <1>b, <1>2, <4>2
        <5>2. Booked(r[n]) = 0
          BY <2>1, <4>2 DEF Booked
        <5> HIDE DEF Below
        <5>3. Total(r, Below(n) \cup {n}) = Total(r, Below(n)) + Booked(r[n])
          <6>1. Booked(r[n]) \in Nat /\ CanSum(r, Below(n))
            BY <1>0, <1>2, <5>2
          <6> QED
            BY <5>1, <6>1, TotalOfOneMore, Zenon
        <5> DEFINE a == Total(r, Below(n))
        <5>4. a \in Nat /\ Total(r, Below(n + 1)) = a + 0
          BY <1>0, <1>2, <5>1, <5>2, <5>3, Zenon
        <5> HIDE DEF a
        <5>5. Total(r, Below(n + 1)) = a
          BY <5>4, SMT
        <5> QED
          BY <5>5 DEF a
      <4> QED
        BY <4>1, <4>2
    <3>2. \A w \in R : w < n + 1 <=> w < n
      BY <1>2, <1>a, <2>1
    <3> HIDE DEF Below
    <3> QED
      BY <1>2, <3>1, <3>2
  <2>2. CASE n \in R
    <3>1. /\ Below(n + 1) = Below(n) \cup {n} /\ n \notin Below(n) /\ n \in Time
          /\ \A w \in R : w < n + 1 => w <= n
      <4>1. n \in Time
        BY <1>a, <2>2
      <4>2. Below(n + 1) = Below(n) \cup {n} /\ n \notin Below(n)
        BY <1>b, <1>2, <4>1
      <4>3. \A w \in R : w < n + 1 => w <= n
        BY <1>2, <1>a
      <4> QED
        BY <4>1, <4>2, <4>3
    <3>2. r[n] = Since({u \in R : u < n}, n)
      BY <2>2
    <3>3. Booked(r[n]) \in Nat /\ Booked(r[n]) = Since({u \in R : u < n}, n)
      <4>1. Since({u \in R : u < n}, n) \in 0..Clamp /\ Clamp \in Nat
        BY <3>1, Intervals, LedgerAssumption
      <4> QED
        BY <3>2, <4>1, SMT DEF Booked, None
    <3>4. Total(r, Below(n + 1)) = Total(r, Below(n)) + Booked(r[n])
      <4> HIDE DEF Below
      <4> QED
        BY <1>0, <3>1, <3>3, TotalOfOneMore
    <3>5. Total(r, Below(n + 1)) <= n
      <4>1. CASE Total(r, Below(n)) = 0 /\ \A w \in R : ~(w < n)
        <5>1. {u \in R : u < n} = {}
          BY <4>1
        <5>2. Booked(r[n]) = 0
          BY <3>3, <5>1 DEF Since
        <5> HIDE DEF Below
        <5> QED
          BY <3>4, <4>1, <5>2
      <4>2. CASE \E u \in R : Last(u, n)
        <5>1. PICK u \in R : Last(u, n)
          BY <4>2
        <5>2. u \in Nat /\ u \in {w \in R : w < n} /\ u <= n /\ {w \in R : w < n} \in SUBSET Time
          BY <1>2, <1>a, <5>1
        <5>3. Booked(r[n]) <= n - u
          BY <3>1, <3>3, <5>2, Intervals
        <5> DEFINE a == Total(r, Below(n))
                   b == Booked(r[n])
        <5>4. a \in Nat /\ b \in Nat /\ a <= u /\ b <= n - u /\ Total(r, Below(n + 1)) = a + b
          BY <1>0, <3>3, <3>4, <5>1, <5>3
        <5> HIDE DEF a, b, Below
        <5> QED
          BY <5>2, <5>4, SMT
      <4> HIDE DEF Last
      <4> QED
        BY <1>2, <4>1, <4>2
    <3> HIDE DEF Below
    <3>6. Last(n, n + 1)
      BY <2>2, <3>1, <3>5
    <3> QED
      BY <2>2, <3>6
  <2> QED
    BY <2>1, <2>2
<1> HIDE DEF Fits
<1>3. S = Nat
  <2>1. S \subseteq Nat /\ \A n \in S : n + 1 \in S
    BY <1>2
  <2> HIDE DEF S
  <2> QED
    BY <1>1, <2>1, AllNaturals
<1>4. Fits(c)
  BY <1>3
<1>5. Total(r, Below(c)) <= c
  <2>1. \A u \in R : u \in Nat
    BY <1>a
  <2> HIDE DEF Below
  <2> QED
    BY <1>0, <1>4, <2>1 DEF Fits
<1> QED
  BY <1>5

(* And so do those of any times of which no row is later.                  *)
LEMMA GapsFit ==
  ASSUME NEW R \in SUBSET Time, NEW r \in RawTables,
         \A t \in Time : r[t] = IF t \in R THEN Since({u \in R : u < t}, t) ELSE None,
         NEW c \in Nat, NEW T \in SUBSET Time, \A t \in T : t < c \/ r[t] = None
  PROVE  Total(r, T) <= c
<1> DEFINE Below == {t \in Time : t < c}
<1>1. CanSum(r, T) /\ CanSum(r, Below)
  <2>1. Below \in SUBSET Time
    OBVIOUS
  <2> HIDE DEF Below
  <2> QED
    BY <2>1, RowsOfADay
<1>2. Total(r, T \ Below) = 0
  <2>1. \A t \in T \ Below : Booked(r[t]) = 0
    BY DEF Booked
  <2>2. T \ Below \in SUBSET T
    OBVIOUS
  <2> HIDE DEF Below
  <2>3. CanSum(r, T \ Below)
    BY <1>1, <2>2, TotalCounts
  <2> QED
    BY <2>1, <2>3, TotalOfNothing
<1>3. Total(r, T \cap Below) <= Total(r, Below)
  <2>1. T \cap Below \in SUBSET Below
    OBVIOUS
  <2> HIDE DEF Below
  <2> QED
    BY <1>1, <2>1, TotalGrows
<1>4. Total(r, Below) <= c /\ Total(r, Below) \in Nat
  <2>1. Total(r, Below) <= c
    BY GapsAddUp
  <2>2. Below \in SUBSET Time
    OBVIOUS
  <2> HIDE DEF Below
  <2> QED
    BY <2>1, <2>2, RowsOfADay
<1> HIDE DEF Below
<1> DEFINE A == T \cap Below
           B == T \ Below
<1>5. /\ Total(r, A \cup B) = Total(r, A) + Total(r, B)
      /\ Total(r, A) \in Nat
  <2>1. A \in SUBSET T /\ B \in SUBSET T /\ A \cap B = {}
    OBVIOUS
  <2> HIDE DEF A, B
  <2>2. CanSum(r, A) /\ CanSum(r, B)
    BY <1>1, <2>1, TotalCounts
  <2> QED
    BY <2>1, <2>2, TotalAddsUp, Zenon
<1>6. A \cup B = T
  OBVIOUS
<1> DEFINE a == Total(r, A)
           b == Total(r, Below)
<1>7. a \in Nat /\ b \in Nat /\ a <= b /\ b <= c /\ Total(r, T) = a + 0
  BY <1>2, <1>3, <1>4, <1>5, <1>6
<1> HIDE DEF a, b
<1> QED
  BY <1>7, SMT

-----------------------------------------------------------------------------
(* What the starts until the reconciliation know of the time before this   *)
(* version: its counter, of the month in which it began, and days that     *)
(* hold no more than that month and the ones before it.                    *)
UpgradeMonth == MonthOf(StartAt)
Earlier == Days \ DaysOfMonth(UpgradeMonth)
Restored == {"newMonth", "newCounter", "seed", "reconcile"}
Clean == ~strayed /\ ~spoiled

(* The counter that is restored, if it is not zero, is that of the month   *)
(* of the upgrade.                                                         *)
OldCounter == Clean /\ ~meta.reconciled =>
  /\ pc # "newCounter" /\ meta.month # None /\ Booked(meta.session) > 0 =>
       meta.month = UpgradeMonth /\ meta.session = StartAt % MonthLength
  /\ pc \in Restored /\ session > 0 =>
       month = UpgradeMonth /\ session = StartAt % MonthLength
  /\ pc \in {"newMonth", "newCounter"} => session = 0

(* When the counter is reconciled with the days, those before today are    *)
(* seeded.                                                                 *)
SeedingDone == Clean /\ pc = "reconcile" =>
  /\ DayOf(StartAt) <= today /\ today <= DayOf(clock)
  /\ \A d \in Days : d # today => Has(raw, daily, d) = Booked(daily[d])

(* The clock, or the month that a start has read from it, is still that    *)
(* one.                                                                    *)
InUpgradeMonth == MonthOf(clock) = UpgradeMonth \/ (pc \in Restored /\ month = UpgradeMonth)

(* Until then the days hold nothing that is not older than this version,   *)
(* and those of earlier months nothing that is not older than its month.   *)
OwedBefore == Clean /\ ~meta.reconciled =>
  /\ Owed(Days) <= StartAt
  /\ InUpgradeMonth => Owed(Earlier) <= UpgradeMonth * MonthLength

(* All days and what a snapshot may still add fit into the time there was. *)
Elapsed == Clean =>
  \A t \in Time : Coming(t) => Owed(Days) + Since(Rows, t) <= t + Clamp

(* The steps that there are until the reconciliation is marked as done.    *)
Early == \/ Open \/ Heal \/ MarkHealed \/ Restore \/ NewMonth \/ NewCounter
         \/ Seed \/ Reconcile \/ Crash \/ Tick \/ UNCHANGED vars

(* A step before which the reconciliation was not marked, and after which  *)
(* it is not, is one of them.                                              *)
LEMMA EarlySteps ==
  ASSUME CounterTypes, Phases, [Next]_vars, Clean', ~meta'.reconciled
  PROVE  Clean /\ ~meta.reconciled /\ pc \in StartUp /\ Early
<1>0. Clean /\ meta \in Metas
  BY FlagsStay DEF Clean, CounterTypes
<1>1. ~meta.reconciled
  <2>1. CASE Saving
    BY <2>1, SavedFlags
  <2>2. CASE meta' = [meta EXCEPT !.healed = TRUE]
    BY <1>0, <2>2 DEF Metas
  <2>3. CASE meta' = [meta EXCEPT !.reconciled = TRUE]
    BY <1>0, <2>3 DEF Metas
  <2>4. CASE meta' = [meta EXCEPT !.session = Head(queue).session]
    BY <1>0, <2>4 DEF Metas
  <2>5. CASE meta' = meta
    BY <2>5
  <2> QED
    BY <2>1, <2>2, <2>3, <2>4, <2>5 DEF Next, Saving, Open, Heal, MarkHealed, Restore,
       Seed, Reconcile, MarkReconciled, Collect, Send, Store, InsertRaw, Crash, Tick,
       SetBack, vars, database
<1>2. pc \in StartUp /\ queue = <<>>
  BY <1>0, <1>1 DEF Phases, Clean
<1>3. ~MarkReconciled
  <2>1. SUFFICES ASSUME MarkReconciled PROVE FALSE
    OBVIOUS
  <2>2. meta' = [meta EXCEPT !.reconciled = TRUE]
    BY <2>1 DEF MarkReconciled, Clean
  <2> QED
    BY <1>0, <2>2 DEF Metas
<1>4. ~(Collect \/ SavePrev \/ SaveMonth \/ SaveCounter \/ Send)
  BY <1>2 DEF StartUp, Collect, SavePrev, SaveMonth, SaveCounter, Save, Send
<1>5. ~Store /\ ~SetBack
  BY <1>2 DEF Store, SetBack, Clean
<1> QED
  BY <1>0, <1>1, <1>2, <1>3, <1>4, <1>5, Zenon DEF Next, Early

(* A counter that is restored until then is the older version's, or zero.  *)
LEMMA OldCounterStep == CounterTypes /\ CounterTypes' /\ Phases /\ OldCounter /\ [Next]_vars => OldCounter'
<1> SUFFICES ASSUME CounterTypes, CounterTypes', Phases, OldCounter, [Next]_vars,
                    Clean', ~meta'.reconciled
             PROVE  /\ pc' # "newCounter" /\ meta'.month # None /\ Booked(meta'.session) > 0 =>
                         meta'.month = UpgradeMonth /\ meta'.session = StartAt % MonthLength
                    /\ pc' \in Restored /\ session' > 0 =>
                         month' = UpgradeMonth /\ session' = StartAt % MonthLength
                    /\ pc' \in {"newMonth", "newCounter"} => session' = 0
  BY DEF OldCounter, UpgradeMonth, MonthOf, Booked, Restored
<1> USE DEF process, database, Goto, Restored
<1>0. /\ Early /\ meta \in Metas /\ MonthOf(clock) \in Nat
      /\ pc # "newCounter" /\ meta.month # None /\ Booked(meta.session) > 0 =>
           meta.month = UpgradeMonth /\ meta.session = StartAt % MonthLength
      /\ pc \in Restored /\ session > 0 =>
           month = UpgradeMonth /\ session = StartAt % MonthLength
      /\ pc \in {"newMonth", "newCounter"} => session = 0
  <2>1. MonthOf(clock) \in Nat
    BY Calendar DEF CounterTypes
  <2> QED
    BY <2>1, EarlySteps DEF OldCounter, CounterTypes
<1>1. CASE Open \/ Heal \/ Reconcile
  <2>1. /\ UNCHANGED <<meta, session, month>>
        /\ pc # "newCounter" /\ pc' # "newCounter" /\ pc' \notin Restored
    BY <1>1 DEF Open, Heal, Reconcile
  <2> QED
    BY <1>0, <2>1
<1>2. CASE MarkHealed
  <2>1. /\ UNCHANGED <<session, month>> /\ pc = "healed" /\ pc' = "restore"
        /\ meta' = [meta EXCEPT !.healed = TRUE]
    BY <1>2 DEF MarkHealed, Clean
  <2>2. meta'.month = meta.month /\ meta'.session = meta.session
    BY <1>0, <2>1 DEF Metas
  <2> QED
    BY <1>0, <2>1, <2>2
<1>3. CASE Restore
  <2>1. /\ pc = "restore" /\ pc' \in {"seed", "newMonth"} /\ meta' = meta
        /\ month' = MonthOf(clock)
        /\ \/ meta.month = MonthOf(clock) /\ session' = Booked(meta.session) /\ pc' = "seed"
           \/ session' = 0
    BY <1>3 DEF Restore
  <2>2. CASE session' = 0
    BY <1>0, <2>1, <2>2, SMT
  <2>3. CASE meta.month = MonthOf(clock) /\ session' = Booked(meta.session) /\ pc' = "seed"
    <3>1. meta.month # None
      BY <1>0, <2>3 DEF None
    <3>2. session' > 0 => session' = meta.session
      BY <2>3 DEF Booked
    <3> QED
      BY <1>0, <2>1, <2>3, <3>1, <3>2
  <2> QED
    BY <2>1, <2>2, <2>3
<1>4. CASE NewMonth
  <2>1. /\ pc = "newMonth" /\ pc' = "newCounter" /\ UNCHANGED <<session, month>>
    BY <1>4 DEF NewMonth, Save
  <2> QED
    BY <1>0, <2>1
<1>5. CASE NewCounter
  <2>1. /\ pc = "newCounter" /\ pc' = "seed" /\ UNCHANGED <<session, month>>
        /\ meta' = [meta EXCEPT !.session = 0]
    BY <1>5 DEF NewCounter, Save, Clean
  <2>2. Booked(meta'.session) = 0
    BY <1>0, <2>1 DEF Metas, Booked
  <2> QED
    BY <1>0, <2>1, <2>2
<1>6. CASE Seed
  <2>1. /\ pc = "seed" /\ pc' \in {"ready", "reconcile"} /\ UNCHANGED <<meta, session, month>>
    BY <1>6 DEF Seed
  <2> QED
    BY <1>0, <2>1
<1>7. CASE Crash
  <2>1. pc # "newCounter" /\ pc' = "down" /\ meta' = meta /\ session' = 0
    BY <1>7 DEF Crash, Clean, Spoil
  <2> QED
    BY <1>0, <2>1
<1>8. CASE Tick \/ UNCHANGED vars
  <2>1. UNCHANGED <<pc, meta, session, month>>
    BY <1>8 DEF Tick, vars
  <2> QED
    BY <1>0, <2>1
<1> QED
  BY <1>0, <1>1, <1>2, <1>3, <1>4, <1>5, <1>6, <1>7, <1>8 DEF Early

(* A seeding changes nothing of what a day has or will have; afterwards    *)
(* all but today have it.                                                  *)
LEMMA SeedKeeps ==
  ASSUME CounterTypes, TableTypes, Seed, ~strayed'
  PROVE  /\ raw' = raw
         /\ \A d \in Days : /\ Has(raw, daily', d) = Has(raw, daily, d)
                            /\ d # DayOf(clock) => Has(raw, daily', d) = Booked(daily'[d])
<1>1. daily' = [d \in Days |-> Seeded(d)] /\ raw' = raw
  BY DEF Seed
<1>2. raw \in RawTables /\ daily \in DayTables
  BY DEF TableTypes
<1> SUFFICES ASSUME NEW d \in Days
             PROVE  /\ Has(raw, daily', d) = Has(raw, daily, d)
                    /\ d # DayOf(clock) => Has(raw, daily', d) = Booked(daily'[d])
  BY <1>1
<1>3. /\ daily'[d] = Seeded(d)
      /\ Total(raw, RowsOfDay(d)) = Total(raw, DayTimes(d)) /\ Total(raw, DayTimes(d)) \in Nat
      /\ RowsOfDay(d) = {} => Total(raw, DayTimes(d)) = 0
  BY <1>1, <1>2, SeededIs
<1>4. Total(raw, DayTimes(d)) # None
  BY <1>3, SMT DEF None
<1>5. CASE d = DayOf(clock)
  BY <1>3, <1>5 DEF Seeded, Has
<1>6. CASE d # DayOf(clock) /\ daily[d] # None
  BY <1>3, <1>6 DEF Seeded, Has, Booked
<1>7. CASE d # DayOf(clock) /\ daily[d] = None /\ RowsOfDay(d) = {}
  <2>1. daily'[d] = None
    BY <1>3, <1>7 DEF Seeded
  <2> QED
    BY <1>3, <1>7, <2>1 DEF Has, Booked
<1>8. CASE d # DayOf(clock) /\ daily[d] = None /\ RowsOfDay(d) # {}
  <2>1. daily'[d] = Total(raw, DayTimes(d))
    BY <1>3, <1>8 DEF Seeded
  <2> QED
    BY <1>4, <1>8, <2>1 DEF Has, Booked
<1> QED
  BY <1>5, <1>6, <1>7, <1>8

(* Whenever the reconciliation looks, its day is that of a seeding.        *)
LEMMA SeedingDoneStep ==
  ASSUME CounterTypes, CounterTypes', TableTypes, Phases, Ordered, SeedingDone, [Next]_vars
  PROVE  SeedingDone'
<1> SUFFICES ASSUME Clean', pc' = "reconcile"
             PROVE  /\ DayOf(StartAt) <= today' /\ today' <= DayOf(clock')
                    /\ \A d \in Days : d # today' => Has(raw', daily', d) = Booked(daily'[d])
  BY DEF SeedingDone, Has, DayTimes, Booked, DayOf
<1>0. Clean /\ ~strayed' /\ ~spoiled'
  BY FlagsStay DEF Clean
<1>1. /\ clock \in Nat /\ StartAt \in Nat /\ StartAt <= clock
      /\ DayOf(StartAt) \in Nat /\ DayOf(clock) \in Nat /\ DayOf(StartAt) <= DayOf(clock)
  <2>1. clock \in Nat /\ StartAt \in Nat /\ StartAt <= clock
    BY <1>0, Times DEF CounterTypes, Ordered, InOrder, Clean
  <2> QED
    BY <2>1, DaysPass, DayBegins
<1>2. CASE Seed
  <2>1. today' = DayOf(clock) /\ clock' = clock
    BY <1>2 DEF Seed, Goto
  <2> QED
    BY <1>0, <1>1, <1>2, <2>1, SeedKeeps
<1>3. CASE pc = "reconcile" /\ UNCHANGED <<today, raw, daily>> /\ clock' \in {clock, clock + 1}
  <2>1. DayOf(clock) <= DayOf(clock') /\ DayOf(clock') \in Nat
    <3>1. clock' \in Nat /\ clock <= clock'
      BY <1>1, <1>3
    <3> QED
      BY <1>1, <3>1, DaysPass, DayBegins
  <2>2. /\ DayOf(StartAt) <= today /\ today <= DayOf(clock)
        /\ \A d \in Days : d # today => Has(raw, daily, d) = Booked(daily[d])
    BY <1>0, <1>3 DEF SeedingDone
  <2>3. today \in Nat
    BY Calendar DEF CounterTypes
  <2> QED
    BY <1>1, <1>3, <2>1, <2>2, <2>3
<1>4. Seed \/ (pc = "reconcile" /\ UNCHANGED <<today, raw, daily>> /\ clock' \in {clock, clock + 1})
  <2>1. CASE Saving
    BY <2>1, SavedFlags
  <2>2. CASE Store
    <3>1. pc' = pc /\ queue # <<>>
      BY <2>2 DEF Store
    <3> QED
      BY <3>1 DEF Phases, StartUp
  <2>3. CASE SetBack
    BY <1>0, <2>3 DEF SetBack
  <2>4. CASE Tick \/ UNCHANGED vars
    BY <2>4 DEF Tick, vars, process, database
  <2>5. CASE Open \/ Heal \/ MarkHealed \/ Restore \/ Reconcile \/ MarkReconciled
             \/ Collect \/ Send \/ Crash
    BY <2>5 DEF Open, Heal, MarkHealed, Restore, Reconcile, MarkReconciled, Collect, Send,
       Crash, Goto
  <2> QED
    BY <2>1, <2>2, <2>3, <2>4, <2>5 DEF Next, Saving
<1> QED
  BY <1>2, <1>3, <1>4

-----------------------------------------------------------------------------
(* The days of the month of the upgrade and the others are all days.       *)
LEMMA OwedSplits ==
  ASSUME NEW r \in RawTables, NEW dl \in DayTables
  PROVE  /\ Total(Having(r, dl), Days)
              = Total(Having(r, dl), DaysOfMonth(UpgradeMonth)) + Total(Having(r, dl), Earlier)
         /\ Total(Having(r, dl), DaysOfMonth(UpgradeMonth)) \in Nat
         /\ Total(Having(r, dl), Earlier) \in Nat /\ Total(Having(r, dl), Days) \in Nat
<1> DEFINE A == DaysOfMonth(UpgradeMonth)
           v == Having(r, dl)
<1>1. A \in SUBSET Days /\ Earlier \in SUBSET Days /\ A \cap Earlier = {} /\ A \cup Earlier = Days
  BY DEF DaysOfMonth, Earlier
<1> HIDE DEF A
<1>2. /\ CanSum(v, A) /\ CanSum(v, Earlier)
      /\ Total(v, A) \in Nat /\ Total(v, Earlier) \in Nat /\ Total(v, Days) \in Nat
  BY <1>1, HavingIs
<1> HIDE DEF v
<1>3. Total(v, A \cup Earlier) = Total(v, A) + Total(v, Earlier)
  BY <1>1, <1>2, TotalAddsUp, Zenon
<1> QED
  BY <1>1, <1>2, <1>3, Zenon DEF A, v

(* A heal leaves days that have nothing yet and rows of the time before    *)
(* this version: these have no more than that time, month by month.        *)
LEMMA HealFits ==
  ASSUME NEW r \in RawTables, NEW dl \in DayTables, \A d \in Days : dl[d] = None,
         NEW R \in SUBSET LegacyRows,
         \A t \in Time : r[t] = IF t \in R THEN Since({u \in R : u < t}, t) ELSE None
  PROVE  /\ Total(Having(r, dl), Days) <= StartAt
         /\ Total(Having(r, dl), Earlier) <= UpgradeMonth * MonthLength
<1> DEFINE T(days) == {t \in Time : DayOf(t) \in days}
<1>0. /\ R \in SUBSET Time /\ StartAt \in Nat /\ \A t \in R : t \in Nat /\ t < StartAt
      /\ UpgradeMonth * MonthLength \in Nat /\ UpgradeMonth \in Nat
      /\ MonthLength \in Nat \ {0}
  <2>1. StartAt \in Nat /\ MaxTime \in Nat /\ StartAt <= MaxTime /\ R \subseteq 0..StartAt - 1
    BY LedgerAssumption, SMT
  <2>2. R \in SUBSET Time /\ \A t \in R : t \in Nat /\ t < StartAt
    BY <2>1, SMT DEF Time
  <2>3. MonthLength \in Nat \ {0}
    BY LedgerAssumption
  <2> QED
    BY <2>1, <2>2, <2>3, MonthBegins DEF UpgradeMonth
<1>1. Total(Having(r, dl), Days) <= StartAt
  <2>1. Total(Having(r, dl), Days) = Total(r, T(Days))
    BY HavingOfRows
  <2>2. T(Days) \in SUBSET Time /\ \A t \in T(Days) : t < StartAt \/ r[t] = None
    BY <1>0
  <2> HIDE DEF T
  <2>3. Total(r, T(Days)) <= StartAt
    BY <1>0, <2>2, GapsFit
  <2> QED
    BY <2>1, <2>3
<1>2. Total(Having(r, dl), Earlier) <= UpgradeMonth * MonthLength
  <2>1. Total(Having(r, dl), Earlier) = Total(r, T(Earlier))
    <3>1. Earlier \in SUBSET Days
      BY DEF Earlier
    <3> QED
      BY <3>1, HavingOfRows
  <2>2. ASSUME NEW t \in T(Earlier), t \in R PROVE t < UpgradeMonth * MonthLength
    <3>1. t \in Nat /\ t \in Time /\ t <= StartAt /\ DayOf(t) \in Days
          /\ MonthOf(DayOf(t) * DayLength) # UpgradeMonth
      BY <1>0, <2>2 DEF Earlier, DaysOfMonth
    <3>2. MonthOf(t) # UpgradeMonth /\ MonthOf(t) <= UpgradeMonth /\ MonthOf(t) \in Nat
      BY <1>0, <3>1, MonthOfDay, DaysPass, MonthBegins DEF UpgradeMonth
    <3>3. t < MonthOf(t) * MonthLength + MonthLength
      BY <3>1, MonthBegins
    <3>4. MonthOf(t) * MonthLength + MonthLength <= UpgradeMonth * MonthLength
          /\ MonthOf(t) * MonthLength \in Nat
      BY <1>0, <3>2, Multiples
    <3> DEFINE a == MonthOf(t) * MonthLength
               b == UpgradeMonth * MonthLength
    <3>5. a \in Nat /\ b \in Nat /\ t < a + MonthLength /\ a + MonthLength <= b
      BY <1>0, <3>3, <3>4
    <3> HIDE DEF a, b
    <3>6. t < b
      BY <1>0, <3>1, <3>5, SMT
    <3> QED
      BY <3>6 DEF b
  <2>3. T(Earlier) \in SUBSET Time
        /\ \A t \in T(Earlier) : t < UpgradeMonth * MonthLength \/ r[t] = None
    BY <2>2
  <2> HIDE DEF T
  <2>4. Total(r, T(Earlier)) <= UpgradeMonth * MonthLength
    BY <1>0, <2>3, GapsFit
  <2> QED
    BY <2>1, <2>4
<1> QED
  BY <1>1, <1>2

(* The reconciliation brings the days to what the counter has of the month *)
(* of the upgrade, and no further.                                         *)
LEMMA ReconcileFits ==
  ASSUME CounterTypes, TableTypes, Ordered, Clean, ~meta.reconciled,
         OldCounter, SeedingDone, OwedBefore, Reconcile
  PROVE  /\ Total(Having(raw, daily'), Days) <= StartAt
         /\ MonthOf(clock) = UpgradeMonth =>
              Total(Having(raw, daily'), Earlier) <= UpgradeMonth * MonthLength
<1> DEFINE A == DaysOfMonth(UpgradeMonth)
           v == Having(raw, daily)
           w == Having(raw, daily')
           gap == CounterGap
<1>0. /\ pc = "reconcile" /\ raw \in RawTables /\ daily \in DayTables /\ today \in Days
      /\ Owed(Days) <= StartAt
      /\ InUpgradeMonth => Owed(Earlier) <= UpgradeMonth * MonthLength
      /\ DayOf(StartAt) <= today /\ today <= DayOf(clock)
      /\ \A d \in Days : d # today => Has(raw, daily, d) = Booked(daily[d])
      /\ session > 0 => month = UpgradeMonth /\ session = StartAt % MonthLength
  BY DEF Reconcile, TableTypes, CounterTypes, OwedBefore, SeedingDone, OldCounter, Restored
<1>1. CASE daily' = daily
  BY <1>0, <1>1 DEF Owed, InUpgradeMonth
<1>2. CASE session > 0 /\ gap > MinGap /\ daily' = [daily EXCEPT ![today] = Booked(@) + gap]
  <2>1. month = UpgradeMonth /\ session = StartAt % MonthLength /\ InUpgradeMonth
    BY <1>0, <1>2 DEF InUpgradeMonth, Restored
  <2>2. A \in SUBSET Days /\ Earlier = Days \ A
    BY DEF DaysOfMonth, Earlier
  <2>3. Total(daily, A) \in Nat /\ CanSum(daily, A)
    <3> HIDE DEF A
    <3> QED
      BY <1>0, <2>2, TablesCanBeSummed, TotalCounts
  <2>4. gap = session - Total(daily, A)
    BY <2>1 DEF CounterGap
  <2>5. gap \in Nat /\ Total(daily, A) + gap = StartAt % MonthLength
    <3> DEFINE b == Total(daily, A)
    <3> HIDE DEF b, gap
    <3>1. b \in Nat /\ gap = session - b /\ session \in Nat /\ MinGap \in Nat
      BY <2>3, <2>4, LedgerAssumption DEF b, CounterTypes
    <3>2. gap \in Nat /\ b + gap = session
      BY <1>2, <3>1, SMT
    <3> QED
      BY <2>1, <3>2, Zenon DEF b
  <2>6. /\ StartAt % MonthLength \in Nat
        /\ UpgradeMonth * MonthLength + (StartAt % MonthLength) = StartAt
        /\ UpgradeMonth * MonthLength \in Nat
    <3>1. StartAt \in Nat /\ MonthLength \in Nat \ {0}
      BY LedgerAssumption, Times
    <3>2. StartAt = MonthLength * (StartAt \div MonthLength) + (StartAt % MonthLength)
          /\ StartAt % MonthLength \in Nat /\ StartAt \div MonthLength \in Nat
      BY <3>1, SMT
    <3> QED
      BY <3>1, <3>2, SMT DEF UpgradeMonth, MonthOf
  <2> HIDE DEF gap
  <2>7. /\ Booked(daily[today]) \in Nat /\ daily'[today] = Booked(daily[today]) + gap
        /\ \A d \in Days \ {today} : daily'[d] = daily[d]
    BY <1>0, <1>2, BookedIsNat DEF DayTables
  <2>8. daily' \in DayTables /\ daily'[today] \in Nat
    <3>1. Booked(daily[today]) + gap \in Nat
      BY <2>5, <2>7, SMT
    <3> QED
      BY <1>0, <1>2, <2>7, <3>1 DEF DayTables
  <2>9. /\ Booked(w[today]) = Booked(daily[today]) + gap
        /\ \A d \in Days \ {today} : /\ Booked(w[d]) = Booked(v[d])
                                     /\ Booked(w[d]) = Booked(daily[d])
        /\ \A d \in Days : Booked(w[d]) \in Nat /\ Booked(v[d]) \in Nat /\ Booked(daily[d]) \in Nat
        /\ Booked(daily[today]) <= Booked(v[today])
    <3>1. \A d \in Days : /\ Booked(w[d]) = Has(raw, daily', d) /\ Has(raw, daily', d) \in Nat
                          /\ Booked(v[d]) = Has(raw, daily, d) /\ Has(raw, daily, d) \in Nat
                          /\ Booked(daily[d]) \in Nat
                          /\ Booked(daily[d]) <= Has(raw, daily, d)
      BY <1>0, <2>8, HavingIs
    <3>2. Has(raw, daily', today) = daily'[today]
      BY <2>8, SMT DEF Has, None
    <3>3. \A d \in Days \ {today} : Has(raw, daily', d) = Has(raw, daily, d)
      BY <2>7 DEF Has
    <3> HIDE DEF v, w
    <3> QED
      BY <1>0, <2>7, <3>1, <3>2, <3>3
  <2>10. /\ CanSum(v, A) /\ CanSum(w, A) /\ CanSum(v, Earlier) /\ CanSum(w, Earlier)
         /\ Total(w, Days) = Total(w, A) + Total(w, Earlier)
         /\ Total(w, A) \in Nat /\ Total(w, Earlier) \in Nat /\ Total(v, Earlier) \in Nat
    <3>1. A \in SUBSET Days /\ Earlier \in SUBSET Days
      BY <2>2
    <3>2. /\ Total(w, Days) = Total(w, A) + Total(w, Earlier)
          /\ Total(w, A) \in Nat /\ Total(w, Earlier) \in Nat /\ Total(v, Earlier) \in Nat
      BY <1>0, <2>8, OwedSplits
    <3> HIDE DEF A
    <3> QED
      BY <1>0, <2>8, <3>1, <3>2, HavingIs
  <2>11. Total(v, Earlier) <= UpgradeMonth * MonthLength
    BY <1>0, <2>1 DEF Owed
  <2> DEFINE a == Total(w, A)
             e == Total(w, Earlier)
             old == Total(v, Earlier)
             days == Total(daily, A)
             begin == UpgradeMonth * MonthLength
             part == StartAt % MonthLength
  <2>12. /\ a \in Nat /\ e \in Nat /\ old \in Nat /\ days \in Nat /\ begin \in Nat /\ part \in Nat
         /\ old <= begin /\ begin + part = StartAt /\ days + gap = part /\ gap \in Nat
         /\ Total(w, Days) = a + e
    BY <2>3, <2>5, <2>6, <2>10, <2>11
  <2>13. CASE today \in A
    <3>1. a <= days + gap
      <4>1. Booked(w[today]) <= Booked(daily[today]) + gap
        BY <1>0, <2>5, <2>9
      <4>2. \A d \in A \ {today} : Booked(w[d]) <= Booked(daily[d])
        BY <2>2, <2>9
      <4> HIDE DEF v, w, A
      <4> QED
        BY <2>3, <2>5, <2>10, <2>13, <4>1, <4>2, TotalGrowsByOne
    <3>2. e <= old
      <4>1. \A d \in Earlier : Booked(w[d]) <= Booked(v[d])
        BY <2>2, <2>9, <2>13
      <4> HIDE DEF v, w, A
      <4> QED
        BY <2>10, <4>1, TotalAtMost
    <3> HIDE DEF a, e, old, days, begin, part
    <3>3. e <= begin /\ a + e <= StartAt
      BY <2>12, <3>1, <3>2, SMT
    <3> QED
      BY <2>12, <3>3 DEF e, begin
  <2>14. CASE today \notin A
    <3>1. a <= days
      <4>1. \A d \in A : Booked(w[d]) <= Booked(daily[d])
        BY <2>2, <2>9, <2>14
      <4> HIDE DEF v, w, A
      <4> QED
        BY <2>3, <2>10, <4>1, TotalAtMost
    <3>2. e <= old + gap
      <4>1. Booked(w[today]) <= Booked(v[today]) + gap
        <5> DEFINE x == Booked(daily[today])
                   y == Booked(v[today])
        <5> HIDE DEF x, y
        <5>1. x \in Nat /\ y \in Nat /\ x <= y /\ Booked(w[today]) = x + gap
          BY <1>0, <2>9 DEF x, y
        <5>2. Booked(w[today]) <= y + gap
          BY <2>5, <5>1, SMT
        <5> QED
          BY <5>2 DEF y
      <4>2. \A d \in Earlier \ {today} : Booked(w[d]) <= Booked(v[d])
        BY <2>2, <2>9
      <4>3. today \in Earlier
        BY <1>0, <2>2, <2>14
      <4> HIDE DEF v, w, A
      <4> QED
        BY <2>5, <2>10, <4>1, <4>2, <4>3, TotalGrowsByOne
    <3>3. MonthOf(clock) # UpgradeMonth
      <4>1. MonthOf(today * DayLength) # UpgradeMonth
        BY <1>0, <2>14 DEF DaysOfMonth
      <4>2. /\ StartAt \in Nat /\ clock \in Nat /\ today \in Nat /\ DayLength \in Nat \ {0}
            /\ DayOf(StartAt) \in Nat /\ DayOf(clock) \in Nat
        BY Times, Calendar, DayBegins, LedgerAssumption DEF CounterTypes
      <4>3. /\ DayOf(StartAt) * DayLength <= today * DayLength
            /\ today * DayLength <= DayOf(clock) * DayLength
            /\ DayOf(StartAt) * DayLength \in Nat /\ DayOf(clock) * DayLength \in Nat
            /\ today * DayLength \in Nat
        BY <1>0, <4>2, Multiples
      <4>4. /\ MonthOf(StartAt) <= MonthOf(today * DayLength)
            /\ MonthOf(today * DayLength) <= MonthOf(clock)
        BY <4>2, <4>3, DaysPass, MonthOfDay
      <4>5. MonthOf(StartAt) \in Nat /\ MonthOf(clock) \in Nat /\ MonthOf(today * DayLength) \in Nat
        BY <4>2, <4>3, MonthBegins
      <4> DEFINE p == MonthOf(today * DayLength)
      <4> HIDE DEF p
      <4>6. p \in Nat /\ p # UpgradeMonth /\ UpgradeMonth \in Nat
            /\ UpgradeMonth <= p /\ p <= MonthOf(clock)
        BY <4>1, <4>4, <4>5 DEF p, UpgradeMonth
      <4> QED
        BY <4>5, <4>6, SMT
    <3> HIDE DEF a, e, old, days, begin, part
    <3>4. a + e <= StartAt
      BY <2>12, <3>1, <3>2, SMT
    <3> QED
      BY <2>12, <3>3, <3>4
  <2> QED
    BY <2>13, <2>14
<1> QED
  BY <1>1, <1>2 DEF Reconcile

(* The clock does not return to the month of the upgrade.                  *)
LEMMA UpgradeMonthEnds ==
  ASSUME CounterTypes, CounterTypes', Ordered, Clean, Early, InUpgradeMonth'
  PROVE  InUpgradeMonth
<1> USE DEF process, Goto
<1>1. CASE Tick
  <2>1. UNCHANGED <<pc, month>> /\ clock' = clock + 1
    BY <1>1 DEF Tick
  <2>2. MonthOf(clock') = UpgradeMonth => MonthOf(clock) = UpgradeMonth
    <3>1. /\ clock \in Nat /\ clock' \in Nat /\ StartAt \in Nat
          /\ StartAt <= clock /\ clock <= clock'
      BY <2>1, Times DEF CounterTypes, Ordered, InOrder, Clean
    <3>2. /\ MonthOf(StartAt) <= MonthOf(clock) /\ MonthOf(clock) <= MonthOf(clock')
          /\ MonthOf(StartAt) \in Nat /\ MonthOf(clock) \in Nat /\ MonthOf(clock') \in Nat
      BY <3>1, DaysPass, MonthBegins
    <3> QED
      BY <3>2, SMT DEF UpgradeMonth
  <2> QED
    BY <2>1, <2>2 DEF InUpgradeMonth
<1>2. CASE Restore
  <2>1. month' = MonthOf(clock) /\ clock' = clock
    BY <1>2 DEF Restore
  <2> QED
    BY <2>1 DEF InUpgradeMonth
<1>3. CASE Open \/ Heal \/ MarkHealed \/ Reconcile \/ Crash
  <2>1. pc' \notin Restored /\ clock' = clock
    BY <1>3 DEF Open, Heal, MarkHealed, Reconcile, Crash, Restored
  <2> QED
    BY <2>1 DEF InUpgradeMonth
<1>4. CASE NewMonth \/ NewCounter \/ Seed \/ UNCHANGED vars
  <2>1. (pc' \in Restored => pc \in Restored) /\ UNCHANGED <<clock, month>>
    BY <1>4 DEF NewMonth, NewCounter, Save, Seed, vars, Restored
  <2> QED
    BY <2>1 DEF InUpgradeMonth
<1> QED
  BY <1>1, <1>2, <1>3, <1>4 DEF Early

(* Until the reconciliation is marked as done, the days hold no more than  *)
(* the time before this version.                                           *)
LEMMA OwedBeforeStep ==
  ASSUME CounterTypes, CounterTypes', TableTypes, TableTypes', Phases, Ordered, OldCounter,
         SeedingDone, OwedBefore, [Next]_vars
  PROVE  OwedBefore'
<1> DEFINE Fits(n, m) == n <= StartAt /\ (InUpgradeMonth' => m <= UpgradeMonth * MonthLength)
<1> SUFFICES ASSUME Clean', ~meta'.reconciled
             PROVE  Fits(Total(Having(raw', daily'), Days), Total(Having(raw', daily'), Earlier))
  BY DEF OwedBefore, Owed
<1>0. /\ Clean /\ ~meta.reconciled /\ Early
      /\ raw \in RawTables /\ raw' \in RawTables /\ daily \in DayTables /\ daily' \in DayTables
  BY EarlySteps DEF TableTypes
<1>1. /\ Owed(Days) <= StartAt
      /\ InUpgradeMonth' => Owed(Earlier) <= UpgradeMonth * MonthLength
  BY <1>0, UpgradeMonthEnds DEF OwedBefore
<1>2. ASSUME \A d \in Days : Has(raw', daily', d) = Has(raw, daily, d)
      PROVE  Fits(Total(Having(raw', daily'), Days), Total(Having(raw', daily'), Earlier))
  <2>1. Having(raw', daily') = Having(raw, daily)
    BY <1>2 DEF Having
  <2> QED
    BY <1>1, <2>1 DEF Owed
<1>3. CASE Heal
  <2>1. /\ pc = "heal" /\ daily' = daily
        /\ raw' = raw \/ raw' = [t \in Time |-> IF t \in Rows THEN Gap(t) ELSE None]
    BY <1>3 DEF Heal
  <2>2. (\A d \in Days : daily[d] = None) /\ Rows \subseteq LegacyRows
    BY <1>0, <2>1 DEF Phases, Clean
  <2>3. CASE raw' = raw
    BY <1>2, <2>1, <2>3
  <2>4. CASE raw' = [t \in Time |-> IF t \in Rows THEN Gap(t) ELSE None]
    <3>1. \A t \in Time : raw'[t] = IF t \in Rows THEN Since({u \in Rows : u < t}, t) ELSE None
      BY <2>4, GapsAndIntervals DEF Predecessors
    <3> QED
      BY <1>0, <2>1, <2>2, <3>1, HealFits
  <2> QED
    BY <2>1, <2>3, <2>4
<1>4. CASE Seed
  <2>1. ~strayed'
    BY DEF Clean
  <2>2. raw' = raw /\ \A d \in Days : Has(raw, daily', d) = Has(raw, daily, d)
    BY <1>4, <2>1, SeedKeeps
  <2> QED
    BY <1>2, <2>2
<1>5. CASE Reconcile
  <2>1. raw' = raw /\ clock' = clock /\ pc' = "reconciled"
    BY <1>5 DEF Reconcile, Goto
  <2>2. InUpgradeMonth' => MonthOf(clock) = UpgradeMonth
    BY <2>1 DEF InUpgradeMonth, Restored
  <2>3. /\ Total(Having(raw, daily'), Days) <= StartAt
        /\ MonthOf(clock) = UpgradeMonth =>
             Total(Having(raw, daily'), Earlier) <= UpgradeMonth * MonthLength
    BY <1>0, <1>5, ReconcileFits
  <2> QED
    BY <2>1, <2>2, <2>3
<1>6. CASE UNCHANGED <<raw, daily>>
  BY <1>2, <1>6
<1>7. Heal \/ Seed \/ Reconcile \/ UNCHANGED <<raw, daily>>
  BY <1>0 DEF Early, Open, MarkHealed, Restore, NewMonth, NewCounter, Save, Crash, Tick,
     vars, database
<1> QED
  BY <1>3, <1>4, <1>5, <1>6, <1>7

-----------------------------------------------------------------------------
(* Rows that are pruned are the oldest: an interval does not grow by that. *)
LEMMA SinceTheLatest ==
  ASSUME NEW R \in SUBSET Time, NEW t \in Time, NEW cutoff \in Nat
  PROVE  Since({u \in R : ~(u < cutoff)}, t) <= Since(R, t)
<1> DEFINE L == {u \in R : ~(u < cutoff)}
<1>0. L \in SUBSET Time /\ L \in SUBSET R /\ Clamp \in Nat /\ \A u \in R : u \in Nat
  BY Times, LedgerAssumption
<1>1. Since(R, t) \in 0..Clamp /\ Since(L, t) \in 0..Clamp
  <2> HIDE DEF L
  <2> QED
    BY <1>0, Intervals
<1>2. CASE L = {}
  <2>1. Since(L, t) = 0
    BY <1>2 DEF Since
  <2> HIDE DEF L
  <2>2. Since(L, t) <= Since(R, t)
    BY <1>0, <1>1, <2>1, SMT
  <2> QED
    BY <2>2 DEF L
<1>3. CASE L # {}
  <2>1. Max(R) \in R /\ Max(R) \in Nat /\ \A u \in R : u <= Max(R)
    BY <1>0, <1>3, LatestOf
  <2>2. Max(L) \in L /\ Max(L) \in Nat /\ \A u \in L : u <= Max(L)
    <3> HIDE DEF L
    <3> QED
      BY <1>0, <1>3, LatestOf
  <2>3. Max(R) \in L
    <3>1. ~(Max(L) < cutoff) /\ Max(L) <= Max(R)
      BY <1>0, <2>1, <2>2
    <3>2. ~(Max(R) < cutoff)
      BY <2>1, <2>2, <3>1
    <3> QED
      BY <2>1, <3>2
  <2>4. Max(R) <= Max(L) /\ Max(L) <= Max(R)
    BY <1>0, <2>1, <2>2, <2>3
  <2>5. Max(L) = Max(R)
    <3> DEFINE x == Max(L)
               y == Max(R)
    <3> HIDE DEF x, y
    <3>1. x \in Nat /\ y \in Nat /\ x <= y /\ y <= x
      BY <2>1, <2>2, <2>4 DEF x, y
    <3>2. x = y
      BY <3>1, SMT
    <3> QED
      BY <3>2 DEF x, y
  <2>6. R # {}
    BY <2>1
  <2> HIDE DEF L
  <2>7. Since(L, t) = Since(R, t)
    BY <1>3, <2>5, <2>6, Zenon DEF Since
  <2>8. Since(L, t) <= Since(R, t)
    BY <1>0, <1>1, <2>7, SMT
  <2> QED
    BY <2>8 DEF L
<1> QED
  BY <1>2, <1>3

(* A store leaves a row of its snapshot, or nothing new at all.            *)
LEMMA StoreKeeps ==
  ASSUME CounterTypes, TableTypes, Store
  PROVE  \/ Head(queue).at \in Rows'
         \/ daily' = daily /\ \E cutoff \in Nat : Rows' = {u \in Rows : ~(u < cutoff)}
<1>1. PICK s \in Snapshots, cutoff \in Time :
        /\ s = Head(queue) /\ (cutoff = 0 \/ cutoff = s.at - Retention)
        /\ Booking(s, cutoff) \/ Failing(cutoff)
  BY StoreOutcomes, Zenon
<1>2. s.at \in Time /\ Interval(s.at) \in 0..Clamp /\ s.at \in Nat /\ cutoff \in Nat
      /\ Retention \in Nat /\ Clamp \in Nat
  <2>1. s.at \in Time /\ Interval(s.at) \in 0..Clamp
    BY GapsAndIntervals, Intervals DEF Snapshots
  <2>2. Retention \in Nat /\ Clamp \in Nat /\ s.at \in Nat /\ cutoff \in Nat
    BY <2>1, Times, LedgerAssumption
  <2> QED
    BY <2>1, <2>2
<1> DEFINE stored == [raw EXCEPT ![s.at] = Interval(s.at)]
<1>3. stored \in RawTables /\ stored[s.at] = Interval(s.at)
  BY <1>2 DEF TableTypes, RawTables
<1>4. CASE Booking(s, cutoff)
  <2>1. raw' = Pruned(stored, cutoff)
    BY <1>4 DEF Booking
  <2> HIDE DEF stored
  <2>2. ~(s.at < cutoff)
    BY <1>1, <1>2
  <2>3. raw'[s.at] = Interval(s.at)
    BY <1>2, <1>3, <2>1, <2>2, PrunedTable
  <2>4. Interval(s.at) # None
    BY <1>2, SMT DEF None
  <2> QED
    BY <1>1, <1>2, <2>3, <2>4 DEF Rows
<1>5. CASE Failing(cutoff)
  <2>1. raw' = Pruned(raw, cutoff) /\ daily' = daily
    BY <1>5 DEF Failing
  <2>2. \A t \in Time : raw'[t] = IF t < cutoff THEN None ELSE raw[t]
    BY <2>1, PrunedTable DEF TableTypes
  <2>3. Rows' = {u \in Rows : ~(u < cutoff)}
    BY <2>2 DEF Rows
  <2> QED
    BY <1>2, <2>1, <2>3
<1> QED
  BY <1>1, <1>4, <1>5

(* A store adds to the days no more than the interval of its snapshot.     *)
LEMMA StoreOwes ==
  ASSUME CounterTypes, TableTypes, TableTypes', Store, ~strayed'
  PROVE  \E n \in Nat : /\ n <= Since(Rows, Head(queue).at)
                        /\ Total(Having(raw', daily'), Days) <= Owed(Days) + n
                        /\ daily' = daily => n = 0
<1> DEFINE v == Having(raw, daily)
           w == Having(raw', daily')
           key == DayOf(clock)
<1>0. /\ raw \in RawTables /\ raw' \in RawTables /\ daily \in DayTables /\ daily' \in DayTables
      /\ key \in Days
  BY Calendar DEF TableTypes, CounterTypes
<1>1. PICK n \in Nat :
        /\ n <= Interval(Head(queue).at)
        /\ n = 0 => daily' = daily
        /\ n # 0 => daily' = [daily EXCEPT ![DayOf(clock)] = Booked(@) + n]
        /\ \A d \in Days : Total(raw', DayTimes(d))
                             <= Total(raw, DayTimes(d)) + (IF d = DayOf(clock) THEN n ELSE 0)
  BY StoreBooks, Zenon
<1>2. Head(queue).at \in Time /\ Interval(Head(queue).at) = Since(Rows, Head(queue).at)
  <2>1. Head(queue) \in Snapshots
    BY OldestSnapshot DEF Store, CounterTypes
  <2> QED
    BY <2>1, GapsAndIntervals DEF Snapshots
<1> HIDE DEF key
<1>3. \A d \in Days : Total(raw, DayTimes(d)) \in Nat /\ Total(raw', DayTimes(d)) \in Nat
  <2> TAKE d \in Days
  <2>1. DayTimes(d) \in SUBSET Time
    BY DEF DayTimes
  <2> QED
    BY <1>0, <2>1, RowsOfADay
<1>4. \A d \in Days : /\ daily[d] \in {None} \cup Nat /\ Booked(daily[d]) \in Nat
                      /\ Has(raw, daily, d) \in Nat /\ Booked(daily[d]) <= Has(raw, daily, d)
                      /\ Has(raw', daily', d) \in Nat
                      /\ Booked(v[d]) = Has(raw, daily, d)
                      /\ Booked(w[d]) = Has(raw', daily', d)
  BY <1>0, HavingIs DEF DayTables
<1>5. daily' = daily => n = 0
  <2> SUFFICES ASSUME daily' = daily, n # 0 PROVE FALSE
    OBVIOUS
  <2>1. daily[key] = Booked(daily[key]) + n
    BY <1>0, <1>1 DEF DayTables, key
  <2>2. /\ daily[key] = None \/ (daily[key] \in Nat /\ Booked(daily[key]) = daily[key])
        /\ Booked(daily[key]) \in Nat
    BY <1>0, <1>4 DEF Booked
  <2>3. daily[key] = None => Booked(daily[key]) = 0
    BY DEF Booked
  <2> DEFINE x == daily[key]
             y == Booked(daily[key])
  <2> HIDE DEF x, y
  <2>4. x = y + n /\ ((x = -1 /\ y = 0) \/ (x \in Nat /\ y = x))
    BY <2>1, <2>2, <2>3 DEF x, y, None
  <2> QED
    BY <2>4, SMT
<1>6. \A d \in Days \ {key} : Has(raw', daily', d) <= Has(raw, daily, d)
  <2> TAKE d \in Days \ {key}
  <2>1. daily'[d] = daily[d]
    BY <1>0, <1>1 DEF DayTables, key
  <2>2. Total(raw', DayTimes(d)) <= Total(raw, DayTimes(d)) + 0
    BY <1>1 DEF key
  <2> DEFINE x == Total(raw, DayTimes(d))
             y == Total(raw', DayTimes(d))
  <2>3. y <= x
    <3>1. x \in Nat /\ y \in Nat /\ y <= x + 0
      BY <1>3, <2>2
    <3> HIDE DEF x, y
    <3> QED
      BY <3>1, SMT
  <2>4. CASE daily[d] = None
    BY <2>1, <2>3, <2>4 DEF Has
  <2>5. CASE daily[d] # None
    <3>1. Has(raw', daily', d) = Has(raw, daily, d) /\ Has(raw, daily, d) \in Nat
      BY <1>4, <2>1, <2>5 DEF Has
    <3> QED
      BY <3>1
  <2> QED
    BY <2>4, <2>5
<1>7. Has(raw', daily', key) <= Has(raw, daily, key) + n
  <2>1. CASE n # 0
    <3>1. daily'[key] = Booked(daily[key]) + n
      BY <1>0, <1>1, <2>1 DEF DayTables, key
    <3> DEFINE b == Booked(daily[key])
    <3> HIDE DEF b
    <3>2. b \in Nat /\ b + n # None
      <4>1. b \in Nat
        BY <1>0, <1>4 DEF b
      <4> QED
        BY <4>1, SMT DEF None
    <3>3. Has(raw', daily', key) = b + n
      BY <3>1, <3>2, Zenon DEF Has, b
    <3> DEFINE h == Has(raw, daily, key)
    <3> HIDE DEF h
    <3>4. h \in Nat /\ b <= h
      BY <1>0, <1>4 DEF b, h
    <3>5. b + n <= h + n
      BY <3>2, <3>4, SMT
    <3> QED
      BY <3>3, <3>5 DEF h
  <2>2. CASE n = 0 /\ daily[key] = None
    <3>1. daily'[key] = None /\ Has(raw', daily', key) = Total(raw', DayTimes(key))
          /\ Has(raw, daily, key) = Total(raw, DayTimes(key))
      BY <1>1, <2>2 DEF Has
    <3>2. Total(raw', DayTimes(key)) <= Total(raw, DayTimes(key)) + n
      BY <1>0, <1>1 DEF key
    <3> QED
      BY <3>1, <3>2
  <2>3. CASE n = 0 /\ daily[key] # None
    <3> DEFINE h == Has(raw, daily, key)
    <3>1. h \in Nat /\ Has(raw', daily', key) = h
      BY <1>0, <1>1, <1>4, <2>3 DEF Has
    <3> HIDE DEF h
    <3>2. h <= h + n
      BY <2>3, <3>1, SMT
    <3> QED
      BY <3>1, <3>2 DEF h
  <2> QED
    BY <2>1, <2>2, <2>3
<1>8. Total(w, Days) <= Total(v, Days) + n
  <2>1. CanSum(v, Days) /\ CanSum(w, Days)
    BY <1>0, HavingIs
  <2>2. /\ \A d \in Days \ {key} : Booked(w[d]) <= Booked(v[d])
        /\ Booked(w[key]) <= Booked(v[key]) + n
    BY <1>0, <1>4, <1>6, <1>7
  <2> HIDE DEF v, w
  <2> QED
    BY <1>0, <2>1, <2>2, TotalGrowsByOne
<1> QED
  BY <1>1, <1>2, <1>5, <1>8 DEF Owed

(* Every step lets the days, and what is to come, fit into the time there  *)
(* was (metrics.rs:116-137, db.rs:298-344, 470-494).                       *)
LEMMA ElapsedStep ==
  ASSUME CounterTypes, CounterTypes', TableTypes, TableTypes', Phases, Phases', Ordered, Ordered',
         OwedBefore', Elapsed, [Next]_vars
  PROVE  Elapsed'
<1> SUFFICES ASSUME Clean', NEW t \in Time, Coming(t)'
             PROVE  Total(Having(raw', daily'), Days) + Since(Rows', t) <= t + Clamp
  BY DEF Elapsed, Owed
<1>0. /\ Clean /\ ~strayed' /\ ~SetBack
      /\ raw \in RawTables /\ raw' \in RawTables /\ daily \in DayTables /\ daily' \in DayTables
      /\ Rows \in SUBSET Time /\ Rows' \in SUBSET Time /\ t \in Nat /\ Clamp \in Nat
  <2>1. Rows \in SUBSET Time /\ Rows' \in SUBSET Time
    BY DEF Rows
  <2>2. Clean /\ ~strayed' /\ ~SetBack
    BY FlagsStay DEF Clean, SetBack
  <2> QED
    BY <2>1, <2>2, Times, LedgerAssumption DEF TableTypes
<1> DEFINE o == Owed(Days)
           p == Total(Having(raw', daily'), Days)
           a == Since(Rows, t)
           b == Since(Rows', t)
<1>1. /\ o \in Nat /\ p \in Nat /\ a \in 0..Clamp /\ b \in 0..Clamp
      /\ \A u \in Rows' : u <= t => b <= t - u
  BY <1>0, HavingIs, Intervals DEF Owed
<1>2. Coming(t) /\ o + a <= t + Clamp
  BY <1>0, ComingStays DEF Elapsed
<1>3. CASE ~meta'.reconciled
  <2>1. p <= StartAt
    BY <1>3 DEF OwedBefore, Owed
  <2>2. StartAt <= t
    <3>1. pc' \in StartUp /\ queue' = <<>>
      BY <1>0, <1>3 DEF Phases
    <3>2. ~\E i \in 1..Len(queue') : t = queue'[i].at
      BY <3>1
    <3>3. clock' <= t /\ StartAt <= clock' /\ clock' \in Nat /\ StartAt \in Nat
      BY <3>1, <3>2, Times DEF Coming, Collecting, StartUp, Ordered, InOrder, Clean, CounterTypes
    <3> QED
      BY <1>0, <3>3
  <2>3. StartAt \in Nat
    BY Times
  <2> HIDE DEF p, b
  <2> QED
    BY <1>0, <1>1, <2>1, <2>2, <2>3, SMT DEF p, b
<1>4. ASSUME raw' = raw, \A d \in Days : Has(raw', daily', d) = Has(raw, daily, d)
      PROVE  p + b <= t + Clamp
  <2>1. Having(raw', daily') = Having(raw, daily) /\ Rows' = Rows
    BY <1>4 DEF Having, Rows
  <2> QED
    BY <1>2, <2>1 DEF Owed
<1>5. CASE (Heal \/ Reconcile) /\ meta'.reconciled
  <2>1. meta' = meta /\ pc \in {"heal", "reconcile"}
    BY <1>5 DEF Heal, Reconcile
  <2> QED
    BY <1>0, <1>5, <2>1 DEF Phases, Clean
<1>6. CASE Seed
  BY <1>0, <1>4, <1>6, SeedKeeps
<1>7. CASE UNCHANGED <<raw, daily>>
  BY <1>4, <1>7
<1>8. CASE Store
  <2> DEFINE at == Head(queue).at
             c == Since(Rows, at)
  <2>1. PICK n \in Nat : n <= c /\ p <= o + n /\ (daily' = daily => n = 0)
    BY <1>0, <1>8, StoreOwes
  <2>2. at \in Time /\ at \in Nat /\ Coming(at) /\ at <= t
    BY <1>0, <1>8, OldestIsFirst, Times DEF Ordered, Clean
  <2>3. c \in Nat /\ o + c <= at + Clamp
    <3>1. c \in 0..Clamp
      BY <1>0, <2>2, Intervals
    <3>2. o + c <= at + Clamp
      BY <1>0, <2>2 DEF Elapsed
    <3> HIDE DEF o, c
    <3> QED
      BY <1>0, <3>1, <3>2
  <2>4. CASE at \in Rows'
    <3>1. b <= t - at
      BY <1>1, <2>2, <2>4
    <3> HIDE DEF o, p, b, c, at
    <3>2. p + b <= t + Clamp
      BY <1>0, <1>1, <2>1, <2>2, <2>3, <3>1, SMT
    <3> QED
      BY <3>2 DEF p, b
  <2>5. CASE daily' = daily /\ \E cutoff \in Nat : Rows' = {u \in Rows : ~(u < cutoff)}
    <3>1. n = 0
      BY <2>1, <2>5
    <3>2. b <= a
      BY <1>0, <2>5, SinceTheLatest
    <3> HIDE DEF o, p, a, b, c, at
    <3>3. p + b <= t + Clamp
      BY <1>0, <1>1, <1>2, <2>1, <3>1, <3>2, SMT
    <3> QED
      BY <3>3 DEF p, b
  <2> QED
    BY <1>8, <2>4, <2>5, StoreKeeps
<1> QED
  BY <1>3, <1>5, <1>6, <1>7, <1>8, OtherSteps

-----------------------------------------------------------------------------
(* The inductive invariant of the ledgers: what the phases have done, in   *)
(* which order rows come, and what days that are seeded, reconciled and    *)
(* booked owe to the time there was.                                       *)
LedgerInv == TypeOK /\ Phases /\ Ordered /\ Covers /\ OldCounter /\ SeedingDone
             /\ OwedBefore /\ Elapsed

(* What a fresh or an older database has books nothing.                    *)
LEMMA LedgerInvInit == Init => LedgerInv
<1> SUFFICES ASSUME Init PROVE LedgerInv
  OBVIOUS
<1>0. TypeOK /\ CounterTypes /\ TableTypes /\ raw \in RawTables /\ daily \in DayTables
  BY TypesInit, TypesAre DEF TableTypes
<1>1. /\ pc = "down" /\ queue = <<>> /\ clock = StartAt /\ peak = StartAt
      /\ ~strayed /\ ~spoiled
      /\ ~meta.healed /\ ~meta.reconciled
      /\ meta.month \in {None, UpgradeMonth}
      /\ meta.session \in {None, StartAt % MonthLength}
      /\ \A d \in Days : daily[d] = None
  BY DEF Init, UpgradeMonth
<1>2. \A t \in Time : raw[t] = None \/ (raw[t] = 0 /\ t \in LegacyRows)
  BY DEF Init
<1>3. Rows \subseteq LegacyRows
  BY <1>2 DEF Rows
<1>4. \A t \in Time : Booked(raw[t]) = 0
  BY <1>2 DEF Booked
<1>5. \A d \in Days : Total(raw, DayTimes(d)) = 0 /\ Has(raw, daily, d) = 0
  <2> TAKE d \in Days
  <2>1. DayTimes(d) \in SUBSET Time /\ \A t \in DayTimes(d) : Booked(raw[t]) = 0
    BY <1>4 DEF DayTimes
  <2>2. CanSum(raw, DayTimes(d))
    BY <1>0, <2>1, RowsOfADay
  <2>3. Total(raw, DayTimes(d)) = 0
    BY <2>1, <2>2, TotalOfNothing
  <2> QED
    BY <1>1, <2>3 DEF Has
<1>6. ASSUME NEW days \in SUBSET Days PROVE Owed(days) = 0
  <2> DEFINE v == Having(raw, daily)
  <2>1. CanSum(v, days) /\ \A d \in days : Booked(v[d]) = 0
    BY <1>0, <1>5, HavingIs
  <2> HIDE DEF v
  <2>2. Total(v, days) = 0
    BY <2>1, TotalOfNothing
  <2> QED
    BY <2>2 DEF Owed, v
<1>7. Phases
  BY <1>1, <1>3 DEF Phases, StartUp
<1>8. \A u \in Time : Coming(u) => StartAt <= u
  BY <1>1 DEF Coming, Collecting
<1>9. Ordered
  <2>1. StartAt \in Nat /\ StartAt <= StartAt
    BY Times
  <2>2. InOrder
    BY <1>1, <2>1 DEF InOrder, Collecting
  <2>3. ASSUME NEW t \in Rows, NEW u \in Time, Coming(u) PROVE t <= u
    <3>1. t \in 0..StartAt - 1 /\ StartAt <= u /\ u \in Nat
      BY <1>3, <1>8, <2>3, Times, LedgerAssumption
    <3> QED
      BY <2>1, <3>1
  <2> QED
    BY <2>2, <2>3 DEF Ordered, AfterAllRows
<1>10. Covers
  BY <1>1, <1>5 DEF Covers, Covered, Booked, Starting
<1>11. OldCounter
  <2>1. meta.month # None => meta.month = UpgradeMonth
    BY <1>1
  <2>2. Booked(meta.session) > 0 => meta.session = StartAt % MonthLength
    BY <1>1 DEF Booked
  <2> QED
    BY <1>1, <2>2 DEF OldCounter, Restored
<1>12. SeedingDone
  BY <1>1 DEF SeedingDone
<1>13. OwedBefore
  <2>1. Owed(Days) = 0 /\ Owed(Earlier) = 0
    BY <1>6 DEF Earlier
  <2>2. StartAt \in Nat /\ UpgradeMonth * MonthLength \in Nat
    BY Times, MonthBegins DEF UpgradeMonth
  <2> QED
    BY <2>1, <2>2 DEF OwedBefore
<1>14. Elapsed
  <2> SUFFICES ASSUME NEW t \in Time PROVE Owed(Days) + Since(Rows, t) <= t + Clamp
    BY DEF Elapsed
  <2>1. Owed(Days) = 0
    BY <1>6
  <2>2. Since(Rows, t) \in 0..Clamp /\ t \in Nat /\ Clamp \in Nat
    BY GapsAndIntervals, Intervals, Times, LedgerAssumption
  <2> QED
    BY <2>1, <2>2, SMT
<1> QED
  BY <1>0, <1>7, <1>9, <1>10, <1>11, <1>12, <1>13, <1>14 DEF LedgerInv

(* Every step keeps it.                                                    *)
LEMMA LedgerInvStep == LedgerInv /\ [Next]_vars => LedgerInv'
<1> SUFFICES ASSUME LedgerInv, [Next]_vars PROVE LedgerInv'
  OBVIOUS
<1>1. TypeOK' /\ CounterTypes /\ TableTypes
  BY TypesStep, TypesAre DEF LedgerInv
<1>2. CounterTypes' /\ TableTypes'
  BY <1>1, CounterTypesStep, TableTypesStep
<1>3. Phases' /\ Ordered' /\ Covers'
  BY <1>1, PhasesStep, OrderedStep, CoversStep DEF LedgerInv
<1>4. OldCounter' /\ SeedingDone' /\ OwedBefore'
  BY <1>1, <1>2, OldCounterStep, SeedingDoneStep, OwedBeforeStep DEF LedgerInv
<1>5. Elapsed'
  BY <1>1, <1>2, <1>3, <1>4, ElapsedStep DEF LedgerInv
<1> QED
  BY <1>1, <1>3, <1>4, <1>5 DEF LedgerInv

(* All days hold no more than the time there was.                          *)
LEMMA LedgerInvFits == LedgerInv => NeverMoreThanElapsed
<1> SUFFICES ASSUME LedgerInv, ~strayed, ~spoiled PROVE Total(daily, Days) <= peak + Clamp
  BY DEF NeverMoreThanElapsed
<1> DEFINE v == Having(raw, daily)
           a == Total(daily, Days)
           b == Owed(Days)
           c == Since(Rows, clock)
<1>1. /\ raw \in RawTables /\ daily \in DayTables /\ clock \in Time /\ clock \in Nat
      /\ clock = peak /\ Clamp \in Nat
  BY TypesAre, Times, LedgerAssumption
     DEF LedgerInv, CounterTypes, TableTypes, Ordered, InOrder
<1>2. Coming(clock)
  BY <1>1 DEF Coming
<1>3. b + c <= clock + Clamp
  BY <1>1, <1>2 DEF LedgerInv, Elapsed, Clean
<1>4. c \in 0..Clamp
  BY <1>1, GapsAndIntervals, Intervals
<1>5. a <= b /\ a \in Nat /\ b \in Nat
  <2>1. /\ CanSum(v, Days) /\ CanSum(daily, Days) /\ Total(v, Days) \in Nat
        /\ \A d \in Days : Booked(daily[d]) <= Booked(v[d])
    BY <1>1, HavingIs, TablesCanBeSummed
  <2> HIDE DEF v
  <2>2. Total(daily, Days) <= Total(v, Days) /\ Total(daily, Days) \in Nat
    BY <2>1, TotalAtMost, TotalCounts
  <2> QED
    BY <2>1, <2>2 DEF Owed, v
<1> HIDE DEF a, b, c
<1>6. a <= clock + Clamp
  BY <1>1, <1>3, <1>4, <1>5, SMT
<1> QED
  BY <1>1, <1>6 DEF a

(* However often the process dies and restarts, and whichever statement    *)
(* fails: seeding, healing and reconciling book nothing twice              *)
(* (metrics.rs:116-137, db.rs:298-344, 413-494).                           *)
THEOREM NothingIsBookedTwice == Spec => []NeverMoreThanElapsed
<1>1. LedgerInv => NeverMoreThanElapsed
  BY LedgerInvFits
<1> QED
  BY <1>1, LedgerInvInit, LedgerInvStep, PTL DEF Spec

-----------------------------------------------------------------------------
(* Numbers between two multiples, the first of which they are counted by.  *)
LEMMA BetweenMultiples ==
  ASSUME NEW n \in Nat \ {0}, NEW q \in Int, NEW k \in Int, NEW x \in Int,
         q * n <= x, x < q * n + n
  PROVE  /\ k * n <= x <=> k <= q
         /\ q * n = k * n <=> q = k
<1>1. \A a, b \in Int : /\ a <= b => a * n <= b * n
                        /\ a < b => a * n + n <= b * n
                        /\ a * n \in Int
  <2> TAKE a, b \in Int
  <2> DEFINE c == b - a
  <2>1. c \in Int /\ b * n = a * n + c * n /\ c * n \in Int /\ a * n \in Int
    BY SMT
  <2>2. c >= 0 => c * n >= 0
    BY <2>1, SMT
  <2>3. c >= 1 => c * n >= n
    <3>1. c >= 1 => (c - 1) * n >= 0
      BY <2>1, SMT
    <3>2. (c - 1) * n = c * n - n
      BY <2>1, SMT
    <3> QED
      BY <2>1, <3>1, <3>2, SMT
  <2> QED
    BY <2>1, <2>2, <2>3, SMT
<1>2. CASE k <= q
  <2>1. k * n <= q * n /\ k * n \in Int /\ q * n \in Int
    BY <1>1, <1>2
  <2>2. k < q => k * n + n <= q * n
    BY <1>1
  <2> QED
    BY <1>2, <2>1, <2>2, SMT
<1>3. CASE q < k
  <2>1. q * n + n <= k * n /\ k * n \in Int /\ q * n \in Int
    BY <1>1, <1>3
  <2> QED
    BY <1>3, <2>1, SMT
<1> QED
  BY <1>2, <1>3, SMT

(* The hours that a chart shows, counted from the first of a time zone.    *)
Hour(t, offset) == (t + offset) \div HourLength
FirstHour(offset) == Hour(clock, offset) + 1 - HoursShown

(* A row is in the bar of its hour, and in no other.                       *)
LEMMA BarOfRow ==
  ASSUME clock \in Nat, NEW offset \in Nat, NEW t \in Nat
  PROVE  /\ Hour(t, offset) \in Nat /\ FirstHour(offset) \in Int /\ HoursShown \in Nat \ {0}
         /\ t >= HourStart(offset, 0) <=> FirstHour(offset) <= Hour(t, offset)
         /\ t >= AlignedEnd(offset) - offset
              <=> FirstHour(offset) + HoursShown <= Hour(t, offset)
         /\ \A i \in Bars(HoursShown) :
              HourOf(t, offset) = HourStart(offset, i) <=> Hour(t, offset) = FirstHour(offset) + i
<1> DEFINE L == HourLength
           q == Hour(t, offset)
           last == Hour(clock, offset)
           first == FirstHour(offset)
           x == t + offset
<1>0. L \in Nat \ {0} /\ HoursShown \in Nat \ {0}
  BY ReportsAssumption
<1>1. q \in Nat /\ q * L <= x /\ x < q * L + L /\ x \in Nat /\ q * L \in Nat
  <2>1. x \in Nat
    OBVIOUS
  <2> QED
    BY <1>0, <2>1, Quotient DEF Hour
<1>2. last \in Nat
  <2>1. clock + offset \in Nat
    OBVIOUS
  <2> QED
    BY <1>0, <2>1, Quotient DEF Hour
<1>3. AlignedEnd(offset) = (last + 1) * L /\ HourOf(t, offset) = q * L - offset
  BY DEF AlignedEnd, Hour, HourOf
<1>4. first = last + 1 - HoursShown
  BY DEF FirstHour
<1> HIDE DEF q, last, first, L
<1>5. first \in Int /\ first + HoursShown = last + 1
  BY <1>0, <1>2, <1>4, SMT
<1>6. \A i \in Int : /\ HourStart(offset, i) = (first + i) * L - offset
                     /\ (first + i) * L \in Int
  <2> TAKE i \in Int
  <2>1. HourStart(offset, i) = (last + 1) * L - (HoursShown - i) * L - offset
    BY <1>3 DEF HourStart, L
  <2>2. (last + 1) * L - (HoursShown - i) * L = (first + i) * L
    BY <1>0, <1>2, <1>4, SMT
  <2>3. (first + i) * L \in Int
    BY <1>0, <1>5, SMT
  <2> QED
    BY <2>1, <2>2, <2>3
<1>7. \A k \in Int : /\ k * L <= x <=> k <= q
                     /\ q * L = k * L <=> q = k
  BY <1>0, <1>1, BetweenMultiples
<1>8. t >= HourStart(offset, 0) <=> first <= q
  <2>1. HourStart(offset, 0) = first * L - offset /\ first * L \in Int
    <3>1. first + 0 = first
      BY <1>5
    <3> QED
      BY <1>6, <3>1
  <2>2. t >= first * L - offset <=> first * L <= x
    BY <2>1, SMT
  <2> QED
    BY <1>5, <1>7, <2>1, <2>2
<1>9. t >= AlignedEnd(offset) - offset <=> first + HoursShown <= q
  <2> DEFINE k == first + HoursShown
  <2>1. k \in Int /\ AlignedEnd(offset) = k * L /\ k * L \in Int
    BY <1>0, <1>3, <1>5, SMT
  <2> HIDE DEF k
  <2>2. t >= k * L - offset <=> k * L <= x
    BY <2>1, SMT
  <2> QED
    BY <1>7, <2>1, <2>2 DEF k
<1>10. ASSUME NEW i \in Bars(HoursShown)
       PROVE  HourOf(t, offset) = HourStart(offset, i) <=> q = first + i
  <2> DEFINE k == first + i
  <2>1. i \in Int /\ k \in Int
    BY <1>0, <1>5 DEF Bars
  <2>2. HourStart(offset, i) = k * L - offset /\ k * L \in Int
    BY <1>6, <2>1
  <2> HIDE DEF k
  <2>3. q * L - offset = k * L - offset <=> q * L = k * L
    BY <1>1, <2>2, SMT
  <2> QED
    BY <1>3, <1>7, <2>1, <2>2, <2>3 DEF k
<1> QED
  BY <1>0, <1>1, <1>5, <1>8, <1>9, <1>10 DEF q, first

(* The rows of some of the bars.                                           *)
RowsOfBars(offset, P) == {t \in Rows : Hour(t, offset) - FirstHour(offset) \in P}

(* A sum of bars is a total.                                               *)
LEMMA BarsAreSummed ==
  ASSUME NEW v, NEW S, IsFiniteSet(S), \A i \in S : v[i] \in Nat
  PROVE  SumOf(v, S) = Total(v, S)
BY SumIsTotal DEF SumOf

(* Bars add up to their rows.                                              *)
LEMMA BarsAddUp ==
  ASSUME CounterTypes, TableTypes, NEW offset \in Nat, NEW P \in SUBSET Bars(HoursShown),
         NEW v, v = HourBars(offset)
  PROVE  /\ SumOf(v, P) = Total(raw, RowsOfBars(offset, P))
         /\ CanSum(raw, RowsOfBars(offset, P))
<1> DEFINE S == RowsOfBars(offset, P)
           part == [t \in Time |-> Hour(t, offset) - FirstHour(offset)]
           In(i) == {t \in RowsSince(HourStart(offset, 0)) : HourOf(t, offset) = HourStart(offset, i)}
<1>0. clock \in Nat /\ Rows \in SUBSET Time /\ \A t \in Time : t \in Nat
  BY Times DEF CounterTypes, Rows
<1>1. S \in SUBSET Time
  BY DEF RowsOfBars, Rows
<1>2. CanSum(raw, S)
  <2> HIDE DEF S
  <2> QED
    BY <1>1, RowsOfADay DEF TableTypes
<1>3. IsFiniteSet(P)
  <2>1. IsFiniteSet(0..HoursShown - 1)
    BY ReportsAssumption, FS_Interval
  <2> QED
    BY <2>1, FS_Subset DEF Bars
<1>4. \A t \in S : part[t] \in P
  BY <1>0 DEF RowsOfBars
<1>5. \A i \in P : In(i) = {t \in S : part[t] = i}
  <2> TAKE i \in P
  <2>1. i \in Bars(HoursShown) /\ i \in Nat
    BY ReportsAssumption DEF Bars
  <2>2. ASSUME NEW t \in Rows
        PROVE  t >= HourStart(offset, 0) /\ HourOf(t, offset) = HourStart(offset, i)
                 <=> Hour(t, offset) - FirstHour(offset) = i
    <3>1. /\ Hour(t, offset) \in Nat /\ FirstHour(offset) \in Int
          /\ t >= HourStart(offset, 0) <=> FirstHour(offset) <= Hour(t, offset)
          /\ HourOf(t, offset) = HourStart(offset, i) <=> Hour(t, offset) = FirstHour(offset) + i
      BY <1>0, <2>1, BarOfRow
    <3> DEFINE a == Hour(t, offset)
               b == FirstHour(offset)
    <3> HIDE DEF a, b
    <3>2. a \in Nat /\ b \in Int
      BY <3>1 DEF a, b
    <3>3. (b <= a /\ a = b + i) <=> a - b = i
      BY <2>1, <3>2, SMT
    <3> QED
      BY <3>1, <3>3 DEF a, b
  <2>3. \A t \in Rows : t \in In(i) <=> Hour(t, offset) - FirstHour(offset) = i
    BY <2>2 DEF RowsSince
  <2>4. \A t \in Rows : t \in S /\ part[t] = i <=> Hour(t, offset) - FirstHour(offset) = i
    BY <1>0 DEF RowsOfBars
  <2>5. In(i) \subseteq Rows /\ S \subseteq Rows
    BY DEF RowsSince, RowsOfBars
  <2> HIDE DEF In, S, part
  <2> QED
    BY <2>3, <2>4, <2>5
<1>6. \A i \in P : v[i] = Total(raw, In(i))
  BY DEF HourBars
<1>7. \A i \in P : v[i] \in Nat
  <2> TAKE i \in P
  <2>1. In(i) \in SUBSET Time
    BY <1>0 DEF RowsSince
  <2> HIDE DEF In
  <2> QED
    BY <1>6, <2>1, RowsOfADay DEF TableTypes
<1> DEFINE piece == [i \in P |-> In(i)]
<1>8. /\ \A i \in P : piece[i] \subseteq S
      /\ \A i \in P : \A t \in S : t \in piece[i] <=> part[t] = i
      /\ \A i \in P : v[i] = Total(raw, piece[i])
  <2> HIDE DEF S, part, In
  <2> QED
    BY <1>5, <1>6
<1> HIDE DEF S, part, piece
<1>9. Total(v, P) = Total(raw, S)
  BY ONLY <1>2, <1>3, <1>4, <1>8, TotalOfPieces
<1>10. SumOf(v, P) = Total(v, P)
  BY <1>3, <1>7, BarsAreSummed
<1>11. SumOf(v, P) = Total(raw, S)
  BY ONLY <1>9, <1>10
<1> QED
  BY <1>2, <1>11 DEF S

(* The hours add up to what there is from the first to the end of the last. *)
LEMMA AllHoursAddUp == CounterTypes /\ TableTypes => HoursAddUp
<1> SUFFICES ASSUME CounterTypes, TableTypes, NEW offset \in Offsets
             PROVE  SumOf(History("hour", offset), DOMAIN History("hour", offset))
                      = NetTotals(HourStart(offset, 0)) - NetTotals(AlignedEnd(offset) - offset)
  BY DEF HoursAddUp
<1> DEFINE hours == History("hour", offset)
           S == RowsOfBars(offset, Bars(HoursShown))
           begin == HourStart(offset, 0)
           end == AlignedEnd(offset) - offset
<1>0. offset \in Nat /\ clock \in Nat /\ Rows \in SUBSET Time /\ \A t \in Time : t \in Nat
  BY Times, ReportsAssumption DEF CounterTypes, Rows
<1>1. hours = HourBars(offset)
  BY DEF History
<1>2. SumOf(hours, DOMAIN hours) = Total(raw, S) /\ CanSum(raw, S)
  <2>1. DOMAIN hours = Bars(HoursShown)
    BY <1>1, Zenon DEF HourBars
  <2> HIDE DEF hours
  <2> QED
    BY <1>0, <1>1, <2>1, BarsAddUp
<1>3. \A t \in Rows : t \in S <=> t >= begin /\ ~(t >= end)
  <2> TAKE t \in Rows
  <2> DEFINE a == Hour(t, offset)
             b == FirstHour(offset)
  <2>1. /\ a \in Nat /\ b \in Int /\ HoursShown \in Nat \ {0}
        /\ t >= begin <=> b <= a
        /\ t >= end <=> b + HoursShown <= a
    BY <1>0, BarOfRow
  <2>2. t \in S <=> a - b \in 0..HoursShown - 1
    BY DEF RowsOfBars, Bars
  <2> HIDE DEF a, b, S, begin, end
  <2>3. a - b \in 0..HoursShown - 1 <=> b <= a /\ ~(b + HoursShown <= a)
    BY <2>1, SMT
  <2> QED
    BY <2>1, <2>2, <2>3
<1>4. \A t \in Rows : t >= end => t >= begin
  <2> TAKE t \in Rows
  <2> DEFINE a == Hour(t, offset)
             b == FirstHour(offset)
  <2>1. /\ a \in Nat /\ b \in Int /\ HoursShown \in Nat \ {0}
        /\ t >= begin <=> b <= a
        /\ t >= end <=> b + HoursShown <= a
    BY <1>0, BarOfRow
  <2> HIDE DEF a, b, begin, end
  <2>2. b + HoursShown <= a => b <= a
    BY <2>1, SMT
  <2> QED
    BY <2>1, <2>2
<1> DEFINE R == RowsSince(end)
<1>5. RowsSince(begin) = S \cup R /\ S \cap R = {}
  <2>1. S \subseteq Rows
    BY DEF RowsOfBars
  <2> HIDE DEF S, begin, end
  <2> QED
    BY <1>3, <1>4, <2>1 DEF RowsSince
<1>6. CanSum(raw, R)
  <2>1. R \in SUBSET Time
    BY <1>0 DEF RowsSince
  <2> HIDE DEF R
  <2> QED
    BY <2>1, RowsOfADay DEF TableTypes
<1>7. NetTotals(begin) = Total(raw, S \cup R) /\ NetTotals(end) = Total(raw, R)
  BY <1>5, Zenon DEF NetTotals
<1> HIDE DEF S, R
<1>8. /\ Total(raw, S \cup R) = Total(raw, S) + Total(raw, R)
      /\ Total(raw, S) \in Nat /\ Total(raw, R) \in Nat
  BY <1>2, <1>5, <1>6, TotalAddsUp, Zenon
<1> HIDE DEF begin, end
<1>9. Total(raw, S) = NetTotals(begin) - NetTotals(end)
  <2> DEFINE a == Total(raw, S)
             b == Total(raw, R)
  <2>1. a \in Nat /\ b \in Nat /\ NetTotals(begin) = a + b /\ NetTotals(end) = b
    BY <1>7, <1>8
  <2> HIDE DEF a, b
  <2>2. a = NetTotals(begin) - NetTotals(end)
    BY <2>1, SMT
  <2> QED
    BY <2>2 DEF a
<1> QED
  BY <1>2, <1>9, Zenon DEF begin, end

(* A row and the hour it is in are of one day: days are whole hours.       *)
LEMMA DayOfHour ==
  ASSUME NEW t \in Nat PROVE DayOf(HourOf(t, 0)) = DayOf(t)
<1>1. /\ HourLength \in Nat \ {0} /\ DayLength \in Nat \ {0} /\ DayLength % HourLength = 0
  BY LedgerAssumption, ReportsAssumption
<1>2. ((t \div HourLength) * HourLength) \div DayLength = t \div DayLength
  BY <1>1, PartsOfParts
<1>3. HourOf(t, 0) = (t \div HourLength) * HourLength
  <2>1. (t \div HourLength) * HourLength \in Nat
    BY <1>1, Quotient
  <2>2. t + 0 = t
    OBVIOUS
  <2>3. HourOf(t, 0) = (t \div HourLength) * HourLength - 0
    BY <2>2, Zenon DEF HourOf
  <2> QED
    BY <2>1, <2>3
<1> QED
  BY <1>2, <1>3, Zenon DEF DayOf

(* The hours of a day hold no more than its ledger where that has its rows. *)
LEMMA AllHoursFit == CounterTypes /\ TableTypes /\ Covers /\ ~strayed => HoursFitTheirDay
<1> DEFINE hours == History("hour", 0)
           HoursOf(d) == {h \in DOMAIN hours : DayOf(HourStart(0, h)) = d}
<1> SUFFICES ASSUME CounterTypes, TableTypes, Covers, ~strayed, NEW i \in DOMAIN History("day", 0),
                    DayShown(i) \in Days, IsCovered(DayShown(i))
             PROVE  SumOf(hours, HoursOf(DayShown(i))) <= History("day", 0)[i]
  BY DEF HoursFitTheirDay
<1>a. hours = HourBars(0) /\ DOMAIN hours = Bars(HoursShown)
  <2>1. hours = HourBars(0)
    BY DEF History
  <2> QED
    BY <2>1, Zenon DEF HourBars
<1>b. History("day", 0) = DayBars /\ i \in Bars(DaysShown)
  <2>1. History("day", 0) = DayBars
    BY DEF History
  <2> QED
    BY <2>1 DEF DayBars
<1> DEFINE d == DayShown(i)
           P == HoursOf(d)
           S == RowsOfBars(0, P)
           T == DayTimes(d)
<1>0. clock \in Nat /\ daily \in DayTables /\ d \in Days /\ \A t \in Time : t \in Nat
  BY Times DEF CounterTypes, TableTypes
<1>1. Covered(d)
  BY DEF Covers, IsCovered
<1>2. DayBars[i] = Booked(daily[d])
  <2>1. {d} \cap Days = {d}
    BY <1>0
  <2>2. DayBars[i] = Total(daily, {d})
    BY <1>b, <2>1 DEF DayBars, DaysTotal
  <2>3. Booked(daily[d]) \in Nat
    BY <1>0, BookedIsNat DEF DayTables
  <2> HIDE DEF d
  <2> QED
    BY <2>2, <2>3, TotalOfOne
<1>3. SumOf(hours, P) = Total(raw, S)
  <2>1. P \in SUBSET Bars(HoursShown) /\ 0 \in Nat
    BY <1>a
  <2> HIDE DEF P, hours
  <2> QED
    BY <1>a, <2>1, BarsAddUp
<1>4. S \in SUBSET T
  <2> SUFFICES ASSUME NEW t \in Rows, Hour(t, 0) - FirstHour(0) \in P PROVE t \in T
    BY DEF RowsOfBars
  <2> DEFINE h == Hour(t, 0) - FirstHour(0)
  <2>1. t \in Time /\ t \in Nat /\ h \in Bars(HoursShown) /\ DayOf(HourStart(0, h)) = d
    BY <1>0, <1>a DEF Rows
  <2>2. HourOf(t, 0) = HourStart(0, h)
    <3>1. /\ Hour(t, 0) \in Nat /\ FirstHour(0) \in Int
          /\ \A k \in Bars(HoursShown) :
               HourOf(t, 0) = HourStart(0, k) <=> Hour(t, 0) = FirstHour(0) + k
      BY <1>0, <2>1, BarOfRow
    <3>2. Hour(t, 0) = FirstHour(0) + h
      BY <3>1
    <3> HIDE DEF h
    <3> QED
      BY <2>1, <3>1, <3>2
  <2>3. DayOf(t) = d
    BY <2>1, <2>2, DayOfHour
  <2> QED
    BY <2>1, <2>3 DEF DayTimes
<1>5. Total(raw, S) <= Total(raw, T)
  <2>1. T \in SUBSET Time
    BY DEF DayTimes
  <2> HIDE DEF S, T
  <2>2. CanSum(raw, T)
    BY <2>1, RowsOfADay DEF TableTypes
  <2> QED
    BY <1>4, <2>2, TotalGrows
<1>6. Total(raw, S) \in Nat /\ Total(raw, T) \in Nat /\ Booked(daily[d]) \in Nat
  <2>1. T \in SUBSET Time /\ S \in SUBSET Time
    BY <1>4 DEF DayTimes
  <2>2. Booked(daily[d]) \in Nat
    BY <1>0, BookedIsNat DEF DayTables
  <2> HIDE DEF S, T
  <2> QED
    BY <2>1, <2>2, RowsOfADay DEF TableTypes
<1> DEFINE a == Total(raw, S)
           b == Total(raw, T)
           c == Booked(daily[d])
<1>7. a \in Nat /\ b \in Nat /\ c \in Nat /\ a <= b /\ b <= c
  BY <1>1, <1>5, <1>6 DEF Covered
<1> HIDE DEF a, b, c
<1>8. a <= c
  BY <1>7, SMT
<1> QED
  BY <1>b, <1>2, <1>3, <1>8, Zenon DEF a, c

(* A day is in its week and in its month.                                  *)
LEMMA AllDaysFit == CounterTypes /\ TableTypes => DaysFitTheirWeekAndMonth
<1> SUFFICES ASSUME CounterTypes, TableTypes
             PROVE  /\ \A i \in Bars(DaysShown) : DayShown(i) >= Monday(0) =>
                         \E j \in Bars(WeeksShown) :
                           DayShown(i) \in WeekDays(j) /\ DayBars[i] <= WeekBars[j]
                    /\ DayBars[DaysShown - 1] <= MonthBars[MonthsShown - 1]
  <2>1. History("day", 0) = DayBars
    BY DEF History
  <2>2. History("week", 0) = WeekBars
    BY DEF History
  <2>3. History("month", 0) = MonthBars
    BY DEF History
  <2>4. DOMAIN DayBars = Bars(DaysShown) /\ DOMAIN WeekBars = Bars(WeeksShown)
    BY DEF DayBars, WeekBars
  <2> HIDE DEF History
  <2> QED
    BY <2>1, <2>2, <2>3, <2>4 DEF DaysFitTheirWeekAndMonth
<1>0. /\ clock \in Nat /\ clock \in Time /\ daily \in DayTables
      /\ Today \in Nat /\ Today \in Days
      /\ WeekLength \in Nat \ {0} /\ FirstDay \in Nat /\ DaysShown \in Nat \ {0}
      /\ WeeksShown \in Nat \ {0} /\ MonthsShown \in Nat \ {0}
  BY Times, Calendar, ReportsAssumption DEF CounterTypes, TableTypes, Today
<1>1. ASSUME NEW D, NEW d \in D PROVE DaysTotal({d}) <= DaysTotal(D)
  <2> DEFINE S == {d} \cap Days
             T == D \cap Days
  <2>1. S \in SUBSET T /\ T \in SUBSET Days
    OBVIOUS
  <2> HIDE DEF S, T
  <2>2. CanSum(daily, T)
    BY <1>0, <2>1, TablesCanBeSummed, TotalCounts
  <2>3. Total(daily, S) <= Total(daily, T)
    BY <2>1, <2>2, TotalGrows
  <2> QED
    BY <2>3 DEF S, T, DaysTotal
<1>2. ASSUME NEW i \in Bars(DaysShown), DayShown(i) >= Monday(0)
      PROVE  \E j \in Bars(WeeksShown) :
               DayShown(i) \in WeekDays(j) /\ DayBars[i] <= WeekBars[j]
  <2> DEFINE W == WeekLength
             x == DayShown(i)
             first == Monday(0)
             y == x - first
             j == y \div W
  <2>1. ThisMonday \in Int /\ ThisMonday <= Today /\ Today < ThisMonday + W
    <3>1. (Today + FirstDay) % WeekLength \in 0..WeekLength - 1
      BY <1>0, SMT
    <3> QED
      BY <1>0, <3>1, SMT DEF ThisMonday
  <2>2. x \in Int /\ x <= Today
    BY <1>0 DEF DayShown, Bars
  <2>3. first = ThisMonday - W * (WeeksShown - 1 - 0)
    BY DEF Monday
  <2>4. first \in Int /\ W * WeeksShown \in Nat /\ first + W * WeeksShown = ThisMonday + W
    BY <1>0, <2>1, <2>3, SMT
  <2>5. y \in Nat /\ y < W * WeeksShown /\ x = first + y
    <3> HIDE DEF x, first
    <3> QED
      BY <1>0, <1>2, <2>1, <2>2, <2>4, SMT DEF x, first
  <2> HIDE DEF y
  <2>6. j \in Nat /\ j * W \in Nat /\ j * W <= y /\ y < j * W + W
    BY <1>0, <2>5, Quotient
  <2> HIDE DEF j, x, first
  <2>7. j \in Bars(WeeksShown)
    <3>1. WeeksShown <= j => WeeksShown * W <= j * W
      BY <1>0, <2>6, Multiples
    <3>2. WeeksShown * W = W * WeeksShown
      BY <1>0, SMT
    <3>3. j < WeeksShown
      BY <1>0, <2>4, <2>5, <2>6, <3>1, <3>2, SMT
    <3> QED
      BY <1>0, <2>6, <3>3 DEF Bars
  <2>8. x \in WeekDays(j)
    <3>1. Monday(j) = ThisMonday - W * (WeeksShown - 1 - j)
      BY DEF Monday
    <3>2. Monday(j) = first + j * W
      BY <1>0, <2>1, <2>3, <2>6, <3>1, SMT
    <3>3. y - j * W \in 0..W - 1 /\ x = Monday(j) + (y - j * W)
      BY <1>0, <2>4, <2>5, <2>6, <3>2, SMT
    <3> QED
      BY <3>3 DEF WeekDays
  <2>9. DayBars[i] = DaysTotal({x}) /\ WeekBars[j] = DaysTotal(WeekDays(j))
    BY <2>7 DEF DayBars, WeekBars, x
  <2> QED
    BY <1>1, <2>7, <2>8, <2>9 DEF x
<1>3. DayBars[DaysShown - 1] <= MonthBars[MonthsShown - 1]
  <2>1. DayShown(DaysShown - 1) = Today /\ DaysShown - 1 \in Bars(DaysShown)
    BY <1>0 DEF DayShown, Bars
  <2>2. MonthShown(MonthsShown - 1) = MonthOf(clock) /\ MonthsShown - 1 \in Bars(MonthsShown)
    <3>1. MonthOf(clock) \in Nat
      BY <1>0, MonthBegins
    <3> QED
      BY <1>0, <3>1 DEF MonthShown, Bars
  <2>3. Today \in DaysOfMonth(MonthOf(clock))
    BY <1>0, MonthOfDay DEF DaysOfMonth, Today
  <2>4. DayBars[DaysShown - 1] = DaysTotal({Today})
    BY <2>1 DEF DayBars
  <2>5. MonthBars[MonthsShown - 1] = DaysTotal(DaysOfMonth(MonthOf(clock)))
    BY <2>2 DEF MonthBars
  <2> QED
    BY <1>1, <2>3, <2>4, <2>5
<1> QED
  BY <1>2, <1>3

(* At any moment the charts of hours, days, weeks and months agree, across *)
(* prunes, seedings, failed statements, crashes and steps of the clock     *)
(* (db.rs:213-222, 470-494, 823-832, 1013-1020).                           *)
THEOREM ChartsAgreeThroughout == Spec => []ChartsAgree
<1>1. LedgerInv => ChartsAgree
  BY TypesAre, AllHoursAddUp, AllHoursFit, AllDaysFit DEF LedgerInv, ChartsAgree
<1> QED
  BY <1>1, LedgerInvInit, LedgerInvStep, PTL DEF Spec

-----------------------------------------------------------------------------
USE LedgerAssumption DEF Time, None

(* What a counter of a month may have come to by now.                      *)
Room(m) == peak - m * MonthLength + Clamp

BeforeRestore == {"down", "heal", "healed", "restore"}
MonthBeforeCounter == {"newCounter", "saveCounter"}

(* The counter and the time that is about to be added to it; a process     *)
(* that has just started has none to add.                                  *)
SessionFits ==
  /\ pc \in BeforeRestore => lapse = None
  /\ pc \notin BeforeRestore => session + Booked(lapse) <= Room(month)
  /\ pc \in Collecting => MonthOf(stamp) = month

(* Each snapshot of the channel, for the month that it was taken in.       *)
QueueFits ==
  \A i \in 1..Len(queue) : queue[i].session <= Room(MonthOf(queue[i].at))

(* What is stored, except while the month is and the counter is not yet.   *)
MetaFits ==
  /\ pc \in MonthBeforeCounter => meta.month = month
  /\ pc \notin MonthBeforeCounter /\ meta.month # None
       => Booked(meta.session) <= Room(meta.month)

CounterFits == clock = peak /\ SessionFits /\ QueueFits /\ MetaFits

CounterInv == CounterTypes /\ (~spoiled => CounterFits)

-----------------------------------------------------------------------------
(* The numbers of these types.                                             *)
LEMMA CounterNumbers ==
  ASSUME CounterTypes
  PROVE  /\ clock \in Nat /\ peak \in Nat /\ month \in Nat /\ session \in Nat
         /\ Booked(meta.session) \in Nat
         /\ meta.month # None => meta.month \in Nat
<1>1. month \in Months /\ meta.month \in {None} \cup Months
      /\ meta.session \in {None} \cup Nat /\ session \in Nat
  BY DEF CounterTypes, Metas
<1>2. clock \in Time /\ peak \in Time
  BY DEF CounterTypes
<1>3. Months \subseteq Nat /\ Time \subseteq Nat
  BY Calendar, Times, Zenon
<1>4. Booked(meta.session) \in Nat
  BY <1>1, BookedIsNat
<1> QED
  BY <1>1, <1>2, <1>3, <1>4, Zenon

(* An earlier month leaves more room.                                      *)
LEMMA RoomShrinks ==
  ASSUME CounterTypes, NEW m \in Nat, NEW n \in Nat, m <= n
  PROVE  Room(m) \in Int /\ Room(n) \in Int /\ Room(n) <= Room(m)
<1>1. m * MonthLength \in Int /\ n * MonthLength \in Int
      /\ m * MonthLength <= n * MonthLength
  BY SMT
<1> QED
  BY <1>1, CounterNumbers, SMT DEF Room

(* A month that has begun has room for one interval.                       *)
LEMMA ThisMonthHasRoom ==
  ASSUME CounterTypes, NEW t \in Nat, t <= peak
  PROVE  Clamp <= Room(MonthOf(t))
<1>1. MonthOf(t) * MonthLength \in Nat /\ MonthOf(t) * MonthLength <= t
  BY MonthBegins, SMT
<1> QED
  BY <1>1, CounterNumbers, SMT DEF Room

-----------------------------------------------------------------------------
(* While neither the time nor what is stored nor the channel changes, what *)
(* they hold keeps fitting.                                                *)
LEMMA StoredKeepsFitting ==
  ASSUME CounterFits, UNCHANGED <<clock, peak, queue, meta>>,
         pc \notin MonthBeforeCounter, pc' \notin MonthBeforeCounter
  PROVE  (clock = peak)' /\ QueueFits' /\ MetaFits'
BY DEF CounterFits, QueueFits, MetaFits, Room

(* A statement of the turn of a month that succeeded keeps everything      *)
(* fitting: between the month and the counter only the month is known.     *)
LEMMA SaveFits ==
  ASSUME CounterTypes, CounterFits, ~spoiled', NEW from, NEW to, NEW saved \in Metas,
         Save(from, to, saved), from \notin BeforeRestore, to \notin BeforeRestore,
         to \in Collecting => from \in Collecting,
         to \in MonthBeforeCounter => saved.month = month,
         to \notin MonthBeforeCounter /\ saved.month # None
           => Booked(saved.session) <= Room(saved.month)
  PROVE  CounterFits'
<1>1. meta' = saved
  BY DEF Save
<1>2. pc = from /\ pc' = to
  BY DEF Save, Goto
<1>3. UNCHANGED <<clock, peak, stamp, month, session, prevMonth, lapse, queue>>
  BY DEF Save
<1>4. (clock = peak)' /\ QueueFits'
  BY <1>3 DEF CounterFits, QueueFits, Room
<1>5. SessionFits'
  BY <1>2, <1>3 DEF CounterFits, SessionFits, Room
<1>6. MetaFits'
  BY <1>1, <1>2, <1>3 DEF MetaFits, Room
<1> QED
  BY <1>4, <1>5, <1>6 DEF CounterFits

(* A snapshot that is not of an earlier month than the stored one fits it. *)
LEMMA StoreFits ==
  ASSUME CounterTypes, CounterTypes', CounterFits, ~spoiled', Store
  PROVE  CounterFits'
<1> DEFINE s == Head(queue)
<1>1. UNCHANGED <<clock, pc, month, session, prevMonth, lapse, stamp, peak>>
  BY DEF Store
<1>2. queue # <<>> /\ queue \in Seq(Snapshots) /\ queue' = Tail(queue)
  BY DEF Store, CounterTypes
<1>3. s \in Snapshots /\ s.session <= Room(MonthOf(s.at))
  BY <1>2, OldestSnapshot DEF CounterFits, QueueFits
<1>4. QueueFits'
  <2> SUFFICES ASSUME NEW i \in 1..Len(Tail(queue))
               PROVE  Tail(queue)[i].session <= Room(MonthOf(Tail(queue)[i].at))
    BY <1>1, <1>2 DEF QueueFits, Room
  <2>1. Tail(queue)[i] = queue[i + 1] /\ i + 1 \in 1..Len(queue)
    BY <1>2, OldestSnapshot, SMT
  <2> QED
    BY <2>1 DEF CounterFits, QueueFits
<1>5. MetaFits'
  <2>1. CASE meta' = meta
    BY <1>1, <2>1 DEF CounterFits, MetaFits, Room
  <2>2. CASE /\ meta' = [meta EXCEPT !.session = s.session]
             /\ ~(MonthOf(s.at) < meta.month)
    <3>1. meta'.month = meta.month /\ meta'.session = s.session
      BY <2>2 DEF CounterTypes, Metas
    <3>2. ASSUME meta.month # None PROVE Booked(s.session) <= Room(meta.month)
      <4>1. meta.month \in Nat /\ s.at \in Nat /\ s.session \in Nat
        BY <1>3, <3>2, CounterNumbers, SMT DEF Snapshots
      <4>2. MonthOf(s.at) \in Nat
        BY <4>1, MonthBegins
      <4>3. meta.month <= MonthOf(s.at)
        BY <2>2, <4>1, <4>2, SMT
      <4>4. /\ Room(meta.month) \in Int /\ Room(MonthOf(s.at)) \in Int
            /\ Room(MonthOf(s.at)) <= Room(meta.month)
        BY <4>1, <4>2, <4>3, RoomShrinks
      <4>5. Booked(s.session) = s.session
        BY <4>1, SMT DEF Booked
      <4> QED
        BY <1>3, <4>1, <4>4, <4>5, SMT
    <3> QED
      BY <1>1, <3>1, <3>2 DEF CounterFits, MetaFits, Room
  <2>3. \/ meta' = meta
        \/ /\ meta' = [meta EXCEPT !.session = s.session]
           /\ ~(MonthOf(s.at) < meta.month)
    BY DEF Store, InsertRaw, Spoil
  <2> QED
    BY <2>1, <2>2, <2>3
<1>6. SessionFits' /\ (clock = peak)'
  BY <1>1 DEF CounterFits, SessionFits, Room
<1> QED
  BY <1>4, <1>5, <1>6 DEF CounterFits

(* The time that passes makes room for what it adds to the counter.        *)
LEMMA TickFits ==
  ASSUME CounterTypes, CounterFits, Tick
  PROVE  CounterFits'
<1>1. UNCHANGED <<pc, month, session, stamp, queue, meta>>
  BY DEF Tick, database
<1>2. clock' = peak' /\ peak' = peak + 1
  BY SMT DEF Tick, CounterFits, CounterTypes
<1>3. Booked(lapse') \in Int /\ Booked(lapse) \in Int
      /\ Booked(lapse') <= Booked(lapse) + 1
  BY SMT DEF Tick, Booked, Least, CounterTypes
<1>4. ASSUME NEW m \in Nat
      PROVE  Room(m) \in Int /\ peak' - m * MonthLength + Clamp = Room(m) + 1
  <2>1. m * MonthLength \in Nat /\ peak \in Nat
    BY CounterNumbers, SMT
  <2> QED
    BY <1>2, <2>1, SMT DEF Room
<1>5. SessionFits'
  <2>1. session \in Nat /\ month \in Nat
    BY CounterNumbers
  <2>2. Room(month) \in Int /\ Room(month)' = Room(month) + 1
    BY <1>1, <1>4, <2>1 DEF Room
  <2>3. pc \notin BeforeRestore => session + Booked(lapse') <= Room(month) + 1
    BY <1>3, <2>1, <2>2, SMT DEF CounterFits, SessionFits
  <2>4. lapse = None => lapse' = None
    BY DEF Tick
  <2> QED
    BY <1>1, <2>2, <2>3, <2>4 DEF CounterFits, SessionFits
<1>6. QueueFits'
  <2> SUFFICES ASSUME NEW i \in 1..Len(queue)
               PROVE  queue[i].session <= Room(MonthOf(queue[i].at))'
    BY <1>1 DEF QueueFits
  <2>1. queue[i] \in Snapshots
    BY DEF CounterTypes
  <2>2. queue[i].at \in Nat /\ queue[i].session \in Nat
    BY <2>1, SMT DEF Snapshots
  <2>3. MonthOf(queue[i].at) \in Nat
    BY <2>2, MonthBegins
  <2>4. queue[i].session <= Room(MonthOf(queue[i].at))
    BY DEF CounterFits, QueueFits
  <2>5. Room(MonthOf(queue[i].at)) \in Int
        /\ Room(MonthOf(queue[i].at))' = Room(MonthOf(queue[i].at)) + 1
    BY <1>1, <1>4, <2>3 DEF Room
  <2> QED
    BY <2>2, <2>4, <2>5, SMT
<1>7. MetaFits'
  <2>1. ASSUME meta.month # None, Booked(meta.session) <= Room(meta.month)
        PROVE  Booked(meta.session) <= Room(meta.month)'
    <3>1. meta.month \in Nat /\ Booked(meta.session) \in Nat
      BY <2>1, CounterNumbers
    <3>2. Room(meta.month) \in Int /\ Room(meta.month)' = Room(meta.month) + 1
      BY <1>1, <1>4, <3>1 DEF Room
    <3> QED
      BY <2>1, <3>1, <3>2, SMT
  <2> QED
    BY <1>1, <2>1 DEF CounterFits, MetaFits
<1> QED
  BY <1>2, <1>5, <1>6, <1>7 DEF CounterFits

-----------------------------------------------------------------------------
(* Every step that does not spoil the counter keeps it fitting its month   *)
(* (metrics.rs:86-114, 336-372; db.rs: insert_raw).                        *)
LEMMA FitsStep ==
  ASSUME CounterTypes, CounterTypes', CounterFits, [Next]_vars, ~spoiled'
  PROVE  CounterFits'
<1> USE DEF history, database, process, Goto, MonthBeforeCounter, BeforeRestore, Collecting
<1>0. /\ clock \in Nat /\ month \in Nat /\ session \in Nat /\ Booked(lapse) \in Nat
      /\ Booked(lapse) <= Clamp /\ clock = peak
  <2>1. clock \in Nat /\ month \in Nat /\ session \in Nat /\ clock = peak
    BY CounterNumbers DEF CounterFits
  <2>2. Booked(lapse) \in Nat /\ Booked(lapse) <= Clamp
    BY SMT DEF CounterTypes, Booked
  <2> QED
    BY <2>1, <2>2
<1>a. MonthOf(clock) \in Nat /\ Clamp <= Room(MonthOf(clock))
  <2>1. clock <= peak
    BY <1>0, SMT
  <2> QED
    BY <1>0, <2>1, MonthBegins, ThisMonthHasRoom
<1>b. /\ Room(MonthOf(clock)) \in Int /\ Room(month) \in Int
  BY <1>0, <1>a, RoomShrinks, SMT
<1>1. CASE Open
  <2>1. pc = "down" /\ pc' \in {"restore", "heal"}
    BY <1>1 DEF Open
  <2>2. UNCHANGED <<clock, peak, stamp, month, session, lapse, queue, meta>>
    BY <1>1 DEF Open
  <2> QED
    BY <2>1, <2>2, StoredKeepsFitting DEF CounterFits, SessionFits
<1>2. CASE Heal
  <2>1. pc = "heal" /\ pc' = "healed"
    BY <1>2 DEF Heal
  <2>2. UNCHANGED <<clock, peak, stamp, month, session, lapse, queue, meta>>
    BY <1>2 DEF Heal
  <2> QED
    BY <2>1, <2>2, StoredKeepsFitting DEF CounterFits, SessionFits
<1>3. CASE MarkHealed
  <2>1. pc = "healed" /\ pc' = "restore"
    BY <1>3 DEF MarkHealed
  <2>2. UNCHANGED <<clock, peak, stamp, month, session, lapse, queue>>
    BY <1>3 DEF MarkHealed
  <2>3. meta'.month = meta.month /\ meta'.session = meta.session
    BY <1>3 DEF MarkHealed, CounterTypes, Metas
  <2> QED
    BY <2>1, <2>2, <2>3 DEF CounterFits, SessionFits, QueueFits, MetaFits, Room
<1>4. CASE Restore
  <2>1. pc = "restore" /\ month' = MonthOf(clock) /\ pc' \in {"seed", "newMonth"}
    BY <1>4 DEF Restore
  <2>2. UNCHANGED <<clock, peak, stamp, lapse, queue, meta>>
    BY <1>4 DEF Restore
  <2>3. Booked(lapse) = 0
    BY <2>1 DEF CounterFits, SessionFits, Booked
  <2>4. session' \in Nat /\ session' <= Room(MonthOf(clock))
    <3>1. CASE meta.month = MonthOf(clock) /\ session' = Booked(meta.session)
      <4>1. meta.month # None
        BY <1>a, <3>1, SMT
      <4>2. Booked(meta.session) <= Room(meta.month)
        BY <2>1, <4>1 DEF CounterFits, MetaFits
      <4> QED
        BY <3>1, <4>2 DEF CounterTypes
    <3>2. CASE session' = 0
      BY <1>a, <1>b, <3>2, SMT
    <3> QED
      BY <1>4, <3>1, <3>2 DEF Restore
  <2>5. session' + Booked(lapse') <= Room(month')
    BY <1>b, <2>1, <2>2, <2>3, <2>4, SMT
  <2>6. SessionFits'
    BY <2>1, <2>2, <2>5 DEF SessionFits, Room
  <2> QED
    BY <2>1, <2>2, <2>6, StoredKeepsFitting DEF CounterFits
<1>5. CASE NewMonth
  <2> DEFINE saved == [meta EXCEPT !.month = month]
  <2>1. saved \in Metas /\ saved.month = month
    BY DEF CounterTypes, Metas
  <2> QED
    BY <1>5, <2>1, SaveFits DEF NewMonth
<1>6. CASE NewCounter
  <2> DEFINE saved == [meta EXCEPT !.session = 0]
  <2>1. saved \in Metas /\ saved.session = 0 /\ saved.month = meta.month
    BY DEF CounterTypes, Metas
  <2>2. pc = "newCounter"
    BY <1>6 DEF NewCounter, Save
  <2>3. meta.month = month /\ session + Booked(lapse) <= Room(month)
    BY <2>2 DEF CounterFits, SessionFits, MetaFits
  <2>4. Booked(saved.session) <= Room(saved.month)
    BY <1>0, <1>b, <2>1, <2>3, SMT DEF Booked
  <2> QED
    BY <1>6, <2>1, <2>4, SaveFits DEF NewCounter
<1>7. CASE Seed
  <2>1. pc = "seed" /\ pc' \in {"ready", "reconcile"}
    BY <1>7 DEF Seed
  <2>2. UNCHANGED <<clock, peak, stamp, month, session, lapse, queue, meta>>
    BY <1>7 DEF Seed
  <2> QED
    BY <2>1, <2>2, StoredKeepsFitting DEF CounterFits, SessionFits, Room
<1>8. CASE Reconcile
  <2>1. pc = "reconcile" /\ pc' = "reconciled"
    BY <1>8 DEF Reconcile
  <2>2. UNCHANGED <<clock, peak, stamp, month, session, lapse, queue, meta>>
    BY <1>8 DEF Reconcile
  <2> QED
    BY <2>1, <2>2, StoredKeepsFitting DEF CounterFits, SessionFits, Room
<1>9. CASE MarkReconciled
  <2>1. pc = "reconciled" /\ pc' = "ready"
    BY <1>9 DEF MarkReconciled
  <2>2. UNCHANGED <<clock, peak, stamp, month, session, lapse, queue>>
    BY <1>9 DEF MarkReconciled
  <2>3. meta'.month = meta.month /\ meta'.session = meta.session
    BY <1>9 DEF MarkReconciled, CounterTypes, Metas
  <2> QED
    BY <2>1, <2>2, <2>3 DEF CounterFits, SessionFits, QueueFits, MetaFits, Room
<1>10. CASE Collect
  <2>1. pc = "ready" /\ pc' \in {"savePrev", "send"} /\ stamp' = clock
    BY <1>10 DEF Collect
  <2>2. UNCHANGED <<clock, peak, lapse, queue, meta>>
    BY <1>10 DEF Collect
  <2>3. month' = MonthOf(clock)
    BY <1>10 DEF Collect
  <2>4. session' + Booked(lapse) <= Room(MonthOf(clock))
    <3>1. CASE session' = 0
      BY <1>0, <1>a, <1>b, <3>1, SMT
    <3>2. CASE MonthOf(clock) = month /\ session' = session
      BY <2>1, <3>2 DEF CounterFits, SessionFits
    <3> QED
      BY <1>10, <3>1, <3>2 DEF Collect
  <2>5. SessionFits'
    BY <2>1, <2>2, <2>3, <2>4 DEF SessionFits, Room
  <2> QED
    BY <2>1, <2>2, <2>5, StoredKeepsFitting DEF CounterFits
<1>11. CASE SavePrev
  <2> DEFINE saved == [meta EXCEPT !.prev = prevMonth]
  <2>1. saved \in Metas /\ saved.session = meta.session /\ saved.month = meta.month
    BY DEF CounterTypes, Metas
  <2>2. pc = "savePrev"
    BY <1>11 DEF SavePrev, Save
  <2>3. saved.month # None => Booked(saved.session) <= Room(saved.month)
    BY <2>1, <2>2 DEF CounterFits, MetaFits
  <2> QED
    BY <1>11, <2>1, <2>3, SaveFits DEF SavePrev
<1>12. CASE SaveMonth
  <2> DEFINE saved == [meta EXCEPT !.month = month]
  <2>1. saved \in Metas /\ saved.month = month
    BY DEF CounterTypes, Metas
  <2> QED
    BY <1>12, <2>1, SaveFits DEF SaveMonth
<1>13. CASE SaveCounter
  <2> DEFINE saved == [meta EXCEPT !.session = 0]
  <2>1. saved \in Metas /\ saved.session = 0 /\ saved.month = meta.month
    BY DEF CounterTypes, Metas
  <2>2. pc = "saveCounter"
    BY <1>13 DEF SaveCounter, Save
  <2>3. meta.month = month /\ session + Booked(lapse) <= Room(month)
    BY <2>2 DEF CounterFits, SessionFits, MetaFits
  <2>4. Booked(saved.session) <= Room(saved.month)
    BY <1>0, <1>b, <2>1, <2>3, SMT DEF Booked
  <2> QED
    BY <1>13, <2>1, <2>4, SaveFits DEF SaveCounter
<1>14. CASE Send
  <2> DEFINE s == [at |-> stamp, session |-> session']
  <2>1. pc = "send" /\ pc' = "ready" /\ lapse' = 0 /\ queue' = Append(queue, s)
    BY <1>14 DEF Send
  <2>2. UNCHANGED <<clock, peak, month, meta>>
    BY <1>14 DEF Send
  <2>3. session' \in Nat /\ session' <= Room(month) /\ MonthOf(stamp) = month
    BY <1>14, <1>0, <2>1 DEF Send, CounterFits, SessionFits
  <2>4. s \in Snapshots /\ queue \in Seq(Snapshots)
    BY <2>3 DEF Snapshots, CounterTypes
  <2>5. QueueFits'
    <3> SUFFICES ASSUME NEW i \in 1..Len(Append(queue, s))
                 PROVE  Append(queue, s)[i].session
                          <= Room(MonthOf(Append(queue, s)[i].at))
      BY <2>1, <2>2 DEF QueueFits, Room
    <3>1. CASE i \in 1..Len(queue)
      <4>1. Append(queue, s)[i] = queue[i]
        BY <2>4, <3>1, SMT
      <4> QED
        BY <3>1, <4>1 DEF CounterFits, QueueFits
    <3>2. CASE i = Len(queue) + 1
      <4>1. Append(queue, s)[i] = s
        BY <2>4, <3>2, SMT
      <4> QED
        BY <2>3, <4>1
    <3>3. i \in 1..Len(queue) \/ i = Len(queue) + 1
      BY <2>4, SMT
    <3> QED
      BY <3>1, <3>2, <3>3
  <2>6. Booked(lapse') = 0
    BY <2>1 DEF Booked
  <2>7. session' + Booked(lapse') <= Room(month)
    BY <1>b, <2>3, <2>6, SMT
  <2>8. SessionFits'
    BY <2>1, <2>2, <2>7 DEF SessionFits, Room
  <2>9. (clock = peak)' /\ MetaFits'
    BY <2>1, <2>2 DEF CounterFits, MetaFits, Room
  <2> QED
    BY <2>5, <2>8, <2>9 DEF CounterFits
<1>15. CASE Store
  BY <1>15, StoreFits
<1>16. CASE Crash
  <2>1. pc \notin MonthBeforeCounter /\ pc' = "down" /\ lapse' = None
    BY <1>16 DEF Crash, Spoil
  <2>2. UNCHANGED <<clock, peak, meta>> /\ queue' = <<>>
    BY <1>16 DEF Crash
  <2>3. SessionFits'
    BY <2>1 DEF SessionFits
  <2>4. QueueFits'
    BY <2>2, SMT DEF QueueFits
  <2>5. (clock = peak)' /\ MetaFits'
    BY <2>1, <2>2 DEF CounterFits, MetaFits, Room
  <2> QED
    BY <2>3, <2>4, <2>5 DEF CounterFits
<1>17. CASE Tick
  BY <1>17, TickFits
<1>18. CASE SetBack
  BY <1>18 DEF SetBack
<1>19. CASE UNCHANGED vars
  BY <1>19 DEF vars, CounterFits, SessionFits, QueueFits, MetaFits, Room
<1> QED
  BY <1>1, <1>2, <1>3, <1>4, <1>5, <1>6, <1>7, <1>8, <1>9, <1>10, <1>11, <1>12,
     <1>13, <1>14, <1>15, <1>16, <1>17, <1>18, <1>19 DEF Next

(* A database that is new, or of a version that kept the counter of this   *)
(* month, fits.                                                            *)
LEMMA CounterInit == Init => CounterInv
<1> SUFFICES ASSUME Init PROVE CounterInv
  OBVIOUS
<1> USE DEF Init
<1>1. /\ StartAt \in Time /\ StartAt \in Nat
      /\ StartAt % MonthLength \in Nat /\ StartAt \div MonthLength \in Nat
      /\ StartAt = MonthLength * (StartAt \div MonthLength) + (StartAt % MonthLength)
  BY SMT
<1>2. /\ meta.session \in {None, StartAt % MonthLength}
      /\ meta.month \in {None, MonthOf(StartAt)}
      /\ meta.month # None => meta.session = StartAt % MonthLength
  BY <1>1, SMT DEF MonthOf
<1>3. CounterTypes
  BY TypesInit, TypesAre
<1>4. MetaFits
  <2>1. StartAt % MonthLength <= Room(MonthOf(StartAt))
    BY <1>1, SMT DEF Room, MonthOf
  <2>2. Booked(StartAt % MonthLength) = StartAt % MonthLength
    BY <1>1, SMT DEF Booked
  <2> QED
    BY <1>2, <2>1, <2>2 DEF MetaFits, MonthBeforeCounter
<1>5. SessionFits /\ QueueFits /\ clock = peak
  BY SMT DEF SessionFits, QueueFits, BeforeRestore, Collecting
<1> QED
  BY <1>3, <1>4, <1>5 DEF CounterInv, CounterFits

(* The counter's invariant is inductive: once it is spoiled it stays so.   *)
LEMMA CounterStep == CounterInv /\ [Next]_vars => CounterInv'
<1> SUFFICES ASSUME CounterInv, [Next]_vars PROVE CounterInv'
  OBVIOUS
<1>1. CounterTypes'
  BY CounterTypesStep DEF CounterInv
<1>2. ~spoiled' => ~spoiled
  BY DEF Next, Open, Heal, MarkHealed, Restore, NewMonth, NewCounter, Save, Seed,
         Reconcile, MarkReconciled, Collect, SavePrev, SaveMonth, SaveCounter, Send,
         Store, InsertRaw, Spoil, Crash, Tick, SetBack, vars, history
<1>3. ~spoiled' => CounterFits'
  BY <1>1, <1>2, FitsStep DEF CounterInv
<1> QED
  BY <1>1, <1>3 DEF CounterInv

(* The month's counter counts its own month only, across restarts, lost    *)
(* snapshots and turns of the month, for every length of month and every   *)
(* clamp (metrics.rs:86-114, 336-372).                                     *)
THEOREM CounterCountsItsMonth == Spec => []CounterIsThisMonths
<1>1. CounterInv => CounterIsThisMonths
  <2> SUFFICES ASSUME CounterInv, ~spoiled, pc \in {"ready", "send"}
               PROVE  session <= Room(month)
    BY DEF CounterIsThisMonths, Room
  <2>1. session + Booked(lapse) <= Room(month)
    BY DEF CounterInv, CounterFits, SessionFits, BeforeRestore
  <2>2. session \in Nat /\ month \in Nat
    BY CounterNumbers DEF CounterInv
  <2>3. Booked(lapse) \in Nat
    BY SMT DEF CounterInv, CounterTypes, Booked
  <2>4. Room(month) \in Int
    BY <2>2, RoomShrinks, SMT DEF CounterInv
  <2> QED
    BY <2>1, <2>2, <2>3, <2>4, SMT
<1> QED
  BY <1>1, CounterInit, CounterStep, PTL DEF Spec
=============================================================================
