------------------------- MODULE FolderWalk_proofs -------------------------
(***************************************************************************)
(* For any tree of any size, any limits, and any number of scans: a        *)
(* directory that does not answer costs one thread, what is written off    *)
(* has earned it, the collapse bounds the refusals under one parent, and   *)
(* the numbers that are published are honest.  The last one comes last: it *)
(* needs the tree, where in it a walk is, and what has been counted where. *)
(* At the end, about the claim under which a scan runs: it always has its  *)
(* guard, and is a lock until it is handed over.                           *)
(***************************************************************************)
EXTENDS FolderWalk, ScanClaim, FiniteSetTheorems, WellFoundedInduction, TLAPS

USE FolderWalkAssumption

-----------------------------------------------------------------------------
(* The types.  The directories that are open make a path from the root of  *)
(* the walk to the cursor: nothing above the root is ever reached.         *)
IsPath(S) ==
  /\ S \subseteq Dirs
  /\ cursor \in S \cup {Nowhere}
  /\ IF root = Nowhere THEN S = {} ELSE root \in S
  /\ Root \in S => root = Root
  /\ \A d \in S \ {root} : Parent[d] \in S

FramesNest ==
  /\ todo[Nowhere] \subseteq Dirs \cap {root}
  /\ \A d \in Dirs : todo[d] \cap Dirs \subseteq Children(d)

PathInv == (\E S \in SUBSET Dirs : IsPath(S)) /\ FramesNest

TypeInv == TypeOK /\ PathInv

(* The parts of TypeOK that a walk, a request and a process have.          *)
Tables == [Dirs -> Subtotal \cup {NoRow}]
WalkTypes ==
  /\ root \in Frames /\ cursor \in Frames
  /\ todo \in [Frames -> SUBSET (Dirs \cup Files)]
  /\ total \in [Frames -> Subtotal]
  /\ folders \in Tables
  /\ blocked \subseteq Dirs /\ refusals \in [Dirs -> Nat]
  /\ hardlinks \subseteq Files /\ truncated \in BOOLEAN
RequestTypes ==
  /\ scan \in {"none", "full", "verify"} /\ late \in BOOLEAN
  /\ queue \in Seq(Dirs) /\ learned \subseteq Dirs
  /\ measured \in Tables
ProcessTypes == quarantined \subseteq Dirs /\ failed \subseteq Dirs /\ lost \in [Dirs -> Nat]
CounterTypes == scans \in 0..MaxScans /\ events \in 0..MaxEvents

(* They are what TypeOK consists of ...                                    *)
LEMMA TypesApart ==
  TypeOK <=> WalkTypes /\ RequestTypes /\ ProcessTypes /\ CounterTypes /\ row \in Tables
BY DEF TypeOK, WalkTypes, RequestTypes, ProcessTypes, CounterTypes, Tables

(* ... and together they make it, after a step.                            *)
LEMMA TypesTogether ==
  ASSUME WalkTypes', PathInv', RequestTypes', ProcessTypes', CounterTypes', row' \in Tables
  PROVE  TypeInv'
BY DEF TypeInv, TypeOK, WalkTypes, RequestTypes, ProcessTypes, CounterTypes, Tables

(* An empty walk, and one that is begun, are walks.                        *)
LEMMA EmptyTypes ==
  /\ NoRows \in Tables
  /\ NoTodo \in [Frames -> SUBSET (Dirs \cup Files)]
  /\ NoTotal \in [Frames -> Subtotal]
  /\ NoRefusals \in [Dirs -> Nat]
  /\ Nowhere \in Frames /\ Root \in Frames
BY DEF NoRows, Tables, NoTodo, NoTotal, Nil, Subtotal, NoRefusals, Frames

(* A walk that begins has its root before it.                              *)
LEMMA BegunWalk ==
  ASSUME NEW r \in Dirs, BeginWalk(r)
  PROVE  WalkTypes' /\ PathInv'
<1>1. /\ root' = r /\ cursor' = Nowhere /\ r # Nowhere
      /\ todo' \in [Frames -> SUBSET (Dirs \cup Files)]
      /\ todo'[Nowhere] = {r} /\ \A d \in Dirs : todo'[d] = {}
  BY DEF BeginWalk, NoTodo, Frames
<1>2. WalkTypes'
  BY <1>1, EmptyTypes DEF BeginWalk, WalkTypes, Frames
<1>3. IsPath({r})'
  BY <1>1 DEF IsPath
<1>4. FramesNest'
  BY <1>1 DEF FramesNest
<1> QED
  BY <1>2, <1>3, <1>4 DEF PathInv

(* A walk that is forgotten leaves nothing open.                           *)
LEMMA ForgottenWalk ==
  ASSUME ForgetWalk
  PROVE  WalkTypes' /\ PathInv'
<1>1. /\ root' = Nowhere /\ cursor' = Nowhere
      /\ todo'[Nowhere] = {} /\ \A d \in Dirs : todo'[d] = {}
  BY DEF ForgetWalk, NoTodo, Frames
<1>2. WalkTypes'
  BY EmptyTypes DEF ForgetWalk, WalkTypes
<1>3. IsPath({})' /\ FramesNest'
  BY <1>1 DEF IsPath, FramesNest
<1> QED
  BY <1>2, <1>3 DEF PathInv

(* A request that has ended leaves nothing to be measured.                 *)
LEMMA ForgottenRequest == ForgetRequest => RequestTypes'
<1>1. <<>> \in Seq(Dirs)
  OBVIOUS
<1> QED
  BY <1>1, EmptyTypes DEF ForgetRequest, RequestTypes

(* A subtotal absorbs another.                                             *)
LEMMA AbsorbTypes ==
  ASSUME total \in [Frames -> Subtotal], NEW f \in Frames, NEW sub \in Subtotal, Absorb(f, sub)
  PROVE  total' \in [Frames -> Subtotal]
<1>1. total[f].size + sub.size \in Nat /\ total[f].unreadable + sub.unreadable \in Nat
  BY DEF Subtotal
<1>2. DOMAIN total' = Frames /\ \A g \in Frames \ {f} : total'[g] = total[g]
  BY DEF Absorb
<1>3. total'[f] = [size |-> total[f].size + sub.size,
                   unreadable |-> total[f].unreadable + sub.unreadable]
  BY DEF Absorb, Subtotal
<1> QED
  BY <1>1, <1>2, <1>3 DEF Absorb, Subtotal

(* What an entry adds to a subtotal.                                       *)
LEMMA Pieces ==
  /\ [size |-> 0, unreadable |-> 1] \in Subtotal
  /\ [size |-> 1, unreadable |-> 0] \in Subtotal
BY DEF Subtotal

(* What is next is in a frame, and a directory is a child of the cursor or *)
(* the root of the walk.                                                   *)
LEMMA NextEntry ==
  ASSUME TypeInv, NEW entry, IsNext(entry)
  PROVE  /\ Drop(entry) \in [Frames -> SUBSET (Dirs \cup Files)]
         /\ Drop(entry)[Nowhere] \subseteq Dirs \cap {root}
         /\ \A d \in Dirs : Drop(entry)[d] \cap Dirs \subseteq Children(d)
         /\ entry \in Dirs => IF cursor = Nowhere THEN entry = root
                              ELSE entry \in Children(cursor)
         /\ root # Nowhere
<1>1. cursor \in Frames /\ todo \in [Frames -> SUBSET (Dirs \cup Files)]
  BY DEF TypeInv, TypeOK
<1>2. entry \in todo[cursor]
  BY DEF IsNext
<1>3. FramesNest
  BY DEF TypeInv, PathInv
<1>4. root = Nowhere => cursor = Nowhere
  BY DEF TypeInv, PathInv, IsPath
<1>5. root # Nowhere
  BY <1>2, <1>3, <1>4 DEF FramesNest
<1>6. entry \in Dirs => IF cursor = Nowhere THEN entry = root ELSE entry \in Children(cursor)
  BY <1>1, <1>2, <1>3 DEF FramesNest, Frames
<1>7. \A f \in Frames : Drop(entry)[f] \subseteq todo[f]
  BY <1>1 DEF Drop
<1>8. Drop(entry) \in [Frames -> SUBSET (Dirs \cup Files)]
  BY <1>1 DEF Drop
<1> QED
  BY <1>3, <1>5, <1>6, <1>7, <1>8 DEF FramesNest, Frames

(* A step within a walk keeps the path when it leaves the cursor.          *)
LEMMA SamePath ==
  ASSUME TypeInv, NEW entry, IsNext(entry), todo' = Drop(entry), UNCHANGED <<root, cursor>>
  PROVE  PathInv'
<1>1. FramesNest'
  BY NextEntry DEF FramesNest
<1>2. PICK S \in SUBSET Dirs : IsPath(S)
  BY DEF TypeInv, PathInv
<1>3. IsPath(S)'
  BY <1>2 DEF IsPath
<1> QED
  BY <1>1, <1>3 DEF PathInv

(* What RecordBlocked notes is in this tree.                               *)
LEMMA RecordedTypes ==
  ASSUME TypeOK, NEW d \in Dirs, RecordBlocked(d)
  PROVE  blocked' \subseteq Dirs /\ refusals' \in [Dirs -> Nat]
<1>1. d # Root => Parent[d] \in Dirs
  OBVIOUS
<1>2. \A p \in Dirs : refusals[p] + 1 \in Nat
  BY DEF TypeOK
<1> QED
  BY <1>1, <1>2 DEF RecordBlocked, TypeOK

(* The steps of a visit.                                                   *)
LEMMA VisitTypes ==
  ASSUME TypeInv, \/ \E d \in Dirs : PassBy(d) \/ Descend(d) \/ Refused(d)
                  \/ \E f \in Files : CountFile(f)
                  \/ Return
  PROVE  TypeInv'
<1> USE DEF process, request
<1>0. /\ WalkTypes /\ RequestTypes /\ ProcessTypes /\ CounterTypes /\ row \in Tables
      /\ cursor \in Frames
  BY TypesApart DEF TypeInv, WalkTypes
<1>1. ASSUME NEW d \in Dirs, PassBy(d) PROVE TypeInv'
  <2>1. /\ IsNext(d) /\ todo' = Drop(d) /\ truncated' \in BOOLEAN
        /\ UNCHANGED <<process, row, request, root, cursor, folders, blocked,
                       refusals, hardlinks, scans, events>>
    BY <1>0, <1>1 DEF PassBy, WalkTypes
  <2>2. total' \in [Frames -> Subtotal]
    BY <1>0, <1>1, Pieces, AbsorbTypes DEF PassBy, WalkTypes
  <2>3. PathInv' /\ todo' \in [Frames -> SUBSET (Dirs \cup Files)]
    BY <2>1, SamePath, NextEntry
  <2> QED
    BY <1>0, <2>1, <2>2, <2>3, TypesTogether
       DEF WalkTypes, RequestTypes, ProcessTypes, CounterTypes
<1>2. ASSUME NEW d \in Dirs, Descend(d) PROVE TypeInv'
  <2>1. /\ IsNext(d) /\ cursor' = d
        /\ todo' = [Drop(d) EXCEPT ![d] = Children(d) \cup Links[d]]
        /\ UNCHANGED <<process, row, request, root, total, folders, blocked,
                       refusals, hardlinks, truncated, scans, events>>
    BY <1>2 DEF Descend, Probes
  <2>2. d \in Frames /\ d # Nowhere /\ Children(d) \subseteq Dirs /\ Links[d] \subseteq Files
    BY DEF Frames, Children
  <2>3. /\ todo' \in [Frames -> SUBSET (Dirs \cup Files)]
        /\ todo'[d] = Children(d) \cup Links[d]
        /\ \A f \in Frames \ {d} : todo'[f] = Drop(d)[f]
    BY <2>1, <2>2, NextEntry
  <2>4. FramesNest'
    BY <2>1, <2>2, <2>3, NextEntry DEF FramesNest, Frames
  <2>5. PICK S \in SUBSET Dirs : IsPath(S)
    BY DEF TypeInv, PathInv
  <2>6. IsPath(S \cup {d})'
    BY <2>1, <2>5, NextEntry DEF IsPath, Children
  <2>7. PathInv'
    BY <2>4, <2>6 DEF PathInv
  <2> QED
    BY <1>0, <2>1, <2>2, <2>3, <2>7, TypesTogether
       DEF WalkTypes, RequestTypes, ProcessTypes, CounterTypes
<1>3. ASSUME NEW d \in Dirs, Refused(d) PROVE TypeInv'
  <2>1. /\ IsNext(d) /\ todo' = Drop(d) /\ failed' = failed \cup {d} /\ RecordBlocked(d)
        /\ UNCHANGED <<quarantined, row, request, root, cursor, folders,
                       hardlinks, truncated, scans, events>>
    BY <1>3 DEF Refused, Probes
  <2>2. total' \in [Frames -> Subtotal]
    BY <1>0, <1>3, Pieces, AbsorbTypes DEF Refused, WalkTypes
  <2>3. PathInv' /\ todo' \in [Frames -> SUBSET (Dirs \cup Files)]
    BY <2>1, SamePath, NextEntry
  <2>4. lost' \in [Dirs -> Nat]
    <3>1. lost[d] + 1 \in Nat
      BY <1>0 DEF ProcessTypes
    <3> QED
      BY <1>0, <1>3, <3>1 DEF Refused, ProcessTypes
  <2>5. blocked' \subseteq Dirs /\ refusals' \in [Dirs -> Nat]
    BY <2>1, RecordedTypes DEF TypeInv
  <2> QED
    BY <1>0, <2>1, <2>2, <2>3, <2>4, <2>5, TypesTogether
       DEF WalkTypes, RequestTypes, ProcessTypes, CounterTypes
<1>4. ASSUME NEW f \in Files, CountFile(f) PROVE TypeInv'
  <2>1. /\ IsNext(f) /\ todo' = Drop(f)
        /\ UNCHANGED <<process, row, request, root, cursor, folders, blocked,
                       refusals, truncated, scans>>
    BY <1>4 DEF CountFile
  <2>2. total' \in [Frames -> Subtotal]
    BY <1>0, <1>4, Pieces, AbsorbTypes DEF CountFile, WalkTypes
  <2>3. PathInv' /\ todo' \in [Frames -> SUBSET (Dirs \cup Files)]
    BY <2>1, SamePath, NextEntry
  <2>4. hardlinks' \subseteq Files
    BY <1>0, <1>4 DEF CountFile, WalkTypes
  <2>5. events' \in 0..MaxEvents
    BY <1>0, <1>4 DEF CountFile, CounterTypes
  <2> QED
    BY <1>0, <2>1, <2>2, <2>3, <2>4, <2>5, TypesTogether
       DEF WalkTypes, RequestTypes, ProcessTypes, CounterTypes
<1>5. CASE Return
  <2>1. /\ cursor # Nowhere /\ cursor' = Below(cursor) /\ Absorb(Below(cursor), total[cursor])
        /\ UNCHANGED <<process, row, request, root, todo, blocked, refusals,
                       hardlinks, truncated, scans, events>>
    BY <1>5 DEF Return
  <2>2. PICK S \in SUBSET Dirs : IsPath(S)
    BY DEF TypeInv, PathInv
  <2>3. Below(cursor) \in S \cup {Nowhere}
    BY <2>1, <2>2 DEF IsPath, Below
  <2>4. IsPath(S)'
    BY <2>1, <2>2, <2>3 DEF IsPath
  <2>5. PathInv'
    BY <2>1, <2>4 DEF TypeInv, PathInv, FramesNest
  <2>6. Below(cursor) \in Frames /\ total[cursor] \in Subtotal
    BY <1>0, <2>3 DEF Frames, WalkTypes
  <2>7. total' \in [Frames -> Subtotal]
    BY <1>0, <2>1, <2>6, AbsorbTypes DEF WalkTypes
  <2>8. folders' \in Tables
    BY <1>0, <1>5, <2>6 DEF Return, WalkTypes, Tables
  <2> QED
    BY <1>0, <2>1, <2>5, <2>6, <2>7, <2>8, TypesTogether
       DEF WalkTypes, RequestTypes, ProcessTypes, CounterTypes
<1> QED
  BY <1>1, <1>2, <1>3, <1>4, <1>5

(* Every step keeps the types and the path.                                *)
LEMMA TypeStep == TypeInv /\ [Next]_vars => TypeInv'
<1> SUFFICES ASSUME TypeInv, [Next]_vars PROVE TypeInv'
  OBVIOUS
<1> USE DEF process, request
<1>0. /\ WalkTypes /\ RequestTypes /\ ProcessTypes /\ CounterTypes /\ row \in Tables
      /\ PathInv
  BY TypesApart DEF TypeInv
<1>1. CASE StartFull
  <2>1. WalkTypes' /\ PathInv'
    BY <1>1, BegunWalk DEF StartFull
  <2>2. RequestTypes' /\ ProcessTypes' /\ CounterTypes' /\ UNCHANGED row
    BY <1>0, <1>1 DEF StartFull, RequestTypes, ProcessTypes, CounterTypes
  <2> QED
    BY <1>0, TypesTogether, <2>1, <2>2
<1>2. ASSUME NEW p \in Dirs, NEW q \in Dirs, StartVerify(p, q) PROVE TypeInv'
  <2>1. UNCHANGED <<process, row, learned, measured, late, walk, events>>
    BY <1>2 DEF StartVerify
  <2>2. queue' \in Seq(Dirs)
    <3>1. <<p>> \in Seq(Dirs) /\ <<p, q>> \in Seq(Dirs)
      OBVIOUS
    <3> QED
      BY <1>2, <3>1 DEF StartVerify
  <2>3. RequestTypes' /\ ProcessTypes' /\ CounterTypes'
    BY <1>0, <1>2, <2>1, <2>2 DEF StartVerify, RequestTypes, ProcessTypes, CounterTypes
  <2>4. WalkTypes' /\ PathInv'
    BY <1>0, <2>1 DEF walk, WalkTypes, PathInv, IsPath, FramesNest
  <2> QED
    BY <1>0, TypesTogether, <2>1, <2>3, <2>4
<1>3. CASE Deadline
  <2>1. WalkTypes' /\ PathInv'
    BY <1>0, <1>3 DEF Deadline, walk, WalkTypes, PathInv, IsPath, FramesNest
  <2>2. RequestTypes' /\ ProcessTypes' /\ CounterTypes' /\ UNCHANGED row
    BY <1>0, <1>3 DEF Deadline, RequestTypes, ProcessTypes, CounterTypes
  <2> QED
    BY <1>0, TypesTogether, <2>1, <2>2
<1>4. CASE NextPath
  <2>1. Head(queue) \in Dirs /\ Tail(queue) \in Seq(Dirs)
    BY <1>0, <1>4 DEF NextPath, RequestTypes
  <2>2. WalkTypes' /\ PathInv'
    BY <1>4, <2>1, BegunWalk DEF NextPath
  <2>3. RequestTypes' /\ ProcessTypes' /\ CounterTypes' /\ UNCHANGED row
    BY <1>0, <1>4, <2>1 DEF NextPath, RequestTypes, ProcessTypes, CounterTypes
  <2> QED
    BY <1>0, TypesTogether, <2>2, <2>3
<1>5. CASE FinishFull
  <2>1. WalkTypes' /\ PathInv' /\ RequestTypes'
    BY <1>5, ForgottenWalk, ForgottenRequest DEF FinishFull
  <2>2. ProcessTypes' /\ CounterTypes'
    BY <1>0, <1>5 DEF FinishFull, WalkTypes, ProcessTypes, CounterTypes
  <2>3. total[Nowhere] \in Subtotal
    BY <1>0 DEF WalkTypes, Frames
  <2>4. row' \in Tables
    BY <1>0, <1>5, <2>3 DEF FinishFull, WalkTypes, Tables
  <2> QED
    BY TypesTogether, <2>1, <2>2, <2>4
<1>6. CASE FinishPath
  <2>1. WalkTypes' /\ PathInv'
    BY <1>6, ForgottenWalk DEF FinishPath
  <2>2. ProcessTypes' /\ CounterTypes' /\ UNCHANGED row
    BY <1>0, <1>6 DEF FinishPath, ProcessTypes, CounterTypes
  <2>3. total[Nowhere] \in Subtotal
    BY <1>0 DEF WalkTypes, Frames
  <2>4. measured' \in Tables
    BY <1>0, <1>6, <2>3 DEF FinishPath, RequestTypes, Tables
  <2>5. RequestTypes'
    BY <1>0, <1>6, <2>4 DEF FinishPath, WalkTypes, RequestTypes
  <2> QED
    BY <1>0, TypesTogether, <2>1, <2>2, <2>5
<1>7. CASE FinishVerify
  <2>1. RequestTypes' /\ UNCHANGED walk
    BY <1>7, ForgottenRequest DEF FinishVerify
  <2>2. WalkTypes' /\ PathInv'
    BY <1>0, <2>1 DEF walk, WalkTypes, PathInv, IsPath, FramesNest
  <2>3. ProcessTypes' /\ CounterTypes'
    BY <1>0, <1>7 DEF FinishVerify, RequestTypes, ProcessTypes, CounterTypes
  <2>4. row' \in Tables
    BY <1>0, <1>7 DEF FinishVerify, RequestTypes, Tables
  <2> QED
    BY TypesTogether, <2>1, <2>2, <2>3, <2>4
<1>8. CASE Restart
  <2>1. WalkTypes' /\ PathInv' /\ RequestTypes'
    BY <1>8, ForgottenWalk, ForgottenRequest DEF Restart
  <2>2. ProcessTypes' /\ CounterTypes' /\ UNCHANGED row
    BY <1>0, <1>8 DEF Restart, ProcessTypes, CounterTypes
  <2> QED
    BY <1>0, TypesTogether, <2>1, <2>2
<1>9. CASE UNCHANGED vars
  <2>1. WalkTypes' /\ PathInv' /\ RequestTypes' /\ ProcessTypes' /\ CounterTypes' /\ UNCHANGED row
    BY <1>0, <1>9 DEF vars, walk, WalkTypes, PathInv, IsPath, FramesNest, RequestTypes,
                      ProcessTypes, CounterTypes
  <2> QED
    BY <1>0, TypesTogether, <2>1
<1> QED
  BY <1>1, <1>2, <1>3, <1>4, <1>5, <1>6, <1>7, <1>8, <1>9, VisitTypes DEF Next, WalkStep

(* At first there is no walk.                                              *)
LEMMA TypeInit == Init => TypeInv
<1> SUFFICES ASSUME Init PROVE TypeInv
  OBVIOUS
<1>1. <<>> \in Seq(Dirs)
  OBVIOUS
<1>2. WalkTypes /\ RequestTypes /\ row \in Tables
  BY <1>1, EmptyTypes DEF Init, WalkTypes, RequestTypes
<1>3. ProcessTypes /\ CounterTypes
  BY DEF Init, ProcessTypes, CounterTypes
<1>4. todo[Nowhere] = {} /\ \A d \in Dirs : todo[d] = {}
  BY DEF Init, NoTodo, Frames
<1>5. IsPath({}) /\ FramesNest
  BY <1>4 DEF Init, IsPath, FramesNest
<1> QED
  BY <1>2, <1>3, <1>5, TypesApart DEF TypeInv, PathInv

(* Every variable has its type in every reachable state: in particular no  *)
(* walk climbs above its root, and no refusal is recorded for a directory  *)
(* that is not in the tree (folder_sizes.rs:385-390, 460-512).             *)
THEOREM TypeCorrect == Spec => []TypeOK
<1>1. TypeInv => TypeOK
  BY DEF TypeInv
<1> QED
  BY <1>1, TypeInit, TypeStep, PTL DEF Spec

-----------------------------------------------------------------------------
(* What is remembered as closed, by the process, this request or this walk.*)
Remembered == quarantined \cup learned \cup blocked

(* Between two walks nothing is found closed, and only a verify has        *)
(* learned anything beside the quarantine.                                 *)
NothingPending ==
  /\ scan = "none" => root = Nowhere
  /\ scan # "verify" => learned = {}
  /\ root = Nowhere => blocked = {}

(* Who costs a thread is remembered from then on.                          *)
LostAreRemembered ==
  \A d \in Dirs : lost[d] <= 1 /\ (lost[d] = 1 => d \in Remembered)

(* A refusal is counted for a child that is then remembered, and the last  *)
(* one that the rule allows closes the parent.                             *)
RefusedBeneath(d) == Children(d) \cap failed \cap blocked
RefusalsAreCounted ==
  \A d \in Dirs : /\ refusals[d] <= BlockedSiblings
                  /\ refusals[d] = BlockedSiblings => d \in blocked
                  /\ refusals[d] <= Cardinality(RefusedBeneath(d))

ClosedInv ==
  /\ NothingPending /\ LostAreRemembered /\ RefusalsAreCounted /\ QuarantineIsEarned

(* There are finitely many children, of which some have failed.            *)
LEMMA ChildrenFinite ==
  ASSUME NEW d, NEW F
  PROVE  /\ IsFiniteSet(Children(d) \cap F)
         /\ Cardinality(Children(d) \cap F) \in Nat
<1>1. Children(d) \cap F \in SUBSET Dirs
  BY DEF Children
<1> QED
  BY <1>1, FS_Subset, FS_CardinalityType

(* The more have failed, the more of them are children of a directory.     *)
LEMMA FailuresGrow ==
  ASSUME NEW d, NEW F, NEW G, F \subseteq G
  PROVE  Cardinality(Children(d) \cap F) <= Cardinality(Children(d) \cap G)
<1>1. Children(d) \cap F \in SUBSET (Children(d) \cap G)
  OBVIOUS
<1> QED
  BY <1>1, ChildrenFinite, FS_Subset

(* What is learned moves on to the quarantine, and a walk that ends or     *)
(* begins has refused nothing.                                             *)
LEMMA LearnedMovesOn ==
  ASSUME TypeInv, ClosedInv, NothingPending', UNCHANGED <<lost, failed>>,
         Remembered' = Remembered,
         \/ UNCHANGED <<blocked, refusals>>
         \/ blocked' = {} /\ refusals' = NoRefusals
  PROVE  ClosedInv'
<1>1. LostAreRemembered' /\ QuarantineIsEarned'
  BY DEF ClosedInv, LostAreRemembered, QuarantineIsEarned, Remembered
<1>2. RefusalsAreCounted'
  <2>1. CASE UNCHANGED <<blocked, refusals>>
    BY <2>1 DEF ClosedInv, RefusalsAreCounted, RefusedBeneath
  <2>2. CASE blocked' = {} /\ refusals' = NoRefusals
    <3> SUFFICES ASSUME NEW d \in Dirs
                 PROVE  /\ refusals'[d] = 0 /\ 0 # BlockedSiblings /\ 0 <= BlockedSiblings
                        /\ 0 <= Cardinality(RefusedBeneath(d)')
      BY DEF RefusalsAreCounted
    <3>1. refusals'[d] = 0
      BY <2>2 DEF NoRefusals
    <3>2. RefusedBeneath(d)' = Children(d) \cap (failed' \cap blocked')
      BY DEF RefusedBeneath
    <3>3. Cardinality(RefusedBeneath(d)') \in Nat
      BY <3>2, ChildrenFinite
    <3> QED
      BY <3>1, <3>3
  <2> QED
    BY <2>1, <2>2
<1> QED
  BY <1>1, <1>2 DEF ClosedInv

(* An open that fails: the directory was not remembered before, nor its    *)
(* parent closed, so there is room for the refusal and for the thread.     *)
LEMMA RefusalCounts ==
  ASSUME TypeInv, ClosedInv, NEW d \in Dirs, Refused(d)
  PROVE  ClosedInv'
<1>1. /\ failed' = failed \cup {d} /\ RecordBlocked(d)
      /\ lost' \in {lost, [lost EXCEPT ![d] = @ + 1]}
      /\ UNCHANGED <<quarantined, learned, scan, root>>
  BY DEF Refused, request
<1>2. /\ root # Nowhere /\ d \notin Remembered
      /\ d # Root => Parent[d] \in Dirs /\ Parent[d] \notin blocked /\ d \in Children(Parent[d])
  BY NextEntry DEF Refused, Probes, Closed, Skip, Remembered, Children
<1>3. d \in blocked' /\ blocked \subseteq blocked' /\ Remembered \subseteq Remembered'
      /\ blocked' \subseteq Dirs
  BY <1>1, RecordedTypes DEF RecordBlocked, Remembered, TypeInv
<1>4. NothingPending'
  BY <1>1, <1>2 DEF ClosedInv, NothingPending
<1>5. LostAreRemembered'
  <2>0. lost \in [Dirs -> Nat]
    BY DEF TypeInv, TypeOK
  <2>1. lost[d] = 0
    BY <1>2, <2>0 DEF ClosedInv, LostAreRemembered
  <2>2. \A e \in Dirs : lost'[e] = lost[e] \/ (e = d /\ lost'[e] = 1)
    BY <1>1, <2>0, <2>1
  <2>3. d \in Remembered'
    BY <1>3 DEF Remembered
  <2> QED
    BY <1>3, <2>2, <2>3 DEF ClosedInv, LostAreRemembered
<1> DEFINE counted == d # Root /\ Parent[d] # root
<1>6. \A p \in Dirs : refusals[p] \in Nat
  BY DEF TypeInv, TypeOK
<1>7. counted => refusals[Parent[d]] < BlockedSiblings
  BY <1>2, <1>6 DEF ClosedInv, RefusalsAreCounted
<1>8. \A p \in Dirs : refusals'[p] = IF counted /\ p = Parent[d] THEN refusals[p] + 1
                                     ELSE refusals[p]
  BY <1>1, <1>2 DEF RecordBlocked, TypeInv, TypeOK
<1>9. ASSUME NEW p \in Dirs
      PROVE  /\ IsFiniteSet(RefusedBeneath(p)) /\ Cardinality(RefusedBeneath(p)) \in Nat
             /\ IsFiniteSet(RefusedBeneath(p)') /\ Cardinality(RefusedBeneath(p)') \in Nat
             /\ Cardinality(RefusedBeneath(p)) <= Cardinality(RefusedBeneath(p)')
             /\ counted /\ p = Parent[d] =>
                  Cardinality(RefusedBeneath(p)) + 1 <= Cardinality(RefusedBeneath(p)')
  <2>1. /\ RefusedBeneath(p) = Children(p) \cap (failed \cap blocked)
        /\ RefusedBeneath(p)' = Children(p) \cap (failed' \cap blocked')
    BY DEF RefusedBeneath
  <2>2. failed \cap blocked \subseteq failed' \cap blocked'
    BY <1>1, <1>3
  <2>3. /\ IsFiniteSet(RefusedBeneath(p)) /\ Cardinality(RefusedBeneath(p)) \in Nat
        /\ IsFiniteSet(RefusedBeneath(p)') /\ Cardinality(RefusedBeneath(p)') \in Nat
        /\ Cardinality(RefusedBeneath(p)) <= Cardinality(RefusedBeneath(p)')
    <3>1. /\ IsFiniteSet(Children(p) \cap (failed \cap blocked))
          /\ Cardinality(Children(p) \cap (failed \cap blocked)) \in Nat
      BY ChildrenFinite
    <3>2. /\ IsFiniteSet(Children(p) \cap (failed' \cap blocked'))
          /\ Cardinality(Children(p) \cap (failed' \cap blocked')) \in Nat
      BY ChildrenFinite
    <3>3. Cardinality(Children(p) \cap (failed \cap blocked))
            <= Cardinality(Children(p) \cap (failed' \cap blocked'))
      BY <2>2, FailuresGrow
    <3> QED
      BY <2>1, <3>1, <3>2, <3>3
  <2>4. ASSUME counted, p = Parent[d]
        PROVE  Cardinality(RefusedBeneath(p)) + 1 <= Cardinality(RefusedBeneath(p)')
    <3>1. d \notin RefusedBeneath(p)
      BY <1>2 DEF RefusedBeneath, Remembered
    <3>2. RefusedBeneath(p) \cup {d} \in SUBSET RefusedBeneath(p)'
      BY <1>1, <1>2, <1>3, <2>1, <2>4
    <3>3. Cardinality(RefusedBeneath(p) \cup {d}) = Cardinality(RefusedBeneath(p)) + 1
      BY <2>3, <3>1, FS_AddElement
    <3>4. Cardinality(RefusedBeneath(p) \cup {d}) <= Cardinality(RefusedBeneath(p)')
      BY <2>3, <3>2, FS_Subset
    <3> QED
      BY <3>3, <3>4
  <2> QED
    BY <2>3, <2>4
<1>10. ASSUME NEW p \in Dirs
       PROVE  /\ refusals'[p] <= BlockedSiblings
              /\ refusals'[p] = BlockedSiblings => p \in blocked'
              /\ refusals'[p] <= Cardinality(RefusedBeneath(p)')
  <2>1. /\ refusals[p] <= BlockedSiblings
        /\ refusals[p] = BlockedSiblings => p \in blocked
        /\ refusals[p] <= Cardinality(RefusedBeneath(p))
    BY DEF ClosedInv, RefusalsAreCounted
  <2>2. CASE counted /\ p = Parent[d]
    <3>1. refusals'[p] = refusals[p] + 1 /\ refusals[p] < BlockedSiblings
      BY <1>7, <1>8, <2>2
    <3>2. refusals[p] + 1 = BlockedSiblings => p \in blocked'
      BY <1>1, <2>2 DEF RecordBlocked
    <3> QED
      BY <1>6, <1>9, <2>1, <2>2, <3>1, <3>2
  <2>3. CASE ~(counted /\ p = Parent[d])
    <3>1. refusals'[p] = refusals[p]
      BY <1>8, <2>3
    <3> QED
      BY <1>3, <1>6, <1>9, <2>1, <3>1
  <2> QED
    BY <2>2, <2>3
<1>11. QuarantineIsEarned'
  <2> SUFFICES ASSUME NEW e \in Remembered'
               PROVE  e \in failed' \/ Cardinality(Children(e) \cap failed') >= BlockedSiblings
    BY DEF QuarantineIsEarned, Remembered
  <2>1. CASE e \in Remembered
    <3>1. e \in failed \/ Cardinality(Children(e) \cap failed) >= BlockedSiblings
      BY <2>1 DEF ClosedInv, QuarantineIsEarned, Remembered
    <3>2. Cardinality(Children(e) \cap failed) <= Cardinality(Children(e) \cap failed')
      BY <1>1, FailuresGrow
    <3>3. /\ Cardinality(Children(e) \cap failed) \in Nat
          /\ Cardinality(Children(e) \cap failed') \in Nat
      BY ChildrenFinite
    <3> QED
      BY <1>1, <3>1, <3>2, <3>3
  <2>2. CASE e = d
    BY <1>1, <2>2
  <2>3. CASE counted /\ refusals[Parent[d]] + 1 = BlockedSiblings /\ e = Parent[d]
    <3>1. BlockedSiblings <= Cardinality(RefusedBeneath(e)') /\ e \in Dirs
      BY <1>2, <1>8, <1>10, <2>3
    <3>2. Cardinality(RefusedBeneath(e)') <= Cardinality(Children(e) \cap failed')
      <4>1. RefusedBeneath(e)' = Children(e) \cap (failed' \cap blocked')
        BY DEF RefusedBeneath
      <4> QED
        BY <4>1, FailuresGrow
    <3>3. /\ Cardinality(RefusedBeneath(e)') \in Nat
          /\ Cardinality(Children(e) \cap failed') \in Nat
      BY <1>9, <3>1, ChildrenFinite
    <3> QED
      BY <3>1, <3>2, <3>3
  <2> QED
    BY <1>1, <2>1, <2>2, <2>3 DEF Remembered, RecordBlocked
<1> QED
  BY <1>4, <1>5, <1>10, <1>11 DEF ClosedInv, RefusalsAreCounted

(* Every step keeps what is written off earned and remembered.             *)
LEMMA ClosedStep == TypeInv /\ ClosedInv /\ [Next]_vars => ClosedInv'
<1> SUFFICES ASSUME TypeInv, ClosedInv, [Next]_vars PROVE ClosedInv'
  OBVIOUS
<1> USE DEF process
<1>0. /\ scan = "none" => root = Nowhere
      /\ scan # "verify" => learned = {}
      /\ root = Nowhere => blocked = {}
      /\ Root # Nowhere
  BY DEF ClosedInv, NothingPending
<1>1. CASE StartFull
  <2>1. /\ blocked = {} /\ blocked' = {} /\ refusals' = NoRefusals
        /\ UNCHANGED <<quarantined, learned, lost, failed>>
        /\ scan = "none" /\ scan' = "full" /\ root' = Root
    BY <1>0, <1>1 DEF StartFull, BeginWalk
  <2> QED
    BY <1>0, <2>1, LearnedMovesOn DEF NothingPending, Remembered
<1>2. ASSUME NEW p \in Dirs, NEW q \in Dirs, StartVerify(p, q) PROVE ClosedInv'
  <2>1. /\ UNCHANGED <<quarantined, learned, lost, failed, blocked, refusals, root>>
        /\ scan' = "verify"
    BY <1>2 DEF StartVerify, walk
  <2> QED
    BY <1>0, <2>1, LearnedMovesOn DEF NothingPending, Remembered
<1>3. CASE Deadline
  <2>1. UNCHANGED <<quarantined, learned, lost, failed, blocked, refusals, root, scan>>
    BY <1>3 DEF Deadline, walk
  <2> QED
    BY <1>0, <2>1, LearnedMovesOn DEF NothingPending, Remembered
<1>4. CASE NextPath
  <2>1. /\ blocked = {} /\ blocked' = {} /\ refusals' = NoRefusals
        /\ UNCHANGED <<quarantined, learned, lost, failed, scan>>
        /\ scan = "verify"
    BY <1>0, <1>4 DEF NextPath, BeginWalk
  <2> QED
    BY <2>1, LearnedMovesOn DEF NothingPending, Remembered
<1>5. ASSUME NEW d \in Dirs, Refused(d) PROVE ClosedInv'
  BY <1>5, RefusalCounts
<1>6. CASE \/ \E d \in Dirs : PassBy(d) \/ Descend(d)
           \/ \E f \in Files : CountFile(f)
           \/ Return
  <2>1. UNCHANGED <<quarantined, learned, lost, failed, blocked, refusals, root, scan>>
    BY <1>6 DEF PassBy, Descend, CountFile, Return, request
  <2> QED
    BY <1>0, <2>1, LearnedMovesOn DEF NothingPending, Remembered
<1>7. CASE FinishFull
  <2>1. /\ learned = {} /\ learned' = {} /\ quarantined' = quarantined \cup blocked
        /\ blocked' = {} /\ refusals' = NoRefusals /\ root' = Nowhere
        /\ UNCHANGED <<lost, failed>>
    BY <1>0, <1>7 DEF FinishFull, ForgetWalk, ForgetRequest
  <2>2. Remembered' = Remembered
    BY <2>1 DEF Remembered
  <2> QED
    BY <2>1, <2>2, LearnedMovesOn DEF NothingPending
<1>8. CASE FinishPath
  <2>1. /\ learned' = learned \cup blocked /\ UNCHANGED <<quarantined, lost, failed, scan>>
        /\ blocked' = {} /\ refusals' = NoRefusals /\ root' = Nowhere
        /\ scan = "verify"
    BY <1>8 DEF FinishPath, ForgetWalk
  <2>2. Remembered' = Remembered
    BY <2>1 DEF Remembered
  <2> QED
    BY <2>1, <2>2, LearnedMovesOn DEF NothingPending
<1>9. CASE FinishVerify
  <2>1. /\ learned' = {} /\ quarantined' = quarantined \cup learned
        /\ UNCHANGED <<lost, failed, blocked, refusals, root>>
        /\ root = Nowhere
    BY <1>9 DEF FinishVerify, ForgetRequest, walk
  <2>2. Remembered' = Remembered
    BY <2>1 DEF Remembered
  <2> QED
    BY <1>0, <2>1, <2>2, LearnedMovesOn DEF NothingPending
<1>10. CASE Restart
  <2>1. /\ quarantined' = {} /\ learned' = {} /\ blocked' = {} /\ refusals' = NoRefusals
        /\ root' = Nowhere /\ lost' = [d \in Dirs |-> 0]
    BY <1>10 DEF Restart, ForgetWalk, ForgetRequest
  <2>2. \A d : Cardinality(RefusedBeneath(d)') \in Nat
    <3> SUFFICES ASSUME NEW d PROVE Cardinality(RefusedBeneath(d)') \in Nat
      OBVIOUS
    <3>1. RefusedBeneath(d)' = Children(d) \cap (failed' \cap blocked')
      BY DEF RefusedBeneath
    <3> QED
      BY <3>1, ChildrenFinite
  <2>3. \A d \in Dirs : refusals'[d] = 0 /\ lost'[d] = 0
    BY <2>1 DEF NoRefusals
  <2>4. RefusalsAreCounted' /\ LostAreRemembered'
    BY <2>2, <2>3 DEF RefusalsAreCounted, LostAreRemembered
  <2> QED
    BY <2>1, <2>4 DEF ClosedInv, NothingPending, QuarantineIsEarned
<1>11. CASE UNCHANGED vars
  <2>1. UNCHANGED <<quarantined, learned, lost, failed, blocked, refusals, root, scan>>
    BY <1>11 DEF vars, walk, request
  <2> QED
    BY <1>0, <2>1, LearnedMovesOn DEF NothingPending, Remembered
<1> QED
  BY <1>1, <1>2, <1>3, <1>4, <1>5, <1>6, <1>7, <1>8, <1>9, <1>10, <1>11 DEF Next, WalkStep

(* At first nothing is closed.                                             *)
LEMMA ClosedInit == Init => ClosedInv
<1> SUFFICES ASSUME Init PROVE ClosedInv
  OBVIOUS
<1>1. \A d \in Dirs : refusals[d] = 0 /\ lost[d] = 0
  BY DEF Init, NoRefusals
<1>2. \A d : Cardinality(RefusedBeneath(d)) \in Nat
  <2> SUFFICES ASSUME NEW d PROVE Cardinality(RefusedBeneath(d)) \in Nat
    OBVIOUS
  <2>1. RefusedBeneath(d) = Children(d) \cap (failed \cap blocked)
    BY DEF RefusedBeneath
  <2> QED
    BY <2>1, ChildrenFinite
<1>3. RefusalsAreCounted /\ LostAreRemembered
  BY <1>1, <1>2 DEF RefusalsAreCounted, LostAreRemembered
<1> QED
  BY <1>3 DEF Init, ClosedInv, NothingPending, QuarantineIsEarned

(* So it is in every state.                                                *)
LEMMA ClosedAlways == Spec => [](TypeInv /\ ClosedInv)
BY TypeInit, TypeStep, ClosedInit, ClosedStep, PTL DEF Spec

(* A directory that does not answer costs one thread in the life of the    *)
(* process, through any number of scans, verifies and deadlines: what one  *)
(* walk has learned is known to every later one (folder_scan.rs:75-76).    *)
THEOREM OneThreadForEach == Spec => []OneThreadPerDirectory
<1>1. ClosedInv => OneThreadPerDirectory
  BY DEF ClosedInv, LostAreRemembered, OneThreadPerDirectory
<1> QED
  BY <1>1, ClosedAlways, PTL

(* Nothing is written off that neither failed to open nor holds enough     *)
(* directories that did (folder_sizes.rs:212-214, 385-402).                *)
THEOREM WrittenOffIsEarned == Spec => []QuarantineIsEarned
<1>1. ClosedInv => QuarantineIsEarned
  BY DEF ClosedInv
<1> QED
  BY <1>1, ClosedAlways, PTL

(* A walk meets at most as many refusals under one parent as the collapse  *)
(* rule allows (folder_sizes.rs:83-88, 386-388).                           *)
THEOREM CollapseHolds == Spec => []CollapseBoundsProbes
<1>1. ClosedInv => CollapseBoundsProbes
  BY DEF ClosedInv, RefusalsAreCounted, CollapseBoundsProbes
<1> QED
  BY <1>1, ClosedAlways, PTL

(* A set of naturals that is not empty has a least member.                 *)
LEMMA LeastOf == ASSUME NEW T, T \subseteq Nat, T # {} PROVE \E x \in T : \A y \in T : x <= y
<1> DEFINE R == {ss \in Nat \X Nat : ss[1] < ss[2]}
<1>1. IsWellFoundedOn(R, Nat)
  BY NatLessThanWellFounded DEF OpToRel
<1>2. \A x, y \in Nat : y < x => <<y, x>> \in R
  OBVIOUS
<1> HIDE DEF R
<1>3. PICK x \in T : \A y \in T : ~(<<y, x>> \in R)
  BY <1>1, WFMin
<1>4. \A y \in T : ~(y < x)
  BY <1>2, <1>3
<1> QED
  BY <1>4

-----------------------------------------------------------------------------
(* The tree.  Above(d) is what is on the way from a directory to Root.     *)
Rising(S) == \A e \in S \ {Root} : Parent[e] \in S
Above(d) == {x \in Dirs : \A S \in SUBSET Dirs : d \in S /\ Rising(S) => x \in S}

(* What holds of Root, and of a directory if of its parent, holds of all.  *)
LEMMA TreeInduction ==
  ASSUME NEW S \in SUBSET Dirs, Root \in S,
         \A d \in Dirs \ {Root} : Parent[d] \in S => d \in S
  PROVE  S = Dirs
BY TreeAssumption, Zenon

(* A directory is on its own way to Root, and so is all that is above it.  *)
LEMMA AboveIs ==
  /\ Above(Root) = {Root}
  /\ \A d \in Dirs : Above(d) \subseteq Dirs /\ d \in Above(d)
  /\ \A d \in Dirs \ {Root} : Above(d) = {d} \cup Above(Parent[d])
<1>1. \A d \in Dirs : Above(d) \subseteq Dirs /\ d \in Above(d)
  BY DEF Above
<1>2. \A d \in Dirs : Rising(Above(d))
  BY DEF Above, Rising
<1>3. \A d \in Dirs, S \in SUBSET Dirs : d \in S /\ Rising(S) => Above(d) \subseteq S
  BY DEF Above
<1>4. Above(Root) = {Root}
  <2>1. Rising({Root})
    BY DEF Rising
  <2> QED
    BY <1>1, <1>3, <2>1
<1>5. ASSUME NEW d \in Dirs \ {Root} PROVE Above(d) = {d} \cup Above(Parent[d])
  <2>1. Parent[d] \in Dirs
    OBVIOUS
  <2>2. Parent[d] \in Above(d)
    BY <1>1, <1>2 DEF Rising
  <2>3. Above(Parent[d]) \subseteq Above(d)
    BY <1>1, <1>2, <1>3, <2>1, <2>2
  <2>4. Rising({d} \cup Above(Parent[d]))
    BY <1>1, <1>2, <2>1 DEF Rising
  <2>5. Above(d) \subseteq {d} \cup Above(Parent[d])
    BY <1>1, <1>3, <2>1, <2>4
  <2> QED
    BY <1>1, <2>3, <2>5
<1> QED
  BY <1>1, <1>4, <1>5

(* No directory is above its own parent: there is no way around.           *)
LEMMA NoWayAround == \A d \in Dirs \ {Root} : d \notin Above(Parent[d])
<1> DEFINE S == {d \in Dirs : d = Root \/ d \notin Above(Parent[d])}
<1>1. ASSUME NEW d \in Dirs \ {Root}, Parent[d] \in S PROVE d \in S
  <2> DEFINE p == Parent[d]
  <2> SUFFICES ASSUME d \in Above(p) PROVE FALSE
    OBVIOUS
  <2>1. p \in Dirs /\ p # Root
    BY AboveIs
  <2>2. p \notin Above(Parent[p]) /\ Parent[p] \in Dirs
    BY <1>1, <2>1
  <2>3. d \in Above(Parent[p])
    BY <2>1, <2>2, AboveIs
  <2>4. Above(d) \subseteq Above(Parent[p])
    BY <2>2, <2>3 DEF Above, Rising
  <2>5. p \in Above(d)
    BY <2>1, AboveIs
  <2> QED
    BY <2>2, <2>4, <2>5
<1>2. S = Dirs
  <2>1. S \in SUBSET Dirs /\ Root \in S
    OBVIOUS
  <2> HIDE DEF S
  <2> QED
    BY <1>1, <2>1, TreeInduction
<1> QED
  BY <1>2

(* The ways to Root are chains.                                            *)
LEMMA WaysAreChains ==
  /\ \A x, y, z \in Dirs : x \in Above(y) /\ y \in Above(z) => x \in Above(z)
  /\ \A x, y \in Dirs : x \in Above(y) /\ y \in Above(x) => x = y
  /\ \A x, y, z \in Dirs : x \in Above(z) /\ y \in Above(z) => x \in Above(y) \/ y \in Above(x)
<1>1. \A x, y, z \in Dirs : x \in Above(y) /\ y \in Above(z) => x \in Above(z)
  BY DEF Above
<1>2. ASSUME NEW x \in Dirs, NEW y \in Dirs, x \in Above(y), y \in Above(x) PROVE x = y
  <2> SUFFICES ASSUME x # y PROVE FALSE
    OBVIOUS
  <2>1. y # Root
    BY <1>2, AboveIs
  <2>2. x \in Above(Parent[y]) /\ Parent[y] \in Dirs
    BY <1>2, <2>1, AboveIs
  <2>3. y \in Above(Parent[y])
    BY <1>1, <1>2, <2>2
  <2> QED
    BY <2>1, <2>3, NoWayAround
<1>3. ASSUME NEW x \in Dirs, NEW y \in Dirs
      PROVE  \A z \in Dirs : x \in Above(z) /\ y \in Above(z) => x \in Above(y) \/ y \in Above(x)
  <2> DEFINE S == {z \in Dirs : x \in Above(z) /\ y \in Above(z) => x \in Above(y) \/ y \in Above(x)}
  <2>1. S \in SUBSET Dirs /\ Root \in S
    BY AboveIs
  <2>2. ASSUME NEW d \in Dirs \ {Root}, Parent[d] \in S PROVE d \in S
    BY <2>2, AboveIs
  <2>3. S = Dirs
    <3> HIDE DEF S
    <3> QED
      BY <2>1, <2>2, TreeInduction
  <2> QED
    BY <2>3
<1> QED
  BY <1>1, <1>2, <1>3

(* Siblings have nothing beneath them in common.                           *)
LEMMA SiblingsPart ==
  ASSUME NEW d \in Dirs, NEW b \in Children(d), NEW c \in Children(d), NEW e \in Dirs,
         b \in Above(e), c \in Above(e)
  PROVE  b = c
<1>1. /\ b \in Dirs \ {Root} /\ c \in Dirs \ {Root} /\ Parent[b] = d /\ Parent[c] = d
  BY DEF Children
<1>2. ASSUME NEW x \in {b, c}, NEW y \in {b, c}, x \in Above(y) PROVE x = y
  BY <1>1, <1>2, AboveIs, NoWayAround
<1> QED
  BY <1>1, <1>2, WaysAreChains

-----------------------------------------------------------------------------
(* Level and Beneath are the functions that their equations define.        *)
LEMMA LevelIs ==
  /\ Level[Root] = 0
  /\ \A d \in Dirs \ {Root} : Level[d] = Level[Parent[d]] + 1
<1> DEFINE F(f) == [d \in Dirs |-> IF d = Root THEN 0 ELSE f[Parent[d]] + 1]
           L == [d \in Dirs |-> Cardinality(Above(d)) - 1]
<1>1. Cardinality(Above(Root)) - 1 = 0
  BY AboveIs, FS_Singleton
<1>2. ASSUME NEW d \in Dirs \ {Root}
      PROVE  Cardinality(Above(d)) - 1 = (Cardinality(Above(Parent[d])) - 1) + 1
  <2>1. Parent[d] \in Dirs /\ IsFiniteSet(Above(Parent[d]))
    BY AboveIs, FS_Subset
  <2>2. Cardinality(Above(Parent[d])) \in Nat
    BY <2>1, FS_CardinalityType
  <2>3. Cardinality(Above(Parent[d]) \cup {d}) = Cardinality(Above(Parent[d])) + 1
    BY <2>1, NoWayAround, FS_AddElement
  <2>4. Above(d) = Above(Parent[d]) \cup {d}
    BY AboveIs
  <2> QED
    BY <2>2, <2>3, <2>4
<1>3. L = F(L)
  <2>1. \A d \in Dirs : L[d] = Cardinality(Above(d)) - 1
    OBVIOUS
  <2>2. \A d \in Dirs : d # Root => Parent[d] \in Dirs
    OBVIOUS
  <2>3. \A d \in Dirs : L[d] = F(L)[d]
    <3> SUFFICES ASSUME NEW d \in Dirs PROVE L[d] = IF d = Root THEN 0 ELSE L[Parent[d]] + 1
      OBVIOUS
    <3> HIDE DEF L
    <3> QED
      BY <1>1, <1>2, <2>1, <2>2
  <2> QED
    BY <2>3
<1>4. Level = CHOOSE f : f = F(f)
  BY DEF Level
<1>5. Level = F(Level)
  <2> HIDE DEF L, F
  <2> QED
    BY <1>3, <1>4
<1> QED
  BY <1>5

(* Levels are numbers, and grow on the way down.                           *)
LEMMA LevelsGrow ==
  /\ \A d \in Dirs : Level[d] \in Nat
  /\ \A d \in Dirs : \A x \in Above(d) : Level[x] <= Level[d]
<1> DEFINE S == {d \in Dirs : Level[d] \in Nat /\ \A x \in Above(d) : Level[x] \in Nat /\ Level[x] <= Level[d]}
<1>1. S \in SUBSET Dirs /\ Root \in S
  BY AboveIs, LevelIs
<1>2. ASSUME NEW d \in Dirs \ {Root}, Parent[d] \in S PROVE d \in S
  <2>1. Level[d] = Level[Parent[d]] + 1 /\ Above(d) = {d} \cup Above(Parent[d])
    BY AboveIs, LevelIs
  <2> QED
    BY <1>2, <2>1
<1>3. S = Dirs
  <2> HIDE DEF S
  <2> QED
    BY <1>1, <1>2, TreeInduction
<1> QED
  BY <1>3

(* What is beneath a directory is beneath a child of it, or is itself.     *)
LEMMA ByChild ==
  ASSUME NEW d \in Dirs, NEW e \in Dirs
  PROVE  d \in Above(e) <=> e = d \/ \E c \in Children(d) : c \in Above(e)
<1>1. ASSUME NEW c \in Children(d), c \in Above(e) PROVE d \in Above(e)
  <2>1. c \in Dirs \ {Root} /\ Parent[c] = d
    BY DEF Children
  <2>2. d \in Above(c)
    BY <2>1, AboveIs
  <2> QED
    BY <1>1, <2>1, <2>2, WaysAreChains
<1> DEFINE S == {x \in Dirs : d \in Above(x) => x = d \/ \E c \in Children(d) : c \in Above(x)}
<1>2. S \in SUBSET Dirs /\ Root \in S
  BY AboveIs
<1>3. ASSUME NEW x \in Dirs \ {Root}, Parent[x] \in S PROVE x \in S
  <2>1. Above(x) = {x} \cup Above(Parent[x])
    BY AboveIs
  <2>2. Parent[x] = d => x \in Children(d)
    BY DEF Children
  <2> QED
    BY <1>3, <2>1, <2>2
<1>4. S = Dirs
  <2> HIDE DEF S
  <2> QED
    BY <1>2, <1>3, TreeInduction
<1> QED
  BY <1>1, <1>4, AboveIs

(* Beneath a directory is what has it above.                               *)
Under(d) == {e \in Dirs : d \in Above(e)}

LEMMA BeneathIs == \A d \in Dirs : Beneath[d] = Under(d)
<1> DEFINE F(f) == [d \in Dirs |-> {d} \cup UNION {f[c] : c \in Children(d)}]
           U == [d \in Dirs |-> Under(d)]
<1>1. \A d \in Dirs : Under(d) = {d} \cup UNION {Under(c) : c \in Children(d)}
  BY ByChild, AboveIs DEF Under, Children
<1>2. \A d \in Dirs : Children(d) \subseteq Dirs
  BY DEF Children
<1>3. U = F(U)
  <2>1. \A d \in Dirs : U[d] = Under(d)
    OBVIOUS
  <2>2. ASSUME NEW d \in Dirs PROVE U[d] = {d} \cup UNION {U[c] : c \in Children(d)}
    <3>1. {U[c] : c \in Children(d)} = {Under(c) : c \in Children(d)}
      BY <1>2, <2>1
    <3> QED
      BY <1>1, <2>1, <3>1
  <2> QED
    BY <2>2
<1>4. Beneath = CHOOSE f : f = F(f)
  BY DEF Beneath
<1>5. Beneath = F(Beneath)
  <2> HIDE DEF U, F
  <2> QED
    BY <1>3, <1>4
<1>6. \A d \in Dirs : Beneath[d] = {d} \cup UNION {Beneath[c] : c \in Children(d)}
  BY <1>5
<1> DEFINE Bad == {d \in Dirs : Beneath[d] # Under(d)}
           Sizes == {Cardinality(Under(d)) : d \in Bad}
<1> SUFFICES ASSUME Bad # {} PROVE FALSE
  OBVIOUS
<1>7. \A d \in Dirs : IsFiniteSet(Under(d)) /\ Cardinality(Under(d)) \in Nat
  <2> TAKE d \in Dirs
  <2>1. IsFiniteSet(Under(d))
    BY FS_Subset DEF Under
  <2> QED
    BY <2>1, FS_CardinalityType
<1>8. PICK n \in Sizes : \A m \in Sizes : n <= m
  <2>1. Sizes \subseteq Nat /\ Sizes # {}
    BY <1>7
  <2> QED
    BY <2>1, LeastOf
<1>9. PICK d \in Bad : n = Cardinality(Under(d))
  BY <1>8
<1>10. ASSUME NEW c \in Children(d) PROVE Beneath[c] = Under(c)
  <2>1. c \in Dirs \ {Root} /\ Parent[c] = d
    BY DEF Children
  <2>2. Under(c) \subseteq Under(d)
    BY <1>1, <1>9
  <2>3. d \in Under(d) /\ d \notin Under(c)
    BY <2>1, AboveIs, NoWayAround DEF Under
  <2>4. Cardinality(Under(c)) < Cardinality(Under(d))
    <3>1. IsFiniteSet(Under(d)) /\ Under(c) \in SUBSET Under(d)
      BY <1>7, <2>2
    <3>2. /\ Cardinality(Under(c)) <= Cardinality(Under(d))
          /\ Cardinality(Under(d)) = Cardinality(Under(c)) => Under(d) = Under(c)
      BY ONLY <3>1, FS_Subset
    <3>3. Cardinality(Under(c)) # Cardinality(Under(d))
      BY <2>3, <3>2
    <3> QED
      BY <1>7, <2>1, <3>2, <3>3
  <2>5. c \notin Bad
    <3>1. c \in Bad => n <= Cardinality(Under(c))
      BY <1>8
    <3>2. Cardinality(Under(c)) \in Nat /\ n \in Nat
      BY <1>7, <1>9, <2>1
    <3> HIDE DEF Bad
    <3> QED
      BY <1>9, <2>4, <3>1, <3>2
  <2> QED
    BY <2>1, <2>5
<1>11. {Beneath[c] : c \in Children(d)} = {Under(c) : c \in Children(d)}
  BY <1>10
<1> QED
  BY <1>1, <1>6, <1>9, <1>11

-----------------------------------------------------------------------------
(* Where a walk is: the directories that are open, and those that it may   *)
(* still open, which are what is before it and all that is beneath that.   *)
Opened == {x \in Dirs : cursor # Nowhere /\ root \in Above(x) /\ x \in Above(cursor)}
Active == Opened \cup {Nowhere}
Pending(e) == \E g \in Frames : \E c \in todo[g] \cap Dirs : c \in Above(e)

OnePlace(g, h) ==
  \A b \in todo[g] \cap Dirs, c \in todo[h] \cap Dirs, e \in Dirs :
    b \in Above(e) /\ c \in Above(e) => b = c /\ g = h

PlaceInv ==
  /\ root \in Dirs
  /\ cursor # Nowhere => cursor \in Dirs /\ root \in Above(cursor)
  /\ \A d \in Dirs \ Opened : todo[d] = {}
  /\ \A d \in Dirs : todo[d] \subseteq Children(d) \cup Links[d]
  /\ todo[Nowhere] \subseteq {root}
  /\ \A g, h \in Frames : OnePlace(g, h)

(* The frame that the files of a directory are counted in: the lowest one  *)
(* that is open above it.                                                  *)
CountedIn(e, h) ==
  IF h = Nowhere THEN \A g \in Opened : g \notin Above(e)
  ELSE h \in Above(e) /\ \A g \in Opened : g \in Above(e) => g \in Above(h)

(* What has been counted, as pairs of a file and the directory that it was *)
(* counted in, and which directories have been opened.                     *)
Held(K, h) == {k \in K : CountedIn(k[2], h)}
Counted(K) == {k[1] : k \in K}

FilesOnce(K, V) ==
  /\ K \subseteq Files \X Dirs
  /\ \A k, l \in K : k[1] = l[1] => k = l
  /\ \A k \in K : /\ k[1] \in Links[k[2]] /\ k[2] \in V /\ root \in Above(k[2])
                  /\ k[1] \in todo[k[2]] \/ k[1] \in hardlinks => Shared(k[1])
                  /\ Shared(k[1]) => k[1] \in hardlinks
  /\ hardlinks \subseteq Counted(K)

DirsOnce(V) ==
  /\ Opened \subseteq V /\ V \subseteq Dirs
  /\ \A e \in V : ~Pending(e)
  /\ \A d \in Dirs \ V : total[d] = Nil

TotalsAreCounts(K) == \A h \in Active : total[h].size = Cardinality(Held(K, h))

(* Every file that a walk cannot but count beneath a frame is counted, is  *)
(* still to come, or the frame owns up to something unreadable, or one     *)
(* that is open beneath it does.                                           *)
Top(g) == IF g = Nowhere THEN root ELSE g
OwnsUp(g) ==
  \E h \in Active : (g = Nowhere \/ (h # Nowhere /\ g \in Above(h))) /\ total[h].unreadable > 0
Coming(f) == \E e \in Dirs : f \in Links[e] /\ (Pending(e) \/ f \in todo[e])

NothingIsLost(K) ==
  ~truncated => \A g \in Active : \A f \in OwnFiles(Top(g)) :
                  f \in Counted(K) \/ Coming(f) \/ OwnsUp(g)

CountInv(K, V) == FilesOnce(K, V) /\ DirsOnce(V) /\ TotalsAreCounts(K) /\ NothingIsLost(K)

MeasureInv ==
  root # Nowhere => PlaceInv /\ \E K \in SUBSET (Files \X Dirs), V \in SUBSET Dirs : CountInv(K, V)

-----------------------------------------------------------------------------
(* What a subtotal has after it absorbed another.                          *)
LEMMA AbsorbIs ==
  ASSUME total \in [Frames -> Subtotal], NEW f \in Frames, NEW sub \in Subtotal, Absorb(f, sub)
  PROVE  /\ total'[f].size = total[f].size + sub.size
         /\ total'[f].unreadable = total[f].unreadable + sub.unreadable
         /\ \A g \in Frames \ {f} : total'[g] = total[g]
<1>1. DOMAIN total' = Frames /\ \A g \in Frames \ {f} : total'[g] = total[g]
  BY DEF Absorb
<1>2. total'[f] = [size |-> total[f].size + sub.size,
                   unreadable |-> total[f].unreadable + sub.unreadable]
  BY DEF Absorb, Subtotal
<1> QED
  BY <1>1, <1>2

(* An entry that is taken out of its frame leaves the walk where it is.    *)
LEMMA SamePlace ==
  ASSUME TypeInv, PlaceInv, NEW entry, IsNext(entry), todo' = Drop(entry),
         UNCHANGED <<root, cursor>>
  PROVE  /\ PlaceInv' /\ Opened' = Opened /\ cursor \in Active
         /\ \A g \in Frames : todo'[g] \subseteq todo[g]
         /\ \A g \in Frames \ {cursor} : todo'[g] = todo[g]
         /\ todo'[cursor] = todo[cursor] \ {entry}
<1>1. cursor \in Frames /\ todo \in [Frames -> SUBSET (Dirs \cup Files)]
  BY DEF TypeInv, TypeOK
<1>2. /\ \A g \in Frames : todo'[g] \subseteq todo[g]
      /\ \A g \in Frames \ {cursor} : todo'[g] = todo[g]
      /\ todo'[cursor] = todo[cursor] \ {entry}
  BY <1>1 DEF Drop
<1>3. Opened' = Opened /\ cursor \in Active
  <2>1. cursor \in Dirs => cursor \in Above(cursor)
    BY AboveIs
  <2> QED
    BY <2>1 DEF Opened, Active, PlaceInv
<1>4. ASSUME NEW g \in Frames, NEW h \in Frames PROVE OnePlace(g, h)'
  BY <1>2 DEF OnePlace, PlaceInv
<1>5. PlaceInv'
  <2>1. \A d \in Dirs : d \in Frames
    BY DEF Frames
  <2>2. \A d \in Dirs \ Opened : todo'[d] = {}
    BY <1>2, <2>1 DEF PlaceInv
  <2>3. \A d \in Dirs : todo'[d] \subseteq Children(d) \cup Links[d]
    BY <1>2, <2>1 DEF PlaceInv
  <2>4. todo'[Nowhere] \subseteq {root}
    BY <1>2 DEF PlaceInv, Frames
  <2> QED
    BY <1>3, <1>4, <2>2, <2>3, <2>4 DEF PlaceInv
<1> QED
  BY <1>2, <1>3, <1>5

(* A directory that is opened is open then, and no other is.               *)
LEMMA OpenedDown ==
  ASSUME TypeInv, PlaceInv, NEW d \in Dirs, d \in todo[cursor], cursor' = d, UNCHANGED root
  PROVE  Opened' = Opened \cup {d} /\ root \in Above(d)
<1>1. CASE cursor = Nowhere
  <2>1. d = root /\ Opened = {}
    BY <1>1 DEF PlaceInv, Opened
  <2>2. root \in Above(root)
    BY AboveIs DEF PlaceInv
  <2>3. \A x \in Dirs : root \in Above(x) /\ x \in Above(root) => x = root
    BY WaysAreChains DEF PlaceInv
  <2> QED
    BY <2>1, <2>2, <2>3 DEF Opened
<1>2. CASE cursor # Nowhere
  <2>1. cursor \in Dirs /\ root \in Above(cursor) /\ d \in Children(cursor)
    <3>1. d \notin Links[cursor]
      BY <1>2 DEF PlaceInv
    <3> QED
      BY <1>2, <3>1 DEF PlaceInv
  <2>2. Above(d) = {d} \cup Above(cursor) /\ root \in Above(d)
    BY <2>1, AboveIs DEF Children
  <2> QED
    BY <1>2, <2>1, <2>2 DEF Opened
<1> QED
  BY <1>1, <1>2

(* A directory that is returned from is not, and the one below it is.      *)
LEMMA OpenedUp ==
  ASSUME TypeInv, PlaceInv, cursor # Nowhere, cursor' = Below(cursor), UNCHANGED root
  PROVE  /\ Opened' = Opened \ {cursor} /\ cursor \in Opened
         /\ cursor' # Nowhere => /\ cursor' \in Opened' /\ root \in Above(cursor')
                                 /\ Above(cursor) = {cursor} \cup Above(cursor')
         /\ cursor' = Nowhere => cursor = root
<1>1. cursor \in Dirs /\ root \in Dirs /\ root \in Above(cursor) /\ cursor \in Above(cursor)
  BY AboveIs DEF PlaceInv
<1>2. CASE cursor = root
  <2>1. cursor' = Nowhere
    BY <1>2 DEF Below
  <2>2. \A x \in Dirs : root \in Above(x) /\ x \in Above(root) => x = root
    BY <1>1, WaysAreChains
  <2> QED
    BY <1>1, <1>2, <2>1, <2>2 DEF Opened
<1>3. CASE cursor # root
  <2>1. cursor # Root
    BY <1>1, <1>3, AboveIs
  <2>2. cursor' = Parent[cursor] /\ cursor' \in Dirs /\ cursor' # Nowhere
    BY <1>1, <1>3, <2>1 DEF Below
  <2>3. Above(cursor) = {cursor} \cup Above(cursor') /\ cursor \notin Above(cursor')
    BY <1>1, <2>1, <2>2, AboveIs, NoWayAround
  <2>4. root \in Above(cursor') /\ cursor' \in Above(cursor')
    BY <1>1, <1>3, <2>2, <2>3, AboveIs
  <2> QED
    BY <1>1, <1>3, <2>2, <2>3, <2>4 DEF Opened
<1> QED
  BY <1>2, <1>3

-----------------------------------------------------------------------------
(* What is dropped from the cursor's frame is pending no longer, and       *)
(* nothing else changes that the counts depend on.                         *)
LEMMA QuietVisit ==
  ASSUME TypeInv, PlaceInv, NEW K \in SUBSET (Files \X Dirs), NEW V \in SUBSET Dirs,
         CountInv(K, V), NEW entry, IsNext(entry), todo' = Drop(entry),
         UNCHANGED <<root, cursor, hardlinks>>,
         \A h \in Active : total'[h].size = total[h].size,
         \A d \in Dirs \ V : total'[d] = total[d]
  PROVE  FilesOnce(K, V)' /\ DirsOnce(V)' /\ TotalsAreCounts(K)'
<1>1. /\ Opened' = Opened /\ Active' = Active
      /\ \A g \in Frames : todo'[g] \subseteq todo[g]
  BY SamePlace DEF Active
<1>2. FilesOnce(K, V)'
  <2>1. \A d \in Dirs : todo'[d] \subseteq todo[d]
    BY <1>1 DEF Frames
  <2>2. FilesOnce(K, V)
    BY DEF CountInv
  <2>3. \A k \in K : k[1] \in todo'[k[2]] => k[1] \in todo[k[2]]
    BY <2>1, <2>2 DEF FilesOnce
  <2> QED
    BY <2>2, <2>3 DEF FilesOnce
<1>3. DirsOnce(V)'
  <2>1. \A e \in V : Pending(e)' => Pending(e)
    BY <1>1 DEF Pending
  <2> QED
    BY <1>1, <2>1 DEF CountInv, DirsOnce
<1>4. TotalsAreCounts(K)'
  <2>1. \A h \in Active : Held(K, h)' = Held(K, h)
    BY <1>1 DEF Held, CountedIn
  <2> QED
    BY <1>1, <2>1 DEF CountInv, TotalsAreCounts
<1> QED
  BY <1>2, <1>3, <1>4

(* Once the cursor's frame owns up to something, all frames do.            *)
LEMMA CursorOwnsUp ==
  ASSUME TypeInv', PlaceInv', total'[cursor'].unreadable > 0, NEW K
  PROVE  NothingIsLost(K)'
<1>1. cursor' \in Active'
  <2>1. cursor' \in Dirs => cursor' \in Above(cursor')
    BY AboveIs
  <2> QED
    BY <2>1 DEF Opened, Active, PlaceInv
<1>2. \A g \in Active' : OwnsUp(g)'
  BY <1>1 DEF OwnsUp, Active, Opened
<1> QED
  BY <1>2 DEF NothingIsLost

(* A directory that is passed by or does not open.                         *)
LEMMA PassedBy ==
  ASSUME TypeInv, TypeInv', PlaceInv, NEW K \in SUBSET (Files \X Dirs), NEW V \in SUBSET Dirs,
         CountInv(K, V), NEW d \in Dirs, PassBy(d) \/ Refused(d)
  PROVE  PlaceInv' /\ CountInv(K, V)'
<1>0. /\ total \in [Frames -> Subtotal] /\ cursor \in Frames
      /\ Frames = Dirs \cup {Nowhere}
  BY DEF TypeInv, TypeOK, Frames
<1>1. IsNext(d) /\ todo' = Drop(d) /\ UNCHANGED <<root, cursor, hardlinks>>
  BY DEF PassBy, Refused, Probes, request, process
<1>2. PlaceInv' /\ cursor \in Active /\ Opened' = Opened /\ Active' = Active
  BY <1>1, SamePlace DEF Active
<1>3. CASE Absorb(cursor, [size |-> 0, unreadable |-> 1])
  <2>1. /\ total'[cursor].size = total[cursor].size + 0
        /\ total'[cursor].unreadable = total[cursor].unreadable + 1
        /\ \A g \in Frames \ {cursor} : total'[g] = total[g]
    BY <1>0, <1>3, Pieces, AbsorbIs
  <2>2. total[cursor].size \in Nat /\ total[cursor].unreadable \in Nat
    BY <1>0 DEF Subtotal
  <2>3. total'[cursor'].unreadable > 0
    BY <1>1, <2>1, <2>2
  <2>4. \A h \in Active : total'[h].size = total[h].size
    BY <1>0, <2>1, <2>2 DEF Active, Opened
  <2>5. \A e \in Dirs \ V : total'[e] = total[e]
    BY <1>0, <1>2, <2>1 DEF Active, CountInv, DirsOnce
  <2>6. NothingIsLost(K)'
    BY <1>2, <2>3, CursorOwnsUp
  <2> QED
    BY <1>1, <1>2, <2>4, <2>5, <2>6, QuietVisit DEF CountInv
<1>4. CASE UNCHANGED total /\ (truncated' \/ (TooDeep(d) /\ UNCHANGED truncated))
  <2>1. FilesOnce(K, V)' /\ DirsOnce(V)' /\ TotalsAreCounts(K)'
    BY <1>1, <1>4, QuietVisit
  <2>2. ASSUME ~truncated' PROVE NothingIsLost(K)'
    <3>1. TooDeep(d) /\ ~truncated
      BY <1>4, <2>2
    <3> SUFFICES ASSUME NEW g \in Active, NEW f \in OwnFiles(Top(g)),
                        Coming(f), f \notin Counted(K), ~OwnsUp(g)
                 PROVE  Coming(f)'
      <4>1. \A g \in Active : OwnsUp(g) => OwnsUp(g)'
        BY <1>2, <1>4 DEF OwnsUp
      <4>2. \A g \in Active : Top(g)' = Top(g)
        BY <1>1 DEF Top
      <4>3. \A h \in Dirs : OwnFiles(h)' = OwnFiles(h)
        BY DEF OwnFiles, FilesBeneath, Measurable
      <4> QED
        BY <1>2, <3>1, <4>1, <4>2 DEF NothingIsLost, CountInv
    <3>2. PICK e \in Dirs : f \in Links[e] /\ (Pending(e) \/ f \in todo[e])
      BY DEF Coming
    <3>3. CASE f \in todo[e]
      <4>1. f \in todo'[e]
        <5>1. f # d /\ e \in Frames
          BY <1>0, <3>2
        <5> QED
          BY <1>0, <1>1, <3>3, <5>1, SamePlace
      <4> QED
        BY <3>2, <4>1 DEF Coming
    <3>4. CASE Pending(e)
      <4>1. PICK h \in Frames : \E c \in todo[h] \cap Dirs : c \in Above(e)
        BY <3>4 DEF Pending
      <4>2. PICK c \in todo[h] \cap Dirs : c \in Above(e)
        BY <4>1
      <4>3. CASE c = d
        <5>1. Top(g) \in Dirs /\ root \in Above(Top(g))
          BY AboveIs DEF Active, Opened, Top, PlaceInv
        <5>2. e \in Measurable(Top(g))
          BY <3>2 DEF OwnFiles
        <5>3. Level[e] < MaxDepth
          BY <5>2 DEF Measurable
        <5>4. Level[d] <= Level[e]
          BY <4>2, <4>3, LevelsGrow
        <5>5. Level[d] \in Nat /\ Level[root] \in Nat /\ Level[e] \in Nat
          BY LevelsGrow DEF PlaceInv
        <5> QED
          BY <3>1, <5>3, <5>4, <5>5 DEF TooDeep
      <4>4. CASE c # d
        <5>1. c \in todo'[h]
          BY <1>0, <1>1, <4>2, <4>4, SamePlace
        <5>2. Pending(e)'
          BY <4>2, <5>1 DEF Pending
        <5> QED
          BY <3>2, <5>2 DEF Coming
      <4> QED
        BY <4>3, <4>4
    <3> QED
      BY <3>2, <3>3, <3>4
  <2>3. NothingIsLost(K)'
    BY <2>2 DEF NothingIsLost
  <2> QED
    BY <1>2, <2>1, <2>3 DEF CountInv
<1>5. \/ Absorb(cursor, [size |-> 0, unreadable |-> 1])
      \/ UNCHANGED total /\ (truncated' \/ (TooDeep(d) /\ UNCHANGED truncated))
  BY DEF PassBy, Refused
<1> QED
  BY <1>3, <1>4, <1>5

-----------------------------------------------------------------------------
(* A file with one link is in one directory.                               *)
LEMMA Alone ==
  ASSUME NEW f \in Files, ~Shared(f), NEW x \in Dirs, NEW y \in Dirs, f \in Links[x], f \in Links[y]
  PROVE  x = y
<1> DEFINE S == {d \in Dirs : f \in Links[d]}
<1> SUFFICES ASSUME x # y PROVE FALSE
  OBVIOUS
<1>1. IsFiniteSet(S) /\ {x} \cup {y} \in SUBSET S
  BY FS_Subset
<1>2. Cardinality({x} \cup {y}) <= Cardinality(S)
  BY ONLY <1>1, FS_Subset
<1>3. Cardinality({x} \cup {y}) = 2
  <2>1. IsFiniteSet({x}) /\ Cardinality({x}) = 1
    BY FS_Singleton
  <2>2. Cardinality({x} \cup {y}) = Cardinality({x}) + 1
    BY <2>1, FS_AddElement
  <2> QED
    BY ONLY <2>1, <2>2, 1 + 1 = 2
<1>4. Cardinality(S) \in Nat
  BY <1>1, FS_CardinalityType
<1>5. ~(Cardinality(S) > 1)
  BY DEF Shared
<1>6. 2 <= Cardinality(S)
  BY ONLY <1>2, <1>3
<1> QED
  BY ONLY <1>4, <1>5, <1>6

(* A file that is next is an entry of an open directory, and is counted in *)
(* the frame of that directory.                                            *)
LEMMA NextFile ==
  ASSUME TypeInv, PlaceInv, NEW f \in Files, IsNext(f)
  PROVE  /\ cursor \in Dirs /\ cursor \in Opened /\ root \in Above(cursor) /\ f \in Links[cursor]
         /\ \A h \in Active : CountedIn(cursor, h) <=> h = cursor
<1>1. f \in todo[cursor] /\ f \notin Dirs /\ cursor \in Frames
  BY DEF IsNext, TypeInv, TypeOK
<1>2. cursor # Nowhere
  BY <1>1 DEF PlaceInv
<1>3. cursor \in Dirs /\ root \in Above(cursor) /\ cursor \in Above(cursor)
  BY <1>2, AboveIs DEF PlaceInv
<1>4. f \in Links[cursor]
  BY <1>1, <1>3 DEF PlaceInv, Children
<1>5. cursor \in Opened
  BY <1>2, <1>3 DEF Opened
<1>6. ASSUME NEW h \in Active PROVE CountedIn(cursor, h) <=> h = cursor
  <2>1. CASE h = Nowhere
    BY <1>2, <1>3, <1>5, <2>1 DEF CountedIn
  <2>2. CASE h # Nowhere
    <3>1. h \in Dirs
      BY <2>2 DEF Active, Opened
    <3>2. h # cursor => ~(h \in Above(cursor) /\ cursor \in Above(h))
      BY <1>3, <3>1, WaysAreChains
    <3> QED
      BY <1>3, <1>5, <2>2, <3>2 DEF CountedIn
  <2> QED
    BY <2>1, <2>2
<1> QED
  BY <1>3, <1>4, <1>5, <1>6

(* A file that has been counted need not come any more.                    *)
LEMMA FileDropped ==
  ASSUME TypeInv, PlaceInv, NEW K \in SUBSET (Files \X Dirs), NEW L \in SUBSET (Files \X Dirs),
         K \subseteq L, NEW f \in Files, f \in Counted(L), IsNext(f), todo' = Drop(f),
         UNCHANGED <<root, cursor, truncated>>, NothingIsLost(K),
         \A h \in Active : total'[h].unreadable = total[h].unreadable
  PROVE  NothingIsLost(L)'
<1>1. Opened' = Opened /\ Active' = Active
  BY SamePlace DEF Active
<1>2. \A g \in Active : OwnsUp(g) => OwnsUp(g)'
  BY <1>1 DEF OwnsUp
<1>3. \A g \in Active : Top(g)' = Top(g)
  BY DEF Top
<1>4. \A h : OwnFiles(h)' = OwnFiles(h)
  BY DEF OwnFiles, FilesBeneath, Measurable
<1>5. Counted(K) \subseteq Counted(L) /\ Counted(L)' = Counted(L)
  BY DEF Counted
<1>6. ASSUME NEW x, x # f, Coming(x) PROVE Coming(x)'
  <2>1. PICK e \in Dirs : x \in Links[e] /\ (Pending(e) \/ x \in todo[e])
    BY <1>6 DEF Coming
  <2>2. \A y, h : h \in Frames /\ y \in todo[h] /\ y # f => y \in todo'[h]
    BY SamePlace
  <2>3. Pending(e) => Pending(e)'
    BY <2>2 DEF Pending
  <2>4. x \in todo[e] => x \in todo'[e]
    BY <1>6, <2>2 DEF Frames
  <2> QED
    BY <2>1, <2>3, <2>4 DEF Coming
<1> SUFFICES ASSUME ~truncated, NEW g \in Active, NEW x \in OwnFiles(Top(g))
             PROVE  x \in Counted(L) \/ Coming(x)' \/ OwnsUp(g)'
  BY <1>1, <1>3, <1>4, <1>5 DEF NothingIsLost
<1>7. x \in Counted(K) \/ Coming(x) \/ OwnsUp(g)
  BY DEF NothingIsLost
<1> QED
  BY <1>2, <1>5, <1>6, <1>7

(* A file that is counted is counted for the first time in this walk.      *)
LEMMA FirstTime ==
  ASSUME TypeInv, PlaceInv, NEW K \in SUBSET (Files \X Dirs), NEW V \in SUBSET Dirs,
         CountInv(K, V), NEW f \in Files, IsNext(f), f \notin hardlinks
  PROVE  f \notin Counted(K)
<1> SUFFICES ASSUME NEW k \in K, k[1] = f PROVE FALSE
  BY DEF Counted
<1>1. /\ k[1] \in Links[k[2]] /\ k[2] \in Dirs
      /\ k[1] \in todo[k[2]] => Shared(k[1])
      /\ Shared(k[1]) => k[1] \in hardlinks
  BY DEF CountInv, FilesOnce
<1>2. ~Shared(f)
  BY <1>1
<1>3. cursor \in Dirs /\ f \in Links[cursor]
  BY NextFile
<1>4. k[2] = cursor
  BY <1>1, <1>2, <1>3, Alone
<1> QED
  BY <1>1, <1>2, <1>4 DEF IsNext

(* It is counted in the cursor's frame, and in no other.                   *)
LEMMA FileIsHeld ==
  ASSUME TypeInv, PlaceInv, NEW K \in SUBSET (Files \X Dirs), NEW V \in SUBSET Dirs,
         CountInv(K, V), NEW f \in Files, IsNext(f), f \notin hardlinks,
         NEW k, k = <<f, cursor>>, NEW L, L = K \cup {k}
  PROVE  /\ Cardinality(Held(L, cursor)) = Cardinality(Held(K, cursor)) + 1
         /\ \A h \in Active \ {cursor} : Held(L, h) = Held(K, h)
<1>1. k[1] = f /\ k[2] = cursor
  OBVIOUS
<1>2. cursor \in Active /\ \A h \in Active : CountedIn(cursor, h) <=> h = cursor
  BY NextFile DEF Active
<1>3. k \notin K
  BY <1>1, FirstTime DEF Counted
<1>4. Held(L, cursor) = Held(K, cursor) \cup {k}
  BY <1>1, <1>2 DEF Held
<1>5. \A h \in Active \ {cursor} : Held(L, h) = Held(K, h)
  BY <1>1, <1>2 DEF Held
<1>6. IsFiniteSet(Held(K, cursor)) /\ k \notin Held(K, cursor)
  <2>1. IsFiniteSet(Files \X Dirs)
    BY FS_Product
  <2>2. IsFiniteSet(Files \X Dirs) /\ Held(K, cursor) \in SUBSET (Files \X Dirs)
    BY <2>1 DEF Held
  <2>3. IsFiniteSet(Held(K, cursor))
    BY ONLY <2>2, FS_Subset
  <2> QED
    BY <1>3, <2>3 DEF Held
<1>7. Cardinality(Held(K, cursor) \cup {k}) = Cardinality(Held(K, cursor)) + 1
  BY ONLY <1>6, FS_AddElement
<1> QED
  BY <1>4, <1>5, <1>7

(* A file that is read: counted before, counted now, or not to be stat'ed. *)
LEMMA FileRead ==
  ASSUME TypeInv, TypeInv', PlaceInv, NEW K \in SUBSET (Files \X Dirs), NEW V \in SUBSET Dirs,
         CountInv(K, V), NEW f \in Files, CountFile(f)
  PROVE  PlaceInv' /\ \E L \in SUBSET (Files \X Dirs) : CountInv(L, V)'
<1>0. total \in [Frames -> Subtotal] /\ cursor \in Frames /\ Dirs \subseteq Frames
  BY DEF TypeInv, TypeOK, Frames
<1>1. IsNext(f) /\ todo' = Drop(f) /\ UNCHANGED <<root, cursor, truncated>>
  BY DEF CountFile
<1>2. PlaceInv' /\ Opened' = Opened /\ Active' = Active
  BY <1>1, SamePlace DEF Active
<1>3. /\ cursor \in Dirs /\ cursor \in Opened /\ root \in Above(cursor) /\ f \in Links[cursor]
      /\ cursor \in Active /\ Active \subseteq Frames
  BY <1>1, NextFile DEF Active, Frames, Opened
<1>4. cursor \in V
  BY <1>3 DEF CountInv, DirsOnce
<1>5. total[cursor].size \in Nat /\ total[cursor].unreadable \in Nat
  BY <1>0 DEF Subtotal
<1>6. CASE f \in hardlinks /\ UNCHANGED <<total, hardlinks>>
  <2>1. FilesOnce(K, V)' /\ DirsOnce(V)' /\ TotalsAreCounts(K)'
    BY <1>1, <1>6, QuietVisit
  <2>2. f \in Counted(K)
    BY <1>6 DEF CountInv, FilesOnce
  <2>3. NothingIsLost(K)'
    BY <1>1, <1>6, <2>2, FileDropped DEF CountInv
  <2> QED
    BY <1>2, <2>1, <2>3 DEF CountInv
<1>7. CASE /\ f \notin hardlinks /\ Absorb(cursor, [size |-> 1, unreadable |-> 0])
           /\ hardlinks' = IF Shared(f) THEN hardlinks \cup {f} ELSE hardlinks
  <2>10. PICK k \in Files \X Dirs : k = <<f, cursor>>
    BY <1>3
  <2>11. PICK L \in SUBSET (Files \X Dirs) : L = K \cup {k}
    OBVIOUS
  <2>1. /\ total'[cursor].size = total[cursor].size + 1
        /\ total'[cursor].unreadable = total[cursor].unreadable + 0
        /\ \A g \in Frames \ {cursor} : total'[g] = total[g]
    BY <1>0, <1>7, Pieces, AbsorbIs
  <2>12. IsNext(f) /\ f \notin hardlinks /\ k = <<f, cursor>> /\ L = K \cup {k}
    BY <1>1, <1>7, <2>10, <2>11
  <2>2. /\ Cardinality(Held(L, cursor)) = Cardinality(Held(K, cursor)) + 1
        /\ \A h \in Active \ {cursor} : Held(L, h) = Held(K, h)
    BY <2>12, FileIsHeld
  <2>3. k[1] = f /\ k[2] = cursor /\ k \in Files \X Dirs
    BY <2>10
  <2>4. f \notin Counted(K)
    BY <1>1, <1>7, FirstTime
  <2>5. FilesOnce(L, V)'
    <3>1. FilesOnce(K, V)
      BY DEF CountInv
    <3>2. \A i, j \in L : i[1] = j[1] => i = j
      BY <2>3, <2>4, <2>11, <3>1 DEF FilesOnce, Counted
    <3>3. \A d \in Dirs : todo'[d] \subseteq todo[d]
      BY <1>0, <1>1, SamePlace
    <3>4. f \notin todo'[cursor]
      BY <1>1, SamePlace
    <3>5. ASSUME NEW i \in L
          PROVE  /\ i[1] \in Links[i[2]] /\ i[2] \in V /\ root \in Above(i[2])
                 /\ i[1] \in todo'[i[2]] \/ i[1] \in hardlinks' => Shared(i[1])
                 /\ Shared(i[1]) => i[1] \in hardlinks'
      <4>1. CASE i = k
        BY <1>3, <1>4, <1>7, <2>3, <3>4, <4>1
      <4>2. CASE i \in K
        <5>1. /\ i[1] \in Links[i[2]] /\ i[2] \in V /\ root \in Above(i[2])
              /\ i[1] \in todo[i[2]] \/ i[1] \in hardlinks => Shared(i[1])
              /\ Shared(i[1]) => i[1] \in hardlinks
          BY <3>1, <4>2 DEF FilesOnce
        <5>2. i[1] \in todo'[i[2]] => i[1] \in todo[i[2]]
          BY <3>3, <5>1
        <5> QED
          BY <1>7, <5>1, <5>2
      <4> QED
        BY <2>11, <4>1, <4>2
    <3>6. hardlinks' \subseteq Counted(L)
      BY <1>7, <2>3, <2>11, <3>1 DEF FilesOnce, Counted
    <3>7. L \subseteq Files \X Dirs
      OBVIOUS
    <3>8. UNCHANGED root
      BY <1>1
    <3>9. \A i \in L : /\ i[1] \in Links[i[2]] /\ i[2] \in V /\ (root \in Above(i[2]))'
                       /\ i[1] \in todo'[i[2]] \/ i[1] \in hardlinks' => Shared(i[1])
                       /\ Shared(i[1]) => i[1] \in hardlinks'
      BY <3>5, <3>8
    <3> QED
      BY <3>2, <3>6, <3>7, <3>9 DEF FilesOnce
  <2>6. DirsOnce(V)'
    <3>1. \A e \in V : Pending(e)' => Pending(e)
      <4>1. \A g \in Frames : todo'[g] \subseteq todo[g]
        BY <1>1, SamePlace
      <4> QED
        BY <4>1 DEF Pending
    <3>2. \A d \in Dirs \ V : total'[d] = total[d]
      BY <1>0, <1>4, <2>1
    <3> QED
      BY <1>2, <3>1, <3>2 DEF CountInv, DirsOnce
  <2>7. TotalsAreCounts(L)'
    <3>1. \A h \in Active : total[h].size = Cardinality(Held(K, h))
      BY DEF CountInv, TotalsAreCounts
    <3>2. \A h \in Active : Held(L, h)' = Held(L, h)
      BY <1>2 DEF Held, CountedIn
    <3>3. total'[cursor].size = Cardinality(Held(L, cursor))
      BY <1>3, <2>1, <2>2, <3>1
    <3>4. \A h \in Active \ {cursor} : total'[h].size = Cardinality(Held(L, h))
      BY <1>3, <2>1, <2>2, <3>1
    <3> QED
      BY <1>2, <3>2, <3>3, <3>4 DEF TotalsAreCounts
  <2>8. NothingIsLost(L)'
    <3>1. L \in SUBSET (Files \X Dirs) /\ K \subseteq L /\ f \in Counted(L)
      BY <2>3, <2>11 DEF Counted
    <3>2. \A h \in Active : total'[h].unreadable = total[h].unreadable
      BY <1>3, <1>5, <2>1
    <3> QED
      BY <1>1, <3>1, <3>2, FileDropped DEF CountInv
  <2> QED
    BY <1>2, <2>5, <2>6, <2>7, <2>8 DEF CountInv
<1>8. CASE Absorb(cursor, [size |-> 0, unreadable |-> 1]) /\ UNCHANGED hardlinks
  <2>1. /\ total'[cursor].size = total[cursor].size + 0
        /\ total'[cursor].unreadable = total[cursor].unreadable + 1
        /\ \A g \in Frames \ {cursor} : total'[g] = total[g]
    BY <1>0, <1>8, Pieces, AbsorbIs
  <2>2. total'[cursor'].unreadable > 0
    BY <1>1, <1>5, <2>1
  <2>3. \A h \in Active : total'[h].size = total[h].size
    BY <1>3, <1>5, <2>1
  <2>4. \A e \in Dirs \ V : total'[e] = total[e]
    BY <1>0, <1>4, <2>1
  <2>5. NothingIsLost(K)'
    BY <1>2, <2>2, CursorOwnsUp
  <2>6. FilesOnce(K, V)' /\ DirsOnce(V)' /\ TotalsAreCounts(K)'
    BY <1>1, <1>8, <2>3, <2>4, QuietVisit
  <2> QED
    BY <1>2, <2>5, <2>6 DEF CountInv
<1> QED
  BY <1>6, <1>7, <1>8 DEF CountFile

-----------------------------------------------------------------------------
(* A directory that opens was pending, and its entries are in its place.   *)
LEMMA PlaceDown ==
  ASSUME TypeInv, TypeInv', PlaceInv, NEW d \in Dirs, Descend(d)
  PROVE  /\ Opened' = Opened \cup {d} /\ d \notin Opened /\ Pending(d)
         /\ todo'[d] = Children(d) \cup Links[d] /\ todo[d] = {}
         /\ d \in todo[cursor] /\ d \notin todo'[cursor] /\ cursor \in Frames /\ d # cursor
         /\ \A g \in Frames \ {d} : /\ todo'[g] \subseteq todo[g]
                                    /\ todo[g] \subseteq todo'[g] \cup {d}
<1>0. /\ cursor \in Frames /\ todo \in [Frames -> SUBSET (Dirs \cup Files)]
      /\ Frames = Dirs \cup {Nowhere}
  BY DEF TypeInv, TypeOK, Frames
<1>1. /\ d \in todo[cursor] /\ cursor' = d /\ UNCHANGED root
      /\ todo' = [Drop(d) EXCEPT ![d] = Children(d) \cup Links[d]]
  BY DEF Descend, Probes, IsNext
<1>2. Opened' = Opened \cup {d}
  BY <1>1, OpenedDown
<1>3. cursor # Nowhere => /\ cursor \in Dirs /\ d \in Dirs \ {Root} /\ Parent[d] = cursor
                          /\ cursor \in Above(cursor)
  <2>1. cursor # Nowhere => cursor \in Dirs /\ cursor \in Above(cursor)
    BY AboveIs DEF PlaceInv
  <2>2. cursor # Nowhere => d \in Children(cursor)
    BY <1>1, <2>1 DEF PlaceInv
  <2> QED
    BY <2>1, <2>2 DEF Children
<1>4. d # cursor /\ d \notin Opened
  <2>1. cursor # Nowhere => d \notin Above(cursor)
    BY <1>3, NoWayAround
  <2> QED
    BY <1>3, <2>1 DEF Opened
<1>5. Drop(d) \in [Frames -> SUBSET (Dirs \cup Files)]
  BY <1>0 DEF Drop
<1>6. \A g \in Frames : Drop(d)[g] = IF g = cursor THEN todo[g] \ {d} ELSE todo[g]
  BY <1>0 DEF Drop
<1>7. /\ todo'[d] = Children(d) \cup Links[d]
      /\ \A g \in Frames \ {d} : todo'[g] = Drop(d)[g]
  BY <1>0, <1>1, <1>5
<1>8. Pending(d)
  BY <1>0, <1>1, AboveIs DEF Pending
<1>9. todo[d] = {}
  BY <1>4 DEF PlaceInv
<1>10. d \notin todo'[cursor]
  BY <1>0, <1>4, <1>6, <1>7
<1>11. \A g \in Frames \ {d} : /\ todo'[g] \subseteq todo[g]
                                /\ todo[g] \subseteq todo'[g] \cup {d}
  BY <1>6, <1>7
<1> QED
  BY <1>0, <1>1, <1>2, <1>4, <1>7, <1>8, <1>9, <1>10, <1>11

(* No directory is before the walk in two places, after one is opened.     *)
LEMMA OnePlaceDown ==
  ASSUME TypeInv, TypeInv', PlaceInv, NEW d \in Dirs, Descend(d)
  PROVE  PlaceInv'
<1>1. /\ Opened' = Opened \cup {d} /\ Frames = Dirs \cup {Nowhere}
      /\ todo'[d] = Children(d) \cup Links[d] /\ todo[d] = {}
      /\ d \in todo[cursor] /\ d \notin todo'[cursor] /\ cursor \in Frames /\ d # cursor
      /\ \A g \in Frames \ {d} : todo'[g] \subseteq todo[g]
  BY PlaceDown DEF Frames
<1>2. cursor' = d /\ UNCHANGED root /\ root \in Above(d) /\ root \in Dirs /\ d # Nowhere
  BY OpenedDown DEF Descend, Probes, IsNext, PlaceInv
<1>3. \A c \in todo'[d] \cap Dirs : c \in Children(d)
  BY <1>1
<1>4. ASSUME NEW g \in Frames, NEW h \in Frames, NEW e \in Dirs,
             NEW b \in todo'[g] \cap Dirs, NEW c \in todo'[h] \cap Dirs, b \in Above(e), c \in Above(e)
      PROVE  b = c /\ g = h
  <2>1. CASE g = d /\ h = d
    <3>1. b \in Children(d) /\ c \in Children(d)
      BY <1>3, <2>1
    <3> QED
      BY <1>4, <2>1, <3>1, SiblingsPart
  <2>2. ASSUME NEW x \in Frames, x # d, NEW y \in todo'[x] \cap Dirs, NEW z \in Children(d),
               y \in Above(e), z \in Above(e)
        PROVE  FALSE
    <3>1. d \in Above(e)
      BY <2>2, ByChild
    <3>2. y \in todo[x] \cap Dirs
      BY <1>1, <2>2
    <3>3. y = d /\ x = cursor
      BY <1>1, <2>2, <3>1, <3>2 DEF PlaceInv, OnePlace
    <3> QED
      BY <1>1, <2>2, <3>3
  <2>3. CASE g = d /\ h # d
    BY <1>3, <1>4, <2>2, <2>3
  <2>4. CASE g # d /\ h = d
    BY <1>3, <1>4, <2>2, <2>4
  <2>5. CASE g # d /\ h # d
    BY <1>1, <1>4, <2>5 DEF PlaceInv, OnePlace
  <2> QED
    BY <2>1, <2>3, <2>4, <2>5
<1>5. \A g, h \in Frames : OnePlace(g, h)'
  BY <1>4 DEF OnePlace
<1>6. \A x \in Dirs \ Opened' : todo'[x] = {}
  BY <1>1 DEF PlaceInv
<1>7. \A x \in Dirs : todo'[x] \subseteq Children(x) \cup Links[x]
  BY <1>1 DEF PlaceInv
<1>8. todo'[Nowhere] \subseteq {root}
  BY <1>1, <1>2 DEF PlaceInv
<1> QED
  BY <1>2, <1>5, <1>6, <1>7, <1>8 DEF PlaceInv

(* What was pending still is, but for the directory that was opened.       *)
LEMMA PendingDown ==
  ASSUME TypeInv, TypeInv', PlaceInv, NEW d \in Dirs, Descend(d), NEW e \in Dirs
  PROVE  Pending(e)' <=> Pending(e) /\ e # d
<1>1. /\ Opened' = Opened \cup {d} /\ Frames = Dirs \cup {Nowhere}
      /\ todo'[d] = Children(d) \cup Links[d] /\ todo[d] = {}
      /\ d \in todo[cursor] /\ d \notin todo'[cursor] /\ cursor \in Frames /\ d # cursor
      /\ \A g \in Frames \ {d} : /\ todo'[g] \subseteq todo[g]
                                 /\ todo[g] \subseteq todo'[g] \cup {d}
  BY PlaceDown DEF Frames
<1>2. ASSUME NEW g \in Frames, NEW c \in todo'[g] \cap Dirs, c \in Above(e) PROVE Pending(e) /\ e # d
  <2>1. CASE g = d
    <3>1. c \in Children(d)
      BY <1>1, <2>1
    <3>2. d \in Above(e)
      BY <1>2, <3>1, ByChild
    <3>3. c \in Dirs \ {Root} /\ c \notin Above(d)
      BY <3>1, NoWayAround DEF Children
    <3> QED
      BY <1>1, <1>2, <3>2, <3>3 DEF Pending
  <2>2. CASE g # d
    <3>1. c \in todo[g] \cap Dirs
      BY <1>1, <2>2
    <3>2. ASSUME e = d PROVE FALSE
      <4>1. d \in Above(e)
        BY <3>2, AboveIs
      <4>2. c = d /\ g = cursor
        BY <1>1, <1>2, <3>1, <4>1 DEF PlaceInv, OnePlace
      <4> QED
        BY <1>1, <4>2
    <3> QED
      BY <1>2, <3>1, <3>2 DEF Pending
  <2> QED
    BY <2>1, <2>2
<1>3. ASSUME NEW g \in Frames, NEW c \in todo[g] \cap Dirs, c \in Above(e), e # d PROVE Pending(e)'
  <2>1. CASE c = d
    <3>1. PICK y \in Children(d) : y \in Above(e)
      BY <1>3, <2>1, ByChild
    <3>2. y \in todo'[d] \cap Dirs /\ d \in Frames
      BY <1>1 DEF Children
    <3> QED
      BY <3>1, <3>2 DEF Pending
  <2>2. CASE c # d
    <3>1. c \in todo'[g]
      BY <1>1, <2>2
    <3> QED
      BY <1>3, <3>1 DEF Pending
  <2> QED
    BY <2>1, <2>2
<1> QED
  BY <1>2, <1>3 DEF Pending

(* A directory that is opened has counted nothing yet.                     *)
LEMMA DirOpened ==
  ASSUME TypeInv, TypeInv', PlaceInv, NEW K \in SUBSET (Files \X Dirs), NEW V \in SUBSET Dirs,
         CountInv(K, V), NEW d \in Dirs, Descend(d)
  PROVE  PlaceInv' /\ CountInv(K, V \cup {d})'
<1>1. /\ Opened' = Opened \cup {d} /\ Active' = Active \cup {d} /\ Dirs \subseteq Frames
      /\ todo'[d] = Children(d) \cup Links[d] /\ Pending(d) /\ d # Nowhere
      /\ \A g \in Frames \ {d} : /\ todo'[g] \subseteq todo[g]
                                 /\ todo[g] \subseteq todo'[g] \cup {d}
  BY PlaceDown DEF Frames, Active
<1>2. UNCHANGED <<root, total, hardlinks, truncated>>
  BY DEF Descend
<1>3. PICK W \in SUBSET Dirs : W = V \cup {d}
  OBVIOUS
<1>4. d \notin V /\ \A e \in V : d \notin Above(e)
  <2>1. \A e \in Dirs : d \in Above(e) => Pending(e)
    BY PlaceDown DEF Pending
  <2>2. d \in Above(d)
    BY AboveIs
  <2> QED
    BY <2>1, <2>2 DEF CountInv, DirsOnce
<1>5. FilesOnce(K, W)'
  <2>1. \A x \in V : todo'[x] \subseteq todo[x]
    BY <1>1, <1>4
  <2>2. FilesOnce(K, V)
    BY DEF CountInv
  <2>3. \A k \in K : k[2] \in V /\ k[2] \in W
    BY <1>3, <2>2 DEF FilesOnce
  <2>4. \A k \in K : k[1] \in todo'[k[2]] => k[1] \in todo[k[2]]
    BY <2>1, <2>3
  <2> QED
    BY <1>2, <2>2, <2>3, <2>4 DEF FilesOnce
<1>6. DirsOnce(W)'
  <2>1. \A e \in W : ~Pending(e)'
    BY <1>3, PendingDown DEF CountInv, DirsOnce
  <2>2. \A x \in Dirs \ W : total'[x] = Nil
    BY <1>2, <1>3 DEF CountInv, DirsOnce
  <2> QED
    BY <1>1, <1>3, <2>1, <2>2 DEF CountInv, DirsOnce
<1>7. TotalsAreCounts(K)'
  <2>1. \A k \in K : k[2] \in V /\ d \notin Above(k[2])
    BY <1>4 DEF CountInv, FilesOnce
  <2>2. Held(K, d)' = {}
    BY <1>1, <2>1 DEF Held, CountedIn
  <2>3. \A h \in Active : Held(K, h)' = Held(K, h)
    <3>1. d \notin Active
      BY <1>1, PlaceDown DEF Active
    <3>2. \A k \in K : \A h \in Active : CountedIn(k[2], h)' <=> CountedIn(k[2], h)
      BY <1>1, <2>1, <3>1 DEF CountedIn
    <3> QED
      BY <3>2 DEF Held
  <2>4. total'[d].size = Cardinality(Held(K, d)')
    <3>1. total[d] = Nil
      BY <1>4 DEF CountInv, DirsOnce
    <3> QED
      BY <1>2, <2>2, <3>1, FS_EmptySet DEF Nil
  <2>5. \A h \in Active : total'[h].size = Cardinality(Held(K, h)')
    BY <1>2, <2>3 DEF CountInv, TotalsAreCounts
  <2> QED
    BY <1>1, <2>4, <2>5 DEF TotalsAreCounts
<1>8. NothingIsLost(K)'
  <2>1. ASSUME NEW f, Coming(f) PROVE Coming(f)'
    <3>1. PICK e \in Dirs : f \in Links[e] /\ (Pending(e) \/ f \in todo[e])
      BY <2>1 DEF Coming
    <3>2. CASE e = d
      BY <1>1, <3>1, <3>2 DEF Coming
    <3>3. CASE e # d
      <4>1. Pending(e) => Pending(e)'
        BY <3>3, PendingDown
      <4>2. f # d
        BY <3>1
      <4>3. f \in todo[e] => f \in todo'[e]
        BY <1>1, <3>3, <4>2
      <4> QED
        BY <3>1, <4>1, <4>3 DEF Coming
    <3> QED
      BY <3>2, <3>3
  <2>2. \A g \in Active : OwnsUp(g) => OwnsUp(g)'
    BY <1>1, <1>2 DEF OwnsUp
  <2>3. ASSUME NEW f \in OwnFiles(d) PROVE Coming(f)
    <3>1. PICK e \in Beneath[d] : f \in Links[e]
      BY DEF OwnFiles, FilesBeneath
    <3>2. e \in Dirs /\ d \in Above(e)
      BY BeneathIs DEF Under
    <3>3. Pending(e)
      BY <3>2, PlaceDown DEF Pending
    <3> QED
      BY <3>1, <3>2, <3>3 DEF Coming
  <2>4. \A h : OwnFiles(h)' = OwnFiles(h)
    BY DEF OwnFiles, FilesBeneath, Measurable
  <2>5. \A g \in Active' : Top(g)' = Top(g)
    BY <1>2 DEF Top
  <2>6. Top(d) = d
    BY <1>1 DEF Top
  <2>7. Counted(K)' = Counted(K)
    BY DEF Counted
  <2> SUFFICES ASSUME ~truncated, NEW g \in Active', NEW f \in OwnFiles(Top(g))
               PROVE  f \in Counted(K) \/ Coming(f)' \/ OwnsUp(g)'
    BY <1>2, <2>4, <2>5, <2>7 DEF NothingIsLost
  <2>8. CASE g = d
    BY <2>1, <2>3, <2>6, <2>8
  <2>9. CASE g \in Active
    <3>1. f \in Counted(K) \/ Coming(f) \/ OwnsUp(g)
      BY <2>9 DEF NothingIsLost, CountInv
    <3> QED
      BY <2>1, <2>2, <2>9, <3>1
  <2> QED
    BY <1>1, <2>8, <2>9
<1>9. CountInv(K, W)'
  BY <1>5, <1>6, <1>7, <1>8 DEF CountInv
<1> QED
  BY <1>3, <1>9, OnePlaceDown

-----------------------------------------------------------------------------
(* Most and Least are bounds that a subtotal keeps, or it owns up.         *)
Honest(sub, d) == sub.size <= Most[d] /\ (sub.size < Least[d] => sub.unreadable > 0)

(* When the entries of the cursor's frame have been read, nothing beneath  *)
(* it is still to come.                                                    *)
LEMMA NothingToCome ==
  ASSUME TypeInv, PlaceInv, NEW V \in SUBSET Dirs, DirsOnce(V),
         todo[cursor] = {}, NEW e \in Dirs, Top(cursor) \in Above(e)
  PROVE  ~Pending(e) /\ todo[e] = {}
<1>0. cursor \in Frames /\ Frames = Dirs \cup {Nowhere}
  BY DEF TypeInv, TypeOK, Frames
<1>1. CASE cursor = Nowhere
  <2>1. Opened = {}
    BY <1>1 DEF Opened
  <2>2. \A g \in Frames : todo[g] = {}
    BY <1>0, <1>1, <2>1 DEF PlaceInv
  <2> QED
    BY <1>0, <2>2 DEF Pending
<1>2. CASE cursor # Nowhere
  <2>1. /\ cursor \in Dirs /\ root \in Dirs /\ root \in Above(cursor) /\ cursor \in Above(e)
        /\ cursor \in Above(cursor)
    BY <1>2, AboveIs DEF PlaceInv, Top
  <2>2. ~Pending(cursor)
    BY <1>2, <2>1 DEF DirsOnce, Opened
  <2>3. ASSUME NEW g \in Frames, NEW c \in todo[g] \cap Dirs, c \in Above(e) PROVE FALSE
    <3>1. c \notin Above(cursor)
      BY <2>2, <2>3 DEF Pending
    <3>2. cursor \in Above(c)
      BY <2>1, <2>3, <3>1, WaysAreChains
    <3>3. c # cursor /\ c # root
      BY <2>1, <3>1
    <3>4. g \in Opened
      BY <1>0, <3>3 DEF PlaceInv
    <3>5. g \in Dirs /\ g \in Above(cursor) /\ g # cursor
      BY <3>4 DEF Opened
    <3>6. c \in Dirs \ {Root} /\ Parent[c] = g
      BY <2>3, <3>5 DEF PlaceInv, Children
    <3>7. cursor \in Above(g)
      BY <3>2, <3>3, <3>6, AboveIs
    <3> QED
      BY <2>1, <3>5, <3>7, WaysAreChains
  <2>4. ASSUME todo[e] # {} PROVE FALSE
    <3>1. e \in Above(cursor)
      BY <2>4 DEF PlaceInv, Opened
    <3>2. e = cursor
      BY <2>1, <3>1, WaysAreChains
    <3> QED
      BY <2>4, <3>2
  <2> QED
    BY <2>3, <2>4 DEF Pending
<1> QED
  BY <1>1, <1>2

(* A set of pairs is as large as the set of their first components, if no  *)
(* two pairs share one.                                                    *)
LEMMA AsManyAs ==
  ASSUME NEW H, IsFiniteSet(H), \A k, l \in H : k[1] = l[1] => k = l
  PROVE  Cardinality({k[1] : k \in H}) = Cardinality(H) /\ IsFiniteSet({k[1] : k \in H})
<1> DEFINE T == {k[1] : k \in H}
           f == [k \in H |-> k[1]]
<1>1. f \in Surjection(H, T)
  BY DEF Surjection
<1>2. f \in Injection(H, T)
  BY DEF Injection, IsInjective
<1>3. \A k \in H : k[1] \in T
  OBVIOUS
<1> HIDE DEF T, f
<1>4. IsFiniteSet(T) /\ (Cardinality(T) = Cardinality(H) <=> f \in Injection(H, T))
  BY <1>1, FS_Surjection
<1> QED
  BY <1>2, <1>4 DEF T

(* So the subtotal of a frame whose entries have been read is honest.      *)
LEMMA FrameIsHonest ==
  ASSUME TypeInv, PlaceInv, NEW K \in SUBSET (Files \X Dirs), NEW V \in SUBSET Dirs,
         CountInv(K, V), todo[cursor] = {}, ~truncated
  PROVE  Honest(total[cursor], Top(cursor))
<1> DEFINE d == Top(cursor)
           H == Held(K, cursor)
           F == {k[1] : k \in H}
<1>0. cursor \in Active /\ d \in Dirs /\ total[cursor] \in Subtotal
  <2>1. cursor \in Dirs => cursor \in Above(cursor)
    BY AboveIs
  <2> QED
    BY <2>1 DEF PlaceInv, Opened, Active, Top, TypeInv, TypeOK
<1>1. IsFiniteSet(H) /\ H \subseteq K
  <2>1. IsFiniteSet(Files \X Dirs)
    BY FS_Product
  <2>2. IsFiniteSet(Files \X Dirs) /\ H \in SUBSET (Files \X Dirs)
    BY <2>1 DEF Held
  <2>3. IsFiniteSet(H)
    BY ONLY <2>2, FS_Subset
  <2> QED
    BY <2>3 DEF Held
<1>2. Cardinality(F) = Cardinality(H) /\ IsFiniteSet(F)
  <2>1. \A k, l \in H : k[1] = l[1] => k = l
    BY <1>1 DEF CountInv, FilesOnce
  <2> HIDE DEF H
  <2> QED
    BY <1>1, <2>1, AsManyAs
<1>3. Beneath[d] = Under(d)
  BY <1>0, BeneathIs
<1>4. F \subseteq FilesBeneath(d)
  <2>1. ASSUME NEW k \in H PROVE k[1] \in FilesBeneath(d)
    <3>1. k \in K /\ CountedIn(k[2], cursor)
      BY DEF Held
    <3>2. k[2] \in Dirs /\ k[1] \in Links[k[2]] /\ root \in Above(k[2])
      BY <3>1 DEF CountInv, FilesOnce
    <3>3. d \in Above(k[2])
      BY <3>1, <3>2 DEF CountedIn, Top
    <3> QED
      BY <1>3, <3>2, <3>3 DEF FilesBeneath, Under
  <2> HIDE DEF H, d
  <2> QED
    BY <2>1
<1>5. IsFiniteSet(FilesBeneath(d)) /\ IsFiniteSet(OwnFiles(d))
  <2>1. FilesBeneath(d) \subseteq Files
    BY <1>3 DEF FilesBeneath, Under
  <2>2. IsFiniteSet(Files) /\ FilesBeneath(d) \in SUBSET Files /\ OwnFiles(d) \in SUBSET Files
    BY <2>1 DEF OwnFiles
  <2> QED
    BY ONLY <2>2, FS_Subset
<1>6. ~OwnsUp(cursor) => OwnFiles(d) \subseteq F
  <2> SUFFICES ASSUME ~OwnsUp(cursor), NEW f \in OwnFiles(d) PROVE f \in F
    OBVIOUS
  <2>1. \A e \in Dirs : f \in Links[e] => d \in Above(e)
    BY <1>3 DEF OwnFiles, Measurable, Under
  <2>2. ~Coming(f)
    BY <1>0, <2>1, NothingToCome DEF Coming, CountInv
  <2>3. PICK k \in K : k[1] = f
    BY <1>0, <2>2 DEF CountInv, NothingIsLost, Counted
  <2>4. k[2] \in Dirs /\ d \in Above(k[2])
    BY <2>1, <2>3 DEF CountInv, FilesOnce
  <2>5. CountedIn(k[2], cursor)
    BY <2>4 DEF CountedIn, Opened, Top
  <2>6. k \in H
    BY <2>3, <2>5 DEF Held
  <2> QED
    BY <2>3, <2>6
<1>7. OwnsUp(cursor) => total[cursor].unreadable > 0
  <2>1. CASE cursor = Nowhere
    BY <2>1 DEF OwnsUp, Active, Opened
  <2>2. CASE cursor # Nowhere
    <3>1. \A h \in Opened : cursor \in Above(h) => h = cursor
      BY <2>2, WaysAreChains DEF Opened, PlaceInv
    <3> QED
      BY <2>2, <3>1 DEF OwnsUp, Active
  <2> QED
    BY <2>1, <2>2
<1>8. total[cursor].size = Cardinality(F)
  BY <1>0, <1>2 DEF CountInv, TotalsAreCounts
<1>9. Most[d] = Cardinality(FilesBeneath(d)) /\ Least[d] = Cardinality(OwnFiles(d))
  BY <1>0 DEF Most, Least
<1> HIDE DEF F, H, d
<1>10. Cardinality(F) <= Cardinality(FilesBeneath(d))
  <2>1. IsFiniteSet(FilesBeneath(d)) /\ F \in SUBSET FilesBeneath(d)
    BY <1>4, <1>5
  <2> QED
    BY ONLY <2>1, FS_Subset
<1>11. ~OwnsUp(cursor) => Cardinality(OwnFiles(d)) <= Cardinality(F)
  <2> SUFFICES ASSUME ~OwnsUp(cursor) PROVE Cardinality(OwnFiles(d)) <= Cardinality(F)
    OBVIOUS
  <2>1. IsFiniteSet(F) /\ OwnFiles(d) \in SUBSET F
    BY <1>2, <1>6
  <2> QED
    BY ONLY <2>1, FS_Subset
<1>12. Cardinality(F) \in Nat /\ Cardinality(OwnFiles(d)) \in Nat
  BY <1>2, <1>5, FS_CardinalityType
<1>13. ~OwnsUp(cursor) => ~(total[cursor].size < Least[d])
  BY <1>8, <1>9, <1>11, <1>12
<1>14. total[cursor].size <= Most[d]
  BY <1>8, <1>9, <1>10
<1> QED
  BY <1>7, <1>13, <1>14 DEF Honest, d

-----------------------------------------------------------------------------
(* What was counted in the frame that is left is counted in the one below. *)
LEMMA CountedUp ==
  ASSUME TypeInv, PlaceInv, cursor # Nowhere, cursor' = Below(cursor), UNCHANGED root,
         NEW p, p = cursor', NEW e \in Dirs
  PROVE  /\ \A h \in Active' \ {p} : CountedIn(e, h)' <=> CountedIn(e, h)
         /\ CountedIn(e, p)' <=> CountedIn(e, p) \/ CountedIn(e, cursor)
         /\ ~(CountedIn(e, p) /\ CountedIn(e, cursor))
<1>1. /\ Opened' = Opened \ {cursor} /\ cursor \in Opened
      /\ cursor \in Dirs /\ root \in Dirs /\ cursor \in Above(cursor)
      /\ \A g \in Opened : g \in Dirs /\ root \in Above(g) /\ g \in Above(cursor)
  BY OpenedUp, AboveIs DEF PlaceInv, Opened
<1>2. CASE p = Nowhere
  <2>1. cursor = root
    BY <1>2, OpenedUp
  <2>2. Opened' = {}
    BY <1>1, <2>1, WaysAreChains
  <2>3. Opened = {cursor}
    BY <1>1, <2>2
  <2>4. Active' = {p}
    BY <1>2, <2>2 DEF Active
  <2>5. CountedIn(e, p)' /\ (CountedIn(e, p) <=> cursor \notin Above(e))
    BY <1>2, <2>2, <2>3 DEF CountedIn
  <2>6. CountedIn(e, cursor) <=> cursor \in Above(e)
    BY <1>1, <2>3 DEF CountedIn
  <2> QED
    BY <2>4, <2>5, <2>6
<1>3. CASE p # Nowhere
  <2>1. /\ p \in Opened' /\ p \in Dirs /\ Above(cursor) = {cursor} \cup Above(p)
        /\ p \in Above(cursor) /\ p # cursor
    BY <1>1, <1>3, OpenedUp
  <2>2. cursor \in Above(e) => p \in Above(e)
    BY <1>1, <2>1, WaysAreChains
  <2>3. \A g \in Opened' : g \in Above(p)
    BY <1>1, <2>1
  <2>4. cursor \notin Above(p)
    BY <1>1, <2>1, WaysAreChains
  <2>5. ASSUME NEW h \in Active', h # p PROVE CountedIn(e, h)' <=> CountedIn(e, h)
    <3>1. CASE h = Nowhere
      BY <1>1, <2>1, <2>2, <3>1 DEF CountedIn
    <3>2. CASE h # Nowhere
      <4>1. h \in Opened'
        BY <2>5, <3>2 DEF Active
      <4>2. h \in Dirs /\ h \in Above(p)
        BY <1>1, <2>3, <4>1
      <4>3. p \notin Above(h)
        BY <2>1, <2>5, <4>2, WaysAreChains
      <4> QED
        BY <1>1, <2>1, <2>2, <3>2, <4>3 DEF CountedIn
    <3> QED
      BY <3>1, <3>2
  <2>6. CountedIn(e, p)' <=> CountedIn(e, p) \/ CountedIn(e, cursor)
    <3>1. CASE cursor \in Above(e)
      <4>1. CountedIn(e, cursor)
        BY <1>1, <3>1 DEF CountedIn, PlaceInv
      <4>2. CountedIn(e, p)'
        BY <1>3, <2>2, <2>3, <3>1 DEF CountedIn
      <4> QED
        BY <4>1, <4>2
    <3>2. CASE cursor \notin Above(e)
      <4>1. ~CountedIn(e, cursor)
        BY <1>1, <3>2 DEF CountedIn, PlaceInv
      <4>2. CountedIn(e, p)' <=> CountedIn(e, p)
        BY <1>1, <1>3, <3>2 DEF CountedIn
      <4> QED
        BY <4>1, <4>2
    <3> QED
      BY <3>1, <3>2
  <2>7. ~(CountedIn(e, p) /\ CountedIn(e, cursor))
    BY <1>1, <1>3, <2>4 DEF CountedIn
  <2> QED
    BY <2>5, <2>6, <2>7
<1> QED
  BY <1>2, <1>3

(* A visit that returns hands what it has counted to its caller.           *)
LEMMA VisitReturns ==
  ASSUME TypeInv, TypeInv', PlaceInv, NEW K \in SUBSET (Files \X Dirs), NEW V \in SUBSET Dirs,
         CountInv(K, V), Return
  PROVE  PlaceInv' /\ CountInv(K, V)'
<1> PICK p : p = cursor'
  OBVIOUS
<1>1. /\ cursor # Nowhere /\ todo[cursor] = {} /\ cursor' = Below(cursor)
      /\ Absorb(p, total[cursor])
      /\ UNCHANGED <<root, todo, hardlinks, truncated>>
  BY DEF Return
<1>2. /\ Opened' = Opened \ {cursor} /\ cursor \in Opened
      /\ cursor' # Nowhere => /\ cursor' \in Opened' /\ root \in Above(cursor')
                              /\ Above(cursor) = {cursor} \cup Above(cursor')
      /\ cursor' = Nowhere => cursor = root
  BY <1>1, OpenedUp
<1>3. /\ p \in Active' /\ p # cursor /\ Active' = Active \ {cursor}
      /\ Active \subseteq Frames /\ cursor \in Dirs /\ p \in Frames /\ Dirs \subseteq Frames
  BY <1>1, <1>2 DEF Active, Opened, Frames
<1>4. PlaceInv'
  <2>1. \A g, h \in Frames : OnePlace(g, h)'
    BY <1>1 DEF PlaceInv, OnePlace
  <2>2. p # Nowhere => p \in Dirs
    BY <1>2 DEF Opened
  <2> QED
    BY <1>1, <1>2, <2>1, <2>2 DEF PlaceInv
<1>5. total \in [Frames -> Subtotal] /\ total[cursor] \in Subtotal
  BY <1>3 DEF TypeInv, TypeOK
<1>6. /\ total'[p].size = total[p].size + total[cursor].size
      /\ total'[p].unreadable = total[p].unreadable + total[cursor].unreadable
      /\ \A g \in Frames \ {p} : total'[g] = total[g]
  BY <1>1, <1>3, <1>5, AbsorbIs
<1>7. FilesOnce(K, V)'
  BY <1>1 DEF CountInv, FilesOnce
<1>8. DirsOnce(V)'
  <2>1. \A e : Pending(e)' <=> Pending(e)
    BY <1>1 DEF Pending
  <2>2. \A d \in Dirs \ V : total'[d] = total[d]
    <3>1. p \in V \cup {Nowhere}
      BY <1>2, <1>3 DEF Active, CountInv, DirsOnce
    <3> QED
      BY <1>3, <1>6, <3>1
  <2> QED
    BY <1>2, <2>1, <2>2 DEF CountInv, DirsOnce
<1>9. TotalsAreCounts(K)'
  <2>1. \A k \in K : k[2] \in Dirs
    OBVIOUS
  <2>2. \A h \in Active' \ {p} : Held(K, h)' = Held(K, h)
    <3>1. \A h \in Active' \ {p} : \A k \in K : CountedIn(k[2], h)' <=> CountedIn(k[2], h)
      BY <1>1, <2>1, CountedUp
    <3> QED
      BY <3>1 DEF Held
  <2>3. /\ Held(K, p)' = Held(K, p) \cup Held(K, cursor)
        /\ Held(K, p) \cap Held(K, cursor) = {}
    <3>1. \A k \in K : /\ CountedIn(k[2], p)' <=> CountedIn(k[2], p) \/ CountedIn(k[2], cursor)
                       /\ ~(CountedIn(k[2], p) /\ CountedIn(k[2], cursor))
      BY <1>1, <2>1, CountedUp
    <3> QED
      BY <3>1 DEF Held
  <2>4. \A h \in Active : total[h].size = Cardinality(Held(K, h))
    BY DEF CountInv, TotalsAreCounts
  <2>5. Cardinality(Held(K, p)') = Cardinality(Held(K, p)) + Cardinality(Held(K, cursor))
    <3>1. IsFiniteSet(Held(K, p)) /\ IsFiniteSet(Held(K, cursor))
      <4>1. IsFiniteSet(Files \X Dirs)
        BY FS_Product
      <4>2. /\ IsFiniteSet(Files \X Dirs)
            /\ Held(K, p) \in SUBSET (Files \X Dirs)
            /\ Held(K, cursor) \in SUBSET (Files \X Dirs)
        BY <4>1 DEF Held
      <4> QED
        BY ONLY <4>2, FS_Subset
    <3>2. Cardinality(Held(K, p) \cup Held(K, cursor))
            = Cardinality(Held(K, p)) + Cardinality(Held(K, cursor))
              - Cardinality(Held(K, p) \cap Held(K, cursor))
      BY ONLY <3>1, FS_Union
    <3>3. Cardinality(Held(K, p) \cap Held(K, cursor)) = 0
      BY <2>3, FS_EmptySet
    <3>4. Cardinality(Held(K, p)) \in Nat /\ Cardinality(Held(K, cursor)) \in Nat
      BY <3>1, FS_CardinalityType
    <3> QED
      BY <2>3, <3>2, <3>3, <3>4
  <2>6. total'[p].size = Cardinality(Held(K, p)')
    BY <1>2, <1>3, <1>6, <2>4, <2>5 DEF Active
  <2>7. \A h \in Active' \ {p} : total'[h].size = Cardinality(Held(K, h)')
    BY <1>3, <1>6, <2>2, <2>4
  <2> QED
    BY <2>6, <2>7 DEF TotalsAreCounts
<1>10. NothingIsLost(K)'
  <2>1. \A f : Coming(f) => Coming(f)'
    BY <1>1 DEF Coming, Pending
  <2>2. ASSUME NEW g \in Active', OwnsUp(g) PROVE OwnsUp(g)'
    <3>1. PICK h \in Active : /\ g = Nowhere \/ (h # Nowhere /\ g \in Above(h))
                              /\ total[h].unreadable > 0
      BY <2>2 DEF OwnsUp
    <3>2. total[h].unreadable \in Nat /\ total[cursor].unreadable \in Nat /\ total[p].unreadable \in Nat
      BY <1>3, <1>5 DEF Subtotal
    <3>3. CASE h # cursor
      <4>1. total'[h].unreadable > 0 /\ h \in Active'
        BY <1>3, <1>6, <3>1, <3>2, <3>3
      <4> QED
        BY <3>1, <4>1 DEF OwnsUp
    <3>4. CASE h = cursor
      <4>1. total'[p].unreadable > 0
        BY <1>6, <3>1, <3>2, <3>4
      <4>2. ASSUME g # Nowhere PROVE p # Nowhere /\ g \in Above(p)
        <5>1. g \in Opened' /\ g # cursor /\ g \in Above(cursor)
          BY <1>2, <3>1, <3>4, <4>2 DEF Active
        <5>2. ASSUME p = Nowhere PROVE FALSE
          <6>1. cursor = root
            BY <1>2, <5>2
          <6>2. root \in Above(g) /\ g \in Dirs
            BY <1>2, <5>1 DEF Opened
          <6> QED
            BY <1>3, <5>1, <6>1, <6>2, WaysAreChains
        <5> QED
          BY <1>2, <5>1, <5>2
      <4> QED
        BY <1>3, <4>1, <4>2 DEF OwnsUp
    <3> QED
      BY <3>3, <3>4
  <2>3. \A h : OwnFiles(h)' = OwnFiles(h)
    BY DEF OwnFiles, FilesBeneath, Measurable
  <2>4. \A g \in Active' : Top(g)' = Top(g)
    BY <1>1 DEF Top
  <2>5. Counted(K)' = Counted(K)
    BY DEF Counted
  <2> SUFFICES ASSUME ~truncated, NEW g \in Active', NEW f \in OwnFiles(Top(g))
               PROVE  f \in Counted(K) \/ Coming(f)' \/ OwnsUp(g)'
    BY <1>1, <2>3, <2>4, <2>5 DEF NothingIsLost
  <2>6. f \in Counted(K) \/ Coming(f) \/ OwnsUp(g)
    BY <1>3 DEF CountInv, NothingIsLost
  <2> QED
    BY <2>1, <2>2, <2>6
<1> QED
  BY <1>4, <1>7, <1>8, <1>9, <1>10 DEF CountInv

-----------------------------------------------------------------------------
(* A walk that begins has counted nothing, and everything is to come.      *)
LEMMA BegunMeasure ==
  ASSUME NEW r \in Dirs, BeginWalk(r)
  PROVE  MeasureInv'
<1>1. /\ root' = r /\ cursor' = Nowhere /\ r # Nowhere /\ hardlinks' = {}
      /\ todo'[Nowhere] = {r} /\ \A d \in Dirs : todo'[d] = {}
      /\ \A g \in Frames : total'[g] = Nil
      /\ Frames = Dirs \cup {Nowhere}
  BY DEF BeginWalk, NoTodo, NoTotal, Frames
<1>2. Opened' = {} /\ Active' = {Nowhere}
  BY <1>1 DEF Opened, Active
<1>3. PlaceInv'
  <2>1. \A g, h \in Frames : OnePlace(g, h)'
    BY <1>1 DEF OnePlace
  <2> QED
    BY <1>1, <1>2, <2>1 DEF PlaceInv
<1>4. PICK K \in SUBSET (Files \X Dirs) : K = {}
  OBVIOUS
<1>5. PICK V \in SUBSET Dirs : V = {}
  OBVIOUS
<1>6. FilesOnce(K, V)'
  BY <1>1, <1>4 DEF FilesOnce
<1>7. DirsOnce(V)'
  BY <1>1, <1>2, <1>5 DEF DirsOnce
<1>8. TotalsAreCounts(K)'
  <2>1. Held(K, Nowhere)' = {}
    BY <1>4 DEF Held
  <2>2. total'[Nowhere].size = 0
    BY <1>1 DEF Nil
  <2> QED
    BY <1>2, <2>1, <2>2, FS_EmptySet DEF TotalsAreCounts
<1>9. NothingIsLost(K)'
  <2> SUFFICES ASSUME NEW f \in OwnFiles(r) PROVE Coming(f)'
    BY <1>1, <1>2 DEF NothingIsLost, Top, OwnFiles, FilesBeneath, Measurable
  <2>1. PICK e \in Beneath[r] : f \in Links[e]
    BY DEF OwnFiles, FilesBeneath
  <2>2. e \in Dirs /\ r \in Above(e)
    BY BeneathIs DEF Under
  <2>3. Pending(e)'
    BY <1>1, <2>2 DEF Pending
  <2> QED
    BY <2>1, <2>2, <2>3 DEF Coming
<1> QED
  BY <1>3, <1>6, <1>7, <1>8, <1>9 DEF MeasureInv, CountInv

(* The rows that are published, those that will be, and those that are     *)
(* collected by a walk that has not been cut short.                        *)
HonestTable(table) == \A d \in Dirs : table[d] # NoRow => Honest(table[d], d)

HonestInv ==
  /\ MeasureInv
  /\ HonestTable(row) /\ HonestTable(measured)
  /\ ~truncated => HonestTable(folders)

(* An honest row in an honest table, and no row, leave it honest.          *)
LEMMA TablesStayHonest ==
  /\ HonestTable(NoRows)
  /\ \A table \in Tables, d \in Dirs, sub \in Subtotal :
       HonestTable(table) /\ Honest(sub, d) => HonestTable([table EXCEPT ![d] = sub])
<1>1. HonestTable(NoRows)
  BY DEF HonestTable, NoRows
<1>2. ASSUME NEW table \in Tables, NEW d \in Dirs, NEW sub \in Subtotal,
             HonestTable(table), Honest(sub, d)
      PROVE  HonestTable([table EXCEPT ![d] = sub])
  <2>1. \A e \in Dirs : [table EXCEPT ![d] = sub][e] = IF e = d THEN sub ELSE table[e]
    BY DEF Tables
  <2> QED
    BY <1>2, <2>1 DEF HonestTable
<1> QED
  BY <1>1, <1>2

(* The bounds are the tree's.                                              *)
LEMMA TablesKeep ==
  /\ UNCHANGED row => (HonestTable(row) => HonestTable(row)')
  /\ UNCHANGED measured => (HonestTable(measured) => HonestTable(measured)')
  /\ UNCHANGED folders => (HonestTable(folders) => HonestTable(folders)')
BY DEF HonestTable

(* A step within a walk.                                                   *)
LEMMA WalkIsHonest ==
  ASSUME TypeInv, TypeInv', HonestInv,
         \/ \E d \in Dirs : PassBy(d) \/ Descend(d) \/ Refused(d)
         \/ \E f \in Files : CountFile(f)
         \/ Return
  PROVE  HonestInv'
<1>1. root # Nowhere
  <2>1. CASE Return
    BY <2>1 DEF Return, TypeInv, PathInv, IsPath
  <2>2. CASE \E entry : IsNext(entry)
    BY <2>2, NextEntry
  <2> QED
    BY <2>1, <2>2 DEF PassBy, Descend, Refused, Probes, CountFile
<1>2. PlaceInv
  BY <1>1 DEF HonestInv, MeasureInv
<1>3. PICK K \in SUBSET (Files \X Dirs), V \in SUBSET Dirs : CountInv(K, V)
  BY <1>1 DEF HonestInv, MeasureInv
<1>4. MeasureInv'
  <2>1. ASSUME NEW d \in Dirs, PassBy(d) \/ Refused(d) PROVE MeasureInv'
    BY <1>2, <1>3, <2>1, PassedBy DEF MeasureInv
  <2>2. ASSUME NEW d \in Dirs, Descend(d) PROVE MeasureInv'
    <3>1. PlaceInv' /\ CountInv(K, V \cup {d})'
      BY <1>2, <1>3, <2>2, DirOpened
    <3>2. V \cup {d} \in SUBSET Dirs
      OBVIOUS
    <3> QED
      BY <3>1, <3>2 DEF MeasureInv
  <2>3. ASSUME NEW f \in Files, CountFile(f) PROVE MeasureInv'
    BY <1>2, <1>3, <2>3, FileRead DEF MeasureInv
  <2>4. CASE Return
    BY <1>2, <1>3, <2>4, VisitReturns DEF MeasureInv
  <2> QED
    BY <2>1, <2>2, <2>3, <2>4
<1>5. UNCHANGED <<row, measured>>
  BY DEF PassBy, Descend, Refused, CountFile, Return, request
<1>6. ~truncated' => HonestTable(folders')
  <2>1. CASE Return
    <3>1. /\ cursor # Nowhere /\ todo[cursor] = {} /\ UNCHANGED truncated
          /\ folders' = IF cursor # root /\ total[cursor].size >= MinSize
                        THEN [folders EXCEPT ![cursor] = total[cursor]] ELSE folders
      BY <2>1 DEF Return
    <3>2. cursor \in Dirs /\ total[cursor] \in Subtotal /\ folders \in Tables /\ Top(cursor) = cursor
      BY <3>1 DEF TypeInv, TypeOK, Frames, Tables, Top
    <3>3. ~truncated => Honest(total[cursor], cursor)
      BY <1>2, <1>3, <3>1, <3>2, FrameIsHonest
    <3> QED
      BY <3>1, <3>2, <3>3, TablesStayHonest DEF HonestInv
  <2>2. CASE UNCHANGED folders /\ (~truncated' => ~truncated)
    BY <2>2 DEF HonestInv
  <2> QED
    BY <2>1, <2>2 DEF PassBy, Descend, Refused, CountFile
<1> QED
  BY <1>4, <1>5, <1>6 DEF HonestInv, HonestTable

(* What a walk that is done has measured is honest about its root.         *)
LEMMA DoneIsHonest ==
  ASSUME TypeInv, HonestInv, WalkDone, ~truncated
  PROVE  Honest(total[Nowhere], root) /\ root \in Dirs /\ total[Nowhere] \in Subtotal
<1>1. root # Nowhere /\ cursor = Nowhere /\ todo[cursor] = {} /\ Top(cursor) = root
  BY DEF WalkDone, Top
<1>2. PlaceInv
  BY <1>1 DEF HonestInv, MeasureInv
<1>3. PICK K \in SUBSET (Files \X Dirs), V \in SUBSET Dirs : CountInv(K, V)
  BY <1>1 DEF HonestInv, MeasureInv
<1>4. Honest(total[cursor], Top(cursor))
  BY <1>1, <1>2, <1>3, FrameIsHonest
<1>5. root \in Dirs /\ total[Nowhere] \in Subtotal
  BY <1>2 DEF PlaceInv, TypeInv, TypeOK, Frames
<1> QED
  BY <1>1, <1>4, <1>5

(* A walk that is forgotten has nothing to be honest about.                *)
LEMMA ForgottenIsHonest == ForgetWalk => MeasureInv' /\ HonestTable(folders')
BY TablesStayHonest DEF ForgetWalk, MeasureInv

(* Every step keeps the numbers honest.                                    *)
LEMMA HonestStep == TypeInv /\ HonestInv /\ [Next]_vars => HonestInv'
<1> SUFFICES ASSUME TypeInv, HonestInv, [Next]_vars PROVE HonestInv'
  OBVIOUS
<1>0. /\ TypeInv' /\ HonestTable(row) /\ HonestTable(measured)
      /\ ~truncated => HonestTable(folders)
      /\ row \in Tables /\ measured \in Tables /\ folders \in Tables
  BY TypeStep DEF HonestInv, TypeInv, TypeOK, Tables
<1>1. ASSUME NEW r \in Dirs, BeginWalk(r), UNCHANGED <<row, measured>> PROVE HonestInv'
  <2>1. HonestTable(folders')
    BY <1>1, TablesStayHonest DEF BeginWalk
  <2> QED
    BY <1>0, <1>1, <2>1, BegunMeasure DEF HonestInv, HonestTable
<1>2. ASSUME UNCHANGED walk, HonestTable(row'), HonestTable(measured') PROVE HonestInv'
  <2>1. UNCHANGED <<root, cursor, todo, total, folders, hardlinks, truncated>>
    BY <1>2 DEF walk
  <2>2. UNCHANGED <<Opened, Active>>
    BY <2>1 DEF Opened, Active
  <2>3. PlaceInv => PlaceInv'
    <3>1. \A g, h : OnePlace(g, h)' <=> OnePlace(g, h)
      BY <2>1 DEF OnePlace
    <3> QED
      BY <2>1, <2>2, <3>1 DEF PlaceInv
  <2>4. ASSUME NEW K, NEW V, CountInv(K, V) PROVE CountInv(K, V)'
    <3>1. FilesOnce(K, V)'
      BY <2>1, <2>4 DEF CountInv, FilesOnce
    <3>2. \A e : Pending(e)' <=> Pending(e)
      BY <2>1 DEF Pending
    <3>3. DirsOnce(V)'
      BY <2>1, <2>2, <2>4, <3>2 DEF CountInv, DirsOnce
    <3>4. \A h : Held(K, h)' = Held(K, h)
      BY <2>2 DEF Held, CountedIn
    <3>5. TotalsAreCounts(K)'
      BY <2>1, <2>2, <2>4, <3>4 DEF CountInv, TotalsAreCounts
    <3>6. NothingIsLost(K)'
      <4>1. /\ \A g : (OwnsUp(g)' <=> OwnsUp(g)) /\ Top(g)' = Top(g)
            /\ \A f : Coming(f)' <=> Coming(f)
            /\ \A h : OwnFiles(h)' = OwnFiles(h)
            /\ Counted(K)' = Counted(K)
        BY <2>1, <2>2, <3>2 DEF OwnsUp, Top, Coming, OwnFiles, FilesBeneath, Measurable, Counted
      <4> QED
        BY <2>1, <2>2, <2>4, <4>1 DEF CountInv, NothingIsLost
    <3> QED
      BY <3>1, <3>3, <3>5, <3>6 DEF CountInv
  <2>5. MeasureInv'
    BY <2>1, <2>3, <2>4 DEF MeasureInv, HonestInv
  <2>6. ~truncated' => HonestTable(folders')
    BY <1>0, <2>1
  <2> QED
    BY <1>2, <2>5, <2>6 DEF HonestInv, HonestTable
<1>3. CASE StartFull
  BY <1>1, <1>3 DEF StartFull
<1>4. ASSUME NEW p \in Dirs, NEW q \in Dirs, StartVerify(p, q) PROVE HonestInv'
  BY <1>0, <1>2, <1>4 DEF StartVerify
<1>5. CASE Deadline
  BY <1>0, <1>2, <1>5 DEF Deadline
<1>6. CASE NextPath
  <2>1. Head(queue) \in Dirs
    BY <1>6 DEF NextPath, TypeInv, TypeOK
  <2> QED
    BY <1>1, <1>6, <2>1 DEF NextPath
<1>7. CASE \/ \E d \in Dirs : PassBy(d) \/ Descend(d) \/ Refused(d)
           \/ \E f \in Files : CountFile(f)
           \/ Return
  BY <1>0, <1>7, WalkIsHonest
<1>8. CASE FinishFull
  <2>1. HonestTable(row')
    BY <1>0, <1>8, DoneIsHonest, TablesStayHonest DEF FinishFull
  <2>2. HonestTable(measured') /\ MeasureInv' /\ HonestTable(folders')
    BY <1>8, ForgottenIsHonest, TablesStayHonest DEF FinishFull, ForgetRequest
  <2> QED
    BY <2>1, <2>2 DEF HonestInv, HonestTable
<1>9. CASE FinishPath
  <2>1. HonestTable(measured')
    BY <1>0, <1>9, DoneIsHonest, TablesStayHonest DEF FinishPath
  <2>2. UNCHANGED row /\ MeasureInv' /\ HonestTable(folders')
    BY <1>9, ForgottenIsHonest DEF FinishPath, process
  <2> QED
    BY <1>0, <2>1, <2>2 DEF HonestInv, HonestTable
<1>10. CASE FinishVerify
  <2>1. HonestTable(row')
    BY <1>0, <1>10 DEF FinishVerify, HonestTable
  <2>2. HonestTable(measured')
    BY <1>10, TablesStayHonest DEF FinishVerify, ForgetRequest
  <2> QED
    BY <1>2, <1>10, <2>1, <2>2 DEF FinishVerify
<1>11. CASE Restart
  <2>1. HonestTable(measured') /\ MeasureInv' /\ HonestTable(folders') /\ UNCHANGED row
    BY <1>11, ForgottenIsHonest, TablesStayHonest DEF Restart, ForgetRequest
  <2> QED
    BY <1>0, <2>1 DEF HonestInv, HonestTable
<1>12. CASE UNCHANGED vars
  <2>1. UNCHANGED <<row, measured>> /\ UNCHANGED walk
    BY <1>12 DEF vars, request
  <2> QED
    BY <1>0, <1>2, <2>1
<1> QED
  BY <1>3, <1>4, <1>5, <1>6, <1>7, <1>8, <1>9, <1>10, <1>11, <1>12 DEF Next, WalkStep

(* At first there are no numbers.                                          *)
LEMMA HonestInit == Init => HonestInv
BY TablesStayHonest DEF Init, HonestInv, MeasureInv

(* A published number counts no file twice, and if it misses a file that a *)
(* walk cannot but count it says that something was unreadable: through    *)
(* any number of refusals, collapses, deadlines, quarantines, verifies and *)
(* restarts, on any tree (folder_sizes.rs:196-200, 351-352, 504).          *)
THEOREM NumbersAreHonest == Spec => []RowsAreHonest
<1>1. HonestInv => RowsAreHonest
  BY DEF HonestInv, HonestTable, Honest, RowsAreHonest
<1> QED
  BY <1>1, TypeInit, TypeStep, HonestInit, HonestStep, PTL DEF Spec

-----------------------------------------------------------------------------
(* The claim under which a scan runs, at the grain of its atomics: for any *)
(* number of threads, threshold and bound it is well typed, always has its *)
(* guard, and is a lock until it is handed over for the first time.        *)
USE ScanClaimAssumption DEF Section

(* Every step of the specification, by the thread that takes it.           *)
ClaimSteps(t) ==
  \/ Begin(t) \/ LoadHolder(t) \/ CheckAge(t) \/ Swap(t) \/ Stamp(t)
  \/ Heartbeat(t) \/ EndWalk(t) \/ Panics(t) \/ DropGuard(t)
  \/ Hang(t) \/ Wake(t)

LEMMA ClaimNextIsSteps == ClaimNext <=> (\E t \in Scans : ClaimSteps(t)) \/ Tick
  BY DEF ClaimNext, ClaimSteps, Runs

-----------------------------------------------------------------------------
(* Each step keeps the variables in their types (folder_scan.rs:55-65).    *)
LEMMA ClaimTypeStep == ClaimTypeOK /\ [ClaimNext]_claimVars => ClaimTypeOK'
<1> SUFFICES ASSUME ClaimTypeOK, [ClaimNext]_claimVars PROVE ClaimTypeOK'
  OBVIOUS
<1> USE DEF ClaimTypeOK, atomics, stops, history, Goto, Leave, Generation
<1>1. ASSUME NEW t \in Scans, Begin(t) PROVE ClaimTypeOK'
  BY <1>1 DEF Begin
<1>2. ASSUME NEW t \in Scans, LoadHolder(t) PROVE ClaimTypeOK'
  BY <1>2 DEF LoadHolder
<1>3. ASSUME NEW t \in Scans, CheckAge(t) PROVE ClaimTypeOK'
  BY <1>3 DEF CheckAge
<1>4. ASSUME NEW t \in Scans, Swap(t) PROVE ClaimTypeOK'
  <2>1. reassigned' \in BOOLEAN
    BY <1>4 DEF Swap
  <2>2. holder' \in Nat /\ owner' \in Scans \cup {NoScan}
    BY <1>4 DEF Swap
  <2>3. pc' \in [Scans -> {"idle", "load", "age", "cas"} \cup Section]
    BY <1>4 DEF Swap
  <2>4. UNCHANGED <<claimedAt, clock, seen, now, hung, timerGone>>
    BY <1>4 DEF Swap
  <2>5. QED
    BY <2>1, <2>2, <2>3, <2>4
<1>5. ASSUME NEW t \in Scans, Stamp(t) PROVE ClaimTypeOK'
  BY <1>5 DEF Stamp
<1>6. ASSUME NEW t \in Scans, Heartbeat(t) PROVE ClaimTypeOK'
  BY <1>6 DEF Heartbeat
<1>7. ASSUME NEW t \in Scans, EndWalk(t) PROVE ClaimTypeOK'
  BY <1>7 DEF EndWalk
<1>8. ASSUME NEW t \in Scans, Panics(t) PROVE ClaimTypeOK'
  <2>1. timerGone' \in BOOLEAN
    BY <1>8 DEF Panics
  <2>2. QED
    BY <1>8, <2>1 DEF Panics
<1>9. ASSUME NEW t \in Scans, DropGuard(t) PROVE ClaimTypeOK'
  BY <1>9 DEF DropGuard
<1>10. ASSUME NEW t \in Scans, Hang(t) \/ Wake(t) PROVE ClaimTypeOK'
  BY <1>10 DEF Hang, Wake
<1>11. CASE Tick
  BY <1>11 DEF Tick
<1>12. CASE UNCHANGED claimVars
  BY <1>12 DEF claimVars
<1>13. QED
  BY <1>1, <1>2, <1>3, <1>4, <1>5, <1>6, <1>7, <1>8, <1>9, <1>10, <1>11, <1>12,
     ClaimNextIsSteps DEF ClaimSteps

LEMMA ClaimTypeInit == ClaimInit => ClaimTypeOK
<1> SUFFICES ASSUME ClaimInit PROVE ClaimTypeOK
  OBVIOUS
<1> USE DEF ClaimInit
<1>1. holder \in Nat /\ claimedAt \in 0..MaxClock
  OBVIOUS
<1>2. clock \in 0..MaxClock
  OBVIOUS
<1>3. pc \in [Scans -> {"idle", "load", "age", "cas"} \cup Section]
  OBVIOUS
<1>4. seen \in [Scans -> Nat] /\ now \in [Scans -> 0..MaxClock]
  OBVIOUS
<1>5. hung \subseteq Scans /\ timerGone \in BOOLEAN /\ owner \in Scans \cup {NoScan} /\ reassigned \in BOOLEAN
  OBVIOUS
<1>6. QED
  BY <1>1, <1>2, <1>3, <1>4, <1>5 DEF ClaimTypeOK

(* The coordinator's state is well typed (folder_scan.rs:55-65).           *)
THEOREM ClaimTypes == ClaimSpec => []ClaimTypeOK
  BY ClaimTypeInit, ClaimTypeStep, PTL DEF ClaimSpec

-----------------------------------------------------------------------------
(* The three facts that hold each other up: types, that a held claim has a *)
(* guard, and that before the first handover the guard is the only one.    *)
ClaimInv == ClaimTypeOK /\ ClaimHasItsGuard /\ ExclusiveUntilReassigned

LEMMA ClaimInvInit == ClaimInit => ClaimInv
  BY ClaimTypeInit DEF ClaimInit, ClaimInv, ClaimTypeOK, ClaimHasItsGuard,
     ExclusiveUntilReassigned, Inside, Guarded

(* A step that leaves the holder, the winner, and everybody's guard alone  *)
(* keeps the invariant: it speaks of nothing else.                         *)
LEMMA QuietStep ==
  ASSUME ClaimInv, UNCHANGED <<holder, owner, reassigned>>,
         Inside' = Inside, \A t \in Inside : seen'[t] = seen[t]
  PROVE  ClaimHasItsGuard' /\ ExclusiveUntilReassigned'
<1>1. ClaimHasItsGuard'
  BY DEF ClaimInv, ClaimHasItsGuard, Inside, Guarded, Generation
<1>2. ExclusiveUntilReassigned'
  BY DEF ClaimInv, ExclusiveUntilReassigned, Inside, Guarded, Generation
<1>3. QED
  BY <1>1, <1>2

(* Every step but a winning Swap and a Drop is quiet.                      *)
LEMMA OtherStepsAreQuiet ==
  ASSUME ClaimTypeOK, NEW t \in Scans,
         \/ Begin(t) \/ LoadHolder(t) \/ CheckAge(t) \/ Stamp(t)
         \/ Heartbeat(t) \/ EndWalk(t) \/ Panics(t) \/ Hang(t) \/ Wake(t)
         \/ Swap(t) /\ holder # seen[t]
  PROVE  /\ UNCHANGED <<holder, owner, reassigned>>
         /\ Inside' = Inside
         /\ \A u \in Inside : seen'[u] = seen[u]
<1> USE DEF ClaimTypeOK, Inside, Guarded, atomics, history, Goto, Leave
<1>1. CASE Begin(t) \/ LoadHolder(t) \/ CheckAge(t)
  BY <1>1 DEF Begin, LoadHolder, CheckAge
<1>2. CASE Stamp(t) \/ Heartbeat(t) \/ EndWalk(t) \/ Panics(t)
  BY <1>2 DEF Stamp, Heartbeat, EndWalk, Panics
<1>3. CASE Hang(t) \/ Wake(t)
  BY <1>3 DEF Hang, Wake
<1>4. CASE Swap(t) /\ holder # seen[t]
  BY <1>4 DEF Swap
<1>5. QED
  BY <1>1, <1>2, <1>3, <1>4

(* Before the first handover a free claim means that nobody is inside.     *)
LEMMA FreeMeansEmpty ==
  ASSUME ClaimInv, ~reassigned, holder = 0
  PROVE  Inside = {}
  BY DEF ClaimInv, ClaimTypeOK, ExclusiveUntilReassigned, Inside, Generation

(* A winning Swap makes its thread the owner, and the only one inside when *)
(* the claim was free and had never been handed over.                      *)
LEMMA WinningSwap ==
  ASSUME ClaimInv, NEW t \in Scans, Swap(t), holder = seen[t]
  PROVE  ClaimHasItsGuard' /\ ExclusiveUntilReassigned'
<1> USE DEF ClaimInv, ClaimTypeOK, Swap, Goto
<1>1. ClaimHasItsGuard'
  BY DEF ClaimHasItsGuard, Guarded, Generation
<1>2. ASSUME ~reassigned' PROVE Inside' = {t}
  <2>1. ~reassigned /\ holder = 0
    BY <1>2
  <2>2. Inside = {}
    BY <2>1, FreeMeansEmpty
  <2>3. QED
    BY <2>2 DEF Inside, Guarded
<1>3. ExclusiveUntilReassigned'
  BY <1>2 DEF ExclusiveUntilReassigned, Generation
<1>4. QED
  BY <1>1, <1>3

(* A Drop takes its own thread's guard and no one else's; if the claim is  *)
(* still its own, the claim goes too.                                      *)
LEMMA DropStep ==
  ASSUME ClaimInv, NEW t \in Scans, DropGuard(t)
  PROVE  ClaimHasItsGuard' /\ ExclusiveUntilReassigned'
<1> USE DEF ClaimInv, ClaimTypeOK, DropGuard, Leave, Goto, history
<1>1. ClaimHasItsGuard'
  BY DEF ClaimHasItsGuard, Guarded, Generation
<1>2. Inside' = Inside \ {t} /\ t \in Inside
  BY DEF Inside, Guarded
<1>3. ExclusiveUntilReassigned'
  <2>1. ASSUME ~reassigned' PROVE Inside' = {}
    BY <1>2, <2>1 DEF ExclusiveUntilReassigned
  <2>2. QED
    BY <2>1 DEF ExclusiveUntilReassigned
<1>4. QED
  BY <1>1, <1>3

LEMMA ClaimStep == ClaimInv /\ [ClaimNext]_claimVars => ClaimInv'
<1> SUFFICES ASSUME ClaimInv, [ClaimNext]_claimVars PROVE ClaimInv'
  OBVIOUS
<1>1. ClaimTypeOK /\ ClaimTypeOK'
  BY ClaimTypeStep DEF ClaimInv
<1>2. ASSUME NEW t \in Scans, ClaimSteps(t)
      PROVE  ClaimHasItsGuard' /\ ExclusiveUntilReassigned'
  <2>1. CASE Swap(t) /\ holder = seen[t]
    BY <2>1, WinningSwap
  <2>2. CASE DropGuard(t)
    BY <2>2, DropStep
  <2>3. CASE ~DropGuard(t) /\ ~(Swap(t) /\ holder = seen[t])
    BY <1>1, <1>2, <2>3, OtherStepsAreQuiet, QuietStep DEF ClaimSteps
  <2>4. QED
    BY <2>1, <2>2, <2>3
<1>3. ASSUME Tick \/ UNCHANGED claimVars
      PROVE  ClaimHasItsGuard' /\ ExclusiveUntilReassigned'
  BY <1>3, QuietStep
     DEF Tick, claimVars, atomics, history, Inside, Guarded
<1>4. QED
  BY <1>1, <1>2, <1>3, ClaimNextIsSteps DEF ClaimInv

LEMMA ClaimInvariant == ClaimSpec => []ClaimInv
  BY ClaimInvInit, ClaimStep, PTL DEF ClaimSpec

(* No sequence of claims, reassignments and late Drops leaves a claim that *)
(* no thread will release (folder_scan.rs:110-122).                        *)
THEOREM ClaimAlwaysHasItsGuard == ClaimSpec => []ClaimHasItsGuard
<1>1. ClaimInv => ClaimHasItsGuard
  BY DEF ClaimInv
<1>2. QED
  BY <1>1, ClaimInvariant, PTL

(* Scans do not overlap before the first handover (folder_scan.rs:3-5).    *)
THEOREM ExclusiveScans == ClaimSpec => []ExclusiveUntilReassigned
<1>1. ClaimInv => ExclusiveUntilReassigned
  BY DEF ClaimInv
<1>2. QED
  BY <1>1, ClaimInvariant, PTL

-----------------------------------------------------------------------------
(* Until the first handover each step of the atomics is a step of ScanLock *)
(* or leaves it alone: a winning Swap acquires, a Drop releases.           *)
LEMMA LockStep ==
  ASSUME ClaimInv, [ClaimNext]_claimVars, ~reassigned'
  PROVE  [Lock!Next]_(Lock!lockVars)
<1> DEFINE holds == IF holder = 0 THEN NoScan ELSE owner
<1>1. ASSUME NEW t \in Scans, Swap(t), holder = seen[t]
      PROVE  Lock!Acquire(t)
  <2>1. ~reassigned /\ holder = 0
    BY <1>1 DEF Swap, ClaimInv, ClaimTypeOK
  <2>2. Inside = {}
    BY <2>1, FreeMeansEmpty
  <2>3. Inside' = {t}
    BY <1>1, <2>2 DEF Swap, Goto, Inside, Guarded, ClaimInv, ClaimTypeOK
  <2>4. holder' # 0 /\ owner' = t
    BY <1>1, <2>1 DEF Swap, Generation
  <2>5. QED
    BY <2>1, <2>2, <2>3, <2>4 DEF Lock!Acquire
<1>2. ASSUME NEW t \in Scans, DropGuard(t)
      PROVE  Lock!Release(t)
  <2>1. ~reassigned /\ t \in Inside
    BY <1>2 DEF DropGuard, history, Inside, Guarded
  <2>2. Inside = {t} /\ holder = Generation(t) /\ holder # 0
    BY <2>1 DEF ClaimInv, ClaimTypeOK, ExclusiveUntilReassigned, Inside, Generation
  <2>3. owner = t
    BY <2>2 DEF ClaimInv, ClaimHasItsGuard, Inside
  <2>4. holder' = 0
    BY <1>2, <2>2 DEF DropGuard
  <2>5. Inside' = Inside \ {t}
    BY <1>2 DEF DropGuard, Leave, Goto, Inside, Guarded, ClaimInv, ClaimTypeOK
  <2>6. QED
    BY <2>2, <2>3, <2>4, <2>5 DEF Lock!Release
<1>3. ASSUME NEW t \in Scans, ClaimSteps(t), ~DropGuard(t), ~(Swap(t) /\ holder = seen[t])
      PROVE  UNCHANGED Lock!lockVars
  BY <1>3, OtherStepsAreQuiet DEF ClaimSteps, ClaimInv, Lock!lockVars
<1>4. ASSUME Tick \/ UNCHANGED claimVars
      PROVE  UNCHANGED Lock!lockVars
  BY <1>4 DEF Tick, claimVars, atomics, history, Inside, Guarded, Lock!lockVars
<1>5. QED
  BY <1>1, <1>2, <1>3, <1>4, ClaimNextIsSteps DEF Lock!Next

(* The coordinator implements ScanLock up to its first handover            *)
(* (folder_scan.rs:11-13).                                                 *)
THEOREM ImplementsLock == ClaimSpec => IsLockUntilReassigned
<1>1. ClaimInit => Lock!Init
  BY DEF ClaimInit, Lock!Init, Inside, Guarded
<1>2. ClaimInv /\ [ClaimNext]_claimVars => (~reassigned' => [Lock!Next]_(Lock!lockVars))
  BY LockStep
<1>3. QED
  BY <1>1, <1>2, ClaimInvariant, PTL DEF ClaimSpec, IsLockUntilReassigned
=============================================================================
