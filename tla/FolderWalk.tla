----------------------------- MODULE FolderWalk -----------------------------
(***************************************************************************)
(* The walk that measures folders (collector/folder_sizes.rs) and what the *)
(* full scan and the drawer's verify make of its results (folder_scan.rs): *)
(* which directories are opened, which are given up on and remembered, and *)
(* which numbers are published.  Scans follow each other here; that they   *)
(* do is the business of ScanClaim and FolderService.                      *)
(*                                                                         *)
(* The tree does not change; what opendir answers may, from one call to    *)
(* the next (a dialog is answered, a permission given, a mount goes away). *)
(* Every file is one unit of size, so sizes are file counts.               *)
(* The recursion of visit is a cursor: a directory's frame is its entries  *)
(* that are still to be read and its subtotal.                             *)
(***************************************************************************)
EXTENDS Integers, Sequences, FiniteSets

CONSTANTS
  Dirs, Files,  (* what is on the disk                                      *)
  Root,         (* scan_root                                                *)
  Nowhere,      (* the caller of the outermost visit                        *)
  Parent,       (* the directory above each directory but Root              *)
  Links,        (* the files linked from each directory                     *)
  CloudAreas,   (* the directories is_cloud_provider_area names             *)
  MaxDepth, MinSize, BlockedSiblings,
                (* MAX_DEPTH, MIN_SIZE_BYTES,                               *)
                (* BLOCKED_SIBLINGS_BEFORE_COLLAPSE                         *)
  MaxScans,     (* bound: scans                                             *)
  MaxEvents     (* bound: restarts, files that cannot be stat'ed            *)

ASSUME FolderWalkAssumption ==
  /\ IsFiniteSet(Dirs) /\ IsFiniteSet(Files) /\ Dirs \cap Files = {}
  /\ Root \in Dirs /\ Nowhere \notin Dirs
  /\ Parent \in [Dirs \ {Root} -> Dirs]
  /\ Links \in [Dirs -> SUBSET Files]
  /\ CloudAreas \subseteq Dirs \ {Root}
  /\ MaxDepth \in Nat \ {0} /\ MinSize \in Nat /\ BlockedSiblings \in Nat \ {0}
  /\ MaxScans \in Nat /\ MaxEvents \in Nat

(* A file system is a tree: every directory is beneath Root.               *)
ASSUME TreeAssumption ==
  \A S \in SUBSET Dirs :
    Root \in S /\ (\A d \in Dirs \ {Root} : Parent[d] \in S => d \in S) => S = Dirs

VARIABLES
  quarantined,  (* ScanCoordinator.quarantined                              *)
  row,          (* table folder_sizes                                       *)
  scan,         (* what is running: nothing, a full scan, a verify          *)
  queue,        (* verify: the paths that are still to be measured          *)
  learned,      (* verify: what its walks found closed so far               *)
  measured,     (* verify: the rows it will store                           *)
  late,         (* verify: the deadline has passed                          *)
  root,         (* Walk.root, Nowhere between two walks of a verify         *)
  cursor,       (* the directory whose entries are being read               *)
  todo, total,  (* its frame and those below it on the stack                *)
  folders,      (* Walk.folders                                             *)
  blocked,      (* Walk.blocked                                             *)
  refusals,     (* Walk.blocked_children                                    *)
  hardlinks,    (* Walk.seen_hardlinks                                      *)
  truncated,    (* Walk.truncated                                           *)
  lost,         (* threads blocked in opendir, by directory                 *)
  failed,       (* history: directories that did not open in this process   *)
  scans, events (* counters for the bounds                                  *)

walk == <<root, cursor, todo, total, folders, blocked, refusals, hardlinks, truncated>>
request == <<scan, queue, learned, measured, late>>
process == <<quarantined, lost, failed>>
vars == <<process, row, request, walk, scans, events>>

Frames == Dirs \cup {Nowhere}
Nil == [size |-> 0, unreadable |-> 0]
NoRow == [size |-> -1, unreadable |-> 0]
Subtotal == [size : Nat, unreadable : Nat]

Children(d) == {c \in Dirs \ {Root} : Parent[c] = d}
Level[d \in Dirs] == IF d = Root THEN 0 ELSE Level[Parent[d]] + 1
Beneath[d \in Dirs] == {d} \cup UNION {Beneath[c] : c \in Children(d)}

TypeOK ==
  /\ quarantined \subseteq Dirs /\ failed \subseteq Dirs
  /\ lost \in [Dirs -> Nat]
  /\ \A table \in {row, measured, folders} :
       table \in [Dirs -> Subtotal \cup {NoRow}]
  /\ scan \in {"none", "full", "verify"} /\ late \in BOOLEAN
  /\ queue \in Seq(Dirs) /\ learned \subseteq Dirs
  /\ root \in Frames /\ cursor \in Frames
  /\ todo \in [Frames -> SUBSET (Dirs \cup Files)]
  /\ total \in [Frames -> Subtotal]
  /\ blocked \subseteq Dirs /\ refusals \in [Dirs -> Nat]
  /\ hardlinks \subseteq Files /\ truncated \in BOOLEAN
  /\ scans \in 0..MaxScans /\ events \in 0..MaxEvents

NoRows == [d \in Dirs |-> NoRow]
NoTodo == [d \in Frames |-> {}]
NoTotal == [d \in Frames |-> Nil]
NoRefusals == [d \in Dirs |-> 0]

Init ==
  /\ quarantined = {} /\ failed = {} /\ lost = [d \in Dirs |-> 0]
  /\ row = NoRows
  /\ scan = "none" /\ queue = <<>> /\ learned = {} /\ measured = NoRows
  /\ late = FALSE
  /\ root = Nowhere /\ cursor = Nowhere
  /\ todo = NoTodo /\ total = NoTotal /\ folders = NoRows
  /\ blocked = {} /\ refusals = NoRefusals
  /\ hardlinks = {} /\ truncated = FALSE
  /\ scans = 0 /\ events = 0

-----------------------------------------------------------------------------
(* scan_guarded sets up a walk of r, whose outermost visit is of r itself. *)
BeginWalk(r) ==
  /\ root' = r /\ cursor' = Nowhere
  /\ todo' = [NoTodo EXCEPT ![Nowhere] = {r}]
  /\ total' = NoTotal /\ folders' = NoRows
  /\ blocked' = {} /\ refusals' = NoRefusals
  /\ hardlinks' = {} /\ truncated' = FALSE

(* ... and what is left of it is dropped when it has been used.            *)
ForgetWalk ==
  /\ root' = Nowhere /\ cursor' = Nowhere
  /\ todo' = NoTodo /\ total' = NoTotal /\ folders' = NoRows
  /\ blocked' = {} /\ refusals' = NoRefusals
  /\ hardlinks' = {} /\ truncated' = FALSE

ForgetRequest ==
  /\ scan' = "none" /\ queue' = <<>>
  /\ learned' = {} /\ measured' = NoRows /\ late' = FALSE

StartFull ==
  /\ scan = "none"
  /\ scans < MaxScans /\ scans' = scans + 1
  /\ scan' = "full"
  /\ BeginWalk(Root)
  /\ UNCHANGED <<process, row, queue, learned, measured, late, events>>

(* The drawer asks to verify rows it shows; run_verify orders the paths by *)
(* the file count recorded for each.                                       *)
Shown(p) == row[p] # NoRow

StartVerify(p, q) ==
  /\ scan = "none" /\ Shown(p) /\ Shown(q)
  /\ scans < MaxScans /\ scans' = scans + 1
  /\ scan' = "verify"
  /\ \/ p = q /\ queue' = <<p>>
     \/ p # q /\ row[p].size <= row[q].size /\ queue' = <<p, q>>
  /\ UNCHANGED <<process, row, learned, measured, late, walk, events>>

(* The budget of the verify runs out, at any moment.                       *)
Deadline ==
  /\ scan = "verify" /\ ~late
  /\ late' = TRUE
  /\ UNCHANGED <<process, row, scan, queue, learned, measured, walk, scans, events>>

NextPath ==
  /\ scan = "verify" /\ root = Nowhere
  /\ queue # <<>> /\ ~late
  /\ queue' = Tail(queue)
  /\ BeginWalk(Head(queue))
  /\ UNCHANGED <<process, row, scan, learned, measured, late, scans, events>>

-----------------------------------------------------------------------------
(* The frame below d's.                                                    *)
Below(d) == IF d = root THEN Nowhere ELSE Parent[d]

(* Subtotal::absorb, into the frame of f.                                  *)
Absorb(f, sub) ==
  total' = [total EXCEPT ![f].size = @ + sub.size,
                         ![f].unreadable = @ + sub.unreadable]

IsNext(entry) == entry \in todo[cursor]
Drop(entry) == [todo EXCEPT ![cursor] = @ \ {entry}]

TooDeep(d) == Level[d] - Level[root] >= MaxDepth

(* What earlier walks learned.                                             *)
Skip == quarantined \cup learned

(* Mutant: without the test of the parent.                                  *)
ClosedWithoutParent(d) == d \in CloudAreas \cup Skip \cup blocked

(* What visit tests before it opens anything: the areas of the cloud       *)
(* providers, what earlier walks learned, what this one has learned.       *)
Closed(d) ==
  \/ d \in CloudAreas \cup Skip \cup blocked
  \/ d # Root /\ Parent[d] \in blocked

(* visit returns without opening: too deep, out of time, or closed.  Only  *)
(* the last one shows in the subtotal.                                     *)
PassBy(d) ==
  /\ IsNext(d)
  /\ todo' = Drop(d)
  /\ \/ /\ TooDeep(d)
        /\ UNCHANGED <<total, truncated>>
     \/ /\ ~TooDeep(d) /\ late
        /\ truncated' = TRUE
        /\ UNCHANGED total
     \/ /\ ~TooDeep(d) /\ ~late /\ Closed(d)
        /\ Absorb(cursor, [size |-> 0, unreadable |-> 1])
        /\ UNCHANGED truncated
  /\ UNCHANGED <<process, row, request, root, cursor, folders, blocked,
                 refusals, hardlinks, scans, events>>

Probes(d) == IsNext(d) /\ ~TooDeep(d) /\ ~late /\ ~Closed(d)

(* The directory opens: its entries are read next, in any order.           *)
Descend(d) ==
  /\ Probes(d)
  /\ todo' = [Drop(d) EXCEPT ![d] = Children(d) \cup Links[d]]
  /\ cursor' = d
  /\ UNCHANGED <<process, row, request, root, total, folders, blocked,
                 refusals, hardlinks, truncated, scans, events>>

(* Mutant: the parent is collapsed at once, the one above the root as well. *)
RecordBlockedCollapses(d) ==
  /\ blocked' = blocked \cup {d, Below(d)}
  /\ UNCHANGED refusals

(* Mutant: one refusal too few for the collapse.                            *)
RecordBlockedEarly(d) ==
  LET counted == d # Root /\ Parent[d] # root IN
  /\ refusals' = IF counted THEN [refusals EXCEPT ![Parent[d]] = @ + 1] ELSE refusals
  /\ blocked' = blocked \cup {d} \cup
       IF counted /\ refusals[Parent[d]] + 2 = BlockedSiblings THEN {Parent[d]} ELSE {}

(* record_blocked: the directory, and its parent after enough refusals; a  *)
(* child of the walk's root does not count, and a directory above the root *)
(* of this tree is not in it.                                              *)
RecordBlocked(d) ==
  LET counted == d # Root /\ Parent[d] # root IN
  /\ refusals' = IF counted THEN [refusals EXCEPT ![Parent[d]] = @ + 1] ELSE refusals
  /\ blocked' = blocked \cup {d} \cup
       IF counted /\ refusals[Parent[d]] + 1 = BlockedSiblings THEN {Parent[d]} ELSE {}

(* Mutant: the subtotal of a closed directory does not own up to it.        *)
RefusedSilently(d) ==
  /\ Probes(d)
  /\ todo' = Drop(d)
  /\ RecordBlocked(d)
  /\ lost' \in {lost, [lost EXCEPT ![d] = @ + 1]}
  /\ failed' = failed \cup {d}
  /\ UNCHANGED <<quarantined, row, request, root, cursor, total, folders,
                 hardlinks, truncated, scans, events>>

(* The open fails, or does not answer within OPEN_TIMEOUT and costs the    *)
(* helper thread.                                                          *)
Refused(d) ==
  /\ Probes(d)
  /\ todo' = Drop(d)
  /\ RecordBlocked(d)
  /\ lost' \in {lost, [lost EXCEPT ![d] = @ + 1]}
  /\ failed' = failed \cup {d}
  /\ Absorb(cursor, [size |-> 0, unreadable |-> 1])
  /\ UNCHANGED <<quarantined, row, request, root, cursor, folders,
                 hardlinks, truncated, scans, events>>

Shared(f) == Cardinality({d \in Dirs : f \in Links[d]}) > 1

(* A file is counted once per walk, or cannot be stat'ed.                  *)
CountFile(f) ==
  /\ IsNext(f)
  /\ todo' = Drop(f)
  /\ \/ /\ f \in hardlinks
        /\ UNCHANGED <<total, hardlinks, events>>
     \/ /\ f \notin hardlinks
        /\ hardlinks' = IF Shared(f) THEN hardlinks \cup {f} ELSE hardlinks
        /\ Absorb(cursor, [size |-> 1, unreadable |-> 0])
        /\ UNCHANGED events
     \/ /\ events < MaxEvents /\ events' = events + 1
        /\ Absorb(cursor, [size |-> 0, unreadable |-> 1])
        /\ UNCHANGED hardlinks
  /\ UNCHANGED <<process, row, request, root, cursor, folders, blocked,
                 refusals, truncated, scans>>

(* visit returns: the caller absorbs the subtotal and records the          *)
(* directory if it is large enough.                                        *)
Return ==
  /\ cursor # Nowhere /\ todo[cursor] = {}
  /\ Absorb(Below(cursor), total[cursor])
  /\ folders' = IF cursor # root /\ total[cursor].size >= MinSize
                THEN [folders EXCEPT ![cursor] = total[cursor]] ELSE folders
  /\ cursor' = Below(cursor)
  /\ UNCHANGED <<process, row, request, root, todo, blocked, refusals,
                 hardlinks, truncated, scans, events>>

WalkDone == root # Nowhere /\ cursor = Nowhere /\ todo[Nowhere] = {}

(* Mutant: what a full scan learned is forgotten.                           *)
FinishFullForgets ==
  /\ scan = "full" /\ WalkDone
  /\ row' = IF truncated THEN row ELSE [folders EXCEPT ![root] = total[Nowhere]]
  /\ ForgetWalk /\ ForgetRequest
  /\ UNCHANGED <<process, scans, events>>

(* The rest of run_full_scan: what the walk learned is remembered and its  *)
(* folders, with the root whatever its size, replace the tree.  A full     *)
(* scan has no deadline and is never truncated.                            *)
FinishFull ==
  /\ scan = "full" /\ WalkDone
  /\ quarantined' = quarantined \cup blocked
  /\ row' = IF truncated THEN row ELSE [folders EXCEPT ![root] = total[Nowhere]]
  /\ ForgetWalk /\ ForgetRequest
  /\ UNCHANGED <<lost, failed, scans, events>>

(* Mutant: the lower bound of a truncated walk is published.                *)
FinishPathTruncated ==
  /\ scan = "verify" /\ WalkDone
  /\ learned' = learned \cup blocked
  /\ measured' = [measured EXCEPT ![root] = total[Nowhere]]
  /\ ForgetWalk
  /\ UNCHANGED <<process, row, scan, queue, late, scans, events>>

(* One path of a verify: truncated, it keeps the row it had.               *)
FinishPath ==
  /\ scan = "verify" /\ WalkDone
  /\ learned' = learned \cup blocked
  /\ measured' = IF truncated THEN measured
                 ELSE [measured EXCEPT ![root] = total[Nowhere]]
  /\ ForgetWalk
  /\ UNCHANGED <<process, row, scan, queue, late, scans, events>>

(* The rest of run_verify.                                                 *)
FinishVerify ==
  /\ scan = "verify" /\ root = Nowhere
  /\ queue = <<>> \/ late
  /\ quarantined' = quarantined \cup learned
  /\ row' = [d \in Dirs |-> IF measured[d] # NoRow THEN measured[d] ELSE row[d]]
  /\ ForgetRequest
  /\ UNCHANGED <<lost, failed, walk, scans, events>>

-----------------------------------------------------------------------------
(* The process starts anew: the quarantine is not persisted.               *)
Restart ==
  /\ events < MaxEvents /\ events' = events + 1
  /\ quarantined' = {} /\ failed' = {} /\ lost' = [d \in Dirs |-> 0]
  /\ ForgetWalk /\ ForgetRequest
  /\ UNCHANGED <<row, scans>>

WalkStep ==
  \/ NextPath
  \/ \E d \in Dirs : PassBy(d) \/ Descend(d) \/ Refused(d)
  \/ \E f \in Files : CountFile(f)
  \/ Return \/ FinishFull \/ FinishPath \/ FinishVerify

Next ==
  \/ StartFull
  \/ \E p, q \in Dirs : StartVerify(p, q)
  \/ Deadline \/ WalkStep \/ Restart

Spec == Init /\ [][Next]_vars

-----------------------------------------------------------------------------
(* How many files there are beneath each directory, and how many of them a *)
(* walk from Root cannot but count there.                                  *)
Measurable(d) == {e \in Beneath[d] : Level[e] < MaxDepth}
FilesBeneath(d) == UNION {Links[e] : e \in Beneath[d]}
OwnFiles(d) ==
  {f \in FilesBeneath(d) : \A e \in Dirs : f \in Links[e] => e \in Measurable(d)}
Most == [d \in Dirs |-> Cardinality(FilesBeneath(d))]
Least == [d \in Dirs |-> Cardinality(OwnFiles(d))]

(* A published number counts no file twice, and if it is too small it says *)
(* so: no sequence of refusals, collapses, deadlines and quarantines makes *)
(* a folder look small with nothing unreadable (folder_sizes.rs:196-200,   *)
(* 351-352, 504).  Directories beyond MAX_DEPTH are not promised.          *)
RowsAreHonest ==
  \A d \in Dirs : row[d] # NoRow =>
    /\ row[d].size <= Most[d]
    /\ row[d].size < Least[d] => row[d].unreadable > 0

(* A directory that does not answer costs one thread in the life of the    *)
(* process, however many scans and verifies come by (folder_scan.rs:75-76).*)
OneThreadPerDirectory == \A d \in Dirs : lost[d] <= 1

(* One walk is refused at most BlockedSiblings times under one parent, but *)
(* for the one it was pointed at (folder_sizes.rs:83-88, 386-388).         *)
CollapseBoundsProbes == \A d \in Dirs \ {root} : refusals[d] <= BlockedSiblings

(* A directory is written off only if it did not open, or enough of those  *)
(* in it did not (folder_sizes.rs:212-214).                                *)
QuarantineIsEarned ==
  \A d \in quarantined \cup learned \cup blocked :
    \/ d \in failed
    \/ Cardinality(Children(d) \cap failed) >= BlockedSiblings

(* What the comment on the collapse rule rules out, and the rule for the   *)
(* directory itself lets in: the scan root is never written off            *)
(* (folder_sizes.rs:372, 395-398).                                         *)
RootIsNotWrittenOff == Root \notin quarantined
=============================================================================
