------------------------------ MODULE ScanLock ------------------------------
(***************************************************************************)
(* What the folder scanner is promised by its coordinator: the scans of    *)
(* one tree never overlap.  A plain mutual exclusion lock: `owner' is the  *)
(* scan that holds the right to walk, `active' the scans that are walking. *)
(***************************************************************************)
CONSTANTS Scans,    (* the threads that may scan                           *)
          NoScan    (* what `owner' is when nobody holds the right          *)

VARIABLES owner, active

lockVars == <<owner, active>>

Init == owner = NoScan /\ active = {}

Acquire(t) ==
  /\ owner = NoScan
  /\ active = {}
  /\ owner' = t
  /\ active' = {t}

Release(t) ==
  /\ owner = t
  /\ owner' = NoScan
  /\ active' = active \ {t}

Next == \E t \in Scans : Acquire(t) \/ Release(t)

Spec == Init /\ [][Next]_lockVars
=============================================================================
