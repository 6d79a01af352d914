---------------------------- MODULE MCFolderScan ----------------------------
(***************************************************************************)
(* A scan takes the claim, and then walks.  ScanClaim does not look at     *)
(* what is walked, nor FolderWalk at who else asks, and they share no      *)
(* state: it is enough to let one of them move while the other has not     *)
(* begun.                                                                  *)
(***************************************************************************)
EXTENDS MCFolderWalk, ScanClaim

ScanInit == Init /\ ClaimInit

ScanNext ==
  \/ ClaimInit /\ Next /\ UNCHANGED claimVars
  \/ Init /\ ClaimNext /\ UNCHANGED vars

ScanSpec == ScanInit /\ [][ScanNext]_<<vars, claimVars>>
=============================================================================
