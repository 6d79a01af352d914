---------------------------- MODULE MCFolderWalk ----------------------------
(***************************************************************************)
(* A home directory for FolderWalk: a cloud provider's area, and a folder  *)
(* with three more in it, two of which share a hard link.  The third holds *)
(* a directory at MaxDepth.                                                *)
(***************************************************************************)
EXTENDS FolderWalk, TLC

CONSTANTS home, cloud, lib, box1, box2, box3, deep, shared, plain

MCDirs == {home, cloud, lib, box1, box2, box3, deep}
MCFiles == {shared, plain}
MCParent == cloud :> home @@ lib :> home @@ box1 :> lib @@ box2 :> lib
            @@ box3 :> lib @@ deep :> box3
MCLinks == home :> {} @@ cloud :> {} @@ lib :> {} @@ box1 :> {shared}
           @@ box2 :> {shared} @@ box3 :> {plain} @@ deep :> {}
=============================================================================
