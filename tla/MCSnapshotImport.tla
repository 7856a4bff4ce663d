-------------------------- MODULE MCSnapshotImport --------------------------
(***************************************************************************)
(* Small instances of SnapshotImport: two sources, one on each page.       *)
(***************************************************************************)
EXTENDS SnapshotImport, TLC

CONSTANTS r1, r2, run

OneOnEach == 1 :> r1 @@ 2 :> r2
=============================================================================
