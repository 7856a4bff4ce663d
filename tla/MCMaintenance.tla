--------------------------- MODULE MCMaintenance ---------------------------
(***************************************************************************)
(* A small instance of Maintenance: a document with two contents, one of   *)
(* which has an attachment, and the work item it belongs to.               *)
(***************************************************************************)
EXTENDS Maintenance, TLC

CONSTANTS d, w, d1, d2, w1

MCRefOf == d1 :> d @@ d2 :> d @@ w1 :> w
MCUnitsOf == d1 :> {0, 1} @@ d2 :> {0, 1} @@ w1 :> {0}
MCBodyUnits == d1 :> {0} @@ d2 :> {0, 1} @@ w1 :> {0}
MCLinksOf == d1 :> {<<d, w>>} @@ d2 :> {} @@ w1 :> {}
=============================================================================
