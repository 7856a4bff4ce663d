--------------------------- MODULE MCAugmentation ---------------------------
(***************************************************************************)
(* A small instance of Augmentation: three documents of one thread, one of *)
(* them of three units and with a second content, and a person it cites.   *)
(***************************************************************************)
EXTENDS Augmentation, TLC

CONSTANTS d, e, f, p, d1, d2, e1, f1, p1, thread

MCRefOf == d1 :> d @@ d2 :> d @@ e1 :> e @@ f1 :> f @@ p1 :> p
MCUnitsOf == d1 :> {0, 1, 2} @@ d2 :> {0} @@ e1 :> {0} @@ f1 :> {0} @@ p1 :> {0}
MCLinksOf == d1 :> {<<d, p>>} @@ d2 :> {} @@ e1 :> {} @@ f1 :> {} @@ p1 :> {}

MCKeyword ==
    <<d, 0, d1>> :> 3 @@ <<d, 1, d1>> :> 1 @@ <<d, 2, d1>> :> 0 @@ <<d, 0, d2>> :> 1
    @@ <<e, 0, e1>> :> 0 @@ <<f, 0, f1>> :> 0 @@ <<p, 0, p1>> :> 2
MCFuzzy ==
    <<d, 0, d1>> :> 2 @@ <<d, 1, d1>> :> 2 @@ <<d, 2, d1>> :> 0 @@ <<d, 0, d2>> :> 0
    @@ <<e, 0, e1>> :> 1 @@ <<f, 0, f1>> :> 0 @@ <<p, 0, p1>> :> 0
MCSimilar ==
    <<d, 0, d1>> :> 1 @@ <<d, 1, d1>> :> 6 @@ <<d, 2, d1>> :> 5 @@ <<d, 0, d2>> :> 4
    @@ <<e, 0, e1>> :> 3 @@ <<f, 0, f1>> :> 2 @@ <<p, 0, p1>> :> -1
MCThread == d :> thread @@ e :> thread @@ f :> thread @@ p :> Nil
MCCost == d1 :> 1 @@ d2 :> 2 @@ e1 :> 2 @@ f1 :> 2 @@ p1 :> 1
MCOrder == d :> 1 @@ e :> 2 @@ f :> 3 @@ p :> 4
=============================================================================
