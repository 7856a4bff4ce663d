-------------------------- MODULE MCEvidenceSearch --------------------------
(***************************************************************************)
(* A small instance of EvidenceSearch: a document of a thread that becomes *)
(* confidential, another one of a project, and two persons of one name,    *)
(* one of whom the principal may see through the group of a group.         *)
(***************************************************************************)
EXTENDS EvidenceSearch, TLC

CONSTANTS d, e, p, q, d1, d2, e1, p1, q1, thread, name,
          eng, operator, ana, groupEng, groupStaff, groupBoard, operators, everyone

MCRefOf == d1 :> d @@ d2 :> d @@ e1 :> e @@ p1 :> p @@ q1 :> q
MCUnitsOf == d1 :> {0, 1} @@ d2 :> {0} @@ e1 :> {0} @@ p1 :> {0} @@ q1 :> {}
MCLinksOf ==
    d1 :> {<<d, p>>} @@ d2 :> {} @@ e1 :> {<<e, q>>} @@ p1 :> {} @@ q1 :> {}
MCKeyword ==
    <<d, 0, d1>> :> 2 @@ <<d, 1, d1>> :> 1 @@ <<d, 0, d2>> :> 1 @@ <<e, 0, e1>> :> 0
    @@ <<p, 0, p1>> :> 1
MCFuzzy ==
    <<d, 0, d1>> :> 2 @@ <<d, 1, d1>> :> 2 @@ <<d, 0, d2>> :> 2 @@ <<e, 0, e1>> :> 1
    @@ <<p, 0, p1>> :> 1
MCOrder == d :> 1 @@ e :> 2 @@ p :> 3 @@ q :> 4

MCPermsOf ==
    d1 :> {groupEng} @@ d2 :> {groupBoard} @@ e1 :> {} @@ p1 :> {everyone}
    @@ q1 :> {groupBoard}
MCGroupOf == eng :> groupEng @@ operator :> operators
MCInherits == {<<groupEng, groupStaff>>, <<groupStaff, everyone>>, <<everyone, groupStaff>>}
MCProjectOf == d1 :> e @@ d2 :> e @@ e1 :> Nil @@ p1 :> Nil @@ q1 :> Nil
MCThread == d :> thread @@ e :> thread @@ p :> Nil @@ q :> Nil
MCFirstName == d :> Nil @@ e :> Nil @@ p :> name @@ q :> name
MCKind == d :> "documents" @@ e :> Nil @@ p :> "people" @@ q :> "people"
MCMailbox == d :> d @@ e :> e @@ p :> p @@ q :> q
=============================================================================
