-------------------------- MODULE MCSourceChanges --------------------------
(***************************************************************************)
(* Small instances of SourceChanges.  r1 and r2 are two refs of the same   *)
(* source identity i1 (a source whose ref was renamed); r3 is another      *)
(* source.  v1 is content without a checksum of its own, v2 comes with one.*)
(***************************************************************************)
EXTENDS SourceChanges

CONSTANTS r1, r2, r3, i1, i2, v1, v2, a1

Rec(r, i, v, perm) == [ref |-> r, sid |-> i, ver |-> v, life |-> "active", perm |-> perm]
Upsert(rec) == [op |-> "upsert", ref |-> rec.ref, rec |-> rec, reason |-> "operator"]
RestoreTo(rec) == [op |-> "restore", ref |-> rec.ref, rec |-> rec, reason |-> "operator"]
Hide(op, r, why) == [op |-> op, ref |-> r, rec |-> Nil, reason |-> why]
Missing(r) == Hide("delete", r, "missing_from_latest_snapshot")

A == Rec(r1, i1, v1, "current")
B == Rec(r1, i1, v2, "current")
M == Rec(r1, i1, v1, "missing")
Revoked == Rec(r1, i1, v2, "revoked")
Renamed == Rec(r2, i1, v2, "current")
Other == Rec(r3, i2, v1, "current")
OtherDeleted == [Other EXCEPT !.life = "deleted"]

NoCitations == [v \in Versions |-> {}]
\* The content v1 of r1 names the person r3.
CitesOther == [v \in Versions |-> IF v = v1 THEN {<<r1, r3>>} ELSE {}]

\* One source under two refs: what connectors, webhooks and operators send
\* about it, an import that renames it, a snapshot that no longer has it.
RenamedSource ==
    {<<Upsert(A)>>, <<Upsert(B)>>, <<Upsert(M)>>, <<Upsert(Revoked)>>, <<Upsert(Renamed)>>,
     <<Upsert(A), Upsert(Renamed)>>, <<Upsert(Renamed), Missing(r1)>>,
     <<RestoreTo(A)>>, <<RestoreTo(M)>>,
     <<Hide("restrict", r1, "operator")>>, <<Hide("delete", r1, "operator")>>,
     <<Hide("supersede", r2, "operator")>>, <<Missing(r1)>>}

\* Two sources that a content links, imported together or apart.
LinkedSources ==
    {<<Upsert(A), Upsert(Other)>>, <<Upsert(B)>>, <<Upsert(M), Upsert(Other)>>,
     <<Upsert(A), Upsert(OtherDeleted)>>, <<Upsert(A), Missing(r3)>>,
     <<Hide("restrict", r1, "operator")>>, <<Hide("duplicate", r3, "operator")>>,
     <<RestoreTo(A)>>, <<RestoreTo(Other)>>}

\* The applier meets either the batches about one source under two refs or those
\* about two linked sources.
VARIABLE kind  \* the batches it meets

Kinds == {RenamedSource, LinkedSources}
AnyBatch == UNION Kinds

KindInit == Init /\ kind \in Kinds

KindNext ==
    /\ Next /\ kind' = kind
    /\ \A p \in Appliers : pc[p] = "idle" /\ pc'[p] = "changes" => todo'[p] \in kind

KindSpec == KindInit /\ [][KindNext]_<<vars, kind>>
=============================================================================
