---------------------------- MODULE ServingIndex ----------------------------
(***************************************************************************)
(* The tables that queries and maintenance jobs read, as the source-change *)
(* applier leaves them between its commits.  SourceChanges models the      *)
(* applier in full; this module keeps what a reader can tell apart: one    *)
(* application stores a record through its commits and one operator       *)
(* withdraws a source through two, at the same time, and either may stop   *)
(* half-way.  The modules of the readers extend it.                        *)
(***************************************************************************)
EXTENDS Naturals, FiniteSets, Sequences

CONSTANTS
    Refs,        \* source refs
    Versions,    \* contents of source records
    RefOf,       \* RefOf[v]: the source v is a content of
    UnitsOf,     \* UnitsOf[v]: the indices of the retrieval units of v
    LinksOf,     \* LinksOf[v]: the <<source_ref, object_ref>> links v implies
    Initially,   \* the contents stored at the beginning
    MaxWrites,   \* bound on the writes that begin
    Nil

ASSUME ServingIndexAssumption ==
    /\ RefOf \in [Versions -> Refs]
    /\ UnitsOf \in [Versions -> SUBSET Nat]
    /\ LinksOf \in [Versions -> SUBSET (Refs \X Refs)]
    /\ \A v \in Versions : \A l \in LinksOf[v] : l[1] = RefOf[v]
    /\ Initially \subseteq Versions
    /\ \A v, w \in Initially : RefOf[v] = RefOf[w] => v = w
    /\ MaxWrites \in Nat
    /\ Nil \notin Versions \union Refs

VARIABLES
    held,      \* refs with a row in source_lifecycle
    row,       \* source_records: ref -> [ver, life]
    unit,      \* current retrieval_records: <<ref, unit_index, ver>>
    vec,       \* chunk_embeddings: <<ref, chunk_index, ver>>
    object,    \* refs with a canonical object
    links,     \* entity_links that are linked or accepted
    storing,   \* the application under way: [ver, life, step]
    dropping,  \* the withdrawal between its two transactions: its ref
    writes     \* writes begun

tables == <<held, row, unit, vec, object, links>>
indexVars == <<tables, storing, dropping, writes>>

Row == [ver: Versions, life: {"active", "inactive"}]
Steps == {"row", "objects", "links", "units", "vectors"}
Application == [ver: Versions, life: {"active", "inactive"}, step: Steps]

ASSUME NilIsNoRow == Nil \notin Row \union Application

Active(r) == row[r] # Nil /\ row[r].life = "active"
ActiveRefs == {r \in Refs : Active(r)}

PiecesOf(v) == {<<RefOf[v], i, v>> : i \in UnitsOf[v]}
Others(pieces, r) == {x \in pieces : x[1] # r}

\* A settled index in which some sources are withdrawn.  A source that a
\* connector delivers as restricted is withdrawn, and stored with its links.
IndexInit ==
    \E gone \in SUBSET Refs, relinked \in SUBSET Initially :
        LET kept == {v \in Initially : RefOf[v] \notin gone} IN
        /\ relinked \subseteq Initially \ kept
        /\ held = gone
        /\ row = [r \in Refs |->
                    IF \E v \in Initially : RefOf[v] = r
                    THEN [ver |-> CHOOSE v \in Initially : RefOf[v] = r,
                          life |-> IF r \in gone THEN "inactive" ELSE "active"]
                    ELSE Nil]
        /\ unit = UNION {PiecesOf(v) : v \in kept}
        /\ vec = UNION {PiecesOf(v) : v \in kept}
        /\ object = {RefOf[v] : v \in Initially}
        /\ links = {l \in UNION {LinksOf[v] : v \in kept} : l[2] \notin gone}
                     \union UNION {LinksOf[v] : v \in relinked}
        /\ storing = Nil /\ dropping = Nil /\ writes = 0

StoreStep(from, to) ==
    /\ storing # Nil /\ storing.step = from
    /\ storing' = IF to = "done" THEN Nil ELSE [storing EXCEPT !.step = to]
    /\ UNCHANGED <<dropping, writes>>

\* The lifecycle table is read: a held source is stored as inactive.
BeginStore(v) ==
    /\ storing = Nil /\ writes < MaxWrites
    /\ storing' = [ver |-> v, step |-> "row",
                   life |-> IF RefOf[v] \in held THEN "inactive" ELSE "active"]
    /\ writes' = writes + 1
    /\ UNCHANGED <<tables, dropping>>

\* _restore_source lifts the hold and leaves the units stale; the record is
\* stored next.
BeginRestore(v) ==
    /\ storing = Nil /\ writes < MaxWrites
    /\ RefOf[v] \in held
    /\ held' = held \ {RefOf[v]}
    /\ row' = [row EXCEPT ![RefOf[v]] = IF @ = Nil THEN Nil ELSE [@ EXCEPT !.life = "active"]]
    /\ unit' = Others(unit, RefOf[v])
    /\ storing' = [ver |-> v, step |-> "row", life |-> "active"]
    /\ writes' = writes + 1
    /\ UNCHANGED <<vec, object, links, dropping>>

\* Mutant: only the lifecycle state of the row is compared.
RowChangedMutant(r, new) == row[r] # Nil /\ row[r].life # new.life

RowChanged(r, new) == row[r] # Nil /\ row[r] # new

\* The rows are replaced, and the units of a changed record made stale.
StoreRow ==
    /\ StoreStep("row", "objects")
    /\ LET v == storing.ver
           r == RefOf[v]
       IN /\ row' = [row EXCEPT ![r] = [ver |-> v, life |-> storing.life]]
          /\ unit' = IF RowChanged(r, row'[r]) THEN Others(unit, r) ELSE unit
    /\ UNCHANGED <<held, vec, object, links>>

StoreObjects ==
    /\ StoreStep("objects", "links")
    /\ object' = object \union {RefOf[storing.ver]}
    /\ UNCHANGED <<held, row, unit, vec, links>>

StoreLinks ==
    /\ StoreStep("links", "units")
    /\ links' = links \union LinksOf[storing.ver]
    /\ UNCHANGED <<held, row, unit, vec, object>>

\* Mutant: the units of an inactive record are prepared, too.
ReplacementMutant == PiecesOf(storing.ver)

\* What replaces the units and the vectors of the stored ref.
Replacement == IF storing.life = "active" THEN PiecesOf(storing.ver) ELSE {}

StoreUnits ==
    /\ StoreStep("units", "vectors")
    /\ unit' = Others(unit, RefOf[storing.ver]) \union Replacement
    /\ UNCHANGED <<held, row, vec, object, links>>

StoreVectors ==
    /\ StoreStep("vectors", "done")
    /\ vec' = Others(vec, RefOf[storing.ver]) \union Replacement
    /\ UNCHANGED <<held, row, unit, object, links>>

\* remove_source_from_retrieval
Withdraw(r) ==
    /\ dropping = Nil /\ writes < MaxWrites
    /\ held' = held \union {r}
    /\ vec' = Others(vec, r)
    /\ dropping' = r /\ writes' = writes + 1
    /\ UNCHANGED <<row, unit, object, links, storing>>

\* The second transaction of _apply_inactive_change
MarkInactive ==
    /\ dropping # Nil
    /\ row' = [row EXCEPT ![dropping] =
                 IF @ = Nil THEN Nil ELSE [@ EXCEPT !.life = "inactive"]]
    /\ unit' = Others(unit, dropping)
    /\ links' = {l \in links : dropping \notin {l[1], l[2]}}
    /\ dropping' = Nil
    /\ UNCHANGED <<held, vec, object, storing, writes>>

\* A statement or the embedding call raises, or the process dies.
StopStore ==
    /\ storing # Nil /\ storing' = Nil
    /\ UNCHANGED <<tables, dropping, writes>>

StopWithdrawal ==
    /\ dropping # Nil /\ dropping' = Nil
    /\ UNCHANGED <<tables, storing, writes>>

WriterStep ==
    \/ \E v \in Versions : BeginStore(v) \/ BeginRestore(v)
    \/ StoreRow \/ StoreObjects \/ StoreLinks \/ StoreUnits \/ StoreVectors
    \/ \E r \in Refs : Withdraw(r)
    \/ MarkInactive

WriterStop == StopStore \/ StopWithdrawal

Writing == storing # Nil \/ dropping # Nil
Overlapping == storing # Nil /\ dropping # Nil

IndexTypeOK ==
    /\ held \subseteq Refs
    /\ row \in [Refs -> Row \union {Nil}]
    /\ unit \subseteq Refs \X Nat \X Versions
    /\ vec \subseteq Refs \X Nat \X Versions
    /\ object \subseteq Refs
    /\ links \subseteq Refs \X Refs
    /\ storing \in Application \union {Nil}
    /\ dropping \in Refs \union {Nil}
    /\ writes \in 0..MaxWrites
=============================================================================
