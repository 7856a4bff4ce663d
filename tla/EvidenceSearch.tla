--------------------------- MODULE EvidenceSearch ---------------------------
(***************************************************************************)
(* One governed search at a time: GovernedContext.search_context, the      *)
(* permissions it decides by, its audit events and the evidence pack.      *)
(*                                                                         *)
(* What the principal may not see is decided first, as a list of refs to   *)
(* leave out; units, audit events, rows, objects and links follow in       *)
(* transactions of their own, and the writers of ServingIndex do not wait. *)
(***************************************************************************)
EXTENDS SearchRows

CONSTANTS
    PermRefs,     \* permission refs
    PermsOf,      \* PermsOf[v]: the permission_refs of content v
    Claims,       \* the roles and groups its trusted claims name, themselves permission refs
    Operator,     \* the role of a principal whose claims name none
    Human,        \* its human_id
    GroupOf,      \* GroupOf[role]: the permission ref group:<role>
    Inherits,     \* group_inheritance[group] of groups, as <<group, parent>> pairs
    Employees,    \* persons whose links carry an entity ref
    ProjectOf,    \* ProjectOf[v]: the ref of the project of v, or Nil
    Thread,       \* Thread[r]: the thread of r, or Nil
    FirstName,    \* FirstName[r]: the first name the query shares with r, or Nil
    FullyNamed,   \* the persons whose whole name is in the query
    Kind,         \* Kind[r]: the group for objects of the type of r, or Nil
    Mailbox       \* Mailbox[r]: the e-mail address of person r, or r itself

ASSUME EvidenceSearchAssumption ==
    /\ PermsOf \in [Versions -> SUBSET PermRefs]
    /\ Claims \union {Operator, Human} \subseteq PermRefs
    /\ GroupOf \in [Claims \union {Operator} -> PermRefs]
    /\ Inherits \subseteq PermRefs \X PermRefs /\ IsFiniteSet(Inherits)
    /\ Employees \subseteq Refs /\ FullyNamed \subseteq Refs
    /\ ProjectOf \in [Versions -> Refs \union {Nil}]
    /\ DOMAIN Thread = Refs /\ DOMAIN FirstName = Refs /\ DOMAIN Mailbox = Refs
    /\ DOMAIN Kind = Refs

Buckets == {"people", "organizations", "work_items", "documents", "threads"}

VARIABLES
    pc,       \* the next statement of the search
    denied,   \* denied_refs
    rows,     \* the search rows, best first
    records,  \* the visible source records: <<ref, content>>
    objects,  \* the canonical objects read
    pack,     \* what the evidence pack names
    audit,    \* the refs in the search and the source_access event, or Nil
    live,     \* refs that were active at some time since the search began
    changed   \* <<ref, table>>: written since the permissions were read

searchVars == <<pc, denied, rows, records, objects, pack, audit, live, changed>>
vars == <<indexVars, searchVars>>

-----------------------------------------------------------------------------
(* Permissions *)

\* principal_from_trusted_claims
Roles == IF Claims = {} THEN {Operator} ELSE Claims

\* Mutant: parents of parents are not followed.
TransitiveRefsMutant(refs) == {i[2] : i \in {j \in Inherits : j[1] \in refs}}

\* The parents of groups in n steps or fewer.
ParentsWithin(refs) ==
    LET reach[n \in 0..Cardinality(Inherits)] ==
            IF n = 0 THEN {}
            ELSE reach[n - 1] \union
                 {i[2] : i \in {j \in Inherits : j[1] \in refs \union reach[n - 1]}}
    IN reach

\* transitive_group_refs: the parents of groups, and theirs in turn.
TransitiveRefs(refs) == ParentsWithin(refs)[Cardinality(Inherits)]

PrincipalRefs ==
    LET own == Roles \union {GroupOf[role] : role \in Roles} \union {Human}
    IN own \union TransitiveRefs(own)

\* A source without permission refs is open to everybody.
Permitted(v) == PermsOf[v] = {} \/ PermsOf[v] \intersect PrincipalRefs # {}

-----------------------------------------------------------------------------
(* The evidence pack *)

VisibleRefs == {x[1] : x \in records}

\* Mutant: objects of sources that are not visible are looked up, too.
VisibleObjectsMutant == objects

VisibleObjects == objects \intersect VisibleRefs

VisibleLinks(read) ==
    {l \in read : l[1] \in VisibleRefs /\ l[2] \in VisibleObjects}

ContentOf(r) == (CHOOSE x \in records : x[1] = r)[2]

As(relation, refs) == [i \in DOMAIN refs |-> [ref |-> refs[i], as |-> relation]]

LinkedObjects(r, read) == {l[2] : l \in {k \in VisibleLinks(read) : k[1] = r}} \ {r}

ProjectObject(r) == {ProjectOf[ContentOf(r)]} \intersect (VisibleObjects \ {r})

\* The records of the thread of r, but for the results.
ThreadMates(r) ==
    {s \in VisibleObjects \ RefsIn(rows) : Thread[r] # Nil /\ Thread[s] = Thread[r]}

\* The linked objects, the project and the thread of result r.
RelatedTo(r, read) ==
    As("entity", InOrder(LinkedObjects(r, read)))
    \o IF r \notin VisibleRefs THEN <<>>
       ELSE As("project", InOrder(ProjectObject(r))) \o As("thread", InOrder(ThreadMates(r)))

Firsts(s) ==
    LET at == InTurn({i \in DOMAIN s : \A j \in 1..(i - 1) : s[j].ref # s[i].ref})
    IN [n \in DOMAIN at |-> s[at[n]]]

\* What the first n results are related to.
RelatedSoFar(read) ==
    LET all[n \in 0..Len(rows)] ==
            IF n = 0 THEN <<>>
            ELSE all[n - 1] \o RelatedTo(rows[n].ref, read)
    IN all

\* Each object once, and five of them at most.
RelatedObjects(read) == Prefix(Firsts(RelatedSoFar(read)[Len(rows)]), 5)

\* An object of the thread is shown with its thread, others with their kind.
Bucket(x) == IF x.as = "thread" THEN "threads" ELSE Kind[x.ref]

\* An object of another kind is in no group.
RelatedGroups(related) ==
    [b \in Buckets |-> {related[i].ref : i \in {j \in DOMAIN related : Bucket(related[j]) = b}}]

\* What the links of r name as entities.
EntityRefs(r, read) == {l[2] : l \in {k \in VisibleLinks(read) : k[1] = r}} \intersect Employees

\* Each entity with the results that name it.
Entities(read) ==
    LET named == UNION {EntityRefs(r, read) : r \in RefsIn(rows)}
    IN {[entity |-> x, sources |-> {r \in RefsIn(rows) : x \in EntityRefs(r, read)}] :
            x \in named}

\* A result whose record is not visible any more keeps its title and snippet
\* and has no other field filled.
EvidenceItem(x, read) ==
    [ref |-> x.ref, ver |-> x.ver, filled |-> x.ref \in VisibleRefs,
     entities |-> EntityRefs(x.ref, read)]

\* Persons who share a first name the query has, one for each mailbox: they
\* are ambiguous when two are left and none of them is named in full.
Unresolved ==
    LET named(name) == {r \in VisibleObjects : FirstName[r] = name}
        people(name) == {r \in named(name) : \A s \in named(name) :
                            Mailbox[s] = Mailbox[r] => Order[r] <= Order[s]}
        names == {FirstName[r] : r \in VisibleObjects} \ {Nil}
    IN UNION {people(name) : name \in
                {n \in names : named(n) \intersect FullyNamed = {}
                               /\ Cardinality(people(n)) >= 2}}

NoPack ==
    [items |-> <<>>, primary |-> {}, related |-> <<>>, groups |-> [b \in Buckets |-> {}],
     entities |-> {}, unresolved |-> {}]

Pack(read) ==
    [items |-> [i \in DOMAIN rows |-> EvidenceItem(rows[i], read)],
     primary |-> RefsIn(rows) \intersect VisibleObjects,
     related |-> RelatedObjects(read),
     groups |-> RelatedGroups(RelatedObjects(read)),
     entities |-> Entities(read),
     unresolved |-> Unresolved]

-----------------------------------------------------------------------------
(* The search *)

Init ==
    /\ IndexInit
    /\ pc = "idle" /\ denied = {} /\ rows = <<>> /\ records = {} /\ objects = {}
    /\ pack = NoPack /\ audit = [search |-> Nil, access |-> Nil]
    /\ live = {} /\ changed = {}

Goto(from, to) == pc = from /\ pc' = to

\* denied_source_refs, over every row there is.
DeniedNow == {r \in Refs : row[r] # Nil /\ ~ Permitted(row[r].ver)}

\* RetrievalAPI.search_evidence passes a request on if its limit is positive.
Asked == pc \in {"idle", "answered", "raised"} /\ CandidateLimit >= 1

Begin ==
    /\ Asked /\ pc' = "exact"
    /\ denied' = DeniedNow
    /\ rows' = <<>> /\ records' = {} /\ objects' = {} /\ pack' = NoPack
    /\ audit' = [search |-> Nil, access |-> Nil]
    /\ live' = ActiveRefs /\ changed' = {}
    /\ UNCHANGED indexVars

SearchExact ==
    /\ Goto("exact", "fuzzy")
    /\ rows' = ExactRows(denied)
    /\ UNCHANGED <<indexVars, denied, records, objects, pack, audit, live, changed>>

SearchFuzzy ==
    /\ Goto("fuzzy", "audit_search")
    /\ rows' = IF Len(rows) >= CandidateLimit THEN rows ELSE rows \o FuzzyRows(rows, denied)
    /\ UNCHANGED <<indexVars, denied, records, objects, pack, audit, live, changed>>

AuditSearch ==
    /\ Goto("audit_search", IF rows = <<>> THEN "records" ELSE "audit_access")
    /\ audit' = [audit EXCEPT !.search = RefsIn(rows)]
    /\ UNCHANGED <<indexVars, denied, rows, records, objects, pack, live, changed>>

AuditedRefs == RefsIn(rows)

AuditAccess ==
    /\ Goto("audit_access", "records")
    /\ audit' = [audit EXCEPT !.access = AuditedRefs]
    /\ UNCHANGED <<indexVars, denied, rows, records, objects, pack, live, changed>>

\* The active records that are not denied; denied_refs is not read again.
ReadRecords ==
    /\ Goto("records", "objects")
    /\ records' = {<<r, row[r].ver>> : r \in ActiveRefs \ denied}
    /\ UNCHANGED <<indexVars, denied, rows, objects, pack, audit, live, changed>>

ReadObjects ==
    /\ Goto("objects", "links")
    /\ objects' = object
    /\ UNCHANGED <<indexVars, denied, rows, records, pack, audit, live, changed>>

BuildPack ==
    /\ Goto("links", "answered")
    /\ pack' = Pack(links)
    /\ UNCHANGED <<indexVars, denied, rows, records, objects, audit, live, changed>>

\* A statement raises: the caller gets the error, the events stay.
Raise ==
    /\ pc \notin {"idle", "answered", "raised"} /\ pc' = "raised"
    /\ denied' = {} /\ rows' = <<>> /\ records' = {} /\ objects' = {}
    /\ UNCHANGED <<indexVars, pack, audit, live, changed>>

Write ==
    /\ WriterStep \/ WriterStop
    /\ live' = live \union {r \in Refs : row'[r] # Nil /\ row'[r].life = "active"}
    /\ changed' = changed \union {<<r, "row">> : r \in {s \in Refs : row'[s] # row[s]}}
                  \union {<<x[1], "unit">> : x \in (unit \ unit') \union (unit' \ unit)}
    /\ UNCHANGED <<pc, denied, rows, records, objects, pack, audit>>

Next ==
    \/ Begin \/ SearchExact \/ SearchFuzzy \/ AuditSearch \/ AuditAccess
    \/ ReadRecords \/ ReadObjects \/ BuildPack \/ Raise \/ Write

Spec == Init /\ [][Next]_vars

-----------------------------------------------------------------------------
(* Correctness *)

\* The least set that has the principal's own refs and the parents of its
\* members: what the principal may read is open or meets it.
Inherited ==
    {ref \in PermRefs : \A S \in SUBSET PermRefs :
        (/\ Roles \union {GroupOf[role] : role \in Roles} \union {Human} \subseteq S
         /\ \A i \in Inherits : i[1] \in S => i[2] \in S) => ref \in S}

MayRead(v) == PermsOf[v] = {} \/ PermsOf[v] \intersect Inherited # {}

\* Everything the evidence pack names beside the results (objects, entities,
\* ambiguous persons) is a source that was active while the search ran and that
\* the principal was not denied when it began; it names an entity for visible
\* results only, and a related object in one group at most.
PackIsVisible ==
    LET related == {pack.related[i].ref : i \in DOMAIN pack.related}
        named == pack.primary \union pack.unresolved \union related
                   \union (UNION {{x.entity} \union x.sources : x \in pack.entities})
                   \union (UNION {pack.items[i].entities : i \in DOMAIN pack.items})
    IN /\ named \subseteq live
       /\ pc = "answered" => named \intersect denied = {}
       /\ \A r \in related : Cardinality({b \in Buckets : r \in pack.groups[b]}) <= 1

\* A row whose content the principal may not see comes from a source that was
\* written after the permissions were read.
DeniedOnlyWhenChanged ==
    \A i \in DOMAIN rows : MayRead(rows[i].ver) \/ <<rows[i].ref, "row">> \in changed

\* A search that has room left finds every active source that has a matching
\* unit, that the principal may see and that is not written meanwhile.
FoundWhenPermitted ==
    pc = "audit_search" /\ Len(rows) < CandidateLimit =>
        \A x \in unit :
            /\ Keyword[x] > 0 /\ MayRead(x[3]) /\ Active(x[1])
            /\ {<<x[1], "row">>, <<x[1], "unit">>} \intersect changed = {}
            => x[1] \in RefsIn(rows)
=============================================================================
