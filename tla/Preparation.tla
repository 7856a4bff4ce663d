----------------------------- MODULE Preparation -----------------------------
(***************************************************************************)
(* What the stores derive from the records of an import (source_changes.py *)
(* and what it calls): holds, rows, entity links (context_objects.py) and  *)
(* retrieval units (retrieval_records.py, embeddings.py), import after     *)
(* import, and again from the rows alone (rebuild.py).  An import is one   *)
(* step here; what lies between its commits is SourceChanges.              *)
(*                                                                         *)
(* Links are derived from the records of one import.  A link therefore may *)
(* be missing until the next rebuild, and may outlive what it was derived  *)
(* from; the invariants say when.                                          *)
(***************************************************************************)
EXTENDS Adapters, FiniteSets

CONSTANTS
    Payloads,      \* what the providers may send
    FullNames,     \* the names of more than one word
    MaxSteps,      \* bound on the imports and rebuilds
    MaxWords,      \* retrieval_max_words
    OverlapWords,  \* retrieval_overlap_words
    SourceLimit,   \* the records of a file that run-imports takes where it is limited
    MaxBatch       \* bound on the payloads of an import

ASSUME PreparationAssumption ==
    /\ MaxSteps \in Nat /\ OverlapWords \in Nat /\ MaxWords \in Nat
    /\ MaxWords > OverlapWords /\ DescribedWords \in Nat \ {0}
    /\ Nil \notin Restricting \union {"active"} /\ \A p \in Payloads : IsPayload(p)
    /\ SourceLimit \in Nat /\ MaxBatch \in Nat

\* A provider gives no id twice: (source_system, source_id) is a source, but of Gmail's
\* messages, which have two forms.
ASSUME IdsAreUnique ==
    \A p, q \in {x \in Payloads : Complete(x)} :
        RecordOf(p).system = RecordOf(q).system /\ RecordOf(p).id = RecordOf(q).id
        => RecordOf(p).ref = RecordOf(q).ref \/ RecordOf(p).system = "gmail"

Refs == {RecordOf(p).ref : p \in {q \in Payloads : Complete(q)}}

VARIABLES
    row,    \* row[r]: the record stored for a source, with its lifecycle, or NoRow
    sum,    \* sum[r]: its checksum there
    report, \* the import counts of the last import, or Nil where it counts nothing
    hold,   \* hold[r]: the lifecycle table: [state, reason], or Nil
    links,  \* the entity links: [key, source, object, type, evidence]
    unit,   \* unit[r]: the retrieval units: intervals of the words of the text
    steps,  \* imports and rebuilds so far
    sent,   \* sent[r]: the last payload stored for r
    since,  \* since[r]: the step that stored r last
    linked, \* linked[k]: the step that derived the link with key k last
    full    \* refs whose units were prepared with the attachments

vars == <<row, sum, report, hold, links, unit, steps, sent, since, linked, full>>

Sources == DOMAIN row

\* What is stored for a source that has no row: no field.
NoRow == <<>>

-----------------------------------------------------------------------------
(* Links *)

Employees(recs) == {x \in recs : x.type = "person" /\ Emails(x) # {}}

\* person_by_source_id: ids are unique among the providers' persons.
PersonsById(recs, id) == {x \in Employees(recs) : x.id = id}

IdentityRelationships(x) ==
    (IF x.author # <<>> THEN {<<"author", x.author>>} ELSE {})
    \union (IF x.assignee # <<>> THEN {<<"assignee", x.assignee>>} ELSE {})
    \union (IF x.user # <<>> /\ x.author = <<>> THEN {<<"author", x.user>>} ELSE {})

\* Mutant: the key of a link leaves out the type of the relationship.
KeyMutant(x, y, type) == <<x.ref, y.ref>>

\* link_ref: a second link with the same key is dropped, or replaces a stored one.
Key(x, y, type) == <<x.ref, y.ref, type>>

Link(x, y, type, evidence) ==
    [key |-> Key(x, y, type), source |-> x.ref, object |-> y.ref, type |-> type,
     evidence |-> evidence]

IdentityLinks(recs, x) ==
    UNION {{Link(x, y, rel[1], Nil) : y \in PersonsById(recs, rel[2])} :
              rel \in IdentityRelationships(x)}

ParentLinks(recs, x) ==
    {Link(x, y, "parent_work_item", Nil) :
        y \in {y \in recs \ {x} : x.type = "message" /\ x.thread # <<>> /\ y.ref = x.thread}}

\* Full names only, of persons of the same provider.
MentionLinks(recs, x) ==
    {Link(x, y, "mentioned_person", Nil) :
        y \in {y \in Employees(recs) : x.type # "person" /\ y.system = x.system
                                      /\ y.name \in FullNames \intersect x.mentions}}

CommentsOn(recs, x) == {c \in recs : c.type = "message" /\ c.thread = x.ref}

CommenterLinks(recs, x) ==
    UNION {{Link(x, y, "commenter", c.ref) : y \in PersonsById(recs, c.author)} :
              c \in CommentsOn(recs, x)}

SameEmail(recs) ==
    UNION {{Link(x, y, "same_email_identity", Nil) : y \in {y \in recs \ {x} :
              y.type = "person" /\ y.system # x.system /\ Emails(x) \intersect Emails(y) # {}}} :
              x \in {x \in recs : x.type = "person"}}

\* One link for each key, the first that was derived.
Deduped(S) == {l \in S : l = CHOOSE k \in S : k.key = l.key}

EntityLinks(recs) ==
    Deduped(SameEmail(recs)
            \union UNION {IdentityLinks(recs, x) \union ParentLinks(recs, x)
                          \union MentionLinks(recs, x) \union CommenterLinks(recs, x) : x \in recs})

\* The new links replace those with their keys; all others stay.
StoreLinks(kept, new) == {l \in kept : \A n \in new : n.key # l.key} \union new

-----------------------------------------------------------------------------
(* Units *)

\* Mutant: a window that ends with the text is followed by one more.
LastWindowMutant(n, k) == k * (MaxWords - OverlapWords) + MaxWords > n

LastWindow(n, k) == k * (MaxWords - OverlapWords) + MaxWords >= n

\* chunk_text: windows of MaxWords words, each beginning OverlapWords words
\* before the end of the one before, up to the first that reaches the end.
Windows(n) ==
    {[from |-> k * (MaxWords - OverlapWords) + 1,
      to |-> IF LastWindow(n, k) /\ k * (MaxWords - OverlapWords) + MaxWords > n THEN n
             ELSE k * (MaxWords - OverlapWords) + MaxWords] :
        k \in {k \in 0..n : k * (MaxWords - OverlapWords) < n
                            /\ \A j \in 0..(k - 1) : ~ LastWindow(n, j)}}

Effective(x) ==
    IF x.life = "active" /\ x.perms \in Restricting THEN "restricted" ELSE x.life

\* _retrieval_text: the body and the attachments that have text.
RetrievalText(x) == x.words + x.attached

UnitsOf(x) == IF Effective(x) = "active" THEN Windows(RetrievalText(x)) ELSE {}

-----------------------------------------------------------------------------
(* The imports *)

Init ==
    /\ row = [r \in Refs |-> NoRow] /\ sum = [r \in Refs |-> Nil] /\ report = Nil
    /\ hold = [r \in Refs |-> Nil]
    /\ links = {} /\ unit = [r \in Refs |-> {}]
    /\ steps = 0 /\ sent = [r \in Refs |-> Nil] /\ since = [r \in Refs |-> 0]
    /\ linked = [k \in {} |-> 0] /\ full = {}

Reason(x) ==
    IF x.perms \in Restricting THEN <<"permission_snapshot", x.perms>>
    ELSE <<"source_record_lifecycle">>

Missing == [state |-> "deleted", reason |-> <<"missing_from_latest_snapshot">>]

\* The holds that an active record lifts: whoever set them, they look like these.
Lifts(x) ==
    /\ Effective(x) = "active"
    /\ hold[x.ref] \in
           {Missing, [state |-> "restricted", reason |-> <<"permission_snapshot", "missing">>]}

WithExistingLifecycle(x) ==
    IF hold[x.ref] # Nil /\ ~ Lifts(x) THEN [x EXCEPT !.life = hold[x.ref].state] ELSE x

\* The records whose upsert withdraws the source: it is not held yet.
Withdraws(recs) == {x \in recs : Effective(x) # "active" /\ hold[x.ref] = Nil}

Joins(l, refs) == l.source \in refs \/ l.object \in refs

\* A stored row keeps the text of the body only.
RowOf(x) == [x EXCEPT !.life = Effective(x), !.attached = 0]

\* Mutant: the checksum leaves out the text.
ChecksumMutant(x) == [x EXCEPT !.attached = 0, !.words = 0]

\* A document's checksum is that of its content, whatever else is said of it; of
\* attachments it has the names only.
Checksum(x) == IF x.system = "pdf" THEN x.id ELSE [x EXCEPT !.attached = 0]

\* What a loader makes of payloads: a record of each, but of those it leaves out or
\* cannot read.
Loaded(S) == [p \in S |-> IF LeftOut(p) \/ ~ Complete(p) THEN Nil ELSE RecordOf(p)]

Records(batch) == Range(batch) \ {Nil}

Stored(r) == row[r] # NoRow

\* What an import did not bring of the stored sources in its scope.
MissingFrom(batch, scope) ==
    {r \in scope \ {x.ref : x \in Records(batch)} : row[r].life # "deleted"}

\* _source_record_import_counts: told from the records as the file has them and the
\* rows as they were.
ImportCounts(batch, missing) ==
    LET recs == Records(batch)
        known == {x \in recs : Stored(x.ref)}
    IN [new |-> {x.ref : x \in recs \ known},
        unchanged |-> {x.ref : x \in {y \in known : sum[y.ref] = Checksum(y)}},
        changed |-> {x.ref : x \in {y \in known : sum[y.ref] # Checksum(y)}},
        deleted |-> {x.ref : x \in {y \in recs : Effective(y) = "deleted"}} \union missing]

\* First the withdrawals, of what is missing last; then everything else.
Import(batch, missing, counts) ==
    /\ \A p \in DOMAIN batch : Complete(p)
    /\ LET recs == {WithExistingLifecycle(x) : x \in Records(batch)}
           refs == {x.ref : x \in recs}
           of == [r \in refs |-> CHOOSE x \in recs : x.ref = r]
           withdrawn == {x.ref : x \in Withdraws(recs)}
           replaced == {r \in Sources \ refs : row[r] # NoRow
                           /\ \E x \in recs : <<x.system, x.id>> = <<row[r].system, row[r].id>>}
           new == EntityLinks(recs)
       IN /\ hold' = [r \in Sources |->
                        CASE r \in missing -> Missing
                          [] r \in withdrawn ->
                               [state |-> Effective(of[r]), reason |-> Reason(of[r])]
                          [] r \in refs \ withdrawn /\ Lifts(of[r]) -> Nil
                          [] OTHER -> hold[r]]
          /\ row' = [r \in Sources |->
                       CASE r \in refs -> RowOf(of[r])
                         [] r \in replaced -> NoRow
                         [] r \in missing \ replaced ->
                              [row[r] EXCEPT !.life = "deleted", !.identities = {}]
                         [] OTHER -> row[r]]
          /\ sum' = [r \in Sources |->
                       CASE r \in refs -> Checksum(of[r])
                         [] r \in replaced -> Nil
                         [] OTHER -> sum[r]]
          /\ report' = counts
          /\ links' = StoreLinks({l \in links : ~ Joins(l, withdrawn \union missing)}, new)
          /\ unit' = [r \in Sources |->
                        CASE r \in refs -> UnitsOf(of[r])
                          [] r \in replaced \union missing -> {}
                          [] OTHER -> unit[r]]
          /\ steps' = steps + 1
          /\ sent' = [r \in Sources |->
                        CASE r \in refs ->
                               CHOOSE p \in DOMAIN batch : batch[p] # Nil /\ batch[p].ref = r
                          [] r \in missing -> [sent[r] EXCEPT !.marks = @ \union {"missing"}]
                          [] OTHER -> sent[r]]
          /\ since' = [r \in Sources |-> IF r \in refs THEN steps + 1 ELSE since[r]]
          /\ linked' = [k \in DOMAIN linked \union {l.key : l \in new} |->
                          IF \E l \in new : l.key = k THEN steps + 1 ELSE linked[k]]
          /\ full' = full \union refs

\* A payload that lacks what its adapter requires ends the import: nothing is stored.
Reject(batch) ==
    /\ \E p \in DOMAIN batch : ~ Complete(p)
    /\ steps' = steps + 1 /\ report' = Nil
    /\ UNCHANGED <<row, sum, hold, links, unit, sent, since, linked, full>>

\* One import brings each source once, in at most one of its forms.
OneEach(S) ==
    LET complete == {p \in S : Complete(p)}
        Source(p) == <<RecordOf(p).system, RecordOf(p).id>>
    IN \A p, q \in complete : Source(p) = Source(q) => p = q

Few(S) == {B \in SUBSET S : Cardinality(B) <= MaxBatch /\ OneEach(B)}

FileStreams == {"snapshot_members", "snapshot_slack_users", "snapshot_users", "snapshot_teams",
                "snapshot_projects", "snapshot_issues", "snapshot_comments"}

\* The streams of a live connector, with the scope each is the snapshot of.
Scope == [linear_users |-> <<"linear", "person">>, linear_issues |-> <<"linear", "work_item">>,
          linear_comments |-> <<"linear", "message">>,
          twenty_companies |-> <<"twenty", "organization">>,
          twenty_people |-> <<"twenty", "person">>,
          google_drive_files |-> <<"google_drive", "document">>]

LiveStreams ==
    {{"linear_users", "linear_issues", "linear_comments"},
     {"twenty_companies", "twenty_people"}, {"google_drive_files"}}

OtherStreams == {p.stream : p \in Payloads} \ (FileStreams \union SlackStreams)

Sends(streams) == Few({p \in Payloads : p.stream \in streams})

\* What a landing of the live taps may hold, and what a file or another landing may.
LiveBatches ==
    [streams \in LiveStreams |-> {Loaded({Sent(p) : p \in listed}) : listed \in Sends(streams)}]

Batches ==
    [streams \in {FileStreams, SlackStreams} \union {{s} : s \in OtherStreams} |->
        {Loaded(payloads) : payloads \in Sends(streams)}]

\* ingest-gmail-singer, ingest-pdf, ingest-email and events: some records of a
\* Singer file, a document, a mail directory or an event.
Ingest ==
    \E s \in OtherStreams :
        \E batch \in Batches[{s}] \ {<<>>} : Import(batch, {}, Nil) \/ Reject(batch)

\* The hourly import of Slack: all its streams, and no snapshot of them.
IngestSlack ==
    \E batch \in Batches[SlackStreams] \ {<<>>} : Import(batch, {}, Nil) \/ Reject(batch)

\* The hourly import of another connector: what it did not bring is deleted.
ImportSnapshot ==
    \E streams \in LiveStreams : \E batch \in LiveBatches[streams] :
        LET scopes == {Scope[s] : s \in streams}
            missing == MissingFrom(batch,
                           {r \in Sources : Stored(r) /\ <<row[r].system, row[r].type>> \in scopes})
        IN Import(batch, missing, Nil) \/ Reject(batch)

\* All else of the systems that a file names, of whatever record type.
MissingFromFile(batch) ==
    LET systems == {x.system : x \in Records(batch)} IN
    MissingFrom(batch, {r \in Sources : Stored(r) /\ row[r].system \in systems})

\* The import of a snapshot file.
ImportFile ==
    \E batch \in Batches[FileStreams] \ {<<>>} :
        LET missing == MissingFromFile(batch) IN
        Import(batch, missing, ImportCounts(batch, missing)) \/ Reject(batch)

\* _source_limited_records: so much of a file is left of a longer one, or is all of it.
Limited(batch) == Cardinality(Records(batch)) <= SourceLimit

\* run-imports with a source limit deletes nothing.
ImportLimited ==
    \E batch \in Batches[FileStreams] \ {<<>>} :
        Limited(batch) /\ Import(batch, {}, ImportCounts(batch, {}))

\* rebuild_context_objects: every link goes, and is derived from all rows.
RebuildLinks ==
    /\ LET new == EntityLinks({row[r] : r \in {s \in Sources : row[s] # NoRow}}) IN
       /\ links' = new
       /\ linked' = [k \in {l.key : l \in new} |-> steps + 1]
    /\ steps' = steps + 1 /\ report' = Nil
    /\ UNCHANGED <<row, sum, hold, unit, sent, since, full>>

\* rebuild_retrieval_units: the rows have no attachments.
RebuildUnits ==
    /\ unit' = [r \in Sources |-> IF row[r] = NoRow THEN {} ELSE UnitsOf(row[r])]
    /\ steps' = steps + 1 /\ full' = {} /\ report' = Nil
    /\ UNCHANGED <<row, sum, hold, links, sent, since, linked>>

Next ==
    /\ steps < MaxSteps
    /\ \/ Ingest \/ IngestSlack \/ ImportSnapshot \/ ImportFile \/ ImportLimited
       \/ RebuildLinks \/ RebuildUnits

Spec == Init /\ [][Next]_vars

-----------------------------------------------------------------------------
(* Correctness *)

IsEmployee(y) == y.type = "person" /\ Emails(y) # {}

\* Whether x is linked to y, said of the two records alone; c is the comment
\* that makes y a commenter of x.
Related(x, y, c, type) ==
    \/ type = "author" /\ IsEmployee(y) /\ y.id = (IF x.author = <<>> THEN x.user ELSE x.author)
    \/ type = "assignee" /\ IsEmployee(y) /\ y.id = x.assignee
    \/ type = "parent_work_item" /\ x.type = "message" /\ x.thread = y.ref
    \/ type = "mentioned_person" /\ IsEmployee(y) /\ x.type # "person"
       /\ x.system = y.system /\ y.name \in FullNames /\ y.name \in x.mentions
    \/ type = "same_email_identity" /\ x.type = "person" /\ y.type = "person"
       /\ x.system # y.system /\ Emails(x) \intersect Emails(y) # {}
    \/ type = "commenter" /\ IsEmployee(y)
       /\ c.type = "message" /\ c.thread = x.ref /\ c.author = y.id

\* The sources that a link was derived from; a comment makes someone a commenter.
CommentOf(l) == IF l.type = "commenter" THEN l.evidence ELSE l.source
From(l) == {l.source, l.object, CommentOf(l)}

\* A stored link holds of the stored records, unless one of those it was
\* derived from was stored again since: links are never taken back then.
LinksAreDerivable ==
    \A l \in links :
        (\A r \in From(l) : Stored(r) /\ since[r] <= linked[l.key])
        => Related(row[l.source], row[l.object], row[CommentOf(l)], l.type)

Types == {"author", "assignee", "parent_work_item", "mentioned_person",
          "same_email_identity", "commenter"}

StoredBy(n) == {r \in Sources : Stored(r) /\ since[r] = n /\ hold[r] # Missing}

\* Records that one import stored last have every link that holds of them:
\* only links between the records of two imports wait for the rebuild.
LinksMissOnlyAcrossImports ==
    \A n \in 1..steps :
        \A r, s, c \in StoredBy(n) : \A type \in Types :
            r # s /\ Related(row[r], row[s], row[c], type)
            => \E l \in links : l.source = r /\ l.object = s /\ l.type = type

\* The stored links are those that hold of the stored records, as far as one
\* import can know.
LinksFollowSources == LinksAreDerivable /\ LinksMissOnlyAcrossImports

\* The units of an active source cover each word of its text, with the overlap
\* that was asked for and none that says nothing new; a rebuild loses the text
\* of the attachments.
UnitsCoverText ==
    \A r \in Sources :
        Stored(r) /\ Effective(row[r]) = "active" =>
            LET n == row[r].words + (IF r \in full THEN RecordOf(sent[r]).attached ELSE 0)
                U == unit[r]
            IN /\ UNION {u.from..u.to : u \in U} = 1..n
               /\ \A u \in U : u.to - u.from < MaxWords
               /\ \A u \in U : u.from = 1
                     \/ \E v \in U : v.from < u.from /\ v.to - u.from + 1 = OverlapWords
               /\ \A u, v \in U : u # v => ~ (u.from >= v.from /\ u.to <= v.to)

\* A Gmail message that says what its lifecycle is overrules its flags, and of those
\* of a flat record only the trash is looked at.
Gone(p) ==
    \/ p.life \notin {Nil, "active"} \/ p.perms \in Restricting
    \/ p.marks # {} /\ (p.stream = "gmail" =>
                           p.life = Nil /\ (LooksLikeGmailMessage(p) \/ "trash" \in p.marks))

\* The provider names no one who may see it, and it is not of the kinds that
\* are then for a channel or for the operator.
ForAll(p) ==
    /\ Explicit(p) = {} /\ p.stream \notin MessageStreams \union {"channels", "google_drive_files"}
    /\ p.team = Nil \/ p.shared # Nil \/ p.stream \notin {"linear_issues", "linear_comments", "users"}

\* A source that is held, or whose provider said last that it is gone, or did
\* not list any more, has no units, whatever was imported or rebuilt since; and one
\* that has units is open to all only if its provider said so.
HiddenStaysHidden ==
    \A r \in Sources :
        /\ hold[r] # Nil \/ (sent[r] # Nil /\ Gone(sent[r])) => unit[r] = {}
        /\ unit[r] # {} /\ row[r].may = {} => ForAll(sent[r])

\* A step in which no source replaces another one, but a Gmail message its own
\* other form.
KeepsRefs == \A r \in Sources : Stored(r) => row'[r] # NoRow \/ row[r].system = "gmail"

\* A step whose import counts are what it does.
CountsAreTrue ==
    report' # Nil =>
        \A r \in Sources :
            /\ row[r] = NoRow /\ row'[r] # NoRow <=> r \in report'.new
            /\ Stored(r) /\ row'[r] # row[r] =>
                  \/ r \in report'.changed \union report'.deleted
                  \/ hold[r] = Missing /\ r \in report'.unchanged

\* No step replaces one source by another, and a file's import counts what it
\* does to the rows: a row that appears is new, one that changes is counted as
\* changed or deleted; only a source that comes back as it was, after it had been
\* missing from a snapshot, is counted as unchanged all the same.
RowsAreAccountedFor == [][KeepsRefs /\ CountsAreTrue]_vars
=============================================================================
