--------------------------- MODULE SourceChanges ---------------------------
(***************************************************************************)
(* The source-change applier of etl/load/source_changes.py: the one        *)
(* boundary every import, webhook event and operator command goes through. *)
(*                                                                         *)
(* apply_source_changes is not one transaction.  It reads the lifecycle    *)
(* table once, commits a transaction or two per change, and then stores    *)
(* all the upserted records through a chain of separate commits: source    *)
(* rows, canonical objects, entity links, retrieval units, vectors, raw    *)
(* files, legacy e-mail rows.  Every commit is an action here, an applier  *)
(* may stop after any of them (Abort), and several appliers (an import, a  *)
(* webhook worker, an operator's command) may be under way at a time.      *)
(***************************************************************************)
EXTENDS Naturals, Sequences

CONSTANTS
    Refs,            \* source refs
    Ids,             \* (source_system, source_id) pairs
    Versions,        \* contents a source record may carry
    PinnedVersions,  \* contents that arrive with an explicit checksum
    Appliers,        \* concurrent calls of apply_source_changes
    RawAppliers,     \* the appliers configured with a raw store
    Batches,         \* the lists of changes callers may pass
    Cites,           \* Cites[v]: the <<from, to>> links content v implies
    MaxAborts,       \* bound on the applications that fail half-way
    Nil

LifeStates == {"active", "restricted", "deleted", "supersede", "duplicate"}
InactiveStates == LifeStates \ {"active"}
PermStates == {"current", "missing", "stale", "revoked"}
Reasons == {"permission_snapshot_missing", "permission_snapshot_stale",
            "permission_snapshot_revoked", "source_record_lifecycle",
            "missing_from_latest_snapshot", "operator"}
Ops == {"upsert", "restore", "restrict", "delete", "supersede", "duplicate"}

\* A source record as a connector delivers it.
SourceRecord == [ref: Refs, sid: Ids, ver: Versions,
                 life: LifeStates, perm: PermStates]

\* A checksum identifies content, declared lifecycle state and permission
\* snapshot.
Checksum == [ver: Versions, life: LifeStates, perm: PermStates]

SourceChange == [op: Ops, ref: Refs, rec: SourceRecord \union {Nil}, reason: Reasons]

Hold == [state: InactiveStates, reason: Reasons]                   \* source_lifecycle
Row == [sid: Ids, sum: Checksum, life: LifeStates]                 \* source_records
Unit == [status: {"current", "stale", "inactive"}, sum: Checksum]  \* retrieval_records

ASSUME ConstantsAssumption ==
    /\ PinnedVersions \subseteq Versions
    /\ RawAppliers \subseteq Appliers
    /\ Batches \subseteq Seq(SourceChange) \ {<<>>}
    /\ Cites \in [Versions -> SUBSET (Refs \X Refs)]
    /\ MaxAborts \in Nat

ASSUME NilAssumption ==
    /\ Nil \notin SourceRecord
    /\ Nil \notin Hold
    /\ Nil \notin Row
    /\ Nil \notin Unit
    /\ Nil \notin Versions
    /\ Nil \notin LifeStates

VARIABLES
    hold,        \* source_lifecycle: ref -> Hold
    row,         \* source_records: ref -> Row
    identified,  \* refs with rows in source_identities
    object,      \* canonical_objects: ref -> lifecycle_state
    links,       \* entity_links: <<source_ref, object_ref>>
    unit,        \* retrieval_records: ref -> Unit (all units of a ref move together)
    vector,      \* chunk_embeddings: ref -> content embedded
    raw,         \* raw source store: ref -> content kept
    emails,      \* refs with rows in the legacy e-mail index
    audit,       \* <<ref, decision>> of the lifecycle audit events written
    pc,          \* where each applier is
    todo,        \* its changes still to be applied
    known,       \* its lifecycle_state_by_ref
    pending,     \* its active_records
    records,     \* the latest of them, while they are being stored
    replaced,    \* the refs those records replace
    work,        \* refs left in the raw-store loop it is in
    aborts       \* applications that have failed

tables == <<hold, row, identified, object, links, unit, vector, raw, emails, audit>>
locals == <<todo, known, pending, records, replaced, work>>
vars == <<tables, pc, locals, aborts>>

-----------------------------------------------------------------------------
(* Records *)

Restricting(perm) == perm \in {"missing", "stale", "revoked"}

EffectiveLife(rec) ==
    IF rec.life = "active" /\ Restricting(rec.perm) THEN "restricted" ELSE rec.life

LifecycleReason(rec) ==
    IF Restricting(rec.perm)
    THEN [missing |-> "permission_snapshot_missing",
          stale   |-> "permission_snapshot_stale",
          revoked |-> "permission_snapshot_revoked"][rec.perm]
    ELSE "source_record_lifecycle"

\* An explicit checksum is kept whatever the lifecycle and the permissions.
ChecksumOf(rec) ==
    IF rec.ver \in PinnedVersions
    THEN [ver |-> rec.ver, life |-> "active", perm |-> "current"]
    ELSE [ver |-> rec.ver, life |-> rec.life, perm |-> rec.perm]

InactiveStateFor(op) ==
    [restrict |-> "restricted", delete |-> "deleted",
     supersede |-> "supersede", duplicate |-> "duplicate"][op]

\* Mutant: the reason of the hold is not looked at.
ShouldRestoreMutant(rec, h) ==
    /\ h # Nil
    /\ EffectiveLife(rec) = "active"
    /\ h.state \in {"restricted", "deleted"}

\* The two holds that an import is allowed to lift by itself.
ShouldRestore(rec, h) ==
    /\ h # Nil
    /\ EffectiveLife(rec) = "active"
    /\ \/ h.state = "restricted" /\ h.reason = "permission_snapshot_missing"
       \/ h.state = "deleted" /\ h.reason = "missing_from_latest_snapshot"

\* Mutant: the record keeps the state its connector declared.
WithExistingLifecycleMutant(rec, h) == rec

WithExistingLifecycle(rec, h) ==
    IF h = Nil THEN rec ELSE [rec EXCEPT !.life = h.state]

SameSource(r1, r2) == r1.ref = r2.ref \/ r1.sid = r2.sid

\* kept is what a scan of s from its end selects when it skips each record
\* whose ref or source identity an already selected record has.
IsLatest(s, kept) ==
    \A i \in DOMAIN s :
        i \in kept <=> \A j \in kept : j > i => ~ SameSource(s[i], s[j])

RefsOf(recs) == {rec.ref : rec \in recs}
ActiveOf(recs) == {rec \in recs : EffectiveLife(rec) = "active"}
RecordFor(r, recs) == CHOOSE rec \in recs : rec.ref = r

LinksOf(recs) ==
    UNION {{l \in Cites[rec.ver] : l[1] = rec.ref /\ l[2] \in RefsOf(recs)} : rec \in recs}

\* The rows that hold the source identity of one of recs; those of other
\* refs are replaced.
PreviousRefs(recs) ==
    {r \in Refs : row[r] # Nil /\ \E rec \in recs : rec.sid = row[r].sid}
\* Mutant: a renamed source keeps its old row.
ReplacedByMutant(recs) == {}

ReplacedBy(recs) == PreviousRefs(recs) \ RefsOf(recs)

\* Mutant: the refs that were replaced are forgotten.
TouchedMutant(p) == RefsOf(records[p])

Touched(p) == RefsOf(records[p]) \union replaced[p]

-----------------------------------------------------------------------------
Init ==
    /\ hold = [r \in Refs |-> Nil]
    /\ row = [r \in Refs |-> Nil]
    /\ identified = {}
    /\ object = [r \in Refs |-> Nil]
    /\ links = {}
    /\ unit = [r \in Refs |-> Nil]
    /\ vector = [r \in Refs |-> Nil]
    /\ raw = [r \in Refs |-> Nil]
    /\ emails = Refs
    /\ audit = {}
    /\ pc = [p \in Appliers |-> "idle"]
    /\ todo = [p \in Appliers |-> <<>>]
    /\ known = [p \in Appliers |-> [r \in Refs |-> Nil]]
    /\ pending = [p \in Appliers |-> <<>>]
    /\ records = [p \in Appliers |-> {}]
    /\ replaced = [p \in Appliers |-> {}]
    /\ work = [p \in Appliers |-> {}]
    /\ aborts = 0

Goto(p, from, to) == pc[p] = from /\ pc' = [pc EXCEPT ![p] = to]

\* An applier that returns or fails forgets everything it held in memory.
Forget(p) ==
    /\ todo' = [todo EXCEPT ![p] = <<>>]
    /\ known' = [known EXCEPT ![p] = [r \in Refs |-> Nil]]
    /\ pending' = [pending EXCEPT ![p] = <<>>]
    /\ records' = [records EXCEPT ![p] = {}]
    /\ replaced' = [replaced EXCEPT ![p] = {}]
    /\ work' = [work EXCEPT ![p] = {}]

-----------------------------------------------------------------------------
(* The loop over the changes *)

\* The lifecycle table is read once, before the first change.
Begin(p) ==
    /\ Goto(p, "idle", "changes")
    /\ \E batch \in Batches : todo' = [todo EXCEPT ![p] = batch]
    /\ known' = [known EXCEPT ![p] = hold]
    /\ UNCHANGED <<tables, pending, records, replaced, work, aborts>>

Change(p) == Head(todo[p])
NextChange(p) == todo' = [todo EXCEPT ![p] = Tail(@)]

\* Mutant: the units are left as they are.
ClearHoldMutant(r) ==
    /\ hold' = [hold EXCEPT ![r] = Nil]
    /\ row' = [row EXCEPT ![r] = IF @ = Nil THEN Nil ELSE [@ EXCEPT !.life = "active"]]
    /\ object' = [object EXCEPT ![r] = IF @ = Nil THEN Nil ELSE "active"]
    /\ UNCHANGED <<identified, links, unit, vector, raw, emails, audit>>

\* _restore_source: one transaction.
ClearHold(r) ==
    /\ hold' = [hold EXCEPT ![r] = Nil]
    /\ row' = [row EXCEPT ![r] = IF @ = Nil THEN Nil ELSE [@ EXCEPT !.life = "active"]]
    /\ object' = [object EXCEPT ![r] = IF @ = Nil THEN Nil ELSE "active"]
    /\ unit' = [unit EXCEPT ![r] = IF @ = Nil THEN Nil ELSE [@ EXCEPT !.status = "stale"]]
    /\ UNCHANGED <<identified, links, vector, raw, emails, audit>>

\* An upsert of an active record lifts a hold that an import caused.
UpsertRestoring(p) ==
    /\ Goto(p, "changes", "changes")
    /\ todo[p] # <<>> /\ Change(p).op = "upsert" /\ Change(p).rec # Nil
    /\ LET rec == Change(p).rec IN
        /\ ShouldRestore(rec, known[p][rec.ref])
        /\ ClearHold(rec.ref)
        /\ known' = [known EXCEPT ![p][rec.ref] = Nil]
        /\ pending' = [pending EXCEPT ![p] = Append(@, rec)]
    /\ NextChange(p)
    /\ UNCHANGED <<records, replaced, work, aborts>>

\* Any other upsert of a record that is active, or whose hold is known.
UpsertKeeping(p) ==
    /\ Goto(p, "changes", "changes")
    /\ todo[p] # <<>> /\ Change(p).op = "upsert" /\ Change(p).rec # Nil
    /\ LET rec == Change(p).rec
           h == known[p][rec.ref]
       IN /\ ~ ShouldRestore(rec, h)
          /\ h # Nil \/ EffectiveLife(rec) = "active"
          /\ pending' = [pending EXCEPT ![p] = Append(@, WithExistingLifecycle(rec, h))]
    /\ NextChange(p)
    /\ UNCHANGED <<tables, known, records, replaced, work, aborts>>

Restore(p) ==
    /\ Goto(p, "changes", "changes")
    /\ todo[p] # <<>> /\ Change(p).op = "restore" /\ Change(p).rec # Nil
    /\ ClearHold(Change(p).ref)
    /\ known' = [known EXCEPT ![p][Change(p).ref] = Nil]
    /\ pending' = [pending EXCEPT
                     ![p] = Append(@, [Change(p).rec EXCEPT !.life = "active"])]
    /\ NextChange(p)
    /\ UNCHANGED <<records, replaced, work, aborts>>

\* The first transaction of _apply_inactive_change (remove_source_from_retrieval).
Withdraw(p, r, state, reason) ==
    /\ Goto(p, "changes", IF state = "deleted" /\ p \in RawAppliers THEN "unraw" ELSE "audit")
    /\ hold' = [hold EXCEPT ![r] = [state |-> state, reason |-> reason]]
    /\ emails' = emails \ {r}
    /\ vector' = [vector EXCEPT ![r] = Nil]
    /\ UNCHANGED <<row, identified, object, links, unit, raw, audit, locals, aborts>>

\* An upsert of an inactive record without a known hold withdraws the source.
WithdrawUpsert(p) ==
    /\ todo[p] # <<>> /\ Change(p).op = "upsert" /\ Change(p).rec # Nil
    /\ LET rec == Change(p).rec IN
        /\ known[p][rec.ref] = Nil
        /\ EffectiveLife(rec) # "active"
        /\ Withdraw(p, rec.ref, EffectiveLife(rec), LifecycleReason(rec))

WithdrawSource(p) ==
    /\ todo[p] # <<>> /\ Change(p).op \notin {"upsert", "restore"}
    /\ Withdraw(p, Change(p).ref, InactiveStateFor(Change(p).op), Change(p).reason)

\* What the withdrawal under way is about.
WithdrawnRef(p) == IF Change(p).op = "upsert" THEN Change(p).rec.ref ELSE Change(p).ref
WithdrawnState(p) ==
    IF Change(p).op = "upsert" THEN EffectiveLife(Change(p).rec)
                               ELSE InactiveStateFor(Change(p).op)

DeleteRaw(p) ==
    /\ Goto(p, "unraw", "audit")
    /\ raw' = [raw EXCEPT ![WithdrawnRef(p)] = Nil]
    /\ UNCHANGED <<hold, row, identified, object, links, unit, vector, emails, audit,
                   locals, aborts>>

RecordAudit(p) ==
    /\ Goto(p, "audit", "mark")
    /\ audit' = audit \union {<<WithdrawnRef(p), WithdrawnState(p)>>}
    /\ UNCHANGED <<hold, row, identified, object, links, unit, vector, raw, emails,
                   locals, aborts>>

\* The second transaction of _apply_inactive_change, and what the caller then
\* remembers: an upserted record is stored all the same, an explicit change
\* goes into lifecycle_state_by_ref.
MarkInactive(p) ==
    LET r == WithdrawnRef(p)
        state == WithdrawnState(p)
    IN /\ Goto(p, "mark", "changes")
       /\ row' = [row EXCEPT ![r] = IF @ = Nil THEN Nil ELSE [@ EXCEPT !.life = state]]
       /\ identified' = identified \ {r}
       /\ object' = [object EXCEPT ![r] = IF @ = Nil THEN Nil ELSE state]
       /\ links' = {l \in links : l[1] # r /\ l[2] # r}
       /\ unit' = [unit EXCEPT ![r] = IF @ = Nil THEN Nil ELSE [@ EXCEPT !.status = "inactive"]]
       /\ IF Change(p).op = "upsert"
          THEN /\ pending' = [pending EXCEPT ![p] = Append(@, Change(p).rec)]
               /\ UNCHANGED known
          ELSE /\ known' = [known EXCEPT
                              ![p][r] = [state |-> state, reason |-> Change(p).reason]]
               /\ UNCHANGED pending
       /\ NextChange(p)
       /\ UNCHANGED <<hold, vector, raw, emails, audit, records, replaced, work, aborts>>

-----------------------------------------------------------------------------
(* _store_active_records *)

\* No record was collected: the call returns.
NothingToStore(p) ==
    /\ Goto(p, "changes", "idle")
    /\ todo[p] = <<>> /\ pending[p] = <<>>
    /\ Forget(p)
    /\ UNCHANGED <<tables, aborts>>

\* Keep the latest record of each source, and read which rows they replace.
FindReplaced(p) ==
    /\ Goto(p, "changes", "rows")
    /\ todo[p] = <<>> /\ pending[p] # <<>>
    /\ \E kept \in SUBSET DOMAIN pending[p] :
        /\ IsLatest(pending[p], kept)
        /\ LET latest == {pending[p][i] : i \in kept} IN
            /\ records' = [records EXCEPT ![p] = latest]
            /\ replaced' = [replaced EXCEPT ![p] = ReplacedBy(latest)]
    /\ known' = [known EXCEPT ![p] = [r \in Refs |-> Nil]]    \* not read again
    /\ pending' = [pending EXCEPT ![p] = <<>>]
    /\ UNCHANGED <<tables, todo, work, aborts>>

\* Mutant: a row found under its own ref counts as unchanged.
RowChangedMutant(rec, recs) ==
    LET previous == PreviousRefs(recs) IN
    /\ rec.ref \notin previous
    /\ \E s \in previous : row[s].sid = rec.sid /\ row[s].sum # ChecksumOf(rec)

\* _source_record_row_changed: rec is compared with the previous row of its
\* own ref or, without it, with the one of its source identity.
RowChanged(rec, recs) ==
    LET previous == PreviousRefs(recs) IN
    IF rec.ref \in previous
    THEN row[rec.ref].sum # ChecksumOf(rec)
    ELSE \E s \in previous : row[s].sid = rec.sid /\ row[s].sum # ChecksumOf(rec)

StoreRows(p) ==
    LET recs == records[p]
        gone == ReplacedBy(recs)
        changed == {rec.ref : rec \in {x \in recs : RowChanged(x, recs)}} \union gone
    IN /\ Goto(p, "rows", "objects")
       /\ row' = [r \in Refs |->
                    IF r \in RefsOf(recs)
                    THEN LET rec == RecordFor(r, recs) IN
                         [sid |-> rec.sid, sum |-> ChecksumOf(rec), life |-> EffectiveLife(rec)]
                    ELSE IF r \in gone THEN Nil ELSE row[r]]
       /\ identified' = (identified \ gone) \union RefsOf(recs)
       /\ unit' = [r \in Refs |->
                     IF r \in changed /\ unit[r] # Nil
                     THEN [unit[r] EXCEPT !.status = "stale"] ELSE unit[r]]
       /\ UNCHANGED <<hold, object, links, vector, raw, emails, audit, locals, aborts>>

\* Mutant: objects are stored for the active records only.
StoreObjectsMutant(p) ==
    /\ Goto(p, "objects", "links")
    /\ object' = [r \in Refs |-> IF r \in RefsOf(ActiveOf(records[p]))
                                 THEN EffectiveLife(RecordFor(r, records[p]))
                                 ELSE object[r]]
    /\ UNCHANGED <<hold, row, identified, links, unit, vector, raw, emails, audit,
                   locals, aborts>>

StoreObjects(p) ==
    /\ Goto(p, "objects", "links")
    /\ object' = [r \in Refs |-> IF r \in RefsOf(records[p])
                                 THEN EffectiveLife(RecordFor(r, records[p]))
                                 ELSE object[r]]
    /\ UNCHANGED <<hold, row, identified, links, unit, vector, raw, emails, audit,
                   locals, aborts>>

StoreLinks(p) ==
    /\ Goto(p, "links", "units")
    /\ links' = links \union LinksOf(records[p])
    /\ UNCHANGED <<hold, row, identified, object, unit, vector, raw, emails, audit,
                   locals, aborts>>

\* Units are prepared for the active records only; a touched ref loses its own.
ReplaceUnits(p) ==
    LET active == ActiveOf(records[p]) IN
    /\ Goto(p, "units", "vectors")
    /\ unit' = [r \in Refs |->
                  IF r \in RefsOf(active)
                  THEN [status |-> "current", sum |-> ChecksumOf(RecordFor(r, active))]
                  ELSE IF r \in Touched(p) THEN Nil ELSE unit[r]]
    /\ UNCHANGED <<hold, row, identified, object, links, vector, raw, emails, audit,
                   locals, aborts>>

ReplaceVectors(p) ==
    LET active == ActiveOf(records[p]) IN
    /\ Goto(p, "vectors", IF p \in RawAppliers THEN "dropraw" ELSE "emails")
    /\ vector' = [r \in Refs |->
                    IF r \in RefsOf(active) THEN RecordFor(r, active).ver
                    ELSE IF r \in Touched(p) THEN Nil ELSE vector[r]]
    /\ work' = [work EXCEPT ![p] = replaced[p]]
    /\ UNCHANGED <<hold, row, identified, object, links, unit, raw, emails, audit,
                   todo, known, pending, records, replaced, aborts>>

\* _store_raw_source_records: delete what was replaced, read the lifecycle
\* table, write the active records without a hold, one file at a time.
DropRaw(p) ==
    /\ Goto(p, "dropraw", "dropraw")
    /\ \E r \in work[p] :
        /\ raw' = [raw EXCEPT ![r] = Nil]
        /\ work' = [work EXCEPT ![p] = @ \ {r}]
    /\ UNCHANGED <<hold, row, identified, object, links, unit, vector, emails, audit,
                   todo, known, pending, records, replaced, aborts>>

ReadHolds(p) ==
    /\ Goto(p, "dropraw", "putraw")
    /\ work[p] = {}
    /\ work' = [work EXCEPT ![p] = {r \in RefsOf(ActiveOf(records[p])) : hold[r] = Nil}]
    /\ UNCHANGED <<tables, todo, known, pending, records, replaced, aborts>>

PutRaw(p) ==
    /\ Goto(p, "putraw", "putraw")
    /\ \E r \in work[p] :
        /\ raw' = [raw EXCEPT ![r] = RecordFor(r, records[p]).ver]
        /\ work' = [work EXCEPT ![p] = @ \ {r}]
    /\ UNCHANGED <<hold, row, identified, object, links, unit, vector, emails, audit,
                   todo, known, pending, records, replaced, aborts>>

RawStored(p) ==
    /\ Goto(p, "putraw", "emails")
    /\ work[p] = {}
    /\ UNCHANGED <<tables, locals, aborts>>

DeleteEmails(p) ==
    /\ Goto(p, "emails", "done")
    /\ emails' = emails \ Touched(p)
    /\ UNCHANGED <<hold, row, identified, object, links, unit, vector, raw, audit,
                   locals, aborts>>

Return(p) ==
    /\ Goto(p, "done", "idle")
    /\ Forget(p)
    /\ UNCHANGED <<tables, aborts>>

\* A statement, a file operation or the embedding call raises, a change lacks
\* its record, or the process dies.  Nothing is rolled back but the
\* transaction under way, and nothing resumes the call.
Abort(p) ==
    /\ pc[p] # "idle"
    /\ aborts < MaxAborts
    /\ aborts' = aborts + 1
    /\ pc' = [pc EXCEPT ![p] = "idle"]
    /\ Forget(p)
    /\ UNCHANGED tables

-----------------------------------------------------------------------------
Store(p) ==
    \/ FindReplaced(p) \/ StoreRows(p) \/ StoreObjects(p) \/ StoreLinks(p)
    \/ ReplaceUnits(p) \/ ReplaceVectors(p) \/ DropRaw(p) \/ ReadHolds(p)
    \/ PutRaw(p) \/ RawStored(p) \/ DeleteEmails(p) \/ Return(p)

Apply(p) ==
    \/ UpsertRestoring(p) \/ UpsertKeeping(p) \/ Restore(p)
    \/ WithdrawUpsert(p) \/ WithdrawSource(p)
    \/ DeleteRaw(p) \/ RecordAudit(p) \/ MarkInactive(p) \/ NothingToStore(p)

Next == \E p \in Appliers : Begin(p) \/ Apply(p) \/ Store(p) \/ Abort(p)

Spec == Init /\ [][Next]_vars

-----------------------------------------------------------------------------
TypeOK ==
    /\ hold \in [Refs -> Hold \union {Nil}]
    /\ row \in [Refs -> Row \union {Nil}]
    /\ identified \subseteq Refs
    /\ object \in [Refs -> LifeStates \union {Nil}]
    /\ links \subseteq Refs \X Refs
    /\ unit \in [Refs -> Unit \union {Nil}]
    /\ vector \in [Refs -> Versions \union {Nil}]
    /\ raw \in [Refs -> Versions \union {Nil}]
    /\ emails \subseteq Refs
    /\ audit \subseteq Refs \X InactiveStates
    /\ pc \in [Appliers -> {"idle", "changes", "unraw", "audit", "mark", "rows", "objects",
                            "links", "units", "vectors", "dropraw", "putraw", "emails", "done"}]
    /\ todo \in [Appliers -> Seq(SourceChange)]
    /\ known \in [Appliers -> [Refs -> Hold \union {Nil}]]
    /\ pending \in [Appliers -> Seq(SourceRecord)]
    /\ records \in [Appliers -> SUBSET SourceRecord]
    /\ replaced \in [Appliers -> SUBSET Refs]
    /\ work \in [Appliers -> SUBSET Refs]
    /\ aborts \in 0..MaxAborts

-----------------------------------------------------------------------------
(* Properties *)

\* What keyword search returns: current units of sources whose row is active.
SearchHit(r) ==
    /\ row[r] # Nil /\ row[r].life = "active"
    /\ unit[r] # Nil /\ unit[r].status = "current"

AllIdle == \A p \in Appliers : pc[p] = "idle"
Undisturbed == AllIdle /\ aborts = 0

\* Every store agrees with the source row of r, and the row with the hold.
Consistent(r) ==
    row[r] # Nil =>
        /\ hold[r] # Nil => row[r].life = hold[r].state
        /\ object[r] = row[r].life
        /\ IF row[r].life = "active"
           THEN /\ unit[r] = [status |-> "current", sum |-> row[r].sum]
                /\ vector[r] = row[r].sum.ver
           ELSE /\ unit[r] # Nil => unit[r].status # "current"
                /\ vector[r] = Nil

\* Current retrieval units always belong to a stored source and carry the
\* checksum of the row as it is now: store_source_records and _restore_source
\* mark them stale in the transaction that changes the row, so no failure
\* later in the chain leaves search serving the previous content.
UnitsMatchRows ==
    \A r \in Refs :
        unit[r] # Nil /\ unit[r].status = "current" =>
            row[r] # Nil /\ unit[r].sum = row[r].sum

\* Whatever applications failed half-way before it, one that runs to its end
\* leaves the sources it stored consistent in every table: importing again is
\* a repair.
CompletedStoreRepairs ==
    \A p \in Appliers : pc[p] = "done" =>
        /\ \A r \in Touched(p) : Consistent(r) /\ r \notin emails
        /\ \A r \in replaced[p] : row[r] = Nil /\ unit[r] = Nil /\ vector[r] = Nil

\* When no application failed and none is under way, every source is
\* consistent, its withdrawal is in the audit log, the raw object of a deleted
\* source is gone and that of an active one is what its row says.
QuietConsistency ==
    Undisturbed => \A r \in Refs :
        /\ Consistent(r)
        /\ hold[r] # Nil => /\ <<r, hold[r].state>> \in audit
                             /\ r \notin emails
        /\ hold[r] # Nil /\ hold[r].state = "deleted" => raw[r] = Nil
        /\ row[r] # Nil /\ row[r].life = "active" => raw[r] = row[r].sum.ver

\* A source becomes searchable only in the transaction that inserts its newly
\* prepared units: neither lifting a hold nor storing a row publishes units
\* that were prepared before.
PublishedByNewUnits ==
    [][\A r \in Refs : ~ SearchHit(r) /\ SearchHit(r)' =>
          \E p \in Appliers : pc[p] = "units" /\ pc'[p] = "vectors" /\ r \in RefsOf(records[p])]_vars

\* A hold disappears only through an explicit restore of that source, unless
\* an import put it there (missing permission snapshot, missing from the
\* latest snapshot): an upsert never lifts an operator's hold.
ImportsKeepOperatorHolds ==
    [][\A r \in Refs : hold[r] # Nil /\ hold'[r] = Nil =>
          \/ hold[r].reason \in {"permission_snapshot_missing", "missing_from_latest_snapshot"}
          \/ \E p \in Appliers : /\ todo[p] # todo'[p]
                                 /\ Change(p).op = "restore" /\ Change(p).ref = r]_vars

\* The transaction that lifts a hold never makes the source searchable: its
\* old units turn stale with it, even when other applications interleave.
LiftedHoldStaysHidden ==
    [][\A r \in Refs : hold[r] # Nil /\ hold'[r] = Nil => ~ SearchHit(r)']_vars

\* No two source rows have the same source identity, however applications
\* that rename a source interleave.
OneRowPerSource ==
    \A r, s \in Refs : row[r] # Nil /\ row[s] # Nil /\ row[r].sid = row[s].sid => r = s

\* An entity link always joins two stored canonical objects: objects are
\* committed before the links between them and never deleted, so no failure
\* and no withdrawal leaves a link dangling.
LinksJoinObjects ==
    \A l \in links : object[l[1]] # Nil /\ object[l[2]] # Nil
=============================================================================
