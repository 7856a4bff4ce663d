---------------------------- MODULE Maintenance ----------------------------
(***************************************************************************)
(* The jobs that rebuild, purge, dump and restore what ServingIndex        *)
(* stores: runtime/rebuild.py (the hourly job and the command line run     *)
(* it), build_vector_index, the purge of raw objects and of dumps, and     *)
(* storage/postgres_backup.py.  None of them waits for the applier.        *)
(*                                                                         *)
(* One job runs at a time, each statement of it by itself.  Withdrawals    *)
(* are restrictions here, the only ones the purge looks for, and links the *)
(* kind that needs the record of the other source and nothing else.        *)
(***************************************************************************)
EXTENDS ServingIndex

CONSTANTS
    BodyUnits,  \* BodyUnits[v]: the units of v without its attachments
    MaxJobs     \* bound on the jobs, the restores among them, that begin

ASSUME MaintenanceAssumption ==
    /\ BodyUnits \in [Versions -> SUBSET Nat]
    /\ \A v \in Versions : BodyUnits[v] \subseteq UnitsOf[v]
    /\ MaxJobs \in Nat

VARIABLES
    raw,         \* refs with an object in the raw store
    putting,     \* the raw store step of an application: [ref, step], or Nil
    job,         \* the next statement of the job under way, or "idle"
    read,        \* the rows or the units it read: [row, unit]
    doomed,      \* refs the purge has still to delete
    jobs,        \* jobs begun
    dump,        \* the tables in the backup, or Nil
    met,         \* a write ran since the job under way read
    overlapped,  \* two writes, or a write and a job, have met
    cut,         \* an application, a withdrawal or a job was cut short
    restored     \* a backup was restored

history == <<met, overlapped, cut, restored>>
jobVars == <<job, read, doomed, jobs>>
vars == <<indexVars, raw, putting, jobVars, dump, history>>

RawStep == [ref: Refs, step: {"read", "put"}]

ASSUME NilIsNoRawStep == Nil \notin RawStep

NoRead == [row |-> [r \in Refs |-> Nil], unit |-> {}]
Idle == job = "idle"
Calm == ~ Writing /\ putting = Nil

Init ==
    /\ IndexInit
    /\ \E purged \in SUBSET held : raw = {r \in Refs : row[r] # Nil} \ purged
    /\ putting = Nil /\ job = "idle" /\ read = NoRead /\ doomed = {} /\ jobs = 0 /\ dump = Nil
    /\ met = FALSE /\ overlapped = FALSE /\ cut = FALSE /\ restored = FALSE

-----------------------------------------------------------------------------
(* The applier, and the raw store behind it *)

Meet ==
    /\ met' = ~ Idle
    /\ overlapped' = (overlapped \/ ~ Idle \/ (dropping' # Nil /\ {storing', putting'} # {Nil}))
    /\ UNCHANGED restored

Write ==
    /\ putting = Nil \/ storing # Nil
    /\ WriterStep
    /\ putting' = IF storing # Nil /\ storing' = Nil
                  THEN [ref |-> RefOf[storing.ver], step |-> "read"] ELSE putting
    /\ Meet
    /\ UNCHANGED <<raw, jobVars, dump, cut>>

\* _store_raw_source_records: the holds are read, then what is not held is put.
ReadHolds ==
    /\ putting # Nil /\ putting.step = "read"
    /\ putting' = IF putting.ref \in held THEN Nil ELSE [putting EXCEPT !.step = "put"]
    /\ UNCHANGED <<indexVars, raw, jobVars, dump, cut>>
    /\ Meet

PutRaw ==
    /\ putting # Nil /\ putting.step = "put"
    /\ raw' = raw \union {putting.ref} /\ putting' = Nil
    /\ UNCHANGED <<indexVars, jobVars, dump, cut>>
    /\ Meet

StopWriting ==
    /\ \/ WriterStop /\ UNCHANGED putting
       \/ putting # Nil /\ putting' = Nil /\ UNCHANGED indexVars
    /\ cut' = TRUE
    /\ UNCHANGED <<raw, jobVars, dump, met, overlapped, restored>>

-----------------------------------------------------------------------------
(* Jobs *)

Begin ==
    /\ Idle /\ jobs < MaxJobs /\ jobs' = jobs + 1
    /\ met' = FALSE /\ overlapped' = (overlapped \/ ~ Calm)
    /\ UNCHANGED cut

\* The first statement of a rebuild reads; jobs begin one after another.
Start(first) ==
    /\ Begin /\ job' = first
    /\ read' = [NoRead EXCEPT !.row = row]
    /\ UNCHANGED <<indexVars, raw, putting, doomed, dump, restored>>

\* From one statement of the job to the next one.
Step(from, to) ==
    /\ job = from /\ job' = to
    /\ read' = IF to = "idle" THEN NoRead ELSE read
    /\ UNCHANGED <<held, row, storing, dropping, writes, raw, putting, doomed, jobs, dump, history>>

\* Mutant: the records that are not active are prepared, too.
PreparedMutant(rows) ==
    UNION {{<<r, i, rows[r].ver>> : i \in BodyUnits[rows[r].ver]} :
              r \in {s \in Refs : rows[s] # Nil}}

\* prepare_retrieval_records over the rows, which keep no attachments.
Prepared(rows) ==
    UNION {{<<r, i, rows[r].ver>> : i \in BodyUnits[rows[r].ver]} :
              r \in {s \in Refs : rows[s] # Nil /\ rows[s].life = "active"}}

\* Rows of the same ref and index are replaced: store_retrieval_records and
\* the ON CONFLICT of _insert_chunks.
Upserted(table, new) ==
    {x \in table : \A y \in new : <<x[1], x[2]>> # <<y[1], y[2]>>} \union new

DeleteAllUnits ==
    /\ Step("delete_units", "insert_units")
    /\ unit' = {}
    /\ UNCHANGED <<vec, object, links>>

InsertUnits ==
    /\ Step("insert_units", "replace_vectors")
    /\ unit' = Upserted(unit, Prepared(read.row))
    /\ UNCHANGED <<vec, object, links>>

\* Mutant: the vectors of the sources that have units are replaced.
IndexedRefsMutant == {x[1] : x \in Prepared(read.row)}

\* The vectors of every source that was read are replaced.
IndexedRefs == {r \in Refs : read.row[r] # Nil}

ReplaceVectors ==
    /\ Step("replace_vectors", "idle")
    /\ vec' = Upserted({x \in vec : x[1] \notin IndexedRefs}, Prepared(read.row))
    /\ UNCHANGED <<unit, object, links>>

DeleteAllObjects ==
    /\ Step("delete_objects", "delete_links")
    /\ object' = {}
    /\ UNCHANGED <<unit, vec, links>>

DeleteAllLinks ==
    /\ Step("delete_links", "insert_objects")
    /\ links' = {}
    /\ UNCHANGED <<unit, vec, object>>

InsertObjects ==
    /\ Step("insert_objects", "insert_links")
    /\ object' = object \union {r \in Refs : read.row[r] # Nil}
    /\ UNCHANGED <<unit, vec, links>>

\* Links are derived from all the records, withdrawn ones included.
Derived(rows) ==
    {l \in UNION {LinksOf[rows[r].ver] : r \in {s \in Refs : rows[s] # Nil}} : rows[l[2]] # Nil}

InsertLinks ==
    /\ Step("insert_links", "idle")
    /\ links' = links \union Derived(read.row)
    /\ UNCHANGED <<unit, vec, object>>

\* build_vector_index makes a ChunkVectorIndex, which drops the table and creates
\* it anew if embeddings have other dimensions than before, and reads the current
\* units, which a write between the two leaves as one before them would, ...
MakeIndex ==
    /\ Begin /\ job' = "index_vectors"
    /\ vec' \in {vec, {}}
    /\ read' = [NoRead EXCEPT !.unit = unit]
    /\ UNCHANGED <<held, row, unit, object, links, storing, dropping, writes>>
    /\ UNCHANGED <<raw, putting, doomed, dump, restored>>

\* ... whose vectors replace all there are.
IndexVectors ==
    /\ Step("index_vectors", "idle")
    /\ vec' = Upserted({}, read.unit)
    /\ UNCHANGED <<unit, object, links>>

\* Mutant: the lifecycle state is not looked at.
PurgeableMutant == {r \in Refs : row[r] # Nil}

Purgeable == held

\* purge_expired_raw_sources reads the holds, those that are old enough, ...
ReadExpired ==
    /\ Begin /\ job' = "purge"
    /\ \E expired \in SUBSET Purgeable : doomed' = expired
    /\ UNCHANGED <<indexVars, raw, putting, read, dump, restored>>

\* ... and deletes the raw objects one by one.
PurgeRaw ==
    /\ job = "purge" /\ doomed # {}
    /\ \E r \in doomed : raw' = raw \ {r} /\ doomed' = doomed \ {r}
    /\ UNCHANGED <<indexVars, putting, job, jobs, read, dump, history>>

EndPurge ==
    /\ job = "purge" /\ doomed = {} /\ job' = "idle"
    /\ UNCHANGED <<indexVars, raw, putting, read, doomed, jobs, dump, history>>

\* A statement raises, or the process dies.
StopJob ==
    /\ ~ Idle /\ job' = "idle" /\ read' = NoRead /\ doomed' = {}
    /\ cut' = TRUE
    /\ UNCHANGED <<indexVars, raw, putting, jobs, dump, met, overlapped, restored>>

-----------------------------------------------------------------------------
(* Backups *)

\* pg_dump: one snapshot of the tables, and nothing of the raw store.
Dumped == [held |-> held, row |-> row, unit |-> unit, vec |-> vec, object |-> object,
           links |-> links, whole |-> Idle /\ Calm /\ ~ cut]

Backup ==
    /\ dump = Nil
    /\ dump' = Dumped
    /\ UNCHANGED <<indexVars, raw, putting, jobVars, history>>

\* postgres_restore_drill writes its dump over the one there is and restores it
\* into another database, whose health it asks for; these tables it only reads.
Drill ==
    /\ dump # Nil
    /\ dump' = Dumped
    /\ UNCHANGED <<indexVars, raw, putting, jobVars, history>>

\* There is a backup file.
Restorable == dump # Nil

\* pg_restore --clean
Restore ==
    /\ Restorable /\ Idle /\ jobs < MaxJobs /\ jobs' = jobs + 1
    /\ held' = dump.held /\ row' = dump.row /\ unit' = dump.unit /\ vec' = dump.vec
    /\ object' = dump.object /\ links' = dump.links
    /\ restored' = TRUE /\ overlapped' = (overlapped \/ ~ Calm)
    /\ cut' = (cut \/ ~ dump.whole)
    /\ UNCHANGED <<storing, dropping, writes, raw, putting, job, read, doomed, dump, met>>

\* purge_expired_backups
PurgeDump ==
    /\ dump # Nil /\ dump' = Nil
    /\ UNCHANGED <<indexVars, raw, putting, jobVars, history>>

Next ==
    \/ Write \/ ReadHolds \/ PutRaw \/ StopWriting
    \/ \E first \in {"delete_units", "delete_objects"} : Start(first)
    \/ DeleteAllUnits \/ InsertUnits \/ ReplaceVectors
    \/ DeleteAllObjects \/ DeleteAllLinks \/ InsertObjects \/ InsertLinks
    \/ MakeIndex \/ IndexVectors \/ ReadExpired \/ PurgeRaw \/ EndPurge \/ StopJob
    \/ Backup \/ Drill \/ Restore \/ PurgeDump

Spec == Init /\ [][Next]_vars

-----------------------------------------------------------------------------
(* Correctness *)

\* A rebuild that no write ran into repairs whatever was cut short before it:
\* the units and vectors are those of the active rows, no others, and the
\* objects and links those of the rows.  It does not look for vectors of sources
\* that have no row, which a backup restored into an application leaves.
RebuildRepairs ==
    [][/\ ~ met /\ ReplaceVectors =>
          /\ unit = {x \in vec' : row[x[1]] # Nil} /\ (overlapped \/ vec' = unit)
          /\ \A r \in Refs : row[r] # Nil /\ BodyUnits[row[r].ver] # {} =>
                                ((\E x \in unit : x[1] = r) <=> Active(r))
       /\ ~ met /\ InsertLinks =>
          /\ object = {r \in Refs : row[r] # Nil}
          /\ \A l \in links' : {l[1], l[2]} \subseteq object]_vars

\* Search finds a source with a text that is not its row's only after a write
\* and a job have met, however many applications and jobs were cut short.
SearchableIsCurrent ==
    ~ overlapped => \A x \in unit : Active(x[1]) => x[3] = row[x[1]].ver

\* Jobs bring nothing of a withdrawn source back into units and vectors.
WithdrawnStaysUnindexed ==
    Idle /\ Calm /\ ~ overlapped /\ ~ cut =>
        \A x \in unit \union vec : x[1] \notin held

\* An active source keeps its raw object: the purge takes those of restricted
\* sources, and lifting a restriction stores the object again.
RawBehindActive ==
    Idle /\ Calm /\ ~ overlapped /\ ~ cut /\ ~ restored => ActiveRefs \subseteq raw

\* "retrieval units, entity links, summaries, vectors, and other indexes are
\* derived and rebuildable" (docs/architecture.md): a rebuild that no write
\* ran into gives every active source its units.
RebuildsEveryUnit ==
    [][InsertUnits /\ ~ met =>
          \A r \in Refs : Active(r) => PiecesOf(row[r].ver) \subseteq unit']_vars
=============================================================================
