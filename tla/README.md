# TLA+ models of 4ok

4ok keeps a governed index of an organisation's sources (e-mail, Linear, Slack,
Google Drive, Twenty): taps read the providers, adapters make source records of
what they send, one applier writes these to a database, a vector index and a
raw-file store, jobs rebuild and purge what is stored, and retrieval serves agents
only what lifecycle and permissions allow. These modules model the parts of the
code whose correctness depends on the order of commits, failures and concurrent
callers, and the functions in between as far as a reader of their results can
tell them apart.

## 1. Inventory

| Component | State it keeps | Operations | Interacts with |
|---|---|---|---|
| Taps (`etl/extract/*_tap.py`) | none | page through Linear, Twenty, Google Drive | providers, imports |
| Adapters (`etl/extract/*_adapter.py`, `connectors.py`, `email_parser.py`, ...) | none | make source records of payloads | imports |
| Snapshot imports (`runtime/source_imports.py`, `etl/extract/connectors.py`) | landing files | run a tap, land its output, import it, delete what the snapshot misses | jobs, applier |
| Connector jobs (`etl/extract/sync_jobs.py`, `runtime/recurring_live_ingestion.py`, `scripts/run_gmail_pilot.py`) | `connector_states`, `connector_job_runs` | start, complete, fail, mark invalid, checkpoint, retry plan | wraps every import |
| Webhook backlog (`runtime/webhooks.py`) | `webhook_events`, raw payload files | enqueue, claim, apply, mark succeeded / failed / invalid | calls the applier with one change at a time |
| Source-change applier (`etl/load/*`, `governance/lifecycle.py`, `governance/indexing.py`) | `source_records`, `source_identities`, `canonical_objects`, `entity_links`, `retrieval_records`, `chunk_embeddings`, `source_lifecycle`, legacy e-mail tables, raw source files, audit events | `apply_source_changes` with `upsert`, `restore`, `restrict`, `delete`, `supersede`, `duplicate` | called by imports, webhook workers and operator commands; writes everything retrieval reads |
| Rebuild (`runtime/rebuild.py`) | none | rebuild canonical objects and links, rebuild units and vectors from `source_records` | the applier's tables |
| Retention and backups (`runtime/retention.py`, `governance/lifecycle.py`, `storage/raw_store.py`, `storage/postgres_backup.py`) | backup files | purge raw sources, webhook events, backups; dump, restore, drill | raw store, backlog, all tables |
| Orchestration (`deploy/dagster/definitions.py`) | sensor cursor, run keys, runs | hourly schedule, webhook sensor, `operator_live`, backfills | imports, backlog, rebuild |
| Search and augmentation (`retrieval/*`) | retrieval events | exact, fuzzy and vector search, merge, rerank, diversify, pack into a token budget, inspect | reads the applier's tables |
| Governed context (`governance/governed_context.py`, `permissions.py`, `identity.py`, `retrieval/evidence_pack.py`) | audit events | search under permissions, evidence pack | search |
| Operator reports (`runtime/dashboard.py`, `dagster_status`, `live-ingestion-status`) | none | counts, latest jobs, retries, alerts | jobs, runs |
| API and clients, evaluation, entity resolution, storage configuration, developer tools | none | formatting, offline metrics, pure functions | everything |

`PROJECT.json` lists every component with its status and every hazard with the
line where it bites.

What is hard here:

* `apply_source_changes` is a chain of a dozen commits without a transaction
  around them; a failure between two of them is never rolled back, and the only
  repair is to import again.
* The lifecycle table is read once per call and decided from later; imports,
  webhook workers, rebuilds and operators may run at the same time.
* A withdrawal is two transactions with file and audit writes in between.
* Several runs may work on the webhook backlog at a time, and nothing but the
  conditional `UPDATE` of a claim tells them apart. A run that dies leaves its
  events in `processing`, which nothing selects.
* A connector job is started in two transactions and settled in another one by
  programs that know nothing of each other and may die in between.
* Dagster drops a run request whose key it has seen, and the sensor's keys repeat.
* A snapshot is fetched page by page from a provider that changes meanwhile,
  landed in files that the next landing unlinks, and imported as the whole
  truth: what it lacks is deleted.
* Retrieval holds no transaction: one query makes eight reads or more, and what
  it may not show is decided by the first of them.
* Links are derived from the records of one import only; units from the records of
  an import, and every hour again from rows that keep less.
* The reports are assembled from many statements, and go by the outcome of the
  latest run, which other runs may have contradicted.

What makes each component correct, in one line each:

* Taps: a listed item is missing only if a limit cut its stream or it was changed
  meanwhile; a tap ends.
* Adapters and preparation: rows, links and units are what the payloads say, and
  nothing withdrawn is searchable.
* Applier: whatever fails, search serves only content the source row has, and
  only of sources without a hold; importing again repairs.
* Backlog: it is an inbox (`Inbox`): one key accepted once, applied at most once,
  settled as what happened.
* Connector jobs: one program at a time works on a connector; its checkpoint is
  the output of the latest success; a failed job is retried.
* Snapshot imports: a source is deleted only if the provider did not list it; an
  operator's hold outlives imports; the index comes to agree with the provider.
* Rebuild, retention, backups: a job that no writer meets leaves the index what
  the rows say, and the raw store what active sources need.
* Orchestration: no event is forgotten, what a working connector offers is served
  in the end, and a report of success is true.
* Search: nothing inactive or forbidden is returned but for what changed while
  the query ran; the budget holds.

## 2. The modules

| Module | What it is |
|---|---|
| `SourceChanges` | the applier, one action per commit |
| `WebhookBacklog` | delivery, claiming, applying, settling, retries, deaths, purge |
| `Inbox` | what the backlog promises; `WebhookBacklog` implements it |
| `WebhookDispatch` | extends `WebhookBacklog` with the Dagster sensor and the hourly job |
| `ConnectorJobs` | the job runs of one connector and the programs that make them |
| `Dashboard` | extends `ConnectorJobs` with the operator's reports on them |
| `SnapshotImport` | the hourly import of one stream, from the provider's pages to upserts and deletes |
| `Taps` | how the taps page through lists and trees that change |
| `Adapters` | payloads into source records, one operator per stream |
| `Preparation` | extends `Adapters`: records into holds, rows, links and units, by imports and rebuilds |
| `ServingIndex` | the tables readers and jobs meet, and a writer that stores and withdraws |
| `SearchRows` | extends `ServingIndex` with the exact and fuzzy text search |
| `Augmentation` | extends `SearchRows` with one retrieval query |
| `EvidenceSearch` | extends `SearchRows` with one governed search and its evidence pack |
| `Maintenance` | extends `ServingIndex` with rebuilds, purges, dumps and restores |
| `Pipeline` | the asset graph, its runs, and what the reports say of them |
| `MC...` | the small instance of each |
| `SourceChangesProofs`, `MaintenanceProofs`, `PipelineProofs`, `EvidenceSearchProofs`, `AugmentationProofs` | theorems about the module of that name |
| `WebhookBacklogProofs`, `ConnectorJobsProofs` | theorems about `WebhookBacklog` and `WebhookDispatch`, about `ConnectorJobs` and `Dashboard` |
| `ImportProofs` | theorems about `SnapshotImport`, `Taps` and `Preparation`, which therefore name things apart |
| `Null` | `Nil`, shared by the modules on imports |

How they compose. `SourceChanges` has the applier in full, commit by commit.
Every other module that meets the applier has it at the grain its question
needs: `ServingIndex` keeps the order of its commits and what they leave in the
tables that queries read; `Preparation` and `SnapshotImport` take one application
as one step; `WebhookBacklog` keeps that it succeeds or raises. `Pipeline` has an
import as two commits, and knows of a connector's sources their version only.

### SourceChanges

Each table is a function from source refs (or a set of refs, where only the
presence of rows matters), each local variable of `apply_source_changes` a
function from appliers.

| Variable | Code |
|---|---|
| `hold` | `source_lifecycle` |
| `row`, `identified` | `source_records`, `source_identities` |
| `object`, `links` | `canonical_objects`, `entity_links` |
| `unit` | `retrieval_records`; the units of a ref are always written together |
| `vector` | `chunk_embeddings` |
| `raw` | the raw source store |
| `emails` | the legacy e-mail tables, deleted from and never written |
| `audit` | the lifecycle audit events |
| `todo`, `known`, `pending` | the changes left, `lifecycle_state_by_ref`, `active_records` |
| `records`, `replaced`, `work` | what `_store_active_records` works on |

| Actions | Code |
|---|---|
| `Begin` | the one read of the lifecycle table |
| `UpsertRestoring`, `UpsertKeeping`, `WithdrawUpsert` | the branches of an upsert |
| `Restore`, `WithdrawSource` | the explicit changes |
| `DeleteRaw`, `RecordAudit`, `MarkInactive` | the rest of `_apply_inactive_change` after its first transaction |
| `FindReplaced`, `StoreRows`, `StoreObjects`, `StoreLinks`, `ReplaceUnits`, `ReplaceVectors` | the commits of `_store_active_records`, in its order |
| `DropRaw`, `ReadHolds`, `PutRaw`, `RawStored` | `_store_raw_source_records`, file by file |
| `DeleteEmails`, `Return`, `NothingToStore` | its end |
| `Abort` | an exception or the death of the process between two commits |

A transaction is one atomic action. This is what SQLite gives (one writer at a
time) and what the models assume of PostgreSQL; a read outside a transaction
(`Begin`, `FindReplaced`, `ReadHolds`) is an action of its own, so everything
that can happen between a read and its use does happen in the model. Contents
are model values: `v2` stands for a record with an explicit checksum, which
does not change with lifecycle and permissions, `v1` for one without.

`kind` of `MCSourceChanges` says which batches the applier meets: those about one
source under two refs, or those about two sources that a content links.

### WebhookBacklog, Inbox and WebhookDispatch

`row` is `webhook_events` (with `due` for the comparison of `next_retry_at`
with the clock), `landed` the raw payload store. A delivery is two actions,
`Receive` (the payload is landed) and `Insert` (the row, unless event id or
idempotency key is known). A run is `Select`, `Claim`, and for each event
`ApplyOk`, `ApplyError` or `PayloadError` followed by `MarkSucceeded`,
`MarkFailed` or `MarkInvalid`. `Crash` ends a run anywhere, `RetryDue` lets a
retry time come and `Purge` is `purge_expired_webhook_events` for one event.
`tries`, `done`, `purges` and `crashes` are history variables: no guard but the
bound of `Crash` reads them.

`Inbox` has neither attempts nor clocks nor runs: an event is absent, open,
applied, settled or stuck. `MailOf` maps a row to it: the two meanings of
`processing`, the run that holds the event has applied it or not, are told apart
by the state of that run, and `stuck` is an event whose run has died.
`BacklogIsInbox` says that each step of the backlog is one of the inbox or changes
nothing there. It holds of runs that do not overlap, which nothing in the code
enforces (section 5).

`SensorTick` is the body of `fourok_webhook_backlog_sensor` together with
Dagster's filter on run keys (`asked`); `SensorRun` is an asked run that starts,
`HourlyRun` the webhook asset of the hourly job. Dagster itself is not part of
the repository: that a run key is used once is modelled from how the sensor
relies on it. The sensor is stopped until an operator turns it on, and the module
assumes no more of it.

### ConnectorJobs and Dashboard

`jobs` is `connector_job_runs` for one connector in the order of its inserts,
`checkpoint` the row of `connector_states`, named by the job whose output it
is. A program (`run-imports`, `run-imports --retry-failed`, `_run_live_source`,
`_record_live_connector_success`, the Gmail pilot) goes through `Plan` or `Call`,
`ReadCheckpoint`, `Insert` or `Refused`, `Work`, and one of `Complete`, `Fail`
and `MarkInvalid`; `Die` ends it anywhere. `attempt`, `started`, `input` and
`mine` are its local variables. `users`, chosen once, are the programs that share
the connector: the Gmail import has its two timers, a live connector its backfill
and the Dagster run (which the backfill itself starts), the pilot a connector
of its own, which an operator's own call may share. The unique index on running
jobs is the guard of `Insert`. `calls` counts the job starts and is the clock of
`started_at`.

`Dashboard` adds `report`, the figures read so far and those still `todo`, and
`ended`, the jobs in the order of `finished_at`. `Ask` begins a report, `Read` is
one of its statements: the dashboard counts (`CountByStatus`) before it looks for
the latest failed job (`RetryVisibility`), operator-status looks for the latest
job (`LatestJob`) before it counts; `Alerts` are made of the counts.

### Taps and SnapshotImport

In `Taps`, `stamp` is where a provider lists an item and `parent` the folder of a
file; `Add`, `Unlist`, `Update` and `Move` are its users. `received`, `more`, `cursor` and
`turn` are the variables of a tap's loop. `LinearRequest` asks for one page of all three
streams at a time and goes on with cursors of streams that have ended;
`TwentyRequest` reads companies, then people; `DriveVisit` and `DriveRequest` walk
the folders breadth-first, with `pending` and `visited`; the folders are a `Forest` of any
depth, and no folder is moved below itself (`Ancestors`). What a page has is the set of its
`Entries`, `InOrder`. `LinearEnd`, `TwentyEnd`
and `DriveEnd` print what was read, and `Fail` prints nothing.

In `SnapshotImport`, `listing` is what the provider lists, by version (the number
of the edit), `event` the webhooks under way, `landing` the landing file of the
stream (a later line of a source replaces an earlier one when it is stored), `stored`
and `held` are `source_records` and `source_lifecycle`. A materialization is
`Start`, then the target's `Unlink` beside the tap's `Fetch`es, `Send` (the taps
print everything at their end), `Land` line by line, and the import's `Load`,
`ReadRows` and `Apply`; `TapFails` and `Die` end it early. `Apply` and `ApplyEvent`
are one call of the applier each. `Withdraw` and `Restore` are an operator. The
history variables `seen` and `order` are read by no guard but that of `Restore`:
`seen` holds what the provider listed since a run began, `order` the holds of an
operator. A source keeps its place among the pages while it is listed; what happens
when it does not is the question of `Taps`. `Limit` is `LINEAR_LIMIT` or
`TWENTY_LIMIT`. A run that loads needs its landing to have ended well, as the
asset dependencies have it.

### Adapters and Preparation

A payload of `Adapters` is a record of the fields that the adapters look at; what the
adapter of a stream does not look at is not there (`IsPayload`, `Flags`). Texts
are numbers of words, references the sequences of their parts. There is one operator
for each stream: `LinearUser`, `LinearIssue`, ..., and `RecordOf` picks the right
one; `LinearLifecycle`, `GmailText`, `EmailBody`, the permission refs and the like
are what they are made of. `Sent` is what a live tap leaves of a payload, `Complete`
says which payloads the adapter accepts and `LeftOut` which it skips.

In `Preparation`, `row`, `sum`, `hold`, `links` and `unit` are the tables, `report`
the counts an import prints. `Import` does to them what one call of the applier and
the stores behind it do, with `EntityLinks` for `entity_links_from_source_records`, `Windows` for
`chunk_text`, `Checksum` and `ImportCounts`; `Reject` is an import that a payload
ends. `Ingest`, `IngestSlack`, `ImportSnapshot`, `ImportFile` and `ImportLimited` are
the callers, who differ in what they delete (`MissingFrom`, `MissingFromFile`).
`Loaded` is what a loader makes of the payloads of a file or landing.
`RebuildLinks` and `RebuildUnits` derive everything again, from the rows. A source without a row has
`NoRow`. `sent`, `since`, `linked` and `full` are history variables: what the provider
sent last, when a row and a link were last stored, and the sources whose units an import
made.

### ServingIndex, SearchRows, Augmentation and EvidenceSearch

`ServingIndex` has one application (`BeginStore` or `BeginRestore`, `StoreRow`,
`StoreObjects`, `StoreLinks`, `StoreUnits`, `StoreVectors`) beside one withdrawal
(`Withdraw`, `MarkInactive`); `StopStore` and `StopWithdrawal` end them between two
commits. The content of a unit is part of it, so that a reader can be seen to show an
old one.

`SearchRows` has the statements of `search.py`: `Searchable` is their join of units
with rows, `Matching` those with a score above zero, `BestBy` their order,
`ExactRows` and `FuzzyRows` what they return. A row does not carry its
`unit_index`, and who reads it takes it for unit 0. A list that the code sorts is
`Ordered(S, order)`, the one list of `S` along a relation; `InOrder` and `InTurn` are
its two uses, refs by name and rows by position.

`Augmentation` is `retrieve_augmentation`, one action for each read: `SearchKeyword`,
`SearchFuzzy`, `SearchVector` with `MergeKeyword` and `MergeVector` behind them
(where rows are read), `Rank` (links are read), `MatchPersons`, `RelatePersons`,
`FindHints`, `RecordQuery`, `RecordResults`; `Raise` is an error in any of them, and
`Open` is `inspect_source`. `Merged` is reciprocal-rank fusion in millionths,
`Reranked` the default rules, `RankAndDiversify` two cards per source,
`SelectForTokenBudget` the packing.

`EvidenceSearch` is `GovernedContext.search_context`: `Begin` decides `denied` from
roles, groups and their inheritance (`ParentsWithin` is the loop over parents of
parents, `TransitiveRefs` what it ends with, `Permitted` the decision), `SearchExact`
and `SearchFuzzy` leave these refs out, `AuditSearch` and `AuditAccess` write the
events, `ReadRecords`, `ReadObjects` and `BuildPack` make the evidence pack from
three more reads (`Pack` with its related objects, which `RelatedSoFar` collects record by
record, its groups, entities and ambiguous persons).

### Maintenance

`job` is the next statement of the job that runs. `Start` is the read of a rebuild;
`DeleteAllUnits`, `InsertUnits` and `ReplaceVectors` are `rebuild_retrieval_units`,
`DeleteAllObjects`, `DeleteAllLinks`, `InsertObjects` and `InsertLinks`
`rebuild_context_objects`, `MakeIndex` and `IndexVectors` `build_vector_index`,
`ReadExpired`, `PurgeRaw` and `EndPurge` `purge_expired_raw_sources`. `Backup`,
`Drill`, `Restore` and `PurgeDump` are the dump and what is done with it.
`putting` is the raw-store step of the applier, which `ReadHolds` and `PutRaw` take
apart. `met`, `overlapped`, `cut` and `restored` are history variables by which the
invariants say when they hold.

### Pipeline

A run has the steps of its job `todo`, and `Needs` are the `deps` of the assets. `Land`,
`Import` (rows and units), `RecordSuccess` (the job row), `BuildObjects`, `ReadRows`
and `RebuildUnits` are the steps; `Fail` is one that raises, `End` the end of a run,
which skips what depends on a failed step and settles the job of a backfill, and
`Die` its death. `StartJob` is the schedule (or a launch through the API, which
selects every connector), `StartSensorJob`, `StartOperatorLive` and `StartBackfill`
the other runs, one of which shares the landing with the job. `job` and `latest` are what
`live-ingestion-status` and `dagster_status` answer; `HourPasses` makes them stale.

## 3. The runs

| Run | Checks | Shows |
|---|---|---|
| `serial_apply` | `UnitsMatchRows`, `CompletedStoreRepairs`, `QuietConsistency`, `LinksJoinObjects`, `OneRowPerSource`, `PublishedByNewUnits`, `ImportsKeepOperatorHolds` | one applier, two failures anywhere: search never serves an earlier content, a completed import repairs what failures left, only an explicit restore lifts an operator's hold |
| `one_worker` | `AttemptsBounded`, `StatusIsHistory`, `StrandedByCrashes`, `OvertakesOnlyRetries`, `BacklogIsInbox` | one run at a time over redelivered, malformed, record-less and failing events, one death, the purge: the backlog implements `Inbox`, only deaths strand events |
| `dispatch` | `FreshWorkIsAskedFor`, `NoEventLeftPending` | sensor and hourly job together forget no event, although a run dies; the sensor alone asks for work that was never tried |
| `connector_jobs` | `ReportsAgree`, `CheckpointIsLatestSuccess`, `BlockedByDeaths`, `EventuallyRetried` | four kinds of connector, three calls, one death, and reports read in between |
| `snapshot_import` | `SnapshotIsRecent`, `OrdersOutliveImports`, `EventuallyMirrors` | two sources, two edits, one order of an operator, one failure or death anywhere |
| `taps` | `StreamsAreWhole`, `TapEnds` | the three taps beside two changes of any kind: what they miss or send twice was changed or cut off |
| `preparation` | `LinksFollowSources`, `UnitsCoverText`, `HiddenStaysHidden`, `RowsAreAccountedFor` | any three imports and rebuilds over 23 payloads: which links are missing and when, that gone sources have no units, that the counts are true |
| `augmentation` | `UnseenOnlyByVector`, `SerialIndexServesActive`, `PackedWithinBudget` | a query over an index that two writes change between any two reads |
| `evidence_search` | `PackIsVisible`, `DeniedOnlyWhenChanged`, `FoundWhenPermitted` | a governed search beside two writes: nothing forbidden but what changed meanwhile, and nothing permitted left out |
| `maintenance` | `SearchableIsCurrent`, `WithdrawnStaysUnindexed`, `RawBehindActive`, `RebuildRepairs` | two jobs, a write, dumps and restores, with deaths anywhere |
| `pipeline` | `ReportsAreTrue`, `EventuallyServed`, `FreshAgain` | one working and one broken connector, a second run, one fault |
| `lossy_rebuild` | violates `RebuildsEveryUnit` | the finding |

The type invariants of the modules that have theorems are proved rather than run.

Bounds, and why they are enough:

* **serial_apply.** The applier treats refs independently except for three
  relations: two refs of one source identity (a rename), a link from one ref to
  another, and several changes in one call. The first kind of batches has two refs of one
  identity, the second a link to a third ref; both hold every operation, restricting
  and lifting permissions, and two changes in one call. A third ref of the
  identity or a longer batch repeats these. `MaxAborts` is 2: a repair can fail, too.
* **one_worker, dispatch.** Three events, two of which share a key, with `Limit = 1`
  make runs leave events behind and order matter; `Limit = 2` lets a run hold an event
  while it works on another, and die over both. Three deliveries allow each
  redelivery: same id, same key under another id, after the purge. `MaxAttempts` 2 has
  a first and a last attempt. In `dispatch` all payloads are good and may raise.
* **connector_jobs.** `MaxCalls` 3 with `MaxAttempts` 2 allows a failure, the one
  retry, and a call of another program before, between or after.
* **snapshot_import.** Two pages let the provider change between two fetches; two
  edits let a source come and go beside one import, and one of them come late
  through a webhook. `Limit` is 2, which cuts nothing off. `MaxOrders` 1 is one order
  that may meet any state of a run, and be restored.
* **taps.** Pages of one item make every request meet every change; the limit of 3 cuts
  Linear's issues off when a fourth page would come. Two changes move an item out of
  the pages to come and put another one in; a folder can move below another. One file
  and two folders have every case of a file that is missed or found twice.
* **preparation.** Three steps are an import, another one that changes what the first
  stored, and a rebuild, in any order. Batches hold three payloads at most (`MaxBatch`), the most
  a link is derived from (an issue, a comment and its author). Windows of four
  words with one of overlap are met by texts of 0 to 9 words, so that texts end within,
  at, and just after a window.
* **augmentation, evidence_search.** Two writes: a withdrawal and a store that overlap
  it, or a store that follows another one. A document with two contents, one of them of two
  units, makes diversification and the packing of several cards matter; a candidate
  limit of 5 leaves the fuzzy rows room, a budget of 4 holds some cards and not all. The
  groups inherit from each other in a cycle.
* **maintenance.** One write and two jobs, restores among them: a rebuild that meets
  the write or is cut and one that repairs, a purge and a restore, or either of these
  and a rebuild. One source is stored at the beginning (`Initially`), so that a dump
  may lack the one that the write stores.
* **pipeline.** One connector that works and one that never lands; one run besides
  the job, so that a backfill, the sensor's or `operator_live` overlaps it; one edit,
  one fault. Backfills are called with `--verify-live-db`: without it
  `ReportsAreTrue` does not hold (section 5).
* `MaxDeliveries`, `MaxCrashes`, `MaxDeaths`, `MaxFailures`, `MaxEdits`, `MaxChanges`,
  `MaxWrites`, `MaxJobs`, `MaxSteps`, `MaxVersion` and `MaxFaults` bound the environment only.

`CHECK_DEADLOCK FALSE` is said where the bounded system has nothing left to do:
all deliveries used up and settled (`one_worker`, `dispatch`), all calls made
(`connector_jobs`), the tap ended and the changes made (`taps`), all steps taken
(`preparation`). The others are checked never to stop.

## 4. Fairness

`DispatchSpec` does not assume that runs start: it assumes that an asked run starts, a
run that started goes on, retry times come, and that the hourly schedule starts its
job, which its default status is. The sensor's default status is stopped, so
`NoEventLeftPending` rests on the hourly job alone.

`Fairness` of the jobs assumes that a program that runs goes on, that backoff
windows pass, and that the retry timer (`deploy/systemd`, every ten minutes)
starts a retry that stays due. It does not assume that imports succeed or that
programs do not die. `EventuallyRetried` ends when the calls are used up. Nothing
is assumed of the reports.

`FairSpec` of the imports assumes that the hourly schedule starts imports and that a
run that is under way goes on. Nothing is assumed of webhooks and operators:
`EventuallyMirrors` holds although events may never be applied, or be applied late and
again. It holds of a provider that rests and of finitely many failures, which is what
`MaxEdits` and `MaxFailures` make them.

`TapSpec` assumes that a tap goes on reading; a request may fail at any
point. The bound on changes stands for a provider that does not change faster than
it is read for ever: one that adds an item for every page would keep Drive's tap,
which has no limit, from ending.

`FairSpec` of the pipeline assumes that the schedule starts its job and that runs
that are under way go on. Backfills, the sensor and `operator_live` need never start,
faults are finitely many (a backfill whose count check failed for ever would never
be fresh), and a broken connector stays broken.

All of it is weak fairness: each of these stays enabled until it happens or
another run has done the work.

## 5. Findings

**Lossy rebuild** (`lossy_rebuild`). `source_records` keep the body of a record and
not the text of its attachments (`source_metadata.py:106`); the hourly rebuild
deletes every unit and prepares them again from these rows (`rebuild.py:136`). What an
import indexed of attachments is gone after the next rebuild, although
`docs/architecture.md:17-20` says that source records are truth and retrieval units
are "derived and rebuildable".

More sequences that contradict a document or surprise, and have no run of their
own. They follow from the code; several delimit a property above.

Applier and backlog:

* An upsert that read the lifecycle table before an operator restricted the
  source lifts the operator's hold, because `_restore_source` deletes the row
  whatever it says by then (`source_changes.py:91`, `98`; `docs/contracts.md:134`).
  `ImportsKeepOperatorHolds` holds of one applier and is violated with two.
* A withdrawal that fails between its two transactions (`source_changes.py:255`)
  leaves a held source searchable until something imports or withdraws it again
  (`docs/contracts.md:138`, `144`). `QuietConsistency` leaves such sources out.
* A call that upserts one source twice, first with a restricting permission
  snapshot and then without, ends with a hold on an active, searchable source
  (`source_changes.py:118`).
* A restricted source that is upserted again gets back the entity links its
  withdrawal deleted (`source_changes.py:181`, `271`); a source that arrives under
  a new ref leaves the canonical object of the old one behind (`176`;
  `docs/contracts.md:144`). `CompletedStoreRepairs` says nothing of such objects.
* Two backlog runs that select the same events both apply them; the conditional
  `UPDATE` changes nothing for the second, which goes on, beyond `max_attempts`
  (`webhooks.py:170`; `docs/contracts.md:172-174`). `AttemptsBounded` and
  `BacklogIsInbox` are of runs that do not overlap.
* A redelivery of a known event id overwrites the raw payload of the original
  (`webhooks.py:54`; `docs/contracts.md:167`).
* An upsert or restore without a record raises an ordinary error, is retried
  and ends `failed`, where `docs/contracts.md:174` makes payload errors
  `invalid` at once (`webhooks.py:192`, `source_changes.py:95`).
* Once the backlog was longer than a run's limit, the sensor's run key can repeat and
  the sensor stay silent over fresh events (`definitions.py:705`;
  `docs/operations.md:143`). `FreshWorkIsAskedFor` is of a limit that was never
  exceeded; the hourly job takes the tail.

Imports, taps and adapters:

* The Linear and Twenty taps stop at 1000 records unless told otherwise and report
  nothing (`linear_tap.py:56`, `twenty_tap.py:134-154`); the import takes what is
  missing for removed and deletes it (`definitions.py:500`). The command line skips
  deletes when it limits (`import_helpers.py:217`).
* The delete of an import replaces an operator's hold by its own
  (`source_imports.py:146`), which the next upsert that lists the source lifts
  (`docs/contracts.md:134`, `136`).
* The import of a snapshot file deletes by source system
  (`import_helpers.py:329-345`), the hourly import by system and record type: a file
  that holds one Linear project deletes all live issues until the next hourly import.
* An issue that is edited while the tap pages by `updatedAt`, and a file whose folder
  is moved to where the walk has been, are missing from the snapshot, and deleted
  until the next import.
* Two materializations of one connector share its landing directory
  (`connectors.py:72`; `docs/internal-prod.md:481`): an hourly run and a manual one that overlap
  can overwrite newer rows with an older landing, or import an emptied one.
* The landing deletes the old files before it reads the new messages
  (`connectors.py:69-85`): bad tap output leaves an empty or partial landing.
* A source withdrawn for its own lifecycle is not restored by a later active import
  (`docs/contracts.md:134`); an identical import of a held source is counted
  "changed" each time, a source that comes back as it was "unchanged"
  (`import_helpers.py:44-72`).
* Empty permission refs mean open to all, and a Linear issue without a team has none.
* `author_ref` and `thread_ref` of Slack messages match no record
  (`docs/architecture.md:145-149`).

Jobs and reports:

* A retry is planned from jobs read earlier and starts although another program
  has succeeded meanwhile (`import_helpers.py:99`, `run_gmail_pilot.py:101`;
  `docs/operations.md:1061`).
* `run-live-ingestion` without `--verify-live-db`, which is the default, imports into a
  database of its own and yet records that the connector is fresh
  (`recurring_live_ingestion.py:123-137`; `docs/operations.md:108-125`). With
  `VerifyLiveDb = FALSE`, `FreshMeansImported` fails.
* With it, `_verify_live_db_changed` fails a backfill whose counts shrank although
  what it imported is committed.
* operator-status sorts the jobs by `finished_at`, so that a job left running by a
  death is not shown once any job has ended; live-ingestion-status sorts by
  `started_at` and shows it. No alert is raised for stranded events or blocked
  connectors, while one failed job raises one for ever.
* `_count_by(entity_links, "relationship")` (`definitions.py:378`) and the query of
  `metrics_exporter.py:284` name a column that is called `relationship_type`.

Retrieval and jobs on the index:

* Rows that are stored after the permissions of a search were read may show content
  the principal may not see (`source_metadata.py:307`); `DeniedOnlyWhenChanged`
  says that this is the only way.
* Retrieval result events have the key of event and source, while an answer may
  show two cards of one source: then none of its results is recorded
  (`augmentation.py:1422`, `1439`).
* The people of a retrieval answer include withdrawn persons (`augmentation.py:590`;
  `docs/internal-prod.md:479`); `SerialIndexServesActive` leaves them out.
* A rebuild, `build_vector_index` or purge that meets an application brings back what it
  read before: units of withdrawn sources, links, or a raw store without an active
  source's file. A dump made amid a withdrawal restores a searchable held source.
* Links are derived within one import and old ones never taken back before the next
  rebuild (`context_objects.py:124`), which derives those of withdrawn sources, too.
* Embeddings of other dimensions drop every vector when an index is made
  (`vector_search.py:105-120`).

## 6. Proofs

`tlapm` checks these for every value of the constants that satisfies the
assumptions of the modules:

| Theorem | Assumes besides | States |
|---|---|---|
| **the applier** | | |
| `TypeCorrect` | | `Spec => []TypeOK` |
| `UnitsAlwaysMatchRows` | one applier; one identity per ref | `Spec => []UnitsMatchRows` |
| `AlwaysOneRowPerSource` | | `Spec => []OneRowPerSource` |
| `LiftingPublishesNothing` | | `Spec => LiftedHoldStaysHidden` |
| `SerialImportsKeepOperatorHolds` | one applier | `Spec => ImportsKeepOperatorHolds` |
| `LinksAlwaysJoinObjects` | | `Spec => []LinksJoinObjects` |
| `ImportsRepair` | one applier; batches agree | `Spec => []CompletedStoreRepairs` |
| `OnlyNewUnitsPublish` | one applier; one identity per ref; batches agree | `Spec => PublishedByNewUnits` |
| `QuietIsConsistent` | the same, and a raw store | `Spec => []QuietConsistency` |
| **the backlog** | | |
| `BacklogTypeCorrect` | | `Spec => []TypeOK` |
| `SerialRunsBoundAttempts` | one worker | `Spec => []AttemptsBounded` |
| `OnlyCrashesStrand` | | `Spec => []StrandedByCrashes` |
| `SettledAsItHappened` | one worker | `Spec => []StatusIsHistory` |
| `FirstAttemptsInOrder` | one worker, one sender | `Spec => OvertakesOnlyRetries` |
| `BacklogImplementsInbox` | one worker | `Spec => BacklogIsInbox` |
| `SensorAsksForFreshWork` | one worker, one sender; finitely many events | `DispatchSpec => []FreshWorkIsAskedFor` |
| **connector jobs and reports** | | |
| `JobsTypeCorrect` | | `Spec => []TypeOK` |
| `NeverTwoAtWork` | | `Spec => []OneAtWork` |
| `CheckpointFollowsSuccess` | | `Spec => []CheckpointIsLatestSuccess` |
| `OnlyDeathsBlock` | | `Spec => []BlockedByDeaths` |
| `ReportsNeverDisagree` | | `ReportSpec => []ReportsAgree` |
| **snapshot imports** | | |
| `SnapshotTypeCorrect` | | `SnapshotSpec => []TypeOK` |
| `SnapshotsAreRecent` | one run, nothing cut off | `SnapshotSpec => []SnapshotIsRecent` |
| `OrdersAlwaysOutliveImports` | one run, nothing cut off | `SnapshotSpec => []OrdersOutliveImports` |
| **taps** | | |
| `TapsSendTheWhole` | | `TapSpec => []StreamsAreWhole` |
| **records, links and units** | | |
| `RowsAlwaysAccountedFor` | | `Spec => RowsAreAccountedFor` |
| `LinksAlwaysFollowSources` | | `Spec => []LinksFollowSources` |
| `UnitsAlwaysCover` | | `Spec => []UnitsCoverText` |
| `HiddenAlwaysHidden` | | `Spec => []HiddenStaysHidden` |
| **rebuilds, purges, backups** | | |
| `TypeCorrect` | | `Spec => []TypeInv` |
| `SearchFindsCurrent` | | `Spec => []SearchableIsCurrent` |
| `WithdrawalsLast` | | `Spec => []WithdrawnStaysUnindexed` |
| `ActiveKeepRaw` | | `Spec => []RawBehindActive` |
| `RebuildsRepair` | | `Spec => RebuildRepairs` |
| **governed search** | | |
| `PrincipalHasInherited` | | `TransitiveRefs` is the least set with the principal's refs and all they inherit |
| `PacksAreVisible` | | `Spec => []PackIsVisible` |
| `DenialsHold` | | `Spec => []DeniedOnlyWhenChanged` |
| `PermittedIsFound` | | `Spec => []FoundWhenPermitted` |
| **the retrieval** | | |
| `UnseenComeFromVectors` | | `Spec => []UnseenOnlyByVector` |
| `CalmQueriesAreCurrent` | | `Spec => []SerialIndexServesActive` |
| `AnswersArePacked` | | `Spec => []PackedWithinBudget` |
| **the asset graph** | | |
| `RunsFollowTheGraph` | | `FairSpec => [](TypeOK /\ WithinGraph)` |
| `OkIsServed` | | `FairSpec => []OkMeansServed` |
| `ReportsTrue` | `--verify-live-db` | `FairSpec => []ReportsAreTrue` |

Every safety invariant and action property of the passing runs is among them, so that
what the runs show on small instances holds of all. The type invariants, `OneAtWork`, `LiftedHoldStaysHidden`, `RunsFollowTheGraph`,
`OkMeansServed` and `PrincipalHasInherited` are not among the runs' properties: the
theorems have them for every instance.

What is assumed. The second column lists hypotheses of the theorems (`OneApplier`,
`OneWorker`, `OneSender`, `OneRun`, `NothingCutOff`, `VerifyLiveDb`, `Agreeing`,
batches within `ChangesOf(source)`). The sequences of section 5 on overlapping
applications, backlog runs and materializations, on truncated snapshots and on
backfills into other databases show that the properties fail without them. The
rest is what the callers do:

* *One identity per ref* (`ChangesOf(source)`): every connector makes the ref from the
  source id. A record is compared with the previous rows of its source identity
  only, so a ref that changed it would keep its old units.
* *Batches agree* (`Agreeing`): an import sends upserts followed by deletes of refs that
  are not among them (`source_imports.py:69-76`, `import_helpers.py:309`); webhooks and
  operators send one change (`webhooks.py:194`, `context.py:233-246`). A snapshot that has
  a source twice has it in the same state twice; section 5 tells what a call does that
  upserts a source restricted first and unrestricted afterwards.
* *A raw store* (`Appliers \subseteq RawAppliers`): without one a call leaves the raw files
  as they are.
* *Ids are unique* (`IdsAreUnique` of `Preparation`): `source_metadata.py:139-161` looks for
  the previous rows of a source by source system and source id, and replaces those of
  another ref. Providers give no id twice within a system; of Gmail's messages, which a
  file may have as an API message and as a flat record, nothing is assumed, and
  `RowsAreAccountedFor` leaves their replacement out.
* *Payloads are their stream's* (`IsPayload`): numbers of words are natural numbers, and a
  payload sets only flags, lifecycles and permissions that the adapter of its stream
  looks at. A flag that no adapter looks at says nothing that a row could follow.
* *Windows advance* (`MaxWords > OverlapWords`): `config.py:123` and `embeddings.py:30` refuse
  anything else.

The modules assume of their constants that they are of the right kind and that
`Nil` is none of the records it stands in for (`NilIsNoRow`, `NilIsNoRawStep`,
`NilIsNoRun`, ...). `ServingIndex` assumes that links join refs, the search modules that
there are finitely many refs, pieces of text and inheritances.

Inductive invariants, and why the property alone is not inductive:

* `TypeInv` of the applier adds to `TypeOK` that an applier inside a withdrawal
  still has the change it withdraws (`Withdrawing`), and that the raw-store loop
  only holds refs of records being stored (`Putting`): otherwise `Head` and
  `RecordFor` are applied outside their domain.
* `UnitsInv` adds what a single applier knows between storing its rows and
  replacing the units: the rows of its records carry their checksums
  (`RowsStored`), and there is one record of each ref (`OneRecordPerRef`).
  `IdentitiesKept` carries the assumption on source identities through `todo`,
  `pending`, `records` and `row`.
* `KnownIsHeld`: what a single applier remembers of the lifecycle table is what
  the table says, so the reason it decided on is the reason it lifts.
* `LinksInv` adds that an applier about to store links has the objects of all
  its records stored (`ObjectsFirst`). Objects are never deleted, so this
  survives whatever another applier does in between.
* `RepairInv` follows a call from its first change to its end. While it goes through
  the changes, the records collected agree with the lifecycle table (`Fits`), the changes to
  come meet the hold they expect (`Foreseen`), and none of them undoes what a collected
  record says (`SameOutcome`); while it stores them, every commit behind it has left its
  table as the records say (`Stored`). At the end that is `CompletedStoreRepairs`.
* `HeldOrHidden`: a row that is not active has current units only as long as it is held,
  so that neither lifting a hold nor storing a row publishes anything.
* `QuietInv` says what is settled while a call is under way: everything it has not begun to
  change (`Flux`); it carries the raw store file by file (`Files`) and the audit events of
  every hold but that of the withdrawal under way (`Withdrawn`).
* `TypeInv` of the backlog adds `Busy`: a run that is not idle has an event
  left, so `Current` exists; the least natural number below a bound is proved
  to exist first (`LeastNatural`).
* `AttemptsInv` counts: an event was tried at most as often as its row and its
  purges account for, and once less while the run under way still owes the
  attempt it counted (`TriesCounted`, `Owed`); the row of a claimed event says
  what the run believes (`ClaimsMatchRows`); a pending row has an attempt left
  (`AttemptsLeft`).
* `StrandedInv` adds that rows are finitely many and that a run holds `Limit` of them at
  most (`FewRows`): the cardinality of what a death strands is bounded by that.
* `HistoryInv` ties the history of an event to its row and to the run that holds it, status
  by status (`HistoryOf`), of events that were never purged.
* `OrderInv`: rows were received in the order of their inserts (`ReceivedInOrder`), what was
  never taken up is pending and due (`FreshIsDue`), and no such event is older than one a
  run holds (`HeldAreFirst`). `DispatchInv` adds that a tried pending event is older than
  all fresh ones (`TriedAreOlder`), so that the last of the pending ones, which the run key
  names, is fresh if any is; and that a key that was used has its run still to come or its
  event tried (`AskedFor`).
* The refinement of `Inbox` needs no more than `AttemptsInv`: each action is shown to move
  one event from place to place (`PlacesOfRows`, `MailOf`) or none.
* `JobsInv` joins the three job properties, which need one another, with what the
  index does not say by itself: a running job is the one inserted last
  (`RunningIsLast`), so jobs end in the order of their inserts and a success is
  later than every earlier one; whoever is at work has a running job
  (`WorkersRun`); whoever inserts has taken the time (`Stamped`).
* `ReportInv` says of every figure already read what stays true of it while programs go on
  (`AlertHolds`, `LatestHolds`, ...): no step takes a job away or changes one that has
  ended (`Kept`). That is why it matters that the latest job is read before the counts.
* `SnapshotInv` follows a version from the provider to the import: what is
  listed has been seen (`ListingIsSeen`), what was fetched from the pages so far
  was seen, and the files are empty once the target has cleaned them
  (`FetchedIsSeen`), what is written is what was fetched (`LandedIsFetched`). That
  the tap never stops at the limit needs `got < page <= Pages <= Limit`.
* `OrdersInv` says why an order is safe: a restriction because every run under way
  has seen the source listed only, so its snapshot has it and its deletes do not;
  a deletion because no run has decided to delete the source (`OrdersAreSafe`,
  `DoomedAreMissing`).
* `TapsInv` says of every stream where its cursor is: what nobody changed and the cursor has
  passed was read, what was read it has passed (`IsPaged`), so nothing is read twice. Of Drive
  it says that what nobody changed and is in a visited folder was taken or is still to come on
  the pages of the folder at hand (`DriveInv`); at the end no folder is at hand or
  pending, and along its `Ancestors` an item that nobody moved is found from the root.
  That a page has the next items and no others is a lemma on `InOrder` (`InOrderIs`): the
  items of a finite set with different stamps have the places 1 to its size.
* `PrepInv` of the preparation says of every source what its row, its sum, its hold and its
  units have to do with the payload sent last. A row is of its own ref (`RowsAreTheirs`); it
  has the hold that the lifecycle table has, so that what is held is not active
  (`HoldsAreInRows`); an active row is of a payload that says nothing to the contrary
  (`ActiveAreSent`); units are those of an active row, with the attachments if an import
  made them (`UnitsAreOfRows`); a row is what its checksum says unless it was missing since
  or is a PDF file's, whose checksum is that of its content (`RowsAreSummed`). What a record says of its payload is a lemma for each stream
  (`LinearUserSpeaks` to `SnapshotCommentSpeaks`, joined by `RecordsSpeak`).
* `LinkInv` adds to this and to the property itself that nothing is newer than the steps
  taken (`StepsAreCounted`) and that a link has the key of what it joins and is of known
  sources (`LinksAreKept`). The step that
  matters is an import: a link of its records is derivable exactly if it holds of them
  (`LinksHold`, `LinksAreFound`), of two links with one key the later one stays
  (`DedupedKeys`), and none of a row that the import left alone is touched (`StillLinked`).
* `SearchInv` of the jobs: as long as no job has met a write, what a job has read is still
  there (`ReadIsThere`), and the tables *and* the dump are of current content: a restore
  brings the dump back. `HeldInv` says the same of held sources, but for the one whose
  withdrawal has run its first transaction only (`ClearButDropping`); `RawInv` has the
  application that still has to put its raw object. `RebuildInv` states what each statement
  of a rebuild leaves. Its proof showed a case that the run's old instance did not
  reach: a backup restored into an application leaves units and vectors of a source that has
  no row, and a rebuild does not look for these vectors. `RebuildRepairs` says so now, and
  the run reaches it.
* `WithinGraph` says that a run goes through the steps of its kind in the order of the
  `deps`; `Overlaps` that runs that meet both know it. As long as no other import meets it,
  what a run has imported is stored (`ImportsStay`), and served if none meets it at
  all (`ImportsServed`, which includes what `RebuildUnits` has read). `FreshInv` and `OkInv`
  say that runs under way began later than the one a report goes by, so
  that they cannot take back what it promises.
* `EvidenceInv`: rows are of their ref and units of their row's content (`IndexInv`);
  `denied` is right of every source that was not written since (`DeniedInv`); what is active
  was active at some time since the search began (`LiveInv`); the records read are such and
  not denied (`RecordsInv`); while a list has room left, every unchanged unit that the
  principal may read is in it (`RoomInv`).
* `AugInv` follows a card from the row that made it to the answer. What a query has merged
  and ranked so far was live if a keyword row is among its retrievers (`Traced`); while
  nothing was written since the query began, it is of an active source with its present
  text (`Current`). That rests on the index alone: as long as writes come one after
  another, vectors are of active sources but for those of the one source whose application
  has stored its row and not its vectors yet (`CalmInv`), which two overlapping writes
  or one that is cut short break.

Loops and sorted lists are recursive functions in the model; what a proof needs of them is
stated once. `BoundedInduction` is induction up to a bound, from the least number at
which a claim fails; `RecursiveSequence` says that a recursion over `1..N` has values and
follows its equation; `Ranks` and `Listed` that a finite set with a linear order has exactly
one list along it. With these `PrincipalHasInherited` shows that the loop over parents of
parents ends with all of them, cycles or not, and `MergedAllIs`, `HintsAre` and `TokensIs`
say what the loops of the retrieval keep. `SelectionIs` shows that a first card that does
not fit exists or all of them fit, so that `SelectForTokenBudget` chooses something.
`TotalIsNatural` is about the fold that adds the words of parts and attachments, and
`WindowsCover` about the windows of a text: they begin at the multiples of a positive number
(`Strides`), one of them is the first to reach the end, and those up to it cover every word.
`AugmentationProofs` states the lemmas on lists and on the index once more, about its own
variables.

Only model-checked are the liveness properties: `EventuallyRetried`, `NoEventLeftPending`,
`EventuallyMirrors`, `TapEnds`, `EventuallyServed` and `FreshAgain`. They rest on fairness
and `ENABLED`, which are beyond the prover.

## 7. Not modelled

* **Entity resolution** is a pure function that only an evaluation script calls.
* **Retrieval API and clients** format requests and answers; what they keep out (a
  limit below one) is a guard of `EvidenceSearch`.
* **Retrieval evaluation** computes metrics over fixed cases.
* **Storage configuration and health** read the environment and probe.
* **Developer tools** other than `dagster_status` are scripts around the runtime.
* The **Slack tap** is third-party, the fixture tap and the text extraction from PDF
  files are not modelled; neither are the metrics exporter and the contract checks,
  which keep no state.

Left out of the modelled components: the wording and fields of audit events, what
units contain beyond the text they were made from, the text measures behind scores
(the instances give the scores), the clock (retry times, retention periods and stale
windows simply pass), authentication of deliveries, the embedding service (it
answers or raises), what `pg_dump` does besides copying tables, and PostgreSQL's
isolation below serializable: a transaction is one action, a read outside one an
action of its own.

## 8. Plan

The safety of every module is proved. What a next step could add:

* the parts of section 7 that keep no state, should they come to: entity resolution
  once the runtime calls it, the metrics exporter once a report depends on it;
* PostgreSQL below serializable for the transactions of the applier that read what
  they write (`source_metadata.py:138-161` reads the previous rows inside one);
* the Slack tap, if it comes into the repository.
