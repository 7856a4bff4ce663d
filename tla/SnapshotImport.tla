---------------------------- MODULE SnapshotImport ----------------------------
(***************************************************************************)
(* The hourly import of one connector stream (deploy/dagster/definitions,  *)
(* etl/extract/connectors, runtime/source_imports): a tap fetches page by  *)
(* page what the provider lists, a target lands it record by record, and   *)
(* the import upserts what was landed and deletes what the snapshot        *)
(* misses.  The provider, webhooks and an operator go on meanwhile.        *)
(* SourceChanges has the details of one application; here it is one step.  *)
(***************************************************************************)
EXTENDS Null, Naturals

CONSTANTS
    Listable,     \* sources of the stream
    Pages,        \* number of pages
    RefOn,        \* RefOn[i]: the source on page i, whether it is listed or not
    Runs,         \* materializations under way at a time
    Limit,        \* records the tap fetches at most
    MaxEdits,     \* bound on the provider's changes
    MaxOrders,    \* bound on the operator's holds
    MaxFailures   \* bound on failed taps and deaths

ASSUME SnapshotAssumption ==
    /\ Pages \in Nat /\ RefOn \in [1..Pages -> Listable]
    /\ \A r \in Listable : \E i \in 1..Pages : RefOn[i] = r
    /\ \A i, j \in 1..Pages : RefOn[i] = RefOn[j] => i = j
    /\ Limit \in Nat /\ MaxEdits \in Nat /\ MaxOrders \in Nat /\ MaxFailures \in Nat
    /\ Nil \notin Nat

\* A version is the number of the edit it is from; Nil where there is none.
Versions == 0..MaxEdits
Listing == [Listable -> Versions \union {Nil}]

VARIABLES
    listing,   \* what the provider lists
    edits,     \* its changes so far
    landing,   \* the landing files: the last line of each source
    stored,    \* source_records
    held,      \* source_lifecycle: "missing" (deleted by an import), or what an
               \* operator made it, "restricted" or "deleted"
    event,     \* webhook events that are not applied yet
    orders,    \* the operator's holds so far
    pc,        \* where each run is
    page,      \* the next page of its tap
    got,       \* how many records the tap has
    fetched,   \* which ones
    cleaned,   \* whether its target has unlinked the files
    left,      \* what the target has not written yet
    loaded,    \* what the import read from the landing files
    doomed,    \* what it is to delete
    failures,  \* failed taps and deaths so far
    seen,      \* history: what was listed since the run began
    order      \* history: the operator's holds that stand, and those an import
               \* of a snapshot without the source may have replaced

index == <<stored, held>>
provider == <<listing, edits, event>>
locals == <<pc, page, got, fetched, cleaned, left, loaded, doomed>>
snapshotVars == <<provider, landing, index, orders, locals, failures, seen, order>>

Empty == [r \in Listable |-> Nil]

SnapshotInit ==
    /\ listing \in [Listable -> {0, Nil}]
    /\ edits = 0
    /\ landing = Empty /\ stored = Empty /\ held = Empty /\ event = Empty
    /\ orders = 0
    /\ pc = [i \in Runs |-> "idle"]
    /\ page = [i \in Runs |-> 1]
    /\ got = [i \in Runs |-> 0]
    /\ fetched = [i \in Runs |-> Empty]
    /\ cleaned = [i \in Runs |-> FALSE]
    /\ left = [i \in Runs |-> {}]
    /\ loaded = [i \in Runs |-> Empty]
    /\ doomed = [i \in Runs |-> {}]
    /\ failures = 0
    /\ seen = [i \in Runs |-> [r \in Listable |-> {}]]
    /\ order = [r \in Listable |-> "none"]

Goto(i, from, to) == pc[i] = from /\ pc' = [pc EXCEPT ![i] = to]

Active == {i \in Runs : pc[i] # "idle"}

\* A run that ends, well or not, forgets what it knew.
Forget(i) ==
    /\ page' = [page EXCEPT ![i] = 1]
    /\ got' = [got EXCEPT ![i] = 0]
    /\ fetched' = [fetched EXCEPT ![i] = Empty]
    /\ cleaned' = [cleaned EXCEPT ![i] = FALSE]
    /\ left' = [left EXCEPT ![i] = {}]
    /\ loaded' = [loaded EXCEPT ![i] = Empty]
    /\ doomed' = [doomed EXCEPT ![i] = {}]
    /\ seen' = [seen EXCEPT ![i] = [r \in Listable |-> {}]]

-----------------------------------------------------------------------------
(* The provider, webhooks and the operator *)

\* A source is created, edited or removed.
Edit(r) ==
    /\ edits < MaxEdits
    /\ edits' = edits + 1
    /\ \/ listing' = [listing EXCEPT ![r] = edits + 1]
       \/ listing[r] # Nil /\ listing' = [listing EXCEPT ![r] = Nil]
    /\ seen' = [i \in Runs |-> IF i \in Active
                               THEN [seen[i] EXCEPT ![r] = @ \union {listing'[r]}]
                               ELSE seen[i]]
    /\ order' = IF listing'[r] = Nil /\ order[r] = "stands" /\ held[r] = "restricted"
                THEN [order EXCEPT ![r] = "excused"] ELSE order
    /\ UNCHANGED <<event, landing, index, orders, locals, failures>>

\* Mutant: an upsert lifts every hold.
LiftedMutant(r) == held[r] # Nil

\* _should_restore_from_active_import
Lifted(r) == held[r] = "missing"

\* The upserts and deletes of one application, as far as rows and holds go.
Store(upserted, deleted, version) ==
    /\ stored' = [r \in Listable |-> IF r \in upserted THEN version[r] ELSE stored[r]]
    /\ held' = [r \in Listable |-> IF r \in deleted THEN "missing"
                                   ELSE IF r \in upserted /\ Lifted(r) THEN Nil
                                   ELSE held[r]]

\* A webhook sends what is listed, and the backlog applies it some time later.
Notify(r) ==
    /\ listing[r] # Nil
    /\ event' = [event EXCEPT ![r] = listing[r]]
    /\ UNCHANGED <<listing, edits, landing, index, orders, locals, failures, seen, order>>

ApplyEvent(r) ==
    /\ event[r] # Nil
    /\ Store({r}, {}, event)
    /\ event' = [event EXCEPT ![r] = Nil]
    /\ UNCHANGED <<listing, edits, landing, orders, locals, failures, seen, order>>

\* An operator restricts or deletes a source.
Withdraw(r, state) ==
    /\ orders < MaxOrders /\ stored[r] # Nil
    /\ orders' = orders + 1
    /\ held' = [held EXCEPT ![r] = state]
    /\ order' = [order EXCEPT ![r] =
                    IF \/ state = "restricted" /\ (listing[r] = Nil \/ \E i \in Active : Nil \in seen[i][r])
                       \/ state = "deleted" /\ \E i \in Active : r \in doomed[i]
                    THEN "excused" ELSE "stands"]
    /\ UNCHANGED <<provider, landing, stored, locals, failures, seen>>

\* An operator restores a source.
Restore(r) ==
    /\ order[r] # "none"
    /\ held' = [held EXCEPT ![r] = Nil]
    /\ order' = [order EXCEPT ![r] = "none"]
    /\ UNCHANGED <<provider, landing, stored, orders, locals, failures, seen>>

-----------------------------------------------------------------------------
(* The landing *)

\* Tap and target start together.
Start(i) ==
    /\ Goto(i, "idle", "fetch")
    /\ seen' = [seen EXCEPT ![i] = [r \in Listable |-> {listing[r]}]]
    /\ UNCHANGED <<provider, landing, index, orders, page, got, fetched, cleaned, left,
                   loaded, doomed, failures, order>>

\* Mutant: the files are opened for appending and never unlinked.
UnlinkMutant(i) ==
    /\ pc[i] = "fetch" /\ ~ cleaned[i]
    /\ cleaned' = [cleaned EXCEPT ![i] = TRUE]
    /\ UNCHANGED <<provider, landing, index, orders, pc, page, got, fetched, left, loaded,
                   doomed, failures, seen, order>>

\* The target unlinks the landing files before it reads what the tap sends.
Unlink(i) ==
    /\ pc[i] = "fetch" /\ ~ cleaned[i]
    /\ cleaned' = [cleaned EXCEPT ![i] = TRUE]
    /\ landing' = Empty
    /\ UNCHANGED <<provider, index, orders, pc, page, got, fetched, left, loaded,
                   doomed, failures, seen, order>>

\* The tap asks for a page as long as it has fewer records than its limit.
Fetch(i) ==
    /\ pc[i] = "fetch" /\ page[i] <= Pages
    /\ page' = [page EXCEPT ![i] = @ + 1]
    /\ LET r == RefOn[page[i]] IN
       IF listing[r] # Nil /\ got[i] < Limit
       THEN /\ got' = [got EXCEPT ![i] = @ + 1]
            /\ fetched' = [fetched EXCEPT ![i][r] = listing[r]]
       ELSE UNCHANGED <<got, fetched>>
    /\ UNCHANGED <<provider, landing, index, orders, pc, cleaned, left, loaded, doomed,
                   failures, seen, order>>

\* The tap sends everything at its end.
Send(i) ==
    /\ Goto(i, "fetch", "land")
    /\ page[i] > Pages /\ cleaned[i]
    /\ left' = [left EXCEPT ![i] = {r \in Listable : fetched[i][r] # Nil}]
    /\ UNCHANGED <<provider, landing, index, orders, page, got, fetched, cleaned, loaded,
                   doomed, failures, seen, order>>

\* A tap that fails has sent nothing: the target ends with no files, Meltano
\* with an error, and the import is not run.
TapFails(i) ==
    /\ Goto(i, "fetch", "idle")
    /\ failures < MaxFailures
    /\ failures' = failures + 1
    /\ landing' = Empty
    /\ Forget(i)
    /\ UNCHANGED <<provider, index, orders, order>>

\* The target appends a line.
Land(i) ==
    /\ pc[i] = "land"
    /\ \E r \in left[i] :
        /\ landing' = [landing EXCEPT ![r] = fetched[i][r]]
        /\ left' = [left EXCEPT ![i] = @ \ {r}]
    /\ UNCHANGED <<provider, index, orders, pc, page, got, fetched, cleaned, loaded, doomed,
                   failures, seen, order>>

-----------------------------------------------------------------------------
(* The import *)

\* load_landed_source_records, once the landing is complete
Load(i) ==
    /\ Goto(i, "land", "read")
    /\ left[i] = {}
    /\ loaded' = [loaded EXCEPT ![i] = landing]
    /\ UNCHANGED <<provider, landing, index, orders, page, got, fetched, cleaned, left, doomed,
                   failures, seen, order>>

\* Mutant: the comparison with the lifecycle state is the wrong way round.
MissingRefsMutant(known) ==
    {r \in Listable : stored[r] # Nil /\ known[r] = Nil /\ held[r] \in {"missing", "deleted"}}

\* _deleted_snapshot_changes: rows that are not deleted and not in the snapshot
MissingRefs(known) ==
    {r \in Listable : stored[r] # Nil /\ known[r] = Nil /\ held[r] \notin {"missing", "deleted"}}

\* The rows are read before the changes are applied.
ReadRows(i) ==
    /\ Goto(i, "read", "apply")
    /\ doomed' = [doomed EXCEPT ![i] = MissingRefs(loaded[i])]
    /\ UNCHANGED <<provider, landing, index, orders, page, got, fetched, cleaned, left, loaded,
                   failures, seen, order>>

\* apply_source_changes
Apply(i) ==
    /\ Goto(i, "apply", "idle")
    /\ Store({r \in Listable : loaded[i][r] # Nil}, doomed[i], loaded[i])
    /\ Forget(i)
    /\ UNCHANGED <<provider, landing, orders, failures, order>>

\* The run dies between two steps.
Die(i) ==
    /\ pc[i] # "idle"
    /\ failures < MaxFailures
    /\ failures' = failures + 1
    /\ pc' = [pc EXCEPT ![i] = "idle"]
    /\ Forget(i)
    /\ UNCHANGED <<provider, landing, index, orders, order>>

-----------------------------------------------------------------------------
Extract(i) == Start(i) \/ Unlink(i) \/ Fetch(i) \/ Send(i) \/ Land(i)

ImportStep(i) == Load(i) \/ ReadRows(i) \/ Apply(i)

SnapshotNext ==
    \/ \E i \in Runs : Extract(i) \/ ImportStep(i) \/ TapFails(i) \/ Die(i)
    \/ \E r \in Listable : Edit(r) \/ Notify(r) \/ ApplyEvent(r) \/ Restore(r)
    \/ \E r \in Listable, state \in {"restricted", "deleted"} : Withdraw(r, state)

SnapshotSpec == SnapshotInit /\ [][SnapshotNext]_snapshotVars

\* The schedule starts runs, and a run that is under way goes on.
FairSpec == SnapshotSpec /\ \A i \in Runs : WF_snapshotVars(Extract(i) \/ ImportStep(i))

-----------------------------------------------------------------------------
TypeOK ==
    /\ listing \in Listing /\ edits \in Versions
    /\ landing \in Listing /\ stored \in Listing
    /\ held \in [Listable -> {Nil, "missing", "restricted", "deleted"}]
    /\ event \in Listing
    /\ orders \in 0..MaxOrders
    /\ pc \in [Runs -> {"idle", "fetch", "land", "read", "apply"}]
    /\ page \in [Runs -> 1..(Pages + 1)]
    /\ got \in [Runs -> Nat]
    /\ fetched \in [Runs -> Listing]
    /\ cleaned \in [Runs -> BOOLEAN]
    /\ left \in [Runs -> SUBSET Listable]
    /\ loaded \in [Runs -> Listing]
    /\ doomed \in [Runs -> SUBSET Listable]
    /\ failures \in 0..MaxFailures
    /\ seen \in [Runs -> [Listable -> SUBSET (Versions \union {Nil})]]
    /\ order \in [Listable -> {"none", "stands", "excused"}]

-----------------------------------------------------------------------------
(* Properties *)

\* What an import is about to apply was true of the provider while the run was
\* under way, source by source: a version it lists was listed, and a source it
\* lacks, and therefore deletes, was unlisted.  Landings of runs that failed or
\* died before leave no trace.
SnapshotIsRecent ==
    \A i \in Runs : pc[i] \in {"read", "apply"} =>
        \A r \in Listable : loaded[i][r] \in seen[i][r]

\* An operator's restriction is lifted by the operator only, unless a snapshot
\* lacks the source, and a deletion unless an import decided before it.
OrdersOutliveImports ==
    \A r \in Listable : order[r] = "stands" => held[r] \in {"restricted", "deleted"}

\* The index says of every source what the provider lists, as far as no
\* operator holds it.
Mirrors ==
    \A r \in Listable : IF listing[r] = Nil THEN stored[r] # Nil => held[r] # Nil
                    ELSE stored[r] = listing[r] /\ held[r] # "missing"

\* When the provider rests, imports make the index agree with it for good,
\* whatever failed, died or came in between.
EventuallyMirrors == <>[]Mirrors
=============================================================================
