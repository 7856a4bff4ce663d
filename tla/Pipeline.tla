------------------------------ MODULE Pipeline ------------------------------
(***************************************************************************)
(* The asset graph of deploy/dagster and the runs that go through parts of *)
(* it: the hourly job over the configured connectors, the same job         *)
(* launched by hand over all, the sensor's job, operator_live, and the     *)
(* backfills of run-live-ingestion.  A step that fails keeps what depends  *)
(* on it from running.  What a landing and an import do in detail is       *)
(* SnapshotImport, what the backlog does WebhookDispatch, what a rebuild   *)
(* does Maintenance; here a connector's sources have one version, and the  *)
(* question is what the operator's reports say of it.                      *)
(***************************************************************************)
EXTENDS Naturals, FiniteSets

CONSTANTS
    Connectors,   \* the live sources
    Configured,   \* those whose secrets are set
    Broken,       \* those whose tap cannot succeed
    JobRun,       \* the run of the hourly job, one at a time
    OtherRuns,    \* other runs under way at a time
    VerifyLiveDb, \* whether backfills are called with --verify-live-db
    MaxVersion,   \* bound on the provider's edits
    MaxFaults,    \* bound on steps and checks that fail, besides broken taps, and runs that die
    Nil

ASSUME PipelineAssumption ==
    /\ Configured \subseteq Connectors /\ Connectors \ Configured \subseteq Broken
    /\ Broken \subseteq Connectors
    /\ JobRun \notin OtherRuns /\ VerifyLiveDb \in BOOLEAN
    /\ MaxVersion \in Nat /\ MaxFaults \in Nat

Runs == {JobRun} \union OtherRuns
Versions == 0..MaxVersion

VARIABLES
    offered,   \* connector -> the version the provider has
    landing,   \* connector -> the version in the shared landing directory
    row,       \* connector -> the version in source_records
    unit,      \* connector -> the version in retrieval_records
    run,       \* the runs under way
    job,       \* connector -> what live-ingestion-status reads off its latest job
    latest,    \* what dagster_status reads off the latest run of the hourly job
    faults

tables == <<row, unit>>
reports == <<job, latest>>
vars == <<offered, landing, tables, run, reports, faults>>

-----------------------------------------------------------------------------
(* The asset graph *)

Step(op, c) == [op |-> op, of |-> c]
Objects == Step("objects", Nil)
Units == Step("units", Nil)
LandingSteps(cs) == {Step(op, c) : op \in {"land", "import"}, c \in cs}

\* The backlog, which no import waits for, and the canonical objects are one
\* step, and so are the units and the dashboard and the audit summary after
\* them, which only read.  The hourly job runs in process, one step at a time;
\* of the steps of the other runs, those that share anything wait for each other.
SharedSteps == {Objects, Units}

\* The deps of the assets.
Needs(step) ==
    CASE step.op = "import" -> {Step("land", step.of)}
      [] step = Objects -> {Step("import", c) : c \in Connectors}
      [] step = Units -> {Objects}
      [] OTHER -> {}

\* The connectors of the schedule's job are the configured ones, a job that is
\* launched through the API has them all.
Selections(kind, c) ==
    CASE kind = "hourly" -> {LandingSteps(cs) \union SharedSteps : cs \in {Configured, Connectors}}
      [] kind = "sensor" -> {SharedSteps}
      [] kind = "operator" -> {LandingSteps(Connectors)}
      [] kind = "backfill" -> {LandingSteps({c})}

-----------------------------------------------------------------------------
(* Runs.  at is the step whose first half is done, read the rows a rebuild  *)
(* has read, own the landing of a backfill, base what the providers had     *)
(* when the run began and met the other runs it overlapped with so far.     *)

AllSteps == LandingSteps(Connectors) \union SharedSteps
Kinds == {"hourly", "sensor", "operator", "backfill"}

RunRecord ==
    [kind: Kinds, of: Connectors \union {Nil},
     todo: SUBSET AllSteps, done: SUBSET AllSteps, failed: SUBSET AllSteps,
     at: AllSteps \union {Nil}, read: [Connectors -> Versions] \union {Nil},
     own: Versions, base: [Connectors -> Versions], met: SUBSET {"imports", "rebuilds"}]

ASSUME NilIsNoRun == Nil \notin RunRecord \union AllSteps

\* All but the sensor's runs import.
Sort(kind) == IF kind = "sensor" THEN "rebuilds" ELSE "imports"

NewRun(kind, c, steps) ==
    [kind |-> kind, of |-> c, todo |-> steps, done |-> {}, failed |-> {},
     at |-> Nil, read |-> Nil, own |-> 0, base |-> offered,
     met |-> {Sort(run[s].kind) : s \in {t \in Runs : run[t] # Nil}}]

\* What a report goes by; of a fresh success, what the providers had when it
\* began, and what it met.
Told(status) == [status |-> status, base |-> Nil, met |-> {}]
Success(base, met) == [status |-> "fresh", base |-> base, met |-> met]

Init ==
    /\ offered = [c \in Connectors |-> 0]
    /\ landing = [c \in Connectors |-> 0]
    /\ row = [c \in Connectors |-> 0]
    /\ unit = [c \in Connectors |-> 0]
    /\ run = [s \in Runs |-> Nil]
    /\ job = [c \in Connectors |-> Told("missing")]
    /\ latest = Told("missing")
    /\ faults = 0

Edit(c) ==
    /\ c \notin Broken /\ offered[c] < MaxVersion
    /\ offered' = [offered EXCEPT ![c] = @ + 1]
    /\ UNCHANGED <<landing, tables, run, reports, faults>>

Begin(s, kind, c) ==
    /\ run[s] = Nil
    /\ \E steps \in Selections(kind, c) :
          run' = [t \in Runs |-> IF t = s THEN NewRun(kind, c, steps)
                                ELSE IF run[t] = Nil THEN Nil
                                ELSE [run[t] EXCEPT !.met = @ \union {Sort(kind)}]]
    /\ UNCHANGED <<offered, landing, tables, faults>>

\* fourok_hourly_live_backfill: by its schedule, or launched through the API.
StartJob ==
    /\ Begin(JobRun, "hourly", Nil)
    /\ latest' = Told("started")
    /\ UNCHANGED job

StartSensorJob(s) == Begin(s, "sensor", Nil) /\ UNCHANGED reports
StartOperatorLive(s) == Begin(s, "operator", Nil) /\ UNCHANGED reports

Running(c) == job[c] = Told("running")

\* _run_live_source: a job is started, and a process of its own runs the
\* connector's two assets.
StartBackfill(s, c) ==
    /\ ~ Running(c)
    /\ Begin(s, "backfill", c)
    /\ job' = [job EXCEPT ![c] = Told("running")]
    /\ UNCHANGED latest

\* Without the flag a backfill works on a database of its own.
Sandboxed(s) == run[s].kind = "backfill" /\ ~ VerifyLiveDb

Selected(s) == run[s].todo \union run[s].done \union run[s].failed

Ready(s, step) ==
    /\ run[s] # Nil /\ run[s].at = Nil
    /\ step \in run[s].todo
    /\ Needs(step) \intersect Selected(s) \subseteq run[s].done

Ends(s, step) == run' = [run EXCEPT ![s].todo = @ \ {step}, ![s].done = @ \union {step},
                                    ![s].at = Nil, ![s].read = Nil]
Halfway(s, step, rows) == run' = [run EXCEPT ![s].at = step, ![s].read = rows]
Failed(s, step) == run' = [run EXCEPT ![s].todo = @ \ {step}, ![s].failed = @ \union {step},
                                      ![s].at = Nil, ![s].read = Nil]

-----------------------------------------------------------------------------
(* Steps *)

\* A backfill lands in its artifact directory, every other run in the same.
Land(s, c) ==
    /\ Ready(s, Step("land", c)) /\ c \notin Broken
    /\ IF run[s].kind = "backfill"
       THEN /\ run' = [run EXCEPT ![s].todo = @ \ {Step("land", c)},
                                  ![s].done = @ \union {Step("land", c)},
                                  ![s].own = offered[c]]
            /\ UNCHANGED landing
       ELSE Ends(s, Step("land", c)) /\ landing' = [landing EXCEPT ![c] = offered[c]]
    /\ UNCHANGED <<offered, tables, reports, faults>>

LandingFails(s, c) ==
    /\ Ready(s, Step("land", c)) /\ c \in Broken
    /\ Failed(s, Step("land", c))
    /\ UNCHANGED <<offered, landing, tables, reports, faults>>

Landed(s, c) == IF run[s].kind = "backfill" THEN run[s].own ELSE landing[c]

\* Mutant: the import leaves the units to the rebuild.
StoredMutant(c, version) ==
    /\ row' = [row EXCEPT ![c] = version]
    /\ UNCHANGED unit

\* The applier writes rows and units.
Stored(c, version) ==
    /\ row' = [row EXCEPT ![c] = version]
    /\ unit' = [unit EXCEPT ![c] = version]

Import(s, c) ==
    /\ Ready(s, Step("import", c))
    /\ Halfway(s, Step("import", c), Nil)
    /\ IF Sandboxed(s) THEN UNCHANGED tables ELSE Stored(c, Landed(s, c))
    /\ UNCHANGED <<offered, landing, reports, faults>>

\* Mutant: any job of the connector keeps the success from being recorded.
RecordsMutant(s, c) == ~ Sandboxed(s) /\ job[c].status = "missing"

\* The unique index refuses a second running job.
Records(s, c) == ~ Sandboxed(s) /\ ~ Running(c)

\* _record_live_connector_success, the end of the import's step.
RecordSuccess(s, c) ==
    /\ run[s] # Nil /\ run[s].at = Step("import", c)
    /\ Ends(s, Step("import", c))
    /\ job' = IF Records(s, c)
              THEN [job EXCEPT ![c] = Success(run[s].base[c], run[s].met)]
              ELSE job
    /\ UNCHANGED <<offered, landing, tables, latest, faults>>

\* The backlog and the canonical objects change none of this.
BuildObjects(s) ==
    /\ Ready(s, Objects)
    /\ Ends(s, Objects)
    /\ UNCHANGED <<offered, landing, tables, reports, faults>>

\* The rebuild reads the rows and writes the units from what it has read.
ReadRows(s) ==
    /\ Ready(s, Units)
    /\ Halfway(s, Units, row)
    /\ UNCHANGED <<offered, landing, tables, reports, faults>>

RebuildUnits(s) ==
    /\ run[s] # Nil /\ run[s].at = Units
    /\ unit' = run[s].read
    /\ Ends(s, Units)
    /\ UNCHANGED <<offered, landing, row, reports, faults>>

Fail(s, step) ==
    /\ faults < MaxFaults /\ faults' = faults + 1
    /\ Ready(s, step) \/ (run[s] # Nil /\ run[s].at = step)
    /\ Failed(s, step)
    /\ UNCHANGED <<offered, landing, tables, reports>>

-----------------------------------------------------------------------------
(* How a run ends, and what the reports say *)

AtRest(s) == run[s] # Nil /\ run[s].at = Nil /\ \A step \in run[s].todo : ~ Ready(s, step)

\* Mutant: the exit code of the backfill's process is not looked at.
SucceededMutant(s) == TRUE

Succeeded(s) == run[s].todo = {} /\ run[s].failed = {}

\* _verify_live_db_changed: there are no fewer rows and units than when the
\* backfill began, in tables to which others write, too.  What fails it has
\* been committed.
Verified(s) ==
    IF run[s].kind = "backfill" /\ VerifyLiveDb /\ Succeeded(s) /\ faults < MaxFaults
    THEN BOOLEAN ELSE {TRUE}

\* What depends on a failed step is skipped.  A backfill settles its job.
End(s) ==
    /\ AtRest(s)
    /\ run' = [run EXCEPT ![s] = Nil]
    /\ latest' = IF s # JobRun THEN latest
                 ELSE IF Succeeded(s) THEN Success(run[s].base, run[s].met) ELSE Told("failed")
    /\ \E verified \in Verified(s) :
        /\ job' = IF run[s].kind # "backfill" THEN job
                  ELSE [job EXCEPT ![run[s].of] =
                            IF Succeeded(s) /\ verified
                            THEN Success(run[s].base[run[s].of], run[s].met)
                            ELSE Told("failed")]
        /\ faults' = IF verified THEN faults ELSE faults + 1
    /\ UNCHANGED <<offered, landing, tables>>

\* A run's process dies; Dagster goes on to list it as started, its job as
\* running.
Die(s) ==
    /\ faults < MaxFaults /\ faults' = faults + 1
    /\ run[s] # Nil
    /\ run' = [run EXCEPT ![s] = Nil]
    /\ UNCHANGED <<offered, landing, tables, reports>>

\* The stale window of a success passes: 60 minutes, Dagster's 65.
HourPasses ==
    /\ \/ /\ \E c \in Connectors : job[c].status = "fresh" /\ job' = [job EXCEPT ![c] = Told("stale")]
          /\ UNCHANGED latest
       \/ /\ latest.status = "fresh" /\ latest' = Told("stale")
          /\ UNCHANGED job
    /\ UNCHANGED <<offered, landing, tables, run, faults>>

\* The runtime status of dagster_status.
RuntimeOk == latest.status = "fresh"

Proceed(s) ==
    \/ \E c \in Connectors : Land(s, c) \/ LandingFails(s, c) \/ Import(s, c) \/ RecordSuccess(s, c)
    \/ BuildObjects(s) \/ ReadRows(s) \/ RebuildUnits(s) \/ End(s)

Next ==
    \/ \E c \in Connectors : Edit(c)
    \/ StartJob
    \/ \E s \in OtherRuns :
        \/ StartSensorJob(s) \/ StartOperatorLive(s)
        \/ \E c \in Connectors : StartBackfill(s, c)
    \/ \E s \in Runs : \/ Proceed(s) \/ Die(s)
                       \/ \E step \in AllSteps : Fail(s, step)
    \/ HourPasses

\* The schedule is running by default and a run that is under way goes on;
\* nothing is assumed of the sensor, which is not.
FairSpec ==
    /\ Init /\ [][Next]_vars
    /\ WF_vars(StartJob)
    /\ \A s \in Runs : WF_vars(Proceed(s))

-----------------------------------------------------------------------------
(* Properties *)

\* A connector that live-ingestion-status calls fresh has been imported since
\* the run behind the report began, unless an import of another run overlapped
\* that one.
FreshMeansImported ==
    \A c \in Connectors :
        job[c].status = "fresh" /\ "imports" \notin job[c].met => row[c] >= job[c].base

\* While dagster_status calls the runtime ok, search serves at least what
\* the providers had when the latest run of the job began, unless another run
\* met that one.
OkMeansServed ==
    RuntimeOk /\ latest.met = {} =>
        \A c \in Configured : unit[c] >= latest.base[c]

\* What the operator's reports call fresh and ok is.
ReportsAreTrue == FreshMeansImported /\ OkMeansServed

\* What a working connector offers is served in the end, although other
\* connectors never land, so that no run of the job gets as far as the rebuild,
\* and although the sensor's rebuilds write what they read earlier.
EventuallyServed ==
    \A c \in Configured \ Broken, v \in Versions :
        offered[c] >= v ~> unit[c] >= v

\* A backfill that died: its job is running, and nothing runs.
Blocked(c) == Running(c) /\ ~ \E s \in Runs : run[s] # Nil /\ run[s].kind = "backfill" /\ run[s].of = c

\* A working connector is reported fresh again and again, whatever its job
\* rows say in between, unless the death of a backfill has blocked it.
FreshAgain ==
    \A c \in Configured \ Broken : []<>(job[c].status = "fresh" \/ Blocked(c))
=============================================================================
