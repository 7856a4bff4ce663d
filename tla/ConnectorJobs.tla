---------------------------- MODULE ConnectorJobs ----------------------------
(***************************************************************************)
(* The job runs of one connector (etl/extract/sync_jobs.py) and the        *)
(* programs that make them: imports and retries of failed imports, live    *)
(* backfills, Dagster runs that only record what they imported, and the    *)
(* Gmail pilot, which retries with the input state of the failed job.      *)
(* A job is started in two transactions, the checkpoint read and the       *)
(* insert that the index on running jobs may refuse, and settled in one.   *)
(***************************************************************************)
EXTENDS Naturals, Sequences

CONSTANTS
    Importers,    \* run-imports
    Retriers,     \* run-imports --retry-failed
    Lives,        \* _run_live_source
    Recorders,    \* _record_live_connector_success
    Pilots,       \* scripts/run_gmail_pilot.py, with and without --retry-failed
    Sharing,      \* which programs may share a connector
    MaxAttempts,  \* of the scheduler's configuration
    MaxCalls,     \* bound on the calls of all programs
    MaxDeaths,    \* bound on the programs that die
    Nil

Callers == Importers \union Retriers \union Lives \union Recorders \union Pilots

ASSUME JobsAssumption ==
    /\ Sharing \subseteq SUBSET Callers
    /\ MaxAttempts \in Nat \ {0}
    /\ MaxCalls \in Nat /\ MaxDeaths \in Nat /\ Nil \notin Nat

Statuses == {"running", "succeeded", "failed", "invalid"}

\* A row of connector_job_runs.  Its output state is identified by its place in
\* the table; due says that its backoff window has passed.
Job == [attempt : Nat, started : 1..MaxCalls, status : Statuses, due : BOOLEAN,
        input : Nat \union {Nil}]

VARIABLES
    users,       \* the programs of this connector
    jobs,        \* connector_job_runs in the order of their inserts
    checkpoint,  \* connector_states: the job whose output state it is
    calls,       \* calls so far, the clock of started_at
    pc,          \* where each program is
    attempt,     \* the attempt its job is to have
    started,     \* its started_at
    input,       \* the checkpoint it has read
    mine,        \* its job
    deaths       \* programs that died

locals == <<attempt, started, input, mine>>
vars == <<users, jobs, checkpoint, calls, pc, locals, deaths>>

Init ==
    /\ users \in Sharing
    /\ jobs = <<>>
    /\ checkpoint = Nil
    /\ calls = 0
    /\ pc = [c \in Callers |-> "idle"]
    /\ attempt = [c \in Callers |-> 1]
    /\ started = [c \in Callers |-> Nil]
    /\ input = [c \in Callers |-> Nil]
    /\ mine = [c \in Callers |-> Nil]
    /\ deaths = 0

Goto(c, from, to) == pc[c] = from /\ pc' = [pc EXCEPT ![c] = to]

\* A program that returns forgets what it knew.
Forget(c) ==
    /\ attempt' = [attempt EXCEPT ![c] = 1]
    /\ started' = [started EXCEPT ![c] = Nil]
    /\ input' = [input EXCEPT ![c] = Nil]
    /\ mine' = [mine EXCEPT ![c] = Nil]

-----------------------------------------------------------------------------
(* Retry plans *)

\* _latest_connector_run
Latest(j) == j \in DOMAIN jobs /\ \A k \in DOMAIN jobs : jobs[k].started <= jobs[j].started

\* connector_retry_plan: j is to be retried, and its time has come.
RetryPlan(j) == Latest(j) /\ jobs[j].status = "failed" /\ jobs[j].due

\* Mutant: the last attempt is not made.
AttemptLeftMutant(c, j) == c \in Retriers => jobs[j].attempt + 1 < MaxAttempts

\* max_attempts limits run-imports, and only that.
AttemptLeft(c, j) == c \in Retriers => jobs[j].attempt + 1 <= MaxAttempts

\* _latest_failed_connector_run, which is the latest run where a retry is due,
\* and _retry_input_state: the pilot goes on from what that run began with.
RetryInput(c, j) == IF c \in Pilots THEN jobs[j].input ELSE Nil

\* A retry plans its attempt, and the pilot its input state, from jobs read here.
Plan(c) ==
    /\ c \in users \intersect (Retriers \union Pilots) /\ calls < MaxCalls
    /\ Goto(c, "idle", "read")
    /\ \E j \in DOMAIN jobs :
        /\ RetryPlan(j) /\ AttemptLeft(c, j)
        /\ attempt' = [attempt EXCEPT ![c] = jobs[j].attempt + 1]
        /\ input' = [input EXCEPT ![c] = RetryInput(c, j)]
    /\ UNCHANGED <<users, jobs, checkpoint, calls, started, mine, deaths>>

\* A program without --retry-failed makes a first attempt.
Call(c) ==
    /\ c \in users \ Retriers /\ calls < MaxCalls
    /\ Goto(c, "idle", "read")
    /\ UNCHANGED <<users, jobs, checkpoint, calls, locals, deaths>>

-----------------------------------------------------------------------------
(* try_start_connector_job *)

\* Whether the program gives an input state of its own: a Dagster run id, here
\* Nil, or that of a failed job.
BringsInput(c) == c \in Recorders \/ (c \in Pilots /\ attempt[c] > 1)

\* connector_checkpoint; an empty state stands for none.
InputState(c) == IF BringsInput(c) THEN input[c] ELSE checkpoint

\* The input state, and then the time.
ReadCheckpoint(c) ==
    /\ calls < MaxCalls
    /\ Goto(c, "read", "insert")
    /\ input' = [input EXCEPT ![c] = InputState(c)]
    /\ started' = [started EXCEPT ![c] = calls + 1]
    /\ calls' = calls + 1
    /\ UNCHANGED <<users, jobs, checkpoint, attempt, mine, deaths>>

Running == {j \in DOMAIN jobs : jobs[j].status = "running"}

NewJob(c) == [attempt |-> attempt[c], started |-> started[c], status |-> "running",
              due |-> FALSE, input |-> input[c]]

\* Mutant: the table has no index on running jobs.
InsertMutant(c) ==
    /\ Goto(c, "insert", IF c \in Recorders THEN "complete" ELSE "work")
    /\ jobs' = Append(jobs, NewJob(c))
    /\ mine' = [mine EXCEPT ![c] = Len(jobs) + 1]
    /\ UNCHANGED <<users, checkpoint, calls, attempt, started, input, deaths>>

\* The index allows one running job; what a recorder records has been done.
Insert(c) ==
    /\ Goto(c, "insert", IF c \in Recorders THEN "complete" ELSE "work")
    /\ Running = {}
    /\ jobs' = Append(jobs, NewJob(c))
    /\ mine' = [mine EXCEPT ![c] = Len(jobs) + 1]
    /\ UNCHANGED <<users, checkpoint, calls, attempt, started, input, deaths>>

\* connector_job_already_running: the program skips the connector, the pilot
\* raises; either way the call is over.
Refused(c) ==
    /\ Goto(c, "insert", "idle")
    /\ Running # {}
    /\ Forget(c)
    /\ UNCHANGED <<users, jobs, checkpoint, calls, deaths>>

-----------------------------------------------------------------------------
(* The import and the end of the job *)

\* The import succeeds or fails, the pilot's tap by its exit code; only run-imports
\* tells a payload that it will never accept.
Outcomes(c) ==
    {"complete", "fail"} \union (IF c \in Importers \union Retriers THEN {"reject"} ELSE {})

Work(c) ==
    /\ \E outcome \in Outcomes(c) : Goto(c, "work", outcome)
    /\ UNCHANGED <<users, jobs, checkpoint, calls, locals, deaths>>

\* The UPDATE of the program's own job, whatever its status is by now.
Settle(c, status) ==
    /\ jobs' = [jobs EXCEPT ![mine[c]].status = status]
    /\ Forget(c)
    /\ UNCHANGED <<users, calls, deaths>>

\* complete_connector_job: job and checkpoint change together.
Complete(c) ==
    /\ Goto(c, "complete", "idle")
    /\ Settle(c, "succeeded")
    /\ checkpoint' = mine[c]

\* Mutant: the error is not recorded.
FailMutant(c) == Goto(c, "fail", "idle") /\ Forget(c) /\ UNCHANGED <<users, jobs, checkpoint, calls, deaths>>

Fail(c) == Goto(c, "fail", "idle") /\ Settle(c, "failed") /\ UNCHANGED checkpoint

MarkInvalid(c) == Goto(c, "reject", "idle") /\ Settle(c, "invalid") /\ UNCHANGED checkpoint

\* The process dies, or a statement outside the guarded import raises.
Die(c) ==
    /\ pc[c] # "idle"
    /\ deaths < MaxDeaths
    /\ deaths' = deaths + 1
    /\ pc' = [pc EXCEPT ![c] = "idle"]
    /\ Forget(c)
    /\ UNCHANGED <<users, jobs, checkpoint, calls>>

\* The backoff window of a failed job passes.
BackoffPasses(j) ==
    /\ jobs[j].status = "failed" /\ ~ jobs[j].due
    /\ jobs' = [jobs EXCEPT ![j].due = TRUE]
    /\ UNCHANGED <<users, checkpoint, calls, pc, locals, deaths>>

-----------------------------------------------------------------------------
Start(c) == ReadCheckpoint(c) \/ Insert(c) \/ Refused(c)

Finish(c) == Work(c) \/ Complete(c) \/ Fail(c) \/ MarkInvalid(c)

Next ==
    \/ \E c \in Callers : Plan(c) \/ Call(c) \/ Start(c) \/ Finish(c) \/ Die(c)
    \/ \E j \in DOMAIN jobs : BackoffPasses(j)

Spec == Init /\ [][Next]_vars

\* Programs that run go on, the retry timer starts a retry every ten minutes,
\* backoff windows pass.
Fairness ==
    /\ \A c \in Callers : WF_vars(Start(c) \/ Finish(c))
    /\ \A c \in Retriers : WF_vars(Plan(c))
    /\ WF_vars(\E j \in DOMAIN jobs : BackoffPasses(j))

FairSpec == Spec /\ Fairness

-----------------------------------------------------------------------------
Positions == {"idle", "read", "insert", "work", "complete", "fail", "reject"}

TypeOK ==
    /\ users \in SUBSET Callers
    /\ jobs \in Seq(Job)
    /\ checkpoint \in Nat \union {Nil}
    /\ calls \in 0..MaxCalls
    /\ pc \in [Callers -> Positions]
    /\ attempt \in [Callers -> Nat]
    /\ started \in [Callers -> (1..MaxCalls) \union {Nil}]
    /\ input \in [Callers -> Nat \union {Nil}]
    /\ mine \in [Callers -> Nat \union {Nil}]
    /\ deaths \in 0..MaxDeaths

-----------------------------------------------------------------------------
(* Properties *)

AtWork == {c \in Callers : pc[c] \in {"work", "complete", "fail", "reject"}}

\* "prevents overlapping runs for the same connector": two programs are never
\* between the start and the end of a job, whoever called them.
OneAtWork == \A c, d \in AtWork : c = d

Succeeded == {j \in DOMAIN jobs : jobs[j].status = "succeeded"}

\* The stored checkpoint is the output of the job that succeeded last, however
\* programs overlap and whichever of them die.
CheckpointIsLatestSuccess ==
    IF Succeeded = {} THEN checkpoint = Nil
    ELSE checkpoint \in Succeeded /\ \A j \in Succeeded : j <= checkpoint

\* A job that is marked running and that no program works on was left by a
\* program that died: nothing else blocks the connector.
BlockedByDeaths ==
    deaths = 0 => \A j \in Running : \E c \in AtWork : mine[c] = j

\* Where the retry timer runs, a job that fails and is the latest one is retried,
\* or superseded by another start, while it has attempts left.
EventuallyRetried ==
    \A j \in 1..MaxCalls :
        users \intersect Retriers # {} /\ j \in DOMAIN jobs /\ Latest(j) /\ jobs[j].status = "failed"
                          /\ jobs[j].attempt < MaxAttempts
        ~> ~ Latest(j) \/ calls = MaxCalls
=============================================================================
