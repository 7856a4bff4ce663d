------------------------------ MODULE Dashboard ------------------------------
(***************************************************************************)
(* The operator's reports on a connector's jobs (runtime/dashboard.py).    *)
(* Every figure of a report is a statement of its own, so the programs of  *)
(* ConnectorJobs go on between two figures of the same report.  What the   *)
(* reports say of other tables is a count of their rows, and is left out.  *)
(***************************************************************************)
EXTENDS ConnectorJobs, FiniteSets

VARIABLES
    ended,   \* the jobs that have ended, in the order of their finished_at
    report   \* the report that is being made, or was made last

reportVars == <<vars, ended, report>>

-----------------------------------------------------------------------------
(* What the statements return *)

\* _count_by over the status of the jobs.
CountByStatus == [s \in Statuses |-> Cardinality({j \in DOMAIN jobs : jobs[j].status = s})]

\* The runs in the order of start, the latest last: _run_sort_key.
LatestStarted == CHOOSE j \in DOMAIN jobs : Latest(j)

Shown(j) == [job |-> j, status |-> jobs[j].status]
Nothing == [job |-> Nil, status |-> Nil]

\* _latest_job sorts by finished_at, which a running job does not have.
LatestJob ==
    CASE jobs = <<>> -> Nothing
      [] ended # <<>> -> Shown(ended[Len(ended)])
      [] OTHER -> Shown(LatestStarted)

\* The failed jobs by finished_at.
FailedAt == {i \in DOMAIN ended : jobs[ended[i]].status = "failed"}
LatestFailed == ended[CHOOSE i \in FailedAt : \A k \in FailedAt : k <= i]

\* connector_retry_plan has a plan only if the connector's latest run failed.
Planned == IF jobs # <<>> /\ jobs[LatestStarted].status = "failed"
           THEN jobs[LatestStarted].attempt + 1 ELSE 0

NoRetry == [failed |-> Nil, attempt |-> 0, exhausted |-> FALSE]

\* _connector_retry_visibility.
RetryVisibility ==
    IF FailedAt = {} THEN NoRetry
    ELSE [failed |-> LatestFailed, attempt |-> Planned,
          exhausted |-> Planned > MaxAttempts]

\* _append_alert.
Raised(code, count) == IF count > 0 THEN {code} ELSE {}

\* _alert_summary; the alerts on webhook events are of the same form.
Alerts(counts) ==
    Raised("connector_failed", counts["failed"]) \union Raised("connector_invalid", counts["invalid"])

-----------------------------------------------------------------------------
(* Reports *)

Kinds == {"dashboard", "status"}

\* Mutant: the counts come last in both.
ReadsMutant(kind) ==
    IF kind = "dashboard" THEN <<"retry", "counts">> ELSE <<"latest", "counts">>

\* _operator_dashboard counts first, operator_status looks at the jobs first.
Reads(kind) == IF kind = "dashboard" THEN <<"counts", "retry">> ELSE <<"latest", "counts">>

NoCounts == [s \in Statuses |-> 0]
Blank(kind) == [kind |-> kind, todo |-> Reads(kind), counts |-> NoCounts,
                retry |-> NoRetry, latest |-> Nothing]

Ask(kind) ==
    /\ report.todo = <<>>
    /\ report' = Blank(kind)

\* The next statement of the report.
Read ==
    /\ report.todo # <<>>
    /\ report' =
        LET rest == [report EXCEPT !.todo = Tail(@)]
        IN CASE Head(report.todo) = "counts" -> [rest EXCEPT !.counts = CountByStatus]
             [] Head(report.todo) = "retry" -> [rest EXCEPT !.retry = RetryVisibility]
             [] Head(report.todo) = "latest" -> [rest EXCEPT !.latest = LatestJob]

Ended(table) == {j \in DOMAIN table : table[j].status # "running"}

\* A job that ends gets its finished_at; an UPDATE ends one.
Finished ==
    LET new == Ended(jobs') \ Ended(jobs)
    IN ended' = IF new = {} THEN ended ELSE Append(ended, CHOOSE j \in new : TRUE)

-----------------------------------------------------------------------------
ReportInit ==
    /\ Init
    /\ ended = <<>>
    /\ report = [Blank("status") EXCEPT !.todo = <<>>]

ReportNext ==
    \/ Next /\ Finished /\ UNCHANGED report
    \/ (Read \/ \E kind \in Kinds : Ask(kind)) /\ UNCHANGED <<vars, ended>>

\* Of the reports nothing is assumed.
ReportSpec == ReportInit /\ [][ReportNext]_reportVars /\ Fairness

-----------------------------------------------------------------------------
Made(kind) == report.kind = kind /\ report.todo = <<>>

\* The figures of a dashboard are of different moments, and yet a dashboard
\* that raises the alert on failed jobs names one, the job it names had failed,
\* and an announced retry is of an attempt a failed job left.
DashboardAgrees ==
    Made("dashboard") =>
        /\ "connector_failed" \in Alerts(report.counts) => report.retry.failed # Nil
        /\ report.retry.failed # Nil => jobs[report.retry.failed].status = "failed"
        /\ report.retry.attempt > 0 => \E j \in DOMAIN jobs :
              jobs[j].status = "failed" /\ jobs[j].attempt + 1 = report.retry.attempt

\* The job that operator-status shows as the latest is among those it counts, and
\* it is a running one only if the connector has never ended a job: one that a
\* dead program left running later is never shown.
StatusAgrees ==
    Made("status") /\ report.latest # Nothing =>
        IF report.latest.status = "running" THEN report.latest.job = 1
        ELSE report.counts[report.latest.status] > 0

\* The operator's reports do not contradict themselves, whatever the programs do
\* between two of their statements.
ReportsAgree == DashboardAgrees /\ StatusAgrees
=============================================================================
