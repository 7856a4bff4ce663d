-------------------------- MODULE WebhookDispatch --------------------------
(***************************************************************************)
(* Who starts the runs of the webhook backlog (deploy/dagster).  A sensor  *)
(* asks for a run while events are pending, under a run key made of their  *)
(* number and the last of them; Dagster drops a request whose key it has   *)
(* seen.  The hourly job processes the backlog whatever it holds.          *)
(***************************************************************************)
EXTENDS WebhookBacklog

VARIABLES
    asked,   \* the run keys Dagster has seen
    queued   \* sensor runs asked for and not started

dispatch == <<asked, queued>>

RunKeys == [pending : 1..Cardinality(Events), last : Events]

\* Mutant: the key is the number of pending events alone.
RunKeyMutant(key) ==
    /\ Pending # {}
    /\ key.pending = Cardinality(Pending)
    /\ key.last = CHOOSE e \in Events : TRUE

\* The number of pending events, due or not, and the latest of them.
RunKey(key) ==
    /\ key.pending = Cardinality(Pending)
    /\ key.last \in Pending
    /\ \A e \in Pending : row[e].at <= row[key.last].at

\* fourok_webhook_backlog_sensor and Dagster's run keys.
SensorTick ==
    /\ \E key \in RunKeys \ asked :
        /\ RunKey(key)
        /\ asked' = asked \union {key}
    /\ queued' = queued + 1
    /\ UNCHANGED vars

\* A sensor run starts; it finds due events or ends at once.
SensorRun(w) ==
    /\ queued > 0 /\ pc[w] = "idle"
    /\ queued' = queued - 1
    /\ Select(w) \/ (Due = {} /\ UNCHANGED vars)
    /\ UNCHANGED asked

\* fourok_hourly_live_backfill reaches the webhook backlog.
HourlyRun(w) == Select(w) /\ UNCHANGED dispatch

Elsewhere ==
    /\ \/ \E s \in Senders : Deliver(s)
       \/ \E w \in Workers : Work(w) \/ Crash(w)
       \/ \E e \in Events : RetryDue(e) \/ Purge(e)
    /\ UNCHANGED dispatch

DispatchInit == Init /\ asked = {} /\ queued = 0

DispatchNext == SensorTick \/ Elsewhere \/ \E w \in Workers : SensorRun(w) \/ HourlyRun(w)

dispatchVars == <<vars, dispatch>>

\* What is under way goes on, runs that were asked for start, and the hourly
\* schedule is running by default; the sensor is not, and may never tick.
DispatchSpec ==
    /\ DispatchInit /\ [][DispatchNext]_dispatchVars
    /\ \A s \in Senders : WF_dispatchVars(Insert(s) /\ UNCHANGED dispatch)
    /\ \A w \in Workers : WF_dispatchVars(Work(w) /\ UNCHANGED dispatch)
    /\ \A e \in Events : WF_dispatchVars(RetryDue(e) /\ UNCHANGED dispatch)
    /\ WF_dispatchVars(\E w \in Workers : SensorRun(w))
    /\ WF_dispatchVars(\E w \in Workers : HourlyRun(w))

-----------------------------------------------------------------------------
\* With the hourly job beside the sensor no accepted event stays pending: it is
\* settled, or stranded by a run that died over it.
NoEventLeftPending ==
    \A e \in Events :
        (e \in Pending) ~> (row[e] = Nil \/ row[e].status \in Settled \/ e \in Stranded)

\* The sensor does not fall silent over fresh work: while an event that was
\* never tried is pending, a sensor run is queued, a run is under way or the
\* sensor can still ask for one.  It takes a run that died, an event id that
\* came back after its purge, or a backlog that was once longer than a run takes.
FreshWorkIsAskedFor ==
    /\ crashes = 0 /\ \A e \in Events : purges[e] = 0
    /\ Cardinality(Events) <= Limit
    /\ \E e \in Pending : row[e].attempts = 0
    => \/ queued > 0
       \/ \E w \in Workers : pc[w] # "idle"
       \/ \E key \in RunKeys \ asked : RunKey(key)
=============================================================================
