--------------------------- MODULE WebhookBacklog ---------------------------
(***************************************************************************)
(* The durable webhook backlog of runtime/webhooks.py.                     *)
(*                                                                         *)
(* A delivery writes the payload to the raw store and then inserts a row   *)
(* unless its event or its idempotency key is known.  A processing run     *)
(* selects due events, marks them, and applies and settles them one by     *)
(* one; any number of runs may be under way (the Dagster sensor's job, the *)
(* hourly job, webhook-process), and each may die between two of its       *)
(* commits.  What a source change does to the index is SourceChanges'.     *)
(***************************************************************************)
EXTENDS Naturals, FiniteSets

CONSTANTS
    Events,        \* event ids
    KeyOf,         \* the idempotency key each event is sent with
    Payloads,      \* bodies a delivery may have
    SourceOf,      \* the source a body is about
    Malformed,     \* bodies that fail _source_change_from_event
    RecordLess,    \* upserts and restores that name a source but carry no record
    Senders,       \* deliveries under way at a time
    Workers,       \* processing runs under way at a time
    Limit,         \* events a run claims
    MaxAttempts,
    MaxDeliveries, \* bound on the deliveries
    MaxCrashes,    \* bound on the runs that die
    Nil

ASSUME BacklogAssumption ==
    /\ Malformed \subseteq Payloads /\ RecordLess \subseteq Payloads \ Malformed
    /\ Limit \in Nat \ {0} /\ MaxAttempts \in Nat \ {0}
    /\ MaxDeliveries \in Nat /\ MaxCrashes \in Nat

Settled == {"succeeded", "failed", "invalid"}

\* A row of webhook_events; due says that next_retry_at has come.
EventRow == [payload: Payloads, at: 1..MaxDeliveries, due: BOOLEAN, attempts: Nat,
             status: {"pending", "processing"} \union Settled]

\* What a run keeps of a row it selected; attempts counts its own.
Claimed == [event: Events, payload: Payloads, at: 1..MaxDeliveries, attempts: Nat]

Delivery == [event: Events, payload: Payloads, at: 1..MaxDeliveries]

ASSUME NilIsNoRow == Nil \notin EventRow \union Payloads \union Delivery

VARIABLES
    row,         \* webhook_events: event -> row
    landed,      \* raw store: event -> payload
    delivery,    \* the delivery each sender is in
    deliveries,  \* deliveries received, the clock of received_at
    pc,          \* where each run is
    claimed,     \* the events it has still to settle
    tries,       \* event -> how often it was applied, with or without success
    done,        \* event -> how often it was applied with success
    purges,      \* event -> how often retention has removed its row
    crashes      \* runs that died

table == <<row, landed>>
history == <<tries, done, purges, crashes>>
vars == <<table, delivery, deliveries, pc, claimed, history>>

Init ==
    /\ row = [e \in Events |-> Nil]
    /\ landed = [e \in Events |-> Nil]
    /\ delivery = [s \in Senders |-> Nil]
    /\ deliveries = 0
    /\ pc = [w \in Workers |-> "idle"]
    /\ claimed = [w \in Workers |-> {}]
    /\ tries = [e \in Events |-> 0]
    /\ done = [e \in Events |-> 0]
    /\ purges = [e \in Events |-> 0]
    /\ crashes = 0

Goto(w, from, to) == pc[w] = from /\ pc' = [pc EXCEPT ![w] = to]

-----------------------------------------------------------------------------
(* enqueue_webhook_event *)

\* The payload is landed before anything is known of the event.
Receive(s) ==
    /\ delivery[s] = Nil /\ deliveries < MaxDeliveries
    /\ deliveries' = deliveries + 1
    /\ \E e \in Events, body \in Payloads :
        /\ landed' = [landed EXCEPT ![e] = body]
        /\ delivery' = [delivery EXCEPT
                          ![s] = [event |-> e, payload |-> body, at |-> deliveries + 1]]
    /\ UNCHANGED <<row, pc, claimed, history>>

\* Mutant: only the event id is unique.
KnownMutant(e) == row[e] # Nil

\* The primary key and the unique constraint on the idempotency key.
Known(e) == \E d \in Events : row[d] # Nil /\ KeyOf[d] = KeyOf[e]

Insert(s) ==
    /\ delivery[s] # Nil
    /\ LET new == delivery[s] IN
        row' = IF Known(new.event) THEN row
               ELSE [row EXCEPT ![new.event] =
                       [payload |-> new.payload, at |-> new.at, due |-> TRUE,
                        attempts |-> 0, status |-> "pending"]]
    /\ delivery' = [delivery EXCEPT ![s] = Nil]
    /\ UNCHANGED <<landed, deliveries, pc, claimed, history>>

-----------------------------------------------------------------------------
(* process_pending_webhook_events *)

\* The UPDATEs a row may see: it is claimed, it is settled or left for a
\* retry, its next_retry_at comes.
Taken(x, attempts) == [x EXCEPT !.status = "processing", !.attempts = attempts]
Marked(x, status, due) == [x EXCEPT !.status = status, !.due = due]
DueAgain(x) == [x EXCEPT !.due = TRUE]

Pending == {e \in Events : row[e] # Nil /\ row[e].status = "pending"}

\* Mutant: only the events without a retry time.
NeverTriedMutant == {e \in Pending : row[e].due /\ row[e].attempts = 0}

Due == {e \in Pending : row[e].due}

\* Mutant: no ORDER BY.
FirstDueMutant(es) ==
    /\ es \subseteq Due
    /\ IF Cardinality(Due) <= Limit THEN es = Due ELSE Cardinality(es) = Limit

\* The first Limit due events by received_at.
FirstDue(es) ==
    /\ es \subseteq Due
    /\ IF Cardinality(Due) <= Limit THEN es = Due ELSE Cardinality(es) = Limit
    /\ \A e \in es, d \in Due \ es : row[e].at < row[d].at

\* The row as the run keeps it, the coming attempt counted.
Selected(e) == [event |-> e, payload |-> row[e].payload, at |-> row[e].at,
                attempts |-> row[e].attempts + 1]

\* The SELECT of _claim_pending_events.
Select(w) ==
    /\ Goto(w, "idle", "claim")
    /\ \E es \in SUBSET Due :
        /\ es # {} /\ FirstDue(es)
        /\ claimed' = [claimed EXCEPT ![w] = {Selected(e) : e \in es}]
    /\ UNCHANGED <<table, delivery, deliveries, history>>

\* Mutant: the UPDATE does not name its event.
ClaimMutant(w) ==
    /\ Goto(w, "claim", "apply")
    /\ row' = [e \in Events |->
                 IF e \in Pending
                 THEN Taken(row[e], (CHOOSE c \in claimed[w] : TRUE).attempts)
                 ELSE row[e]]
    /\ UNCHANGED <<landed, delivery, deliveries, claimed, history>>

\* Its UPDATEs, which only match rows that are still pending; the run goes on
\* with all the rows it selected.
Claim(w) ==
    /\ Goto(w, "claim", "apply")
    /\ row' = [e \in Events |->
                 IF e \in Pending /\ \E c \in claimed[w] : c.event = e
                 THEN Taken(row[e], (CHOOSE c \in claimed[w] : c.event = e).attempts)
                 ELSE row[e]]
    /\ UNCHANGED <<landed, delivery, deliveries, claimed, history>>

\* Events are applied in the order they were selected in.
Current(w) == CHOOSE c \in claimed[w] : \A d \in claimed[w] : c.at <= d.at

Tried(w) == tries' = [tries EXCEPT ![Current(w).event] = @ + 1]

ApplyOk(w) ==
    /\ Goto(w, "apply", "succeeded")
    /\ Current(w).payload \notin Malformed \union RecordLess
    /\ Tried(w)
    /\ done' = [done EXCEPT ![Current(w).event] = @ + 1]
    /\ UNCHANGED <<table, delivery, deliveries, claimed, purges, crashes>>

\* apply_source_changes raises: anything at any point of it, and a ValueError
\* whenever an upsert or a restore has no record.
ApplyError(w) ==
    /\ Goto(w, "apply", "failed")
    /\ Current(w).payload \notin Malformed
    /\ Tried(w)
    /\ UNCHANGED <<table, delivery, deliveries, claimed, done, purges, crashes>>

PayloadError(w) ==
    /\ Goto(w, "apply", "invalid")
    /\ Current(w).payload \in Malformed
    /\ UNCHANGED <<table, delivery, deliveries, claimed, history>>

\* The row of the current event is updated whatever its status is by now; it
\* may have been purged.
Mark(w, status, due) ==
    /\ LET e == Current(w).event IN
        row' = [row EXCEPT ![e] = IF @ = Nil THEN Nil ELSE Marked(@, status, due)]
    /\ claimed' = [claimed EXCEPT ![w] = @ \ {Current(w)}]
    /\ pc' = [pc EXCEPT ![w] = IF claimed[w] = {Current(w)} THEN "idle" ELSE "apply"]
    /\ UNCHANGED <<landed, delivery, deliveries, history>>

MarkSucceeded(w) == pc[w] = "succeeded" /\ Mark(w, "succeeded", TRUE)

\* Mutant: one attempt too many.
RetriesMutant(attempts) == attempts <= MaxAttempts

Retries(attempts) == attempts < MaxAttempts

\* Mutant: no retries.
MarkFailedMutant(w) == pc[w] = "failed" /\ Mark(w, "failed", TRUE)

MarkFailed(w) ==
    /\ pc[w] = "failed"
    /\ IF Retries(Current(w).attempts) THEN Mark(w, "pending", FALSE) ELSE Mark(w, "failed", TRUE)

MarkInvalid(w) == pc[w] = "invalid" /\ Mark(w, "invalid", TRUE)

\* The process dies, or a statement outside the guarded call raises.
Crash(w) ==
    /\ pc[w] # "idle"
    /\ crashes < MaxCrashes
    /\ crashes' = crashes + 1
    /\ pc' = [pc EXCEPT ![w] = "idle"]
    /\ claimed' = [claimed EXCEPT ![w] = {}]
    /\ UNCHANGED <<table, delivery, deliveries, tries, done, purges>>

-----------------------------------------------------------------------------
\* next_retry_at comes.
RetryDue(e) ==
    /\ e \in Pending /\ ~ row[e].due
    /\ row' = [row EXCEPT ![e] = DueAgain(@)]
    /\ UNCHANGED <<landed, delivery, deliveries, pc, claimed, history>>

\* purge_expired_webhook_events: a settled event outlives the retention.
Purge(e) ==
    /\ row[e] # Nil /\ row[e].status \in Settled
    /\ row' = [row EXCEPT ![e] = Nil]
    /\ purges' = [purges EXCEPT ![e] = @ + 1]
    /\ UNCHANGED <<landed, delivery, deliveries, pc, claimed, tries, done, crashes>>

Deliver(s) == Receive(s) \/ Insert(s)

Work(w) ==
    \/ Claim(w) \/ ApplyOk(w) \/ ApplyError(w) \/ PayloadError(w)
    \/ MarkSucceeded(w) \/ MarkFailed(w) \/ MarkInvalid(w)

Next ==
    \/ \E s \in Senders : Deliver(s)
    \/ \E w \in Workers : Select(w) \/ Work(w) \/ Crash(w)
    \/ \E e \in Events : RetryDue(e) \/ Purge(e)

Spec == Init /\ [][Next]_vars

-----------------------------------------------------------------------------
TypeOK ==
    /\ row \in [Events -> EventRow \union {Nil}]
    /\ landed \in [Events -> Payloads \union {Nil}]
    /\ delivery \in [Senders -> Delivery \union {Nil}]
    /\ deliveries \in 0..MaxDeliveries
    /\ pc \in [Workers -> {"idle", "claim", "apply", "succeeded", "failed", "invalid"}]
    /\ claimed \in [Workers -> SUBSET Claimed]
    /\ tries \in [Events -> Nat] /\ done \in [Events -> Nat] /\ purges \in [Events -> Nat]
    /\ crashes \in 0..MaxCrashes

-----------------------------------------------------------------------------
(* Properties *)

HeldBy(w, e) == pc[w] # "idle" /\ \E c \in claimed[w] : c.event = e
Stranded == {e \in Events : /\ row[e] # Nil /\ row[e].status = "processing"
                            /\ \A w \in Workers : ~ HeldBy(w, e)}

\* "Transient processing errors become retryable pending events until
\* max_attempts, then failed": an event is applied at most max_attempts times
\* for each time it was accepted, however often it is delivered.
AttemptsBounded == \A e \in Events : tries[e] <= MaxAttempts * (purges[e] + 1)

\* What a settled status says is what happened: a succeeded event was applied,
\* a failed one was tried max_attempts times, an invalid one never was.
StatusIsHistory ==
    \A e \in Events : row[e] # Nil /\ purges[e] = 0 =>
        /\ row[e].status = "succeeded" <=>
              done[e] > 0 /\ e \notin Stranded /\ \A w \in Workers : ~ HeldBy(w, e)
        /\ row[e].status = "failed" => tries[e] = MaxAttempts /\ done[e] = 0
        /\ row[e].status = "invalid" => tries[e] = 0 /\ row[e].payload \in Malformed

\* Nothing but the death of its run leaves an event in "processing" for good,
\* and one death strands no more events than a run claims.
StrandedByCrashes == Cardinality(Stranded) <= Limit * crashes

\* An event overtakes one of its source that was received before it only if
\* that one has been tried: first attempts keep the order of received_at.
OvertakesOnlyRetries ==
    [][\A e, d \in Events :
          /\ done'[e] > done[e]
          /\ e \notin Stranded /\ d \in Pending
          /\ row[e] # Nil /\ row[d].at < row[e].at
          /\ SourceOf[row[d].payload] = SourceOf[row[e].payload]
          => row[d].attempts > 0]_vars

-----------------------------------------------------------------------------
(* Refinement *)

\* Where Inbox has an event: the status of its row, told apart by whether the
\* run that holds it has applied it or has died.
MailOf(e) ==
    IF row[e] = Nil THEN "absent"
    ELSE IF row[e].status \in Settled THEN row[e].status
    ELSE IF e \in Stranded THEN "stuck"
    ELSE IF \E w \in Workers : pc[w] = "succeeded" /\ Current(w).event = e THEN "applied"
    ELSE "open"

Mail == INSTANCE Inbox WITH mail <- [e \in Events |-> MailOf(e)]

\* The backlog is an inbox while its runs do not overlap: whatever is delivered
\* again, fails, is retried, dies or is purged in between, one key is accepted
\* once, an accepted event takes effect at most once, it is settled as what
\* happened to it and stays so until it is purged, and only the death of its
\* run leaves it unsettled for good.
BacklogIsInbox == Mail!InboxSpec
=============================================================================
