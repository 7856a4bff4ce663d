------------------------------- MODULE Inbox -------------------------------
(***************************************************************************)
(* What the webhook backlog promises a provider (docs/contracts.md, "the   *)
(* durable backlog"), without attempts, clocks and runs: an event is       *)
(* accepted unless its key is known, applied at most once, settled by what *)
(* became of it, and forgotten when its retention ends.  The only way out  *)
(* of this is the death of the run that works on it.                       *)
(***************************************************************************)
EXTENDS Naturals

CONSTANTS Events, KeyOf

VARIABLES
    mail,  \* event -> where it is
    done   \* event -> how often it took effect

Outcomes == {"succeeded", "failed", "invalid"}

InboxInit == mail = [e \in Events |-> "absent"] /\ done = [e \in Events |-> 0]

Move(e, from, to) == mail[e] = from /\ mail' = [mail EXCEPT ![e] = to]

Accept(e) ==
    /\ \A d \in Events : KeyOf[d] = KeyOf[e] => mail[d] = "absent"
    /\ Move(e, "absent", "open")
    /\ UNCHANGED done

Apply(e) == Move(e, "open", "applied") /\ done' = [done EXCEPT ![e] = @ + 1]

\* Only what was applied succeeds, and what was applied does nothing else.
Settle(e) ==
    /\ \/ Move(e, "applied", "succeeded")
       \/ Move(e, "open", "failed")
       \/ Move(e, "open", "invalid")
    /\ UNCHANGED done

\* A run dies over the events it holds, applied or not.
Lose ==
    /\ \E es \in SUBSET {e \in Events : mail[e] \in {"open", "applied"}} :
          mail' = [e \in Events |-> IF e \in es THEN "stuck" ELSE mail[e]]
    /\ UNCHANGED done

Forget(e) == mail[e] \in Outcomes /\ mail' = [mail EXCEPT ![e] = "absent"] /\ UNCHANGED done

InboxNext == Lose \/ \E e \in Events : Accept(e) \/ Apply(e) \/ Settle(e) \/ Forget(e)

InboxSpec == InboxInit /\ [][InboxNext]_<<mail, done>>
=============================================================================
