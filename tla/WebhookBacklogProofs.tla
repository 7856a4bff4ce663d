------------------------ MODULE WebhookBacklogProofs ------------------------
(***************************************************************************)
(* What holds of the webhook backlog for every set of events, bodies,      *)
(* senders and processing runs, and every limit and number of attempts.    *)
(***************************************************************************)
EXTENDS WebhookDispatch, FiniteSetTheorems, WellFoundedInduction, TLAPS

-----------------------------------------------------------------------------
(* The event a run is at *)

\* A non-empty set of naturals has a least element.
LEMMA LeastNatural ==
    ASSUME NEW S \in SUBSET Nat, S # {}
    PROVE  \E m \in S : \A n \in S : m <= n
<1> DEFINE less == {ss \in Nat \X Nat : ss[1] < ss[2]}
<1>1. IsWellFoundedOn(less, Nat)
  BY NatLessThanWellFounded DEF OpToRel
<1>2. PICK m \in S : \A n \in S : ~ (<<n, m>> \in less)
  BY <1>1, WFMin
<1>3. \A n \in S : ~ (n < m)
  BY <1>2
<1> QED
  BY <1>3

\* Among the events a run has to settle there is an earliest one.
LEMMA CurrentIsClaimed ==
    ASSUME NEW w \in Workers, claimed[w] \subseteq Claimed, claimed[w] # {}
    PROVE  Current(w) \in claimed[w] /\ Current(w) \in Claimed
<1> DEFINE times == {c.at : c \in claimed[w]}
<1>1. \A c \in claimed[w] : c.at \in Nat
  BY BacklogAssumption DEF Claimed
<1>2. times \in SUBSET Nat /\ times # {}
  BY <1>1
<1>3. PICK m \in times : \A n \in times : m <= n
  BY <1>2, LeastNatural
<1>4. \E c \in claimed[w] : \A d \in claimed[w] : c.at <= d.at
  BY <1>3
<1> QED
  BY <1>4 DEF Current

-----------------------------------------------------------------------------
(* Types *)

\* A run that is under way has an event to settle.
Busy == \A w \in Workers : pc[w] # "idle" <=> claimed[w] # {}

TypeInv == TypeOK /\ Busy

LEMMA TypeInit == Init => TypeInv
BY BacklogAssumption DEF Init, TypeInv, TypeOK, Busy

\* A row that is overwritten stays a row and changes only where it is written.
LEMMA MarkedRow ==
    ASSUME NEW x \in EventRow, NEW due \in BOOLEAN,
           NEW status \in {"pending", "processing"} \union Settled
    PROVE  /\ Marked(x, status, due) \in EventRow /\ Marked(x, status, due) # Nil
           /\ Marked(x, status, due).status = status
           /\ Marked(x, status, due).attempts = x.attempts
           /\ Marked(x, status, due).payload = x.payload /\ Marked(x, status, due).at = x.at
<1>1. Marked(x, status, due) \in EventRow
  BY DEF EventRow, Marked
<1>2. Marked(x, status, due).status = status
  BY DEF EventRow, Marked
<1>3. Marked(x, status, due).attempts = x.attempts
  BY DEF EventRow, Marked
<1>4. Marked(x, status, due).payload = x.payload /\ Marked(x, status, due).at = x.at
  BY DEF EventRow, Marked
<1> QED
  BY <1>1, <1>2, <1>3, <1>4, NilIsNoRow

LEMMA TakenRow ==
    ASSUME NEW x \in EventRow, NEW n \in Nat
    PROVE  /\ Taken(x, n) \in EventRow /\ Taken(x, n) # Nil
           /\ Taken(x, n).status = "processing"
           /\ Taken(x, n).attempts = n
           /\ Taken(x, n).payload = x.payload /\ Taken(x, n).at = x.at
<1>1. Taken(x, n) \in EventRow
  BY DEF EventRow, Taken
<1>2. Taken(x, n).status = "processing"
  BY DEF EventRow, Taken
<1>3. Taken(x, n).attempts = n
  BY DEF EventRow, Taken
<1>4. Taken(x, n).payload = x.payload /\ Taken(x, n).at = x.at
  BY DEF EventRow, Taken
<1> QED
  BY <1>1, <1>2, <1>3, <1>4, NilIsNoRow

LEMMA DueRow ==
    ASSUME NEW x \in EventRow
    PROVE  /\ DueAgain(x) \in EventRow /\ DueAgain(x) # Nil
           /\ DueAgain(x).status = x.status
           /\ DueAgain(x).attempts = x.attempts /\ DueAgain(x).due
           /\ DueAgain(x).payload = x.payload /\ DueAgain(x).at = x.at
<1>1. DueAgain(x) \in EventRow
  BY DEF EventRow, DueAgain
<1>2. DueAgain(x).status = x.status
  BY DEF EventRow, DueAgain
<1>3. DueAgain(x).attempts = x.attempts /\ DueAgain(x).due
  BY DEF EventRow, DueAgain
<1>4. DueAgain(x).payload = x.payload /\ DueAgain(x).at = x.at
  BY DEF EventRow, DueAgain
<1> QED
  BY <1>1, <1>2, <1>3, <1>4, NilIsNoRow

LEMMA DeliverType ==
    ASSUME TypeInv, NEW s \in Senders, Deliver(s)
    PROVE  TypeInv'
<1> USE BacklogAssumption DEF TypeInv, TypeOK, Busy
<1>1. CASE Receive(s)
  <2>1. deliveries + 1 \in 1..MaxDeliveries
    BY <1>1 DEF Receive
  <2>2. PICK e \in Events, body \in Payloads :
          /\ landed' = [landed EXCEPT ![e] = body]
          /\ delivery' = [delivery EXCEPT
                            ![s] = [event |-> e, payload |-> body, at |-> deliveries + 1]]
    BY <1>1 DEF Receive
  <2>3. [event |-> e, payload |-> body, at |-> deliveries + 1] \in Delivery
    BY <2>1 DEF Delivery
  <2> QED
    BY <1>1, <2>1, <2>2, <2>3 DEF Receive, history
<1>2. CASE Insert(s)
  <2>1. delivery[s] \in Delivery
    BY <1>2 DEF Insert
  <2>2. [payload |-> delivery[s].payload, at |-> delivery[s].at, due |-> TRUE,
         attempts |-> 0, status |-> "pending"] \in EventRow
    BY <2>1 DEF Delivery, EventRow
  <2> QED
    BY <1>2, <2>1, <2>2 DEF Insert, history, Delivery
<1> QED
  BY <1>1, <1>2 DEF Deliver

LEMMA SelectType ==
    ASSUME TypeInv, NEW w \in Workers, Select(w)
    PROVE  TypeInv'
<1> USE BacklogAssumption DEF TypeInv, TypeOK, Busy
<1>1. PICK es \in SUBSET Due : es # {} /\ claimed' = [claimed EXCEPT ![w] = {Selected(e) : e \in es}]
  BY DEF Select
<1>2. ASSUME NEW e \in es
      PROVE  Selected(e) \in Claimed
  <2>1. e \in Events /\ row[e] \in EventRow
    BY DEF Due, Pending
  <2>2. row[e].payload \in Payloads /\ row[e].at \in 1..MaxDeliveries /\ row[e].attempts \in Nat
    BY <2>1 DEF EventRow
  <2> QED
    BY <2>1, <2>2 DEF Claimed, Selected
<1>3. {Selected(e) : e \in es} \subseteq Claimed /\ {Selected(e) : e \in es} # {}
  BY <1>1, <1>2
<1>4. claimed' \in [Workers -> SUBSET Claimed]
  BY <1>1, <1>3
<1>5. Busy'
  BY <1>1, <1>3 DEF Select, Goto
<1> QED
  BY <1>4, <1>5 DEF Select, Goto, table, history

LEMMA MarkType ==
    ASSUME TypeInv, NEW w \in Workers, pc[w] # "idle",
           NEW status \in {"pending", "processing"} \union Settled, NEW due \in BOOLEAN,
           Mark(w, status, due)
    PROVE  TypeInv'
<1> USE DEF TypeInv, TypeOK, Busy
<1>1. Current(w) \in claimed[w] /\ Current(w) \in Claimed
  BY CurrentIsClaimed
<1>2. row' \in [Events -> EventRow \union {Nil}]
  BY <1>1, MarkedRow DEF Mark, Claimed
<1>3. claimed[w] \ {Current(w)} = {} <=> claimed[w] = {Current(w)}
  BY <1>1
<1>4. claimed' \in [Workers -> SUBSET Claimed] /\ Busy'
  BY <1>1, <1>3 DEF Mark
<1> QED
  BY <1>2, <1>4 DEF Mark, history

LEMMA WorkType ==
    ASSUME TypeInv, NEW w \in Workers, Work(w)
    PROVE  TypeInv'
<1>1. CASE Claim(w)
  <2>1. \A e \in Events : (\E c \in claimed[w] : c.event = e) =>
          (CHOOSE c \in claimed[w] : c.event = e).attempts \in Nat
    BY DEF TypeInv, TypeOK, Claimed
  <2>2. row' \in [Events -> EventRow \union {Nil}]
    BY <1>1, <2>1, TakenRow DEF Claim, Pending, TypeInv, TypeOK
  <2> QED
    BY <1>1, <2>2 DEF Claim, Goto, TypeInv, TypeOK, Busy, history
<1>2. CASE ApplyOk(w) \/ ApplyError(w)
  <2>1. Current(w) \in Claimed
    BY <1>2, CurrentIsClaimed DEF ApplyOk, ApplyError, Goto, TypeInv, TypeOK, Busy
  <2>2. tries' \in [Events -> Nat] /\ done' \in [Events -> Nat]
    BY <1>2, <2>1 DEF ApplyOk, ApplyError, Tried, TypeInv, TypeOK, Claimed
  <2> QED
    BY <1>2, <2>2 DEF ApplyOk, ApplyError, Goto, TypeInv, TypeOK, Busy, table
<1>3. CASE PayloadError(w)
  BY <1>3 DEF PayloadError, Goto, TypeInv, TypeOK, Busy, table, history
<1>4. CASE MarkSucceeded(w)
  BY <1>4, MarkType DEF MarkSucceeded, Settled
<1>5. CASE MarkFailed(w)
  BY <1>5, MarkType DEF MarkFailed, Settled
<1>6. CASE MarkInvalid(w)
  BY <1>6, MarkType DEF MarkInvalid, Settled
<1> QED
  BY <1>1, <1>2, <1>3, <1>4, <1>5, <1>6 DEF Work

LEMMA TypeStep == TypeInv /\ [Next]_vars => TypeInv'
<1> SUFFICES ASSUME TypeInv, [Next]_vars PROVE TypeInv'
  OBVIOUS
<1>1. CASE UNCHANGED vars
  BY <1>1 DEF vars, table, history, TypeInv, TypeOK, Busy
<1>2. ASSUME NEW w \in Workers, Crash(w) PROVE TypeInv'
  BY <1>2, BacklogAssumption DEF Crash, TypeInv, TypeOK, Busy, table
<1>3. ASSUME NEW e \in Events, RetryDue(e) PROVE TypeInv'
  BY <1>3, DueRow DEF RetryDue, Pending, TypeInv, TypeOK, Busy, history
<1>4. ASSUME NEW e \in Events, Purge(e) PROVE TypeInv'
  BY <1>4 DEF Purge, TypeInv, TypeOK, Busy
<1> QED
  BY <1>1, <1>2, <1>3, <1>4, DeliverType, SelectType, WorkType DEF Next

\* The backlog and the local variables of deliveries and runs keep their types,
\* however many of them are under way.
THEOREM BacklogTypeCorrect == Spec => []TypeOK
<1>1. TypeInv => TypeOK
  BY DEF TypeInv
<1> QED
  BY <1>1, TypeInit, TypeStep, PTL DEF Spec

-----------------------------------------------------------------------------
(* Attempts, while runs do not overlap *)

OneWorker == \A v, w \in Workers : v = w

\* A run keeps each event once, its row is there, and the attempt it counts is
\* the next one of a pending row or the one a row in processing is at.
ClaimsMatchRows ==
    \A w \in Workers : \A c \in claimed[w] :
        /\ row[c.event] # Nil /\ c.attempts <= MaxAttempts
        /\ IF pc[w] = "claim"
           THEN row[c.event].status = "pending" /\ c.attempts = row[c.event].attempts + 1
           ELSE row[c.event].status = "processing" /\ c.attempts = row[c.event].attempts
        /\ \A d \in claimed[w] : d.event = c.event => d = c

\* A pending row has an attempt left.
AttemptsLeft ==
    \A e \in Events : row[e] # Nil =>
        /\ row[e].attempts <= MaxAttempts
        /\ row[e].status = "pending" => row[e].attempts < MaxAttempts

\* The attempt of e is counted and not yet made.
Owed(e) ==
    \E w \in Workers : \E c \in claimed[w] :
        /\ c.event = e /\ pc[w] # "claim"
        /\ pc[w] \in {"succeeded", "failed"} => c # Current(w)

\* What has been tried is what was counted, since the last purge.
TriesCounted ==
    \A e \in Events :
        /\ row[e] = Nil => tries[e] <= MaxAttempts * purges[e]
        /\ row[e] # Nil => tries[e] <= MaxAttempts * purges[e] + row[e].attempts
        /\ Owed(e) => tries[e] + 1 <= MaxAttempts * purges[e] + row[e].attempts

AttemptsInv == TypeInv /\ ClaimsMatchRows /\ AttemptsLeft /\ TriesCounted

\* The retention of settled rows grants the next delivery a new budget.
LEMMA BudgetGrows ==
    ASSUME NEW p \in Nat
    PROVE  MaxAttempts * (p + 1) = MaxAttempts * p + MaxAttempts /\ MaxAttempts * p \in Nat
BY BacklogAssumption

LEMMA AttemptsInit == Init => AttemptsInv
<1> SUFFICES ASSUME Init PROVE AttemptsInv
  OBVIOUS
<1>1. \A e \in Events : row[e] = Nil /\ tries[e] = 0 /\ purges[e] = 0 /\ ~ Owed(e)
  BY DEF Init, Owed
<1>2. MaxAttempts * 0 = 0
  BY BacklogAssumption
<1> QED
  BY <1>1, <1>2, TypeInit DEF Init, AttemptsInv, ClaimsMatchRows, AttemptsLeft, TriesCounted

\* A delivery adds a row only for an event no run has.
LEMMA DeliverAttempts ==
    ASSUME AttemptsInv, TypeInv', NEW s \in Senders, Deliver(s)
    PROVE  AttemptsInv'
<1> USE DEF AttemptsInv
<1>1. CASE Receive(s)
  <2>1. UNCHANGED <<row, pc, claimed, tries, purges>>
    BY <1>1 DEF Receive, history
  <2> QED
    BY <2>1 DEF ClaimsMatchRows, AttemptsLeft, TriesCounted, Owed, Current
<1>2. CASE Insert(s)
  <2>1. UNCHANGED <<pc, claimed, tries, purges>>
    BY <1>2 DEF Insert, history
  <2>2. CASE row' = row
    BY <2>1, <2>2 DEF ClaimsMatchRows, AttemptsLeft, TriesCounted, Owed, Current
  <2>3. CASE row' # row
    <3> DEFINE new == delivery[s]
    <3> DEFINE fresh == [payload |-> new.payload, at |-> new.at, due |-> TRUE,
                         attempts |-> 0, status |-> "pending"]
    <3>1. new \in Delivery /\ new.event \in Events
      BY <1>2 DEF Insert, TypeInv, TypeOK, Delivery
    <3>2. row' = [row EXCEPT ![new.event] = fresh] /\ ~ Known(new.event)
      BY <1>2, <2>3 DEF Insert
    <3>3. row[new.event] = Nil
      BY <3>1, <3>2 DEF Known
    <3>4. \A e \in Events \ {new.event} : row'[e] = row[e]
      BY <3>2 DEF TypeInv, TypeOK
    <3>5. row'[new.event] = fresh /\ fresh \in EventRow /\ fresh # Nil
      <4>1. fresh \in EventRow
        BY <3>1 DEF Delivery, EventRow
      <4> QED
        BY <3>1, <3>2, <4>1, NilIsNoRow DEF TypeInv, TypeOK
    <3>6. \A w \in Workers : \A c \in claimed[w] : c.event \in Events /\ c.event # new.event
      BY <3>3 DEF ClaimsMatchRows, TypeInv, TypeOK, Claimed
    <3>7. ClaimsMatchRows'
      BY <2>1, <3>4, <3>6 DEF ClaimsMatchRows
    <3>8. AttemptsLeft'
      BY <3>4, <3>5, BacklogAssumption DEF AttemptsLeft
    <3>9. \A e \in Events : Owed(e)' <=> Owed(e)
      BY <2>1 DEF Owed, Current
    <3>10. TriesCounted'
      <4>1. ~ Owed(new.event)
        BY <3>6 DEF Owed
      <4>2. tries[new.event] <= MaxAttempts * purges[new.event] + 0
        BY <3>1, <3>3, BudgetGrows DEF TriesCounted, TypeInv, TypeOK
      <4>3. fresh.attempts = 0
        OBVIOUS
      <4> HIDE DEF fresh, new
      <4> QED
        BY <2>1, <3>1, <3>4, <3>5, <3>9, <4>1, <4>2, <4>3 DEF TriesCounted
    <3> QED
      BY <3>7, <3>8, <3>10
  <2> QED
    BY <2>2, <2>3
<1> QED
  BY <1>1, <1>2 DEF Deliver

\* A run takes up pending rows, each of which has an attempt left.
LEMMA SelectAttempts ==
    ASSUME AttemptsInv, TypeInv', NEW w \in Workers, Select(w), OneWorker
    PROVE  AttemptsInv'
<1> USE DEF AttemptsInv
<1>1. PICK es \in SUBSET Due : claimed' = [claimed EXCEPT ![w] = {Selected(e) : e \in es}]
  BY DEF Select
<1>2. pc'[w] = "claim" /\ claimed'[w] = {Selected(e) : e \in es}
  BY <1>1 DEF Select, Goto, TypeInv, TypeOK
<1>3. UNCHANGED <<row, tries, purges>>
  BY DEF Select, table, history
<1>4. \A e \in es : /\ Selected(e).event = e /\ row[e] # Nil /\ row[e].status = "pending"
                     /\ e \in Events /\ row[e].attempts \in Nat
                     /\ Selected(e).attempts = row[e].attempts + 1
  BY DEF Due, Pending, Selected, TypeInv, TypeOK, EventRow
<1>5. \A e \in es : Selected(e).attempts <= MaxAttempts
  BY <1>4, BacklogAssumption DEF AttemptsLeft
<1>6. ClaimsMatchRows'
  BY <1>2, <1>3, <1>4, <1>5 DEF OneWorker, ClaimsMatchRows
<1>7. AttemptsLeft'
  BY <1>3 DEF AttemptsLeft
<1>8. \A e \in Events : ~ Owed(e)'
  BY <1>2 DEF Owed, OneWorker
<1> QED
  BY <1>3, <1>6, <1>7, <1>8 DEF TriesCounted

\* Claiming counts the attempt on the row as the run has counted it.
LEMMA ClaimAttempts ==
    ASSUME AttemptsInv, TypeInv', NEW w \in Workers, Claim(w), OneWorker
    PROVE  AttemptsInv'
<1> USE DEF AttemptsInv
<1> DEFINE of(e) == CHOOSE c \in claimed[w] : c.event = e
<1> DEFINE mine == {c.event : c \in claimed[w]}
<1>1. pc[w] = "claim" /\ pc'[w] = "apply" /\ UNCHANGED <<claimed, tries, purges>>
  BY DEF Claim, Goto, TypeInv, TypeOK, history
<1>2. ASSUME NEW c \in claimed[w]
      PROVE  /\ c.event \in Events /\ of(c.event) = c /\ c.attempts \in Nat
             /\ row[c.event] \in EventRow /\ row[c.event] # Nil
             /\ row[c.event].status = "pending" /\ c.attempts = row[c.event].attempts + 1
             /\ c.attempts <= MaxAttempts
  BY <1>1 DEF ClaimsMatchRows, TypeInv, TypeOK, Claimed
<1>3. ASSUME NEW c \in claimed[w]
      PROVE  row'[c.event] = Taken(row[c.event], c.attempts)
  BY <1>2 DEF Claim, Pending
<1>4. ASSUME NEW c \in claimed[w]
      PROVE  /\ row'[c.event] # Nil /\ row'[c.event].status = "processing"
             /\ row'[c.event].attempts = c.attempts
  BY <1>2, <1>3, TakenRow
<1>5. ASSUME NEW e \in Events \ mine
      PROVE  row'[e] = row[e]
  BY DEF Claim
<1> HIDE DEF of
<1>6. ClaimsMatchRows'
  BY <1>1, <1>2, <1>4 DEF ClaimsMatchRows, OneWorker
<1>7. AttemptsLeft'
  BY <1>2, <1>4, <1>5 DEF AttemptsLeft
<1>8. ASSUME NEW e \in Events
      PROVE  /\ row'[e] = Nil => tries'[e] <= MaxAttempts * purges'[e]
             /\ row'[e] # Nil => tries'[e] <= MaxAttempts * purges'[e] + row'[e].attempts
             /\ Owed(e)' => tries'[e] + 1 <= MaxAttempts * purges'[e] + row'[e].attempts
  <2>1. ~ Owed(e)
    BY <1>1 DEF Owed, OneWorker
  <2>2. CASE e \in mine
    <3>1. PICK c \in claimed[w] : c.event = e
      BY <2>2
    <3>2. tries[e] \in Nat /\ purges[e] \in Nat /\ row[e].attempts \in Nat
      BY <1>2, <3>1 DEF TypeInv, TypeOK, EventRow
    <3>3. tries[e] <= MaxAttempts * purges[e] + row[e].attempts
      BY <1>2, <3>1 DEF TriesCounted
    <3>4. row'[e] # Nil /\ row'[e].attempts = row[e].attempts + 1
      BY <1>2, <1>4, <3>1
    <3>5. MaxAttempts * purges[e] \in Nat
      BY <3>2, BudgetGrows
    <3> QED
      BY <1>1, <3>2, <3>3, <3>4, <3>5
  <2>3. CASE e \notin mine
    <3>1. ~ Owed(e)'
      BY <1>1, <2>3 DEF Owed, OneWorker
    <3> QED
      BY <1>1, <1>5, <2>3, <3>1 DEF TriesCounted
  <2> QED
    BY <2>2, <2>3
<1> QED
  BY <1>6, <1>7, <1>8 DEF TriesCounted

\* Applying an event makes the attempt that was owed.
LEMMA ApplyAttempts ==
    ASSUME AttemptsInv, TypeInv', NEW w \in Workers, OneWorker,
           ApplyOk(w) \/ ApplyError(w) \/ PayloadError(w)
    PROVE  AttemptsInv'
<1> USE DEF AttemptsInv
<1>1. /\ pc[w] = "apply" /\ pc'[w] \in {"succeeded", "failed", "invalid"}
      /\ UNCHANGED <<row, claimed, purges>>
  BY DEF ApplyOk, ApplyError, PayloadError, Goto, TypeInv, TypeOK, table, history
<1>2. Current(w) \in claimed[w] /\ Current(w) \in Claimed /\ Current(w)' = Current(w)
  BY <1>1, CurrentIsClaimed DEF Current, TypeInv, TypeOK, Busy
<1>3. ClaimsMatchRows' /\ AttemptsLeft'
  BY <1>1 DEF ClaimsMatchRows, AttemptsLeft, OneWorker
<1>4. \A e \in Events : Owed(e)' => Owed(e)
  BY <1>1 DEF Owed, OneWorker
<1>5. Owed(Current(w).event)
  BY <1>1, <1>2 DEF Owed
<1>6. CASE PayloadError(w)
  BY <1>1, <1>3, <1>4, <1>6 DEF PayloadError, history, TriesCounted
<1>7. CASE ApplyOk(w) \/ ApplyError(w)
  <2>1. pc'[w] \in {"succeeded", "failed"} /\ tries' = [tries EXCEPT ![Current(w).event] = @ + 1]
    BY <1>7 DEF ApplyOk, ApplyError, Goto, Tried, TypeInv, TypeOK
  <2>2. \A c \in claimed[w] : c.event = Current(w).event => c = Current(w)
    BY <1>2 DEF ClaimsMatchRows
  <2>3. \A e \in Events : e = Current(w).event => ~ Owed(e)'
    BY <1>1, <1>2, <2>1, <2>2 DEF Owed, OneWorker
  <2>4. Current(w).event \in Events /\ row[Current(w).event] # Nil
    BY <1>2 DEF ClaimsMatchRows, Claimed
  <2>5. ASSUME NEW e \in Events
        PROVE  /\ row'[e] = Nil => tries'[e] <= MaxAttempts * purges'[e]
               /\ row'[e] # Nil => tries'[e] <= MaxAttempts * purges'[e] + row'[e].attempts
               /\ Owed(e)' => tries'[e] + 1 <= MaxAttempts * purges'[e] + row'[e].attempts
    <3>1. CASE e = Current(w).event
      <4>1. tries'[e] = tries[e] + 1
        BY <2>1, <3>1 DEF TypeInv, TypeOK
      <4> QED
        BY <1>1, <1>5, <2>3, <2>4, <3>1, <4>1 DEF TriesCounted
    <3>2. CASE e # Current(w).event
      BY <1>1, <1>4, <2>1, <3>2 DEF TriesCounted, TypeInv, TypeOK
    <3> QED
      BY <3>1, <3>2
  <2> QED
    BY <1>3, <2>5 DEF TriesCounted
<1> QED
  BY <1>6, <1>7

\* Settling an event, or leaving it for another attempt it has left, pays
\* nothing back.
LEMMA MarkAttempts ==
    ASSUME AttemptsInv, TypeInv', NEW w \in Workers, OneWorker, pc[w] \notin {"idle", "claim", "apply"},
           NEW status \in {"pending"} \union Settled, NEW due \in BOOLEAN,
           status = "pending" => Current(w).attempts < MaxAttempts,
           pc[w] = "invalid" => status # "pending",
           Mark(w, status, due)
    PROVE  AttemptsInv'
<1> USE DEF AttemptsInv
<1> DEFINE cur == Current(w)
<1>1. cur \in claimed[w] /\ cur \in Claimed /\ cur.event \in Events
  BY CurrentIsClaimed DEF TypeInv, TypeOK, Busy, Claimed
<1>2. /\ row[cur.event] # Nil /\ row[cur.event] \in EventRow
      /\ row[cur.event].attempts = cur.attempts
  BY <1>1 DEF ClaimsMatchRows, TypeInv, TypeOK
<1>3. /\ row' = [row EXCEPT ![cur.event] =
                   IF @ = Nil THEN Nil ELSE Marked(@, status, due)]
      /\ claimed'[w] = claimed[w] \ {cur} /\ pc'[w] \in {"idle", "apply"}
      /\ UNCHANGED <<tries, purges>>
  BY DEF Mark, history, TypeInv, TypeOK
<1>4. row'[cur.event] = Marked(row[cur.event], status, due)
  BY <1>1, <1>2, <1>3 DEF TypeInv, TypeOK
<1>5. row'[cur.event] # Nil /\ row'[cur.event].status = status /\ row'[cur.event].attempts = cur.attempts
  BY <1>2, <1>4, MarkedRow
<1>6. \A e \in Events \ {cur.event} : row'[e] = row[e]
  BY <1>3 DEF TypeInv, TypeOK
<1>7. \A c \in claimed'[w] : c \in claimed[w] /\ c # cur /\ c.event # cur.event /\ c.event \in Events
  BY <1>1, <1>3 DEF ClaimsMatchRows, TypeInv, TypeOK, Claimed
<1> HIDE DEF cur
<1>8. ClaimsMatchRows'
  BY <1>3, <1>6, <1>7 DEF ClaimsMatchRows, OneWorker
<1>9. AttemptsLeft'
  BY <1>1, <1>2, <1>5, <1>6 DEF AttemptsLeft, cur
<1>10. ASSUME NEW e \in Events, Owed(e)'
       PROVE  Owed(e) /\ e # cur.event
  BY <1>3, <1>7, <1>10 DEF Owed, OneWorker, cur
<1> QED
  BY <1>1, <1>2, <1>3, <1>5, <1>6, <1>8, <1>9, <1>10 DEF TriesCounted

LEMMA WorkAttempts ==
    ASSUME AttemptsInv, TypeInv', NEW w \in Workers, Work(w), OneWorker
    PROVE  AttemptsInv'
<1>1. CASE MarkSucceeded(w)
  BY <1>1, MarkAttempts DEF MarkSucceeded, Settled
<1>2. CASE MarkFailed(w)
  BY <1>2, MarkAttempts DEF MarkFailed, Settled, Retries
<1>3. CASE MarkInvalid(w)
  BY <1>3, MarkAttempts DEF MarkInvalid, Settled
<1> QED
  BY <1>1, <1>2, <1>3, ClaimAttempts, ApplyAttempts DEF Work

LEMMA AttemptsStep == AttemptsInv /\ [Next]_vars /\ OneWorker => AttemptsInv'
<1> SUFFICES ASSUME AttemptsInv, [Next]_vars, OneWorker PROVE AttemptsInv'
  OBVIOUS
<1> USE DEF AttemptsInv
<1>1. TypeInv'
  BY TypeStep
<1>2. CASE UNCHANGED vars
  BY <1>1, <1>2 DEF vars, table, history, ClaimsMatchRows, AttemptsLeft, TriesCounted, Owed, Current
<1>3. ASSUME NEW w \in Workers, Crash(w) PROVE AttemptsInv'
  <2>1. claimed'[w] = {} /\ UNCHANGED <<row, tries, purges>>
    BY <1>3 DEF Crash, table, TypeInv, TypeOK
  <2> QED
    BY <1>1, <2>1 DEF ClaimsMatchRows, AttemptsLeft, TriesCounted, Owed, OneWorker
<1>4. ASSUME NEW e \in Events, RetryDue(e) PROVE AttemptsInv'
  <2>1. row' = [row EXCEPT ![e] = DueAgain(@)] /\ UNCHANGED <<pc, claimed, tries, purges>>
    BY <1>4 DEF RetryDue, history
  <2>2. row[e] \in EventRow
    BY <1>4 DEF RetryDue, Pending, TypeInv, TypeOK
  <2>3. \A d \in Events : (row'[d] = Nil <=> row[d] = Nil)
          /\ (row[d] # Nil => row'[d].status = row[d].status /\ row'[d].attempts = row[d].attempts)
    <3>1. row'[e] = DueAgain(row[e]) /\ \A d \in Events \ {e} : row'[d] = row[d]
      BY <2>1 DEF TypeInv, TypeOK
    <3>2. row[e] # Nil
      BY <2>2, NilIsNoRow
    <3> QED
      BY <2>2, <3>1, <3>2, DueRow
  <2>4. \A d \in Events : Owed(d)' <=> Owed(d)
    BY <2>1 DEF Owed, Current
  <2>5. \A d \in Events : Owed(d) => row[d] # Nil
    BY DEF Owed, ClaimsMatchRows
  <2>6. \A w \in Workers : \A c \in claimed[w] : c.event \in Events
    BY DEF TypeInv, TypeOK, Claimed
  <2>7. ClaimsMatchRows' /\ AttemptsLeft'
    BY <2>1, <2>3, <2>6 DEF ClaimsMatchRows, AttemptsLeft
  <2> QED
    BY <1>1, <2>1, <2>3, <2>4, <2>5, <2>7 DEF TriesCounted
<1>5. ASSUME NEW e \in Events, Purge(e) PROVE AttemptsInv'
  <2>1. /\ row[e] # Nil /\ row[e].status \in Settled /\ row[e] \in EventRow
        /\ UNCHANGED <<pc, claimed, tries>>
        /\ row' = [row EXCEPT ![e] = Nil] /\ purges' = [purges EXCEPT ![e] = @ + 1]
    BY <1>5 DEF Purge, TypeInv, TypeOK
  <2>2. \A w \in Workers : \A c \in claimed[w] : c.event # e /\ c.event \in Events
    BY <2>1 DEF ClaimsMatchRows, Settled, TypeInv, TypeOK, Claimed
  <2>3. row'[e] = Nil /\ \A d \in Events \ {e} : row'[d] = row[d] /\ purges'[d] = purges[d]
    BY <2>1 DEF TypeInv, TypeOK
  <2>4. ClaimsMatchRows' /\ AttemptsLeft'
    BY <2>1, <2>2, <2>3 DEF ClaimsMatchRows, AttemptsLeft
  <2>5. tries[e] <= MaxAttempts * purges'[e]
    <3>1. purges'[e] = purges[e] + 1 /\ purges[e] \in Nat /\ tries[e] \in Nat /\ row[e].attempts \in Nat
      BY <2>1 DEF TypeInv, TypeOK, EventRow
    <3>2. tries[e] <= MaxAttempts * purges[e] + row[e].attempts /\ row[e].attempts <= MaxAttempts
      BY <2>1 DEF TriesCounted, AttemptsLeft
    <3>3. MaxAttempts * purges'[e] = MaxAttempts * purges[e] + MaxAttempts /\ MaxAttempts * purges[e] \in Nat
      BY <3>1, BudgetGrows
    <3> QED
      BY <3>1, <3>2, <3>3, BacklogAssumption
  <2>6. \A d \in Events : (Owed(d)' <=> Owed(d)) /\ ~ Owed(e)
    BY <2>1, <2>2 DEF Owed, Current
  <2> QED
    BY <1>1, <2>1, <2>3, <2>4, <2>5, <2>6 DEF TriesCounted
<1> QED
  BY <1>1, <1>2, <1>3, <1>4, <1>5, DeliverAttempts, SelectAttempts, WorkAttempts DEF Next

\* When processing runs do not overlap, an event is applied max_attempts times
\* at most for each time it was accepted, whichever runs die and however often
\* it is delivered.
THEOREM SerialRunsBoundAttempts ==
    ASSUME OneWorker
    PROVE  Spec => []AttemptsBounded
<1>1. AttemptsInv /\ [Next]_vars => AttemptsInv'
  BY AttemptsStep
<1>2. AttemptsInv => AttemptsBounded
  <2> SUFFICES ASSUME AttemptsInv, NEW e \in Events
               PROVE  tries[e] <= MaxAttempts * (purges[e] + 1)
    BY DEF AttemptsBounded
  <2> USE DEF AttemptsInv
  <2>1. /\ purges[e] \in Nat /\ tries[e] \in Nat
        /\ row[e] # Nil => row[e].attempts \in Nat /\ row[e].attempts <= MaxAttempts
    BY DEF TypeInv, TypeOK, EventRow, AttemptsLeft
  <2>2. /\ MaxAttempts * (purges[e] + 1) = MaxAttempts * purges[e] + MaxAttempts
        /\ MaxAttempts * purges[e] \in Nat
    BY <2>1, BudgetGrows
  <2>3. \/ tries[e] <= MaxAttempts * purges[e]
        \/ row[e] # Nil /\ tries[e] <= MaxAttempts * purges[e] + row[e].attempts
    BY DEF TriesCounted
  <2> QED
    BY <2>1, <2>2, <2>3, BacklogAssumption
<1> QED
  BY <1>1, <1>2, AttemptsInit, PTL DEF Spec

-----------------------------------------------------------------------------
(* Events that are stranded *)

Rows == {e \in Events : row[e] # Nil}

\* There are finitely many rows, and a run holds Limit of them at most.
FewRows ==
    /\ IsFiniteSet(Rows)
    /\ \A w \in Workers : IsFiniteSet(claimed[w]) /\ Cardinality(claimed[w]) <= Limit

StrandedInv == TypeInv /\ FewRows /\ StrandedByCrashes

\* The image of a finite set is finite and no larger.
LEMMA ImageIsNoLarger ==
    ASSUME NEW S, IsFiniteSet(S), NEW f, DOMAIN f = S
    PROVE  /\ IsFiniteSet({f[x] : x \in S})
           /\ Cardinality({f[x] : x \in S}) <= Cardinality(S)
<1> DEFINE T == {f[x] : x \in S}
<1> DEFINE g == [x \in S |-> f[x]]
<1>1. g \in Surjection(S, T)
  BY DEF Surjection
<1> QED
  BY <1>1, FS_Surjection

LEMMA StrandedAreRows == Stranded \subseteq Rows
BY DEF Stranded, Rows

\* A step of a run that lives on strands no event that was not stranded.
LEMMA NoneIsStranded ==
    ASSUME StrandedInv, crashes' = crashes, Stranded' \subseteq Stranded
    PROVE  StrandedByCrashes'
<1> USE DEF StrandedInv, StrandedByCrashes
<1>1. IsFiniteSet(Stranded)
  BY StrandedAreRows, FS_Subset DEF FewRows
<1>2. Cardinality(Stranded') <= Cardinality(Stranded)
  BY <1>1, FS_Subset
<1>3. IsFiniteSet(Stranded')
  BY <1>1, FS_Subset
<1>4. Cardinality(Stranded) \in Nat /\ Cardinality(Stranded') \in Nat
  BY <1>1, <1>3, FS_CardinalityType
<1>5. Limit * crashes \in Nat
  BY BacklogAssumption DEF TypeInv, TypeOK
<1>6. Cardinality(Stranded') <= Limit * crashes
  BY <1>2, <1>4, <1>5
<1> QED
  BY <1>6

LEMMA StrandedInit == Init => StrandedInv
<1> SUFFICES ASSUME Init PROVE StrandedInv
  OBVIOUS
<1>1. Rows = {} /\ Stranded = {} /\ crashes = 0
  BY DEF Init, Rows, Stranded
<1>2. \A w \in Workers : claimed[w] = {}
  BY DEF Init
<1>3. Limit * crashes = 0 /\ 0 <= Limit
  BY <1>1, BacklogAssumption
<1>4. FewRows
  BY <1>1, <1>2, <1>3, FS_EmptySet DEF FewRows
<1>5. StrandedByCrashes
  BY <1>1, <1>3, FS_EmptySet DEF StrandedByCrashes
<1> QED
  BY <1>4, <1>5, TypeInit DEF StrandedInv

LEMMA DeliverStrands ==
    ASSUME StrandedInv, TypeInv', NEW s \in Senders, Deliver(s)
    PROVE  StrandedInv'
<1> USE DEF StrandedInv
<1>1. UNCHANGED <<pc, claimed, crashes>>
  BY DEF Deliver, Receive, Insert, history
<1>2. \A w \in Workers, e \in Events : HeldBy(w, e)' <=> HeldBy(w, e)
  BY <1>1 DEF HeldBy
<1>3. PICK new \in Events : /\ \A e \in Events \ {new} : row'[e] = row[e]
                            /\ \/ row' = row
                               \/ row'[new] # Nil /\ row'[new].status = "pending"
  <2>1. CASE Receive(s)
    BY <2>1 DEF Receive
  <2>2. CASE Insert(s)
    <3>1. delivery[s] \in Delivery /\ delivery[s].event \in Events
      BY <2>2 DEF Insert, TypeInv, TypeOK, Delivery
    <3> DEFINE fresh == [payload |-> delivery[s].payload, at |-> delivery[s].at, due |-> TRUE,
                         attempts |-> 0, status |-> "pending"]
    <3>2. fresh \in EventRow /\ fresh # Nil /\ fresh.status = "pending"
      <4>1. fresh \in EventRow
        BY <3>1 DEF Delivery, EventRow
      <4> QED
        BY <4>1, NilIsNoRow
    <3>3. row' = row \/ row' = [row EXCEPT ![delivery[s].event] = fresh]
      BY <2>2 DEF Insert
    <3> HIDE DEF fresh
    <3> QED
      BY <3>1, <3>2, <3>3 DEF TypeInv, TypeOK
  <2> QED
    BY <2>1, <2>2 DEF Deliver
<1>4. Rows' \subseteq Rows \union {new}
  BY <1>3 DEF Rows
<1>5. IsFiniteSet(Rows')
  BY <1>4, FS_AddElement, FS_Subset DEF FewRows
<1>6. Stranded' \subseteq Stranded
  BY <1>2, <1>3 DEF Stranded
<1> QED
  BY <1>1, <1>5, <1>6, NoneIsStranded DEF FewRows

\* A run selects Limit events at most, which are pending.
LEMMA SelectStrands ==
    ASSUME StrandedInv, TypeInv', NEW w \in Workers, Select(w)
    PROVE  StrandedInv'
<1> USE DEF StrandedInv
<1>1. PICK es \in SUBSET Due : /\ FirstDue(es)
                               /\ claimed' = [claimed EXCEPT ![w] = {Selected(e) : e \in es}]
  BY DEF Select
<1>2. claimed'[w] = {Selected(e) : e \in es} /\ \A v \in Workers \ {w} : claimed'[v] = claimed[v]
  BY <1>1 DEF TypeInv, TypeOK
<1>3. pc[w] = "idle" /\ \A v \in Workers \ {w} : pc'[v] = pc[v]
  BY DEF Select, Goto, TypeInv, TypeOK
<1>4. UNCHANGED <<row, crashes>>
  BY DEF Select, table, history
<1>5. IsFiniteSet(Due) /\ es \subseteq Due
  BY <1>1, FS_Subset DEF Due, Pending, Rows, FewRows
<1>6. IsFiniteSet(es) /\ Cardinality(es) <= Limit /\ Cardinality(es) \in Nat
  <2>1. IsFiniteSet(es) /\ Cardinality(es) \in Nat
    BY <1>5, FS_Subset, FS_CardinalityType
  <2>2. Cardinality(es) <= Limit
    BY <1>1, <2>1, BacklogAssumption DEF FirstDue
  <2> QED
    BY <2>1, <2>2
<1> DEFINE f == [e \in es |-> Selected(e)]
<1>7. {f[e] : e \in es} = {Selected(e) : e \in es}
  OBVIOUS
<1>8. IsFiniteSet({f[e] : e \in es}) /\ Cardinality({f[e] : e \in es}) <= Cardinality(es)
  BY <1>6, ImageIsNoLarger
<1> HIDE DEF f
<1>9. IsFiniteSet(claimed'[w]) /\ Cardinality(claimed'[w]) <= Limit
  <2>1. claimed'[w] = {f[e] : e \in es}
    BY <1>2, <1>7
  <2>2. IsFiniteSet(claimed'[w]) /\ Cardinality(claimed'[w]) <= Cardinality(es)
    BY <1>8, <2>1
  <2>3. Cardinality(claimed'[w]) \in Nat
    BY <2>2, FS_CardinalityType
  <2> QED
    BY <1>6, <2>2, <2>3, BacklogAssumption
<1>10. FewRows'
  BY <1>2, <1>4, <1>9 DEF FewRows, Rows
<1>11. \A e \in Events, v \in Workers : HeldBy(v, e) => HeldBy(v, e)'
  BY <1>2, <1>3 DEF HeldBy
<1>12. Stranded' \subseteq Stranded
  BY <1>4, <1>11 DEF Stranded
<1> QED
  BY <1>4, <1>10, <1>12, NoneIsStranded

\* Claiming puts an event in processing only where a run holds it.
LEMMA ClaimStrands ==
    ASSUME StrandedInv, TypeInv', NEW w \in Workers, Claim(w)
    PROVE  StrandedInv'
<1> USE DEF StrandedInv
<1>1. /\ pc[w] = "claim" /\ pc'[w] = "apply" /\ \A v \in Workers \ {w} : pc'[v] = pc[v]
      /\ UNCHANGED <<claimed, crashes>>
  BY DEF Claim, Goto, TypeInv, TypeOK, history
<1>2. \A e \in Events, v \in Workers : HeldBy(v, e) => HeldBy(v, e)'
  BY <1>1 DEF HeldBy
<1>3. \A e \in Events : row'[e] # Nil => row[e] # Nil
  BY DEF Claim, Pending
<1>4. \A e \in Events : row'[e] = row[e] \/ HeldBy(w, e)
  BY <1>1 DEF Claim, HeldBy
<1>5. Rows' \subseteq Rows
  BY <1>3 DEF Rows
<1>6. FewRows'
  BY <1>1, <1>5, FS_Subset DEF FewRows
<1>7. Stranded' \subseteq Stranded
  BY <1>2, <1>4 DEF Stranded
<1> QED
  BY <1>1, <1>6, <1>7, NoneIsStranded

\* A run lets go of an event only when its row is out of processing.
LEMMA MarkStrands ==
    ASSUME StrandedInv, TypeInv', NEW w \in Workers, pc[w] # "idle",
           NEW status \in {"pending"} \union Settled, NEW due \in BOOLEAN,
           Mark(w, status, due)
    PROVE  StrandedInv'
<1> USE DEF StrandedInv
<1> DEFINE cur == Current(w)
<1>1. cur \in claimed[w] /\ cur.event \in Events
  BY CurrentIsClaimed DEF TypeInv, TypeOK, Busy, Claimed
<1>2. /\ claimed'[w] = claimed[w] \ {cur}
      /\ pc'[w] = IF claimed[w] = {cur} THEN "idle" ELSE "apply"
      /\ \A v \in Workers \ {w} : claimed'[v] = claimed[v] /\ pc'[v] = pc[v]
      /\ crashes' = crashes
  BY DEF Mark, history, TypeInv, TypeOK
<1>3. row'[cur.event] = IF row[cur.event] = Nil THEN Nil ELSE Marked(row[cur.event], status, due)
  BY <1>1 DEF Mark, TypeInv, TypeOK
<1>4. \A e \in Events \ {cur.event} : row'[e] = row[e]
  BY DEF Mark, TypeInv, TypeOK
<1>5. row'[cur.event] # Nil => row[cur.event] # Nil /\ row'[cur.event].status # "processing"
  <2>1. row[cur.event] # Nil => Marked(row[cur.event], status, due).status = status
    BY <1>1, MarkedRow DEF TypeInv, TypeOK
  <2> QED
    BY <1>3, <2>1 DEF Settled
<1> HIDE DEF cur
<1>6. \A e \in Events \ {cur.event}, v \in Workers : HeldBy(v, e) => HeldBy(v, e)'
  BY <1>1, <1>2 DEF HeldBy
<1>7. Stranded' \subseteq Stranded
  BY <1>1, <1>4, <1>5, <1>6 DEF Stranded
<1>8. Rows' \subseteq Rows
  BY <1>4, <1>5 DEF Rows
<1>9. IsFiniteSet(claimed'[w]) /\ Cardinality(claimed'[w]) <= Limit
  <2>1. IsFiniteSet(claimed'[w]) /\ Cardinality(claimed'[w]) <= Cardinality(claimed[w])
    BY <1>2, FS_Subset DEF FewRows
  <2>2. Cardinality(claimed'[w]) \in Nat /\ Cardinality(claimed[w]) \in Nat
    BY <2>1, FS_CardinalityType DEF FewRows
  <2> QED
    BY <2>1, <2>2, BacklogAssumption DEF FewRows
<1>10. FewRows'
  BY <1>2, <1>8, <1>9, FS_Subset DEF FewRows
<1> QED
  BY <1>2, <1>7, <1>10, NoneIsStranded

LEMMA WorkStrands ==
    ASSUME StrandedInv, TypeInv', NEW w \in Workers, Work(w)
    PROVE  StrandedInv'
<1>1. CASE ApplyOk(w) \/ ApplyError(w) \/ PayloadError(w)
  <2>1. /\ pc[w] # "idle" /\ pc'[w] # "idle" /\ \A v \in Workers \ {w} : pc'[v] = pc[v]
        /\ UNCHANGED <<row, claimed, crashes>>
    BY <1>1 DEF ApplyOk, ApplyError, PayloadError, Goto, StrandedInv, TypeInv, TypeOK, table, history
  <2>2. FewRows'
    BY <2>1 DEF StrandedInv, FewRows, Rows
  <2>3. Stranded' \subseteq Stranded
    BY <2>1 DEF Stranded, HeldBy
  <2> QED
    BY <2>1, <2>2, <2>3, NoneIsStranded DEF StrandedInv
<1>2. CASE MarkSucceeded(w)
  BY <1>2, MarkStrands DEF MarkSucceeded, Settled
<1>3. CASE MarkFailed(w)
  BY <1>3, MarkStrands DEF MarkFailed, Settled
<1>4. CASE MarkInvalid(w)
  BY <1>4, MarkStrands DEF MarkInvalid, Settled
<1> QED
  BY <1>1, <1>2, <1>3, <1>4, ClaimStrands DEF Work

\* The death of a run strands what it held, no more than Limit events.
LEMMA CrashStrands ==
    ASSUME StrandedInv, TypeInv', NEW w \in Workers, Crash(w)
    PROVE  StrandedInv'
<1> USE DEF StrandedInv
<1> DEFINE f == [c \in claimed[w] |-> c.event]
<1> DEFINE lost == {f[c] : c \in claimed[w]}
<1>1. /\ claimed'[w] = {}
      /\ \A v \in Workers \ {w} : claimed'[v] = claimed[v] /\ pc'[v] = pc[v]
      /\ row' = row /\ crashes' = crashes + 1 /\ crashes \in Nat
  BY BacklogAssumption DEF Crash, table, TypeInv, TypeOK
<1>2. FewRows'
  <2>1. IsFiniteSet(Rows')
    BY <1>1 DEF FewRows, Rows
  <2>2. IsFiniteSet(claimed'[w]) /\ Cardinality(claimed'[w]) <= Limit
    BY <1>1, FS_EmptySet, BacklogAssumption
  <2> QED
    BY <1>1, <2>1, <2>2 DEF FewRows
<1>3. IsFiniteSet(lost) /\ Cardinality(lost) <= Cardinality(claimed[w])
  BY ImageIsNoLarger DEF FewRows
<1>4. Stranded' \subseteq Stranded \union lost
  <2>1. \A e \in Events, v \in Workers \ {w} : HeldBy(v, e) => HeldBy(v, e)'
    BY <1>1 DEF HeldBy
  <2>2. \A e \in Events : HeldBy(w, e) => e \in lost
    BY DEF HeldBy
  <2> HIDE DEF lost
  <2> QED
    BY <1>1, <2>1, <2>2 DEF Stranded
<1> HIDE DEF lost
<1>5. IsFiniteSet(Stranded)
  BY StrandedAreRows, FS_Subset DEF FewRows
<1>6. /\ IsFiniteSet(Stranded \union lost)
      /\ Cardinality(Stranded \union lost) =
           Cardinality(Stranded) + Cardinality(lost) - Cardinality(Stranded \intersect lost)
  BY <1>3, <1>5, FS_Union
<1>7. IsFiniteSet(Stranded') /\ Cardinality(Stranded') <= Cardinality(Stranded \union lost)
  BY <1>4, <1>6, FS_Subset
<1>8. /\ Cardinality(Stranded) \in Nat /\ Cardinality(lost) \in Nat
      /\ Cardinality(Stranded \intersect lost) \in Nat /\ Cardinality(claimed[w]) \in Nat
      /\ Cardinality(Stranded') \in Nat /\ Cardinality(claimed[w]) <= Limit
  BY <1>3, <1>5, <1>7, FS_Intersection, FS_CardinalityType DEF FewRows
<1>9. Cardinality(Stranded') <= Cardinality(Stranded) + Limit
  BY <1>3, <1>6, <1>7, <1>8, BacklogAssumption
<1>10. Limit * (crashes + 1) = Limit * crashes + Limit /\ Limit * crashes \in Nat
  BY <1>1, BacklogAssumption
<1>11. StrandedByCrashes'
  BY <1>1, <1>8, <1>9, <1>10, BacklogAssumption DEF StrandedByCrashes
<1> QED
  BY <1>2, <1>11

LEMMA StrandedStep == StrandedInv /\ [Next]_vars => StrandedInv'
<1> SUFFICES ASSUME StrandedInv, [Next]_vars PROVE StrandedInv'
  OBVIOUS
<1>1. TypeInv'
  BY TypeStep DEF StrandedInv
<1>2. CASE UNCHANGED vars
  BY <1>1, <1>2 DEF vars, table, history, StrandedInv, FewRows, Rows, StrandedByCrashes, Stranded, HeldBy
<1>3. ASSUME NEW e \in Events, RetryDue(e) PROVE StrandedInv'
  <2>1. row[e] \in EventRow /\ row' = [row EXCEPT ![e] = DueAgain(@)] /\ UNCHANGED <<pc, claimed, crashes>>
    BY <1>3 DEF RetryDue, Pending, history, StrandedInv, TypeInv, TypeOK
  <2>2. /\ row'[e] # Nil /\ row[e] # Nil /\ row'[e].status = row[e].status
        /\ \A d \in Events \ {e} : row'[d] = row[d]
    BY <2>1, DueRow, NilIsNoRow DEF StrandedInv, TypeInv, TypeOK
  <2>3. Rows' = Rows /\ Stranded' = Stranded
    BY <2>1, <2>2 DEF Rows, Stranded, HeldBy
  <2> QED
    BY <1>1, <2>1, <2>3 DEF StrandedInv, FewRows, StrandedByCrashes
<1>4. ASSUME NEW e \in Events, Purge(e) PROVE StrandedInv'
  <2>1. row' = [row EXCEPT ![e] = Nil] /\ UNCHANGED <<pc, claimed, crashes>>
    BY <1>4 DEF Purge
  <2>2. Rows' \subseteq Rows /\ Stranded' \subseteq Stranded
    BY <2>1 DEF Rows, Stranded, HeldBy, StrandedInv, TypeInv, TypeOK
  <2>3. FewRows'
    BY <2>1, <2>2, FS_Subset DEF FewRows, StrandedInv
  <2> QED
    BY <1>1, <2>1, <2>2, <2>3, NoneIsStranded DEF StrandedInv
<1> QED
  BY <1>1, <1>2, <1>3, <1>4, DeliverStrands, SelectStrands, WorkStrands, CrashStrands DEF Next

\* However many runs overlap and whatever is delivered, marked and purged: only
\* the death of a run leaves events in "processing", Limit of them at most.
THEOREM OnlyCrashesStrand == Spec => []StrandedByCrashes
<1>1. StrandedInv => StrandedByCrashes
  BY DEF StrandedInv
<1> QED
  BY <1>1, StrandedInit, StrandedStep, PTL DEF Spec

-----------------------------------------------------------------------------
(* What a step does to rows and claims, while runs do not overlap *)

\* A delivery that is not known adds a pending row no run holds.
LEMMA InsertEffect ==
    ASSUME AttemptsInv, NEW s \in Senders, Insert(s)
    PROVE  /\ delivery[s] \in Delivery /\ delivery' = [delivery EXCEPT ![s] = Nil]
           /\ UNCHANGED <<deliveries, pc, claimed, tries, done, purges>>
           /\ \/ row' = row
              \/ \E e \in Events :
                    /\ \A d \in Events : KeyOf[d] = KeyOf[e] => row[d] = Nil
                    /\ row'[e] # Nil /\ row'[e].at = delivery[s].at /\ row'[e].due
                    /\ row'[e].attempts = 0 /\ row'[e].status = "pending"
                    /\ \A d \in Events \ {e} : row'[d] = row[d]
                    /\ \A w \in Workers : \A c \in claimed[w] : c.event # e
<1> USE DEF AttemptsInv
<1> DEFINE e == delivery[s].event
<1> DEFINE fresh == [payload |-> delivery[s].payload, at |-> delivery[s].at, due |-> TRUE,
                     attempts |-> 0, status |-> "pending"]
<1>1. delivery[s] \in Delivery /\ e \in Events
  BY DEF Insert, TypeInv, TypeOK, Delivery
<1>2. fresh \in EventRow
  BY <1>1 DEF Delivery, EventRow
<1>3. /\ fresh # Nil /\ fresh.at = delivery[s].at /\ fresh.due /\ fresh.attempts = 0
      /\ fresh.status = "pending"
  BY <1>2, NilIsNoRow
<1> HIDE DEF fresh
<1>4. ASSUME ~ Known(e)
      PROVE  /\ \A d \in Events : KeyOf[d] = KeyOf[e] => row[d] = Nil
             /\ \A w \in Workers : \A c \in claimed[w] : c.event # e
             /\ row'[e] = fresh /\ \A d \in Events \ {e} : row'[d] = row[d]
  <2>1. \A d \in Events : KeyOf[d] = KeyOf[e] => row[d] = Nil
    BY <1>4 DEF Known
  <2>2. row[e] = Nil
    BY <1>1, <2>1
  <2>3. \A w \in Workers : \A c \in claimed[w] : c.event # e
    BY <2>2 DEF ClaimsMatchRows
  <2>4. row' = [row EXCEPT ![e] = fresh]
    BY <1>4 DEF Insert, fresh
  <2>5. row'[e] = fresh /\ \A d \in Events \ {e} : row'[d] = row[d]
    BY <1>1, <2>4 DEF TypeInv, TypeOK
  <2> QED
    BY <2>1, <2>3, <2>5
<1>5. Known(e) => row' = row
  BY DEF Insert
<1>6. delivery' = [delivery EXCEPT ![s] = Nil] /\ UNCHANGED <<deliveries, pc, claimed, tries, done, purges>>
  BY DEF Insert, history
<1> HIDE DEF e
<1> QED
  BY <1>1, <1>3, <1>4, <1>5, <1>6

\* A run that selects holds pending rows; it held nothing before.
LEMMA SelectEffect ==
    ASSUME AttemptsInv, NEW w \in Workers, Select(w)
    PROVE  /\ pc[w] = "idle" /\ claimed[w] = {} /\ pc'[w] = "claim"
           /\ UNCHANGED <<row, delivery, deliveries, tries, done, purges>>
           /\ \E es \in SUBSET Due :
                /\ \A e \in es, d \in Due \ es : row[e].at < row[d].at
                /\ \A c \in claimed'[w] : \E e \in es : c.event = e /\ c.at = row[e].at
                                                        /\ c.payload = row[e].payload
                /\ \A e \in es : \E c \in claimed'[w] : c.event = e
<1> USE DEF AttemptsInv, TypeInv, TypeOK, Busy
<1>1. PICK es \in SUBSET Due : FirstDue(es) /\ claimed' = [claimed EXCEPT ![w] = {Selected(e) : e \in es}]
  BY DEF Select
<1>2. claimed'[w] = {Selected(e) : e \in es}
  BY <1>1
<1>3. /\ pc[w] = "idle" /\ claimed[w] = {} /\ pc'[w] = "claim"
      /\ UNCHANGED <<row, delivery, deliveries, tries, done, purges>>
  BY DEF Select, Goto, table, history
<1>4. \A e \in es : /\ Selected(e).event = e /\ Selected(e).at = row[e].at
                    /\ Selected(e).payload = row[e].payload
  BY DEF Selected
<1>5. \A e \in es, d \in Due \ es : row[e].at < row[d].at
  BY <1>1 DEF FirstDue
<1>6. \A c \in claimed'[w] : \E e \in es : c.event = e /\ c.at = row[e].at /\ c.payload = row[e].payload
  BY <1>2, <1>4
<1>7. \A e \in es : \E c \in claimed'[w] : c.event = e
  BY <1>2, <1>4
<1>8. es \in SUBSET Due
  OBVIOUS
<1> QED
  BY ONLY <1>3, <1>5, <1>6, <1>7, <1>8

\* The rows a run claims are the pending ones it has selected.
LEMMA ClaimEffect ==
    ASSUME AttemptsInv, NEW w \in Workers, Claim(w)
    PROVE  /\ pc[w] = "claim" /\ pc'[w] = "apply"
           /\ UNCHANGED <<delivery, deliveries, claimed, tries, done, purges>>
           /\ \A c \in claimed[w] :
                /\ c.event \in Events /\ row[c.event] # Nil /\ row[c.event].status = "pending"
                /\ row'[c.event] # Nil /\ row'[c.event].status = "processing"
                /\ row'[c.event].attempts = row[c.event].attempts + 1
                /\ row'[c.event].payload = row[c.event].payload
                /\ row'[c.event].at = row[c.event].at
           /\ \A e \in Events : (\A c \in claimed[w] : c.event # e) => row'[e] = row[e]
<1> USE DEF AttemptsInv
<1> DEFINE of(e) == CHOOSE c \in claimed[w] : c.event = e
<1>1. /\ pc[w] = "claim" /\ pc'[w] = "apply"
      /\ UNCHANGED <<delivery, deliveries, claimed, tries, done, purges>>
  BY DEF Claim, Goto, TypeInv, TypeOK, history
<1>2. ASSUME NEW c \in claimed[w]
      PROVE  /\ c.event \in Events /\ of(c.event) = c /\ c.attempts \in Nat
             /\ row[c.event] \in EventRow /\ row[c.event] # Nil
             /\ row[c.event].status = "pending" /\ c.attempts = row[c.event].attempts + 1
  BY <1>1 DEF ClaimsMatchRows, TypeInv, TypeOK, Claimed
<1>3. ASSUME NEW c \in claimed[w]
      PROVE  row'[c.event] = Taken(row[c.event], c.attempts)
  BY <1>2 DEF Claim, Pending
<1>4. ASSUME NEW e \in Events, \A c \in claimed[w] : c.event # e
      PROVE  row'[e] = row[e]
  BY <1>4 DEF Claim
<1> HIDE DEF of
<1>5. ASSUME NEW c \in claimed[w]
      PROVE  /\ row'[c.event] # Nil /\ row'[c.event].status = "processing"
             /\ row'[c.event].attempts = row[c.event].attempts + 1
             /\ row'[c.event].payload = row[c.event].payload
             /\ row'[c.event].at = row[c.event].at
  BY <1>2, <1>3, TakenRow
<1> QED
  BY <1>1, <1>2, <1>4, <1>5

\* Applying reads the event the run is at and writes no row.
LEMMA ApplyEffect ==
    ASSUME AttemptsInv, NEW w \in Workers, ApplyOk(w) \/ ApplyError(w) \/ PayloadError(w)
    PROVE  /\ pc[w] = "apply" /\ pc'[w] \in {"succeeded", "failed", "invalid"}
           /\ Current(w) \in claimed[w] /\ Current(w).event \in Events /\ Current(w)' = Current(w)
           /\ UNCHANGED <<row, delivery, deliveries, claimed, purges>>
<1> USE DEF AttemptsInv
<1>1. /\ pc[w] = "apply" /\ pc'[w] \in {"succeeded", "failed", "invalid"}
      /\ UNCHANGED <<row, delivery, deliveries, claimed, purges>>
  BY DEF ApplyOk, ApplyError, PayloadError, Goto, TypeInv, TypeOK, table, history
<1>2. Current(w) \in claimed[w] /\ Current(w).event \in Events
  BY <1>1, CurrentIsClaimed DEF TypeInv, TypeOK, Busy, Claimed
<1> QED
  BY <1>1, <1>2 DEF Current

\* Settling writes the row of the event the run is at, which was in processing.
LEMMA MarkEffect ==
    ASSUME AttemptsInv, NEW w \in Workers, pc[w] \in {"succeeded", "failed", "invalid"},
           NEW status \in {"pending"} \union Settled, NEW due \in BOOLEAN, Mark(w, status, due)
    PROVE  LET cur == Current(w) IN
           /\ cur \in claimed[w] /\ cur.event \in Events
           /\ row[cur.event] # Nil /\ row[cur.event].status = "processing"
           /\ row[cur.event].attempts \in Nat /\ cur.attempts = row[cur.event].attempts
           /\ row'[cur.event] # Nil /\ row'[cur.event].status = status
           /\ row'[cur.event].attempts = row[cur.event].attempts
           /\ row'[cur.event].payload = row[cur.event].payload
           /\ row'[cur.event].at = row[cur.event].at
           /\ \A e \in Events \ {cur.event} : row'[e] = row[e]
           /\ claimed'[w] = claimed[w] \ {cur}
           /\ \A c \in claimed'[w] : c \in claimed[w] /\ c.event # cur.event
           /\ pc'[w] \in {"idle", "apply"} /\ (pc'[w] = "idle" <=> claimed'[w] = {})
           /\ UNCHANGED <<delivery, deliveries, tries, done, purges>>
<1> USE DEF AttemptsInv
<1> DEFINE cur == Current(w)
<1>1. cur \in claimed[w] /\ cur.event \in Events
  BY CurrentIsClaimed DEF TypeInv, TypeOK, Busy, Claimed
<1>2. /\ row[cur.event] # Nil /\ row[cur.event] \in EventRow /\ row[cur.event].status = "processing"
      /\ cur.attempts = row[cur.event].attempts
  BY <1>1 DEF ClaimsMatchRows, TypeInv, TypeOK
<1>3. row[cur.event].attempts \in Nat
  BY <1>2 DEF EventRow
<1>4. row'[cur.event] = Marked(row[cur.event], status, due)
  BY <1>1, <1>2 DEF Mark, TypeInv, TypeOK
<1>5. /\ row'[cur.event] # Nil /\ row'[cur.event].status = status
      /\ row'[cur.event].attempts = row[cur.event].attempts
      /\ row'[cur.event].payload = row[cur.event].payload
      /\ row'[cur.event].at = row[cur.event].at
  BY <1>2, <1>4, MarkedRow
<1>6. \A e \in Events \ {cur.event} : row'[e] = row[e]
  BY DEF Mark, TypeInv, TypeOK
<1>7. /\ claimed'[w] = claimed[w] \ {cur}
      /\ pc'[w] \in {"idle", "apply"} /\ (pc'[w] = "idle" <=> claimed[w] = {cur})
      /\ UNCHANGED <<delivery, deliveries, tries, done, purges>>
  BY DEF Mark, history, TypeInv, TypeOK
<1>8. \A c \in claimed'[w] : c \in claimed[w] /\ c.event # cur.event
  BY <1>1, <1>7 DEF ClaimsMatchRows
<1>9. claimed[w] = {cur} <=> claimed'[w] = {}
  BY <1>1, <1>7
<1> HIDE DEF cur
<1>10. LET c == cur IN
           /\ c \in claimed[w] /\ c.event \in Events
           /\ row[c.event] # Nil /\ row[c.event].status = "processing"
           /\ row[c.event].attempts \in Nat /\ c.attempts = row[c.event].attempts
           /\ row'[c.event] # Nil /\ row'[c.event].status = status
           /\ row'[c.event].attempts = row[c.event].attempts
           /\ row'[c.event].payload = row[c.event].payload
           /\ row'[c.event].at = row[c.event].at
           /\ \A e \in Events \ {c.event} : row'[e] = row[e]
           /\ claimed'[w] = claimed[w] \ {c}
           /\ \A d \in claimed'[w] : d \in claimed[w] /\ d.event # c.event
           /\ pc'[w] \in {"idle", "apply"} /\ (pc'[w] = "idle" <=> claimed'[w] = {})
           /\ UNCHANGED <<delivery, deliveries, tries, done, purges>>
  BY <1>1, <1>2, <1>3, <1>5, <1>6, <1>7, <1>8, <1>9
<1> QED
  BY <1>10 DEF cur

\* When its retry time comes a row is due and nothing else.
LEMMA RetryEffect ==
    ASSUME AttemptsInv, NEW e \in Events, RetryDue(e)
    PROVE  /\ row[e] # Nil /\ row[e].status = "pending" /\ row'[e] # Nil /\ row'[e].due
           /\ row'[e].status = row[e].status /\ row'[e].attempts = row[e].attempts
           /\ row'[e].payload = row[e].payload /\ row'[e].at = row[e].at
           /\ \A d \in Events \ {e} : row'[d] = row[d]
           /\ UNCHANGED <<delivery, deliveries, pc, claimed, tries, done, purges>>
<1> USE DEF AttemptsInv
<1>1. row[e] \in EventRow /\ row[e] # Nil /\ row[e].status = "pending"
  BY DEF RetryDue, Pending, TypeInv, TypeOK
<1>2. row'[e] = DueAgain(row[e]) /\ \A d \in Events \ {e} : row'[d] = row[d]
  BY DEF RetryDue, TypeInv, TypeOK
<1> QED
  BY <1>1, <1>2, DueRow DEF RetryDue, history

\* A run that dies holds nothing any more.
LEMMA CrashEffect ==
    ASSUME AttemptsInv, NEW w \in Workers, Crash(w)
    PROVE  /\ pc'[w] = "idle" /\ claimed'[w] = {}
           /\ UNCHANGED <<row, delivery, deliveries, tries, done, purges>>
BY DEF AttemptsInv, Crash, table, TypeInv, TypeOK

\* Only settled rows are purged, which no run holds.
LEMMA PurgeEffect ==
    ASSUME AttemptsInv, NEW e \in Events, Purge(e)
    PROVE  /\ row[e] # Nil /\ row[e].status \in Settled /\ row'[e] = Nil /\ purges'[e] > 0
           /\ \A d \in Events \ {e} : row'[d] = row[d] /\ purges'[d] = purges[d]
           /\ \A w \in Workers : \A c \in claimed[w] : c.event # e
           /\ UNCHANGED <<delivery, deliveries, pc, claimed, tries, done>>
<1> USE DEF AttemptsInv
<1>1. /\ row' = [row EXCEPT ![e] = Nil] /\ purges' = [purges EXCEPT ![e] = @ + 1]
      /\ row[e] # Nil /\ row[e].status \in Settled
      /\ UNCHANGED <<delivery, deliveries, pc, claimed, tries, done>>
  BY DEF Purge
<1>2. /\ row'[e] = Nil /\ purges'[e] = purges[e] + 1 /\ purges[e] \in Nat
      /\ \A d \in Events \ {e} : row'[d] = row[d] /\ purges'[d] = purges[d]
  BY <1>1 DEF TypeInv, TypeOK
<1>3. \A w \in Workers : \A c \in claimed[w] : c.event # e
  BY <1>1 DEF ClaimsMatchRows, Settled
<1> QED
  BY <1>1, <1>2, <1>3

-----------------------------------------------------------------------------
(* What settled rows tell, while runs do not overlap *)

\* What a run keeps of an event is what its row says.
ClaimsKeepRows ==
    \A w \in Workers : \A c \in claimed[w] :
        c.payload = row[c.event].payload /\ c.at = row[c.event].at

\* Run w is at event e, which it has tried, to the end that step names.
At(w, step, e) == pc[w] = step /\ Current(w).event = e

\* The history of an event that was never purged, as its row and the run that
\* holds it tell it.
HistoryOf(e) ==
    /\ row[e] = Nil => tries[e] = 0 /\ done[e] = 0
    /\ row[e] # Nil =>
        /\ done[e] <= tries[e]
        /\ row[e].payload \in Malformed => tries[e] = 0
        /\ row[e].status = "pending" => tries[e] = row[e].attempts /\ done[e] = 0
        /\ row[e].status = "succeeded" => done[e] > 0
        /\ row[e].status = "failed" => tries[e] = MaxAttempts /\ done[e] = 0
        /\ row[e].status = "invalid" => tries[e] = 0 /\ row[e].payload \in Malformed
        /\ Owed(e) => tries[e] + 1 = row[e].attempts /\ done[e] = 0
        /\ \A w \in Workers : At(w, "succeeded", e) => done[e] > 0
        /\ \A w \in Workers : At(w, "failed", e) => tries[e] = row[e].attempts /\ done[e] = 0
        /\ \A w \in Workers : At(w, "invalid", e) => row[e].payload \in Malformed

HistoryInv ==
    /\ AttemptsInv /\ ClaimsKeepRows
    /\ \A e \in Events : purges[e] = 0 => HistoryOf(e)

\* A run is at an event it holds.
LEMMA AtIsHeld ==
    ASSUME AttemptsInv, NEW w \in Workers, NEW e,
           NEW step \in {"succeeded", "failed", "invalid"}, At(w, step, e)
    PROVE  Current(w) \in claimed[w] /\ Current(w).event = e /\ row[e] # Nil
                                     /\ row[e].status = "processing"
<1>1. Current(w) \in claimed[w] /\ Current(w).event = e
  BY CurrentIsClaimed DEF At, AttemptsInv, TypeInv, TypeOK, Busy
<1> QED
  BY <1>1 DEF AttemptsInv, ClaimsMatchRows, At

\* The history of an event does not change where its row keeps its payload,
\* status and attempts and no run comes to hold it.
LEMMA SameHistory ==
    ASSUME NEW e \in Events, HistoryOf(e),
           row[e] = Nil <=> row'[e] = Nil,
           row[e] # Nil => /\ row'[e].payload = row[e].payload /\ row'[e].status = row[e].status
                           /\ row'[e].attempts = row[e].attempts,
           tries'[e] = tries[e], done'[e] = done[e], Owed(e)' => Owed(e),
           \A w \in Workers : \A step \in {"succeeded", "failed", "invalid"} :
              At(w, step, e)' => At(w, step, e)
    PROVE  HistoryOf(e)'
BY DEF HistoryOf

LEMMA HistoryInit == Init => HistoryInv
BY AttemptsInit DEF Init, HistoryInv, ClaimsKeepRows, HistoryOf

LEMMA DeliverHistory ==
    ASSUME HistoryInv, AttemptsInv', NEW s \in Senders, Deliver(s)
    PROVE  HistoryInv'
<1> USE DEF HistoryInv
<1>1. CASE Receive(s)
  <2>1. UNCHANGED <<row, pc, claimed, tries, done, purges>>
    BY <1>1 DEF Receive, history
  <2>2. \A e \in Events : Owed(e)' <=> Owed(e)
    BY <2>1 DEF Owed, Current
  <2>3. \A w \in Workers, e \in Events, step \in {"succeeded", "failed", "invalid"} :
          At(w, step, e)' <=> At(w, step, e)
    BY <2>1 DEF At, Current
  <2> QED
    BY <2>1, <2>2, <2>3 DEF ClaimsKeepRows, HistoryOf
<1>2. CASE Insert(s)
  <2>1. UNCHANGED <<pc, claimed, tries, done, purges>>
    BY <1>2, InsertEffect
  <2>2. \A e \in Events : Owed(e)' <=> Owed(e)
    BY <2>1 DEF Owed, Current
  <2>3. \A w \in Workers, e \in Events, step \in {"succeeded", "failed", "invalid"} :
          At(w, step, e)' <=> At(w, step, e)
    BY <2>1 DEF At, Current
  <2>4. CASE row' = row
    BY <2>1, <2>2, <2>3, <2>4 DEF ClaimsKeepRows, HistoryOf
  <2>5. CASE row' # row
    <3>1. PICK new \in Events :
            /\ row[new] = Nil /\ row'[new] # Nil /\ row'[new].attempts = 0 /\ row'[new].status = "pending"
            /\ \A d \in Events \ {new} : row'[d] = row[d]
            /\ \A w \in Workers : \A c \in claimed[w] : c.event # new
      BY <1>2, <2>5, InsertEffect
    <3>2. ~ Owed(new) /\ \A w \in Workers, step \in {"succeeded", "failed", "invalid"} : ~ At(w, step, new)
      BY <3>1, AtIsHeld DEF Owed
    <3>3. \A w \in Workers : \A c \in claimed[w] : c.event \in Events \ {new}
      BY <3>1 DEF AttemptsInv, TypeInv, TypeOK, Claimed
    <3>4. ClaimsKeepRows'
      BY <2>1, <3>1, <3>3 DEF ClaimsKeepRows
    <3>5. purges[new] = 0 => HistoryOf(new)'
      BY <2>1, <2>2, <2>3, <3>1, <3>2 DEF HistoryOf
    <3>6. ASSUME NEW e \in Events \ {new}, purges[e] = 0
          PROVE  HistoryOf(e)'
      BY <2>1, <2>2, <2>3, <3>1, <3>6, SameHistory
    <3> QED
      BY <2>1, <3>4, <3>5, <3>6
  <2> QED
    BY <2>4, <2>5
<1> QED
  BY <1>1, <1>2 DEF Deliver

\* Selecting and dying change no row; nothing is tried or owed afterwards.
LEMMA IdleHistory ==
    ASSUME HistoryInv, AttemptsInv', OneWorker, NEW w \in Workers, Select(w) \/ Crash(w)
    PROVE  HistoryInv'
<1> USE DEF HistoryInv
<1>1. pc'[w] \in {"idle", "claim"} /\ UNCHANGED <<row, tries, done, purges>>
  BY SelectEffect, CrashEffect
<1>2. \A c \in claimed'[w] : c.payload = row[c.event].payload /\ c.at = row[c.event].at
  BY SelectEffect, CrashEffect
<1>3. ClaimsKeepRows'
  BY <1>1, <1>2 DEF ClaimsKeepRows, OneWorker
<1>4. ~ pc'[w] = "idle" => pc'[w] = "claim"
  BY <1>1
<1>5. \A e \in Events : ~ Owed(e)'
  <2>1. pc'[w] = "idle" => claimed'[w] = {}
    BY DEF AttemptsInv, TypeInv, Busy
  <2> QED
    BY <1>4, <2>1 DEF Owed, OneWorker
<1>6. \A v \in Workers, e \in Events, step \in {"succeeded", "failed", "invalid"} : ~ At(v, step, e)'
  BY <1>1 DEF At, OneWorker
<1>7. ASSUME NEW e \in Events, purges[e] = 0
      PROVE  HistoryOf(e)'
  BY <1>1, <1>5, <1>6, <1>7, SameHistory
<1> QED
  BY <1>1, <1>3, <1>7

LEMMA ClaimHistory ==
    ASSUME HistoryInv, AttemptsInv', OneWorker, NEW w \in Workers, Claim(w)
    PROVE  HistoryInv'
<1> USE DEF HistoryInv
<1>1. pc'[w] = "apply" /\ UNCHANGED <<claimed, tries, done, purges>> /\ ~ pc'[w] = "claim"
  BY ClaimEffect
<1>2. ASSUME NEW c \in claimed[w]
      PROVE  /\ c.event \in Events /\ row[c.event] # Nil /\ row[c.event].status = "pending"
             /\ row'[c.event] # Nil /\ row'[c.event].status = "processing"
             /\ row'[c.event].attempts = row[c.event].attempts + 1
             /\ row'[c.event].payload = row[c.event].payload /\ row'[c.event].at = row[c.event].at
  BY ClaimEffect
<1>3. ClaimsKeepRows'
  BY <1>1, <1>2 DEF ClaimsKeepRows, OneWorker
<1>4. \A v \in Workers, e \in Events, step \in {"succeeded", "failed", "invalid"} : ~ At(v, step, e)'
  BY <1>1 DEF At, OneWorker
<1>5. ASSUME NEW e \in Events, purges[e] = 0
      PROVE  HistoryOf(e)'
  <2>1. HistoryOf(e)
    BY <1>5
  <2>2. CASE \E c \in claimed[w] : c.event = e
    <3>1. /\ row[e] # Nil /\ row[e].status = "pending" /\ row'[e] # Nil
          /\ row'[e].status = "processing" /\ row'[e].attempts = row[e].attempts + 1
          /\ row'[e].payload = row[e].payload
      BY <1>2, <2>2
    <3>2. tries[e] = row[e].attempts /\ done[e] = 0 /\ tries[e] \in Nat
      BY <2>1, <3>1 DEF HistoryOf, AttemptsInv, TypeInv, TypeOK
    <3> QED
      BY <1>1, <1>4, <2>1, <3>1, <3>2 DEF HistoryOf
  <2>3. CASE \A c \in claimed[w] : c.event # e
    <3>1. row'[e] = row[e]
      BY <2>3, ClaimEffect
    <3>2. ~ Owed(e)'
      BY <1>1, <2>3 DEF Owed, OneWorker
    <3> QED
      BY <1>1, <1>4, <2>1, <3>1, <3>2, SameHistory
  <2> QED
    BY <2>2, <2>3
<1> QED
  BY <1>1, <1>3, <1>5

\* The attempt that was owed is made, and its end is where the run is now.
LEMMA ApplyHistory ==
    ASSUME HistoryInv, AttemptsInv', OneWorker, NEW w \in Workers,
           ApplyOk(w) \/ ApplyError(w) \/ PayloadError(w)
    PROVE  HistoryInv'
<1> USE DEF HistoryInv
<1> DEFINE cur == Current(w)
<1>1. /\ pc[w] = "apply" /\ pc'[w] \in {"succeeded", "failed", "invalid"}
      /\ cur \in claimed[w] /\ cur.event \in Events /\ Current(w)' = cur
      /\ UNCHANGED <<row, claimed, purges>>
  BY ApplyEffect
<1>2. ClaimsKeepRows'
  BY <1>1 DEF ClaimsKeepRows
<1>3. Owed(cur.event)
  BY <1>1 DEF Owed
<1>4. row[cur.event] # Nil /\ row[cur.event].status = "processing" /\ cur.payload = row[cur.event].payload
  BY <1>1 DEF ClaimsKeepRows, AttemptsInv, ClaimsMatchRows
<1>5. \A v \in Workers, e \in Events, step \in {"succeeded", "failed", "invalid"} :
        At(v, step, e)' => e = cur.event /\ step = pc'[w]
  BY <1>1 DEF At, OneWorker
<1>6. \A e \in Events : Owed(e)' => Owed(e)
  BY <1>1 DEF Owed, OneWorker
<1>7. ASSUME NEW e \in Events, purges[e] = 0
      PROVE  HistoryOf(e)'
  <2>1. HistoryOf(e) /\ tries[e] \in Nat /\ done[e] \in Nat
    BY <1>7 DEF AttemptsInv, TypeInv, TypeOK
  <2>2. CASE e # cur.event
    <3>1. tries'[e] = tries[e] /\ done'[e] = done[e]
      BY <2>2 DEF ApplyOk, ApplyError, PayloadError, Tried, history, AttemptsInv, TypeInv, TypeOK
    <3> QED
      BY <1>1, <1>5, <1>6, <2>1, <2>2, <3>1, SameHistory
  <2>3. CASE e = cur.event /\ PayloadError(w)
    <3>1. pc'[w] = "invalid" /\ cur.payload \in Malformed /\ tries'[e] = tries[e] /\ done'[e] = done[e]
      BY <2>3 DEF PayloadError, Goto, history, AttemptsInv, TypeInv, TypeOK
    <3>2. \A v \in Workers : ~ At(v, "succeeded", e)' /\ ~ At(v, "failed", e)'
      BY <1>5, <3>1
    <3> QED
      BY <1>1, <1>4, <1>6, <2>1, <2>3, <3>1, <3>2 DEF HistoryOf
  <2>4. CASE e = cur.event /\ (ApplyOk(w) \/ ApplyError(w))
    <3>1. cur.payload \notin Malformed /\ tries'[e] = tries[e] + 1
      BY <1>1, <2>4 DEF ApplyOk, ApplyError, Tried, AttemptsInv, TypeInv, TypeOK
    <3>2. \/ pc'[w] = "succeeded" /\ done'[e] = done[e] + 1
          \/ pc'[w] = "failed" /\ done'[e] = done[e]
      BY <1>1, <2>4 DEF ApplyOk, ApplyError, Goto, AttemptsInv, TypeInv, TypeOK
    <3>3. tries[e] + 1 = row[e].attempts /\ done[e] = 0
      BY <1>3, <1>4, <2>1, <2>4 DEF HistoryOf
    <3>4. ~ Owed(e)'
      <4>1. \A c \in claimed[w] : c.event = e => c = cur
        BY <1>1, <2>4 DEF AttemptsInv, ClaimsMatchRows
      <4> QED
        BY <1>1, <3>2, <4>1 DEF Owed, OneWorker
    <3>5. \A v \in Workers : /\ ~ At(v, "invalid", e)'
                             /\ At(v, "failed", e)' => pc'[w] = "failed"
                             /\ At(v, "succeeded", e)' => pc'[w] = "succeeded"
      BY <1>5, <3>2
    <3> HIDE DEF cur
    <3>6. row'[e] # Nil /\ row'[e] = row[e] /\ row[e].status = "processing" /\ row[e].payload \notin Malformed
      BY <1>1, <1>4, <2>4, <3>1
    <3> QED
      BY <2>1, <3>1, <3>2, <3>3, <3>4, <3>5, <3>6 DEF HistoryOf
  <2> QED
    BY <2>2, <2>3, <2>4
<1> QED
  BY <1>1, <1>2, <1>7

\* What settles an event is what became of its last attempt.
LEMMA MarkHistory ==
    ASSUME HistoryInv, AttemptsInv', OneWorker, NEW w \in Workers,
           NEW status \in {"pending"} \union Settled, NEW due \in BOOLEAN, Mark(w, status, due),
           \/ pc[w] = "succeeded" /\ status = "succeeded"
           \/ pc[w] = "failed" /\ status = "pending"
           \/ pc[w] = "failed" /\ status = "failed" /\ ~ Retries(Current(w).attempts)
           \/ pc[w] = "invalid" /\ status = "invalid"
    PROVE  HistoryInv'
<1> USE DEF HistoryInv
<1> DEFINE cur == Current(w)
<1>1. pc[w] \in {"succeeded", "failed", "invalid"}
  OBVIOUS
<1>2. /\ cur \in claimed[w] /\ cur.event \in Events
      /\ row[cur.event] # Nil /\ row[cur.event].attempts \in Nat /\ cur.attempts = row[cur.event].attempts
      /\ row'[cur.event] # Nil /\ row'[cur.event].status = status
      /\ row'[cur.event].attempts = row[cur.event].attempts
      /\ row'[cur.event].payload = row[cur.event].payload
      /\ \A e \in Events \ {cur.event} : row'[e] = row[e]
      /\ \A c \in claimed'[w] : c \in claimed[w] /\ c.event # cur.event
      /\ pc'[w] \in {"idle", "apply"}
      /\ UNCHANGED <<tries, done, purges>>
  BY <1>1, MarkEffect
<1>3. \A v \in Workers, e \in Events, step \in {"succeeded", "failed", "invalid"} : ~ At(v, step, e)'
  BY <1>2 DEF At, OneWorker
<1>4. \A e \in Events : Owed(e)' => e # cur.event /\ Owed(e)
  BY <1>1, <1>2 DEF Owed, OneWorker
<1>5. \A c \in claimed'[w] : c.event \in Events \ {cur.event}
  BY <1>2 DEF AttemptsInv, TypeInv, TypeOK, Claimed
<1>6. ClaimsKeepRows'
  BY <1>2, <1>5 DEF ClaimsKeepRows, OneWorker
<1>7. At(w, pc[w], cur.event)
  BY DEF At
<1>8. row[cur.event].attempts <= MaxAttempts
  BY <1>2 DEF AttemptsInv, AttemptsLeft
<1> HIDE DEF cur
<1>9. ASSUME NEW e \in Events, purges[e] = 0
      PROVE  HistoryOf(e)'
  <2>1. HistoryOf(e) /\ tries[e] \in Nat /\ done[e] \in Nat
    BY <1>9 DEF AttemptsInv, TypeInv, TypeOK
  <2>2. CASE e # cur.event
    BY <1>2, <1>3, <1>4, <2>1, <2>2, SameHistory
  <2>3. CASE e = cur.event
    <3>1. status = "succeeded" => done[e] > 0
      BY <1>2, <1>7, <2>1, <2>3 DEF HistoryOf, Settled
    <3>2. status \in {"pending", "failed"} => tries[e] = row[e].attempts /\ done[e] = 0
      BY <1>2, <1>7, <2>1, <2>3 DEF HistoryOf, Settled
    <3>3. status = "invalid" => row[e].payload \in Malformed
      BY <1>2, <1>7, <2>1, <2>3 DEF HistoryOf, Settled
    <3>4. status = "failed" => tries[e] = MaxAttempts
      BY <1>2, <1>8, <2>3, <3>2, BacklogAssumption DEF Retries, cur
    <3>5. ~ Owed(e)'
      BY <1>4, <2>3
    <3> QED
      BY <1>2, <1>3, <2>1, <2>3, <3>1, <3>2, <3>3, <3>4, <3>5 DEF HistoryOf
  <2> QED
    BY <2>2, <2>3
<1> QED
  BY <1>2, <1>6, <1>9

LEMMA WorkHistory ==
    ASSUME HistoryInv, AttemptsInv', OneWorker, NEW w \in Workers, Work(w)
    PROVE  HistoryInv'
<1>1. CASE MarkSucceeded(w)
  BY <1>1, MarkHistory DEF MarkSucceeded, Settled
<1>2. CASE MarkFailed(w)
  BY <1>2, MarkHistory DEF MarkFailed, Settled
<1>3. CASE MarkInvalid(w)
  BY <1>3, MarkHistory DEF MarkInvalid, Settled
<1> QED
  BY <1>1, <1>2, <1>3, ClaimHistory, ApplyHistory DEF Work

LEMMA HistoryStep == HistoryInv /\ [Next]_vars /\ OneWorker => HistoryInv'
<1> SUFFICES ASSUME HistoryInv, [Next]_vars, OneWorker PROVE HistoryInv'
  OBVIOUS
<1> USE DEF HistoryInv
<1>1. AttemptsInv'
  BY AttemptsStep
<1>2. \A w \in Workers : \A c \in claimed[w] : c.event \in Events
  BY DEF AttemptsInv, TypeInv, TypeOK, Claimed
<1>3. CASE UNCHANGED vars
  <2>1. UNCHANGED <<row, pc, claimed, tries, done, purges>>
    BY <1>3 DEF vars, table, history
  <2>2. \A e \in Events : Owed(e)' <=> Owed(e)
    BY <2>1 DEF Owed, Current
  <2>3. \A w \in Workers, e \in Events, step \in {"succeeded", "failed", "invalid"} :
          At(w, step, e)' <=> At(w, step, e)
    BY <2>1 DEF At, Current
  <2> QED
    BY <1>1, <2>1, <2>2, <2>3 DEF ClaimsKeepRows, HistoryOf
<1>4. ASSUME NEW x \in Events, RetryDue(x) \/ Purge(x) PROVE HistoryInv'
  <2>1. /\ UNCHANGED <<pc, claimed, tries, done>>
        /\ \A e \in Events \ {x} : row'[e] = row[e] /\ purges'[e] = purges[e]
    BY <1>4, RetryEffect, PurgeEffect
  <2>2. \A e \in Events : Owed(e)' <=> Owed(e)
    BY <2>1 DEF Owed, Current
  <2>3. \A w \in Workers, e \in Events, step \in {"succeeded", "failed", "invalid"} :
          At(w, step, e)' <=> At(w, step, e)
    BY <2>1 DEF At, Current
  <2>4. ASSUME NEW e \in Events, e # x, purges'[e] = 0
        PROVE  HistoryOf(e)'
    BY <2>1, <2>2, <2>3, <2>4, SameHistory
  <2>5. CASE RetryDue(x)
    <3>1. row[x] # Nil /\ row'[x] # Nil /\ row'[x].payload = row[x].payload /\ row'[x].at = row[x].at
          /\ row'[x].status = row[x].status /\ row'[x].attempts = row[x].attempts /\ purges'[x] = purges[x]
      BY <2>5, RetryEffect
    <3>2. purges'[x] = 0 => HistoryOf(x)'
      BY <2>1, <2>2, <2>3, <3>1, SameHistory
    <3>3. ClaimsKeepRows'
      BY <1>2, <2>1, <3>1 DEF ClaimsKeepRows
    <3> QED
      BY <1>1, <2>4, <3>2, <3>3
  <2>6. CASE Purge(x)
    <3>1. purges'[x] > 0 /\ \A w \in Workers : \A c \in claimed[w] : c.event # x
      BY <2>6, PurgeEffect
    <3>2. ClaimsKeepRows'
      BY <1>2, <2>1, <3>1 DEF ClaimsKeepRows
    <3> QED
      BY <1>1, <2>4, <3>1, <3>2
  <2> QED
    BY <1>4, <2>5, <2>6
<1> QED
  BY <1>1, <1>3, <1>4, DeliverHistory, IdleHistory, WorkHistory DEF Next

\* When runs do not overlap, what a settled status says is what happened: a
\* succeeded event was applied, a failed one was tried max_attempts times to no
\* effect, an invalid one was never tried; and what was applied is settled as
\* succeeded unless its run still holds it or has died over it.
THEOREM SettledAsItHappened ==
    ASSUME OneWorker
    PROVE  Spec => []StatusIsHistory
<1>1. HistoryInv /\ [Next]_vars => HistoryInv'
  BY HistoryStep
<1>2. HistoryInv => StatusIsHistory
  <2> SUFFICES ASSUME HistoryInv, NEW e \in Events, row[e] # Nil, purges[e] = 0
               PROVE  /\ row[e].status = "succeeded" <=>
                           done[e] > 0 /\ e \notin Stranded /\ \A w \in Workers : ~ HeldBy(w, e)
                      /\ row[e].status = "failed" => tries[e] = MaxAttempts /\ done[e] = 0
                      /\ row[e].status = "invalid" => tries[e] = 0 /\ row[e].payload \in Malformed
    BY DEF StatusIsHistory
  <2>1. HistoryOf(e) /\ tries[e] \in Nat /\ done[e] \in Nat /\ row[e] \in EventRow
    BY DEF HistoryInv, AttemptsInv, TypeInv, TypeOK
  <2>2. row[e].status \in {"pending", "processing"} \union Settled
    BY <2>1 DEF EventRow
  <2>3. row[e].status = "succeeded" => \A w \in Workers : ~ HeldBy(w, e)
    BY DEF HeldBy, HistoryInv, AttemptsInv, ClaimsMatchRows
  <2>4. row[e].status = "processing" /\ (\A w \in Workers : ~ HeldBy(w, e)) => e \in Stranded
    BY DEF Stranded
  <2>5. row[e].status = "succeeded" => e \notin Stranded
    BY DEF Stranded
  <2>6. row[e].status \in {"pending", "failed", "invalid"} => done[e] = 0
    BY <2>1 DEF HistoryOf
  <2>7. row[e].status = "succeeded" => done[e] > 0
    BY <2>1 DEF HistoryOf
  <2> QED
    BY <2>1, <2>2, <2>3, <2>4, <2>5, <2>6, <2>7 DEF HistoryOf, Settled
<1> QED
  BY <1>1, <1>2, HistoryInit, PTL DEF Spec

-----------------------------------------------------------------------------
(* The order of first attempts, while neither deliveries nor runs overlap *)

OneSender == \A r, s \in Senders : r = s

\* Rows were received in the order they were inserted in.
ReceivedInOrder ==
    /\ \A s \in Senders : delivery[s] # Nil => delivery[s].at <= deliveries
    /\ \A e \in Events : row[e] # Nil => row[e].at <= deliveries
    /\ \A e \in Events, s \in Senders :
          row[e] # Nil /\ delivery[s] # Nil => row[e].at < delivery[s].at

\* A row that was never taken up is pending and due.
FreshIsDue ==
    \A e \in Events : row[e] # Nil /\ row[e].attempts = 0 => row[e].due /\ row[e].status = "pending"

\* No event that was never taken up is older than one a run holds, unless the
\* run is about to take it up as well.
HeldAreFirst ==
    \A w \in Workers : \A c \in claimed[w], d \in Pending :
        row[d].attempts = 0 =>
            c.at < row[d].at \/ (pc[w] = "claim" /\ \E b \in claimed[w] : b.event = d)

OrderInv == HistoryInv /\ ReceivedInOrder /\ FreshIsDue /\ HeldAreFirst

LEMMA TimesAreNatural ==
    ASSUME TypeInv
    PROVE  /\ deliveries \in Nat
           /\ \A e \in Events : row[e] # Nil => row[e].at \in Nat /\ row[e].attempts \in Nat
           /\ \A s \in Senders : delivery[s] # Nil => delivery[s].at \in Nat
           /\ \A w \in Workers : \A c \in claimed[w] : c.at \in Nat /\ c.event \in Events
<1>1. deliveries \in Nat
  BY BacklogAssumption DEF TypeInv, TypeOK
<1>2. \A e \in Events : row[e] # Nil => row[e].at \in Nat /\ row[e].attempts \in Nat
  BY BacklogAssumption DEF TypeInv, TypeOK, EventRow
<1>3. \A s \in Senders : delivery[s] # Nil => delivery[s].at \in Nat
  BY BacklogAssumption DEF TypeInv, TypeOK, Delivery
<1>4. \A w \in Workers : \A c \in claimed[w] : c.at \in Nat /\ c.event \in Events
  BY BacklogAssumption DEF TypeInv, TypeOK, Claimed
<1> QED
  BY <1>1, <1>2, <1>3, <1>4

LEMMA OrderInit == Init => OrderInv
BY HistoryInit DEF Init, OrderInv, ReceivedInOrder, FreshIsDue, HeldAreFirst

LEMMA DeliverOrder ==
    ASSUME OrderInv, HistoryInv', OneSender, NEW s \in Senders, Deliver(s)
    PROVE  OrderInv'
<1> USE DEF OrderInv
<1> USE TimesAreNatural DEF HistoryInv, AttemptsInv
<1>1. CASE Receive(s)
  <2>1. deliveries' = deliveries + 1 /\ UNCHANGED <<row, pc, claimed>>
    BY <1>1 DEF Receive
  <2>2. PICK e \in Events, body \in Payloads :
          delivery' = [delivery EXCEPT
                         ![s] = [event |-> e, payload |-> body, at |-> deliveries + 1]]
    BY <1>1 DEF Receive
  <2>3. \A r \in Senders : delivery'[r].at = deliveries + 1
    BY <2>2 DEF OneSender, TypeInv, TypeOK
  <2>4. ReceivedInOrder'
    BY <2>1, <2>3 DEF ReceivedInOrder
  <2> QED
    BY <2>1, <2>4 DEF FreshIsDue, HeldAreFirst, Pending
<1>2. CASE Insert(s)
  <2>1. delivery[s] \in Delivery /\ UNCHANGED <<deliveries, pc, claimed>>
    BY <1>2, InsertEffect
  <2>2. \A r \in Senders : delivery'[r] = Nil
    BY <1>2, InsertEffect DEF OneSender, TypeInv, TypeOK
  <2>3. CASE row' = row
    BY <2>1, <2>2, <2>3 DEF ReceivedInOrder, FreshIsDue, HeldAreFirst, Pending
  <2>4. CASE row' # row
    <3>1. PICK new \in Events :
            /\ row'[new] # Nil /\ row'[new].at = delivery[s].at /\ row'[new].due
            /\ row'[new].attempts = 0 /\ row'[new].status = "pending"
            /\ \A d \in Events \ {new} : row'[d] = row[d]
      BY <1>2, <2>4, InsertEffect
    <3>2. delivery[s] # Nil
      BY <1>2 DEF Insert
    <3>3. ReceivedInOrder' /\ FreshIsDue'
      BY <2>1, <2>2, <3>1, <3>2 DEF ReceivedInOrder, FreshIsDue
    <3>4. ASSUME NEW w \in Workers, NEW c \in claimed[w], NEW d \in Pending', row'[d].attempts = 0
          PROVE  c.at < row'[d].at \/ (pc[w] = "claim" /\ \E b \in claimed[w] : b.event = d)
      <4>1. CASE d = new
        <5>1. row[c.event] # Nil /\ c.at = row[c.event].at /\ c.event \in Events
          BY DEF ClaimsMatchRows, ClaimsKeepRows
        <5>2. row[c.event].at < delivery[s].at
          BY <3>2, <5>1 DEF ReceivedInOrder
        <5> QED
          BY <3>1, <4>1, <5>1, <5>2
      <4>2. CASE d # new
        BY <3>1, <3>4, <4>2 DEF HeldAreFirst, Pending
      <4> QED
        BY <4>1, <4>2
    <3>5. HeldAreFirst'
      BY <2>1, <3>4 DEF HeldAreFirst
    <3> QED
      BY <3>3, <3>5
  <2> QED
    BY <2>3, <2>4
<1> QED
  BY <1>1, <1>2 DEF Deliver

\* The earliest due events are selected, and what was never taken up is due.
LEMMA SelectOrder ==
    ASSUME OrderInv, HistoryInv', OneWorker, NEW w \in Workers, Select(w)
    PROVE  OrderInv'
<1> USE DEF OrderInv, HistoryInv, AttemptsInv
<1>1. pc'[w] = "claim" /\ UNCHANGED <<row, delivery, deliveries>>
  BY SelectEffect
<1>2. PICK es \in SUBSET Due :
        /\ \A e \in es, d \in Due \ es : row[e].at < row[d].at
        /\ \A c \in claimed'[w] : \E e \in es : c.event = e /\ c.at = row[e].at
        /\ \A e \in es : \E c \in claimed'[w] : c.event = e
  BY SelectEffect
<1>3. \A d \in Pending : row[d].attempts = 0 => d \in Due
  BY DEF FreshIsDue, Due, Pending
<1>4. ASSUME NEW c \in claimed'[w], NEW d \in Pending, row[d].attempts = 0
      PROVE  c.at < row[d].at \/ \E b \in claimed'[w] : b.event = d
  BY <1>2, <1>3, <1>4
<1>5. Pending' = Pending
  BY <1>1 DEF Pending
<1>6. ASSUME NEW v \in Workers, NEW c \in claimed'[v], NEW d \in Pending', row'[d].attempts = 0
      PROVE  c.at < row'[d].at \/ (pc'[v] = "claim" /\ \E b \in claimed'[v] : b.event = d)
  <2>1. v = w
    BY DEF OneWorker
  <2> QED
    BY <1>1, <1>4, <1>5, <1>6, <2>1
<1>7. HeldAreFirst'
  BY <1>6 DEF HeldAreFirst
<1> QED
  BY <1>1, <1>7 DEF ReceivedInOrder, FreshIsDue

LEMMA ClaimOrder ==
    ASSUME OrderInv, HistoryInv', OneWorker, NEW w \in Workers, Claim(w)
    PROVE  OrderInv'
<1> USE DEF OrderInv
<1> USE TimesAreNatural DEF HistoryInv, AttemptsInv
<1>1. pc[w] = "claim" /\ pc'[w] = "apply" /\ UNCHANGED <<delivery, deliveries, claimed>>
  BY ClaimEffect
<1>2. ASSUME NEW e \in Events
      PROVE  \/ row'[e] = row[e] /\ \A c \in claimed[w] : c.event # e
             \/ /\ row[e] # Nil /\ row'[e] # Nil /\ row'[e].at = row[e].at
                /\ row'[e].attempts > 0 /\ row'[e].status = "processing"
  <2>1. CASE \A c \in claimed[w] : c.event # e
    BY <2>1, ClaimEffect
  <2>2. CASE \E c \in claimed[w] : c.event = e
    <3>1. /\ row[e] # Nil /\ row'[e] # Nil /\ row'[e].at = row[e].at
          /\ row'[e].attempts = row[e].attempts + 1 /\ row'[e].status = "processing"
      BY <2>2, ClaimEffect
    <3> QED
      BY <3>1
  <2> QED
    BY <2>1, <2>2
<1>3. ReceivedInOrder' /\ FreshIsDue'
  BY <1>1, <1>2 DEF ReceivedInOrder, FreshIsDue
<1>4. HeldAreFirst'
  BY <1>1, <1>2 DEF HeldAreFirst, OneWorker, Pending
<1> QED
  BY <1>3, <1>4

LEMMA MarkOrder ==
    ASSUME OrderInv, HistoryInv', OneWorker, NEW w \in Workers,
           pc[w] \in {"succeeded", "failed", "invalid"},
           NEW status \in {"pending"} \union Settled, NEW due \in BOOLEAN, Mark(w, status, due)
    PROVE  OrderInv'
<1> USE DEF OrderInv
<1> USE TimesAreNatural DEF HistoryInv, AttemptsInv
<1> DEFINE e == Current(w).event
<1>1. /\ row[e] # Nil /\ row[e].status = "processing" /\ row[e].attempts \in Nat
      /\ row'[e] # Nil /\ row'[e].attempts = row[e].attempts /\ row'[e].at = row[e].at
      /\ \A d \in Events \ {e} : row'[d] = row[d]
      /\ \A c \in claimed'[w] : c \in claimed[w]
      /\ UNCHANGED <<delivery, deliveries>> /\ e \in Events
  BY MarkEffect
<1>2. row[e].attempts # 0
  BY <1>1 DEF FreshIsDue
<1> HIDE DEF e
<1>3. ReceivedInOrder' /\ FreshIsDue'
  BY <1>1, <1>2 DEF ReceivedInOrder, FreshIsDue
<1>4. ASSUME NEW v \in Workers, NEW c \in claimed'[v], NEW d \in Pending', row'[d].attempts = 0
      PROVE  c.at < row'[d].at
  <2>1. v = w /\ c \in claimed[w]
    BY <1>1 DEF OneWorker
  <2>2. d # e /\ d \in Events
    BY <1>1, <1>2, <1>4 DEF Pending
  <2>3. row'[d] = row[d] /\ d \in Pending
    BY <1>1, <2>2 DEF Pending
  <2> QED
    BY <1>4, <2>1, <2>3 DEF HeldAreFirst
<1>5. HeldAreFirst'
  BY <1>4 DEF HeldAreFirst
<1> QED
  BY <1>3, <1>5

LEMMA WorkOrder ==
    ASSUME OrderInv, HistoryInv', OneWorker, NEW w \in Workers, Work(w)
    PROVE  OrderInv'
<1>1. CASE ApplyOk(w) \/ ApplyError(w) \/ PayloadError(w)
  <2>1. pc[w] = "apply" /\ UNCHANGED <<row, delivery, deliveries, claimed>>
    BY <1>1, ApplyEffect DEF OrderInv, HistoryInv
  <2> QED
    BY <2>1 DEF OrderInv, ReceivedInOrder, FreshIsDue, HeldAreFirst, OneWorker, Pending
<1>2. CASE MarkSucceeded(w)
  BY <1>2, MarkOrder DEF MarkSucceeded, Settled
<1>3. CASE MarkFailed(w)
  BY <1>3, MarkOrder DEF MarkFailed, Settled
<1>4. CASE MarkInvalid(w)
  BY <1>4, MarkOrder DEF MarkInvalid, Settled
<1> QED
  BY <1>1, <1>2, <1>3, <1>4, ClaimOrder DEF Work

LEMMA OrderStep == OrderInv /\ [Next]_vars /\ OneWorker /\ OneSender => OrderInv'
<1> SUFFICES ASSUME OrderInv, [Next]_vars, OneWorker, OneSender PROVE OrderInv'
  OBVIOUS
<1> USE DEF OrderInv
<1>1. HistoryInv'
  BY HistoryStep
<1>2. CASE UNCHANGED vars
  BY <1>1, <1>2 DEF vars, table, history, ReceivedInOrder, FreshIsDue, HeldAreFirst, Pending
<1>3. ASSUME NEW w \in Workers, Crash(w) PROVE OrderInv'
  <2>1. claimed'[w] = {} /\ UNCHANGED <<row, delivery, deliveries>>
    BY <1>3, CrashEffect DEF HistoryInv
  <2> QED
    BY <1>1, <2>1 DEF ReceivedInOrder, FreshIsDue, HeldAreFirst, OneWorker
<1>4. ASSUME NEW e \in Events, RetryDue(e) PROVE OrderInv'
  <2>1. /\ row[e] # Nil /\ row[e].status = "pending" /\ row'[e] # Nil /\ row'[e].due
        /\ row'[e].status = row[e].status /\ row'[e].attempts = row[e].attempts
        /\ row'[e].at = row[e].at
        /\ \A d \in Events \ {e} : row'[d] = row[d]
        /\ UNCHANGED <<delivery, deliveries, pc, claimed>>
    BY <1>4, RetryEffect DEF HistoryInv
  <2> QED
    BY <1>1, <2>1 DEF ReceivedInOrder, FreshIsDue, HeldAreFirst, Pending
<1>5. ASSUME NEW e \in Events, Purge(e) PROVE OrderInv'
  <2>1. /\ row'[e] = Nil /\ \A d \in Events \ {e} : row'[d] = row[d]
        /\ UNCHANGED <<delivery, deliveries, pc, claimed>>
    BY <1>5, PurgeEffect DEF HistoryInv
  <2> QED
    BY <1>1, <2>1 DEF ReceivedInOrder, FreshIsDue, HeldAreFirst, Pending
<1> QED
  BY <1>1, <1>2, <1>3, <1>4, <1>5, DeliverOrder, SelectOrder, WorkOrder DEF Next

\* When neither deliveries nor runs overlap, an event takes effect before an
\* earlier one of its source only if that one has been tried and waits for a
\* retry.
THEOREM FirstAttemptsInOrder ==
    ASSUME OneWorker, OneSender
    PROVE  Spec => OvertakesOnlyRetries
<1> DEFINE Overtaking(e, d) ==
          /\ done'[e] > done[e]
          /\ e \notin Stranded /\ d \in Pending
          /\ row[e] # Nil /\ row[d].at < row[e].at
          /\ SourceOf[row[d].payload] = SourceOf[row[e].payload]
<1>1. OrderInv /\ [Next]_vars => OrderInv'
  BY OrderStep
<1>2. OrderInv /\ [Next]_vars => [\A e, d \in Events : Overtaking(e, d) => row[d].attempts > 0]_vars
  <2> SUFFICES ASSUME OrderInv, Next, NEW e \in Events, NEW d \in Events, Overtaking(e, d)
               PROVE  row[d].attempts > 0
    OBVIOUS
  <2> USE DEF OrderInv, HistoryInv, AttemptsInv
  <2>1. done[e] \in Nat /\ done'[e] # done[e]
    BY DEF TypeInv, TypeOK
  <2>2. PICK w \in Workers : ApplyOk(w)
    BY <2>1 DEF Next, Deliver, Receive, Insert, Select, Work, Claim, ApplyError, PayloadError,
                MarkSucceeded, MarkFailed, MarkInvalid, Mark, Crash, RetryDue, Purge, history
  <2>3. e = Current(w).event
    BY <2>1, <2>2 DEF ApplyOk, TypeInv, TypeOK
  <2>4. Current(w) \in claimed[w] /\ pc[w] = "apply"
    BY <2>2, ApplyEffect
  <2>5. Current(w).at = row[e].at
    BY <2>3, <2>4 DEF ClaimsKeepRows
  <2>6. row[d] # Nil /\ row[d].at \in Nat /\ row[e].at \in Nat /\ row[d].attempts \in Nat
    BY TimesAreNatural DEF Pending
  <2>7. row[d].attempts # 0
    BY <2>4, <2>5, <2>6 DEF HeldAreFirst
  <2> QED
    BY <2>6, <2>7
<1> QED
  BY <1>1, <1>2, OrderInit, PTL DEF Spec, OvertakesOnlyRetries

-----------------------------------------------------------------------------
(* The backlog is an inbox, while runs do not overlap *)

\* An event moves in the inbox where its place changes and no other's does.
LEMMA MoveInMail ==
    ASSUME NEW e \in Events, NEW to, MailOf(e)' = to,
           \A d \in Events \ {e} : MailOf(d)' = MailOf(d)
    PROVE  Mail!Move(e, MailOf(e), to)
BY DEF Mail!Move

\* Nothing moves where a step keeps the places.
LEMMA NoMail ==
    ASSUME \A e \in Events : MailOf(e)' = MailOf(e), done' = done
    PROVE  UNCHANGED <<[e \in Events |-> MailOf(e)], done>>
OBVIOUS

\* The places that depend on the row alone.
PlacesOfRows ==
    \A e \in Events :
        /\ MailOf(e) = "absent" <=> row[e] = Nil
        /\ row[e] # Nil /\ row[e].status \in Settled => MailOf(e) = row[e].status
        /\ row[e] # Nil /\ row[e].status = "pending" => MailOf(e) = "open"

LEMMA PlaceOfRow == AttemptsInv => PlacesOfRows
<1> SUFFICES ASSUME AttemptsInv, NEW e \in Events
             PROVE  /\ MailOf(e) = "absent" <=> row[e] = Nil
                    /\ row[e] # Nil /\ row[e].status \in Settled => MailOf(e) = row[e].status
                    /\ row[e] # Nil /\ row[e].status = "pending" => MailOf(e) = "open"
  BY DEF PlacesOfRows
<1>1. CASE row[e] = Nil
  BY <1>1 DEF MailOf
<1>2. CASE row[e] # Nil
  <2>1. row[e] \in EventRow
    BY <1>2 DEF AttemptsInv, TypeInv, TypeOK
  <2>2. row[e].status \in {"pending", "processing"} \union Settled
    BY <2>1 DEF EventRow
  <2>3. row[e].status = "pending" =>
          e \notin Stranded /\ \A w \in Workers : ~ (pc[w] = "succeeded" /\ Current(w).event = e)
    BY AtIsHeld DEF At, Stranded
  <2>4. row[e].status = "pending" => MailOf(e) = "open"
    BY <1>2, <2>3 DEF MailOf, Settled
  <2>5. row[e].status \notin Settled => MailOf(e) # "absent"
    BY <1>2 DEF MailOf
  <2> QED
    BY <1>2, <2>2, <2>4, <2>5 DEF MailOf, Settled
<1> QED
  BY <1>1, <1>2

LEMMA PlaceOfRowNext == AttemptsInv' => PlacesOfRows'
BY PlaceOfRow, PTL

\* The places of a row in processing: its run works on it, has applied it, or
\* is gone.
LEMMA PlaceInProcessing ==
    ASSUME NEW e \in Events, row[e] # Nil, row[e].status = "processing"
    PROVE  /\ (\A w \in Workers : ~ HeldBy(w, e)) => MailOf(e) = "stuck"
           /\ \A w \in Workers : HeldBy(w, e) /\ OneWorker =>
                MailOf(e) = IF At(w, "succeeded", e) THEN "applied" ELSE "open"
<1>1. row[e].status \notin Settled
  BY DEF Settled
<1>2. e \in Stranded <=> \A w \in Workers : ~ HeldBy(w, e)
  BY DEF Stranded
<1> QED
  BY <1>1, <1>2 DEF MailOf, At, OneWorker

\* The place of an event is the same where its row keeps its status and the
\* run that holds it stays where it is.
LEMMA SamePlace ==
    ASSUME NEW e \in Events, row[e] = Nil <=> row'[e] = Nil,
           row[e] # Nil => row'[e].status = row[e].status,
           row[e] # Nil /\ row[e].status = "processing" =>
              \A w \in Workers : /\ HeldBy(w, e)' <=> HeldBy(w, e)
                                 /\ At(w, "succeeded", e)' <=> At(w, "succeeded", e),
           AttemptsInv, AttemptsInv'
    PROVE  MailOf(e)' = MailOf(e)
<1>1. CASE row[e] = Nil
  BY <1>1 DEF MailOf
<1>2. CASE row[e] # Nil /\ row[e].status = "processing"
  <2>1. e \in Stranded' <=> e \in Stranded
    BY <1>2 DEF Stranded
  <2> QED
    BY <1>2, <2>1 DEF MailOf, At
<1>3. CASE row[e] # Nil /\ row[e].status # "processing"
  <2>1. row[e] \in EventRow
    BY <1>3 DEF AttemptsInv, TypeInv, TypeOK
  <2>2. row[e].status \in {"pending"} \union Settled
    BY <1>3, <2>1 DEF EventRow
  <2> QED
    BY <1>3, <2>2, PlaceOfRow, PlaceOfRowNext DEF PlacesOfRows
<1> QED
  BY <1>1, <1>2, <1>3

\* Every step of the backlog is one of the inbox or none.
InboxStep == [Mail!InboxNext]_<<[e \in Events |-> MailOf(e)], done>>

LEMMA DeliverInbox ==
    ASSUME AttemptsInv, AttemptsInv', NEW s \in Senders, Deliver(s)
    PROVE  InboxStep
<1>1. UNCHANGED <<pc, claimed, done>>
  BY DEF Deliver, Receive, Insert, history
<1>2. \A e \in Events, w \in Workers : /\ HeldBy(w, e)' <=> HeldBy(w, e)
                                       /\ At(w, "succeeded", e)' <=> At(w, "succeeded", e)
  BY <1>1 DEF HeldBy, At, Current
<1>3. ASSUME NEW e \in Events, row'[e] = row[e]
      PROVE  MailOf(e)' = MailOf(e)
  BY <1>2, <1>3, SamePlace
<1>4. CASE row' = row
  BY <1>1, <1>3, <1>4 DEF InboxStep
<1>5. CASE row' # row
  <2>1. Insert(s)
    BY <1>5 DEF Deliver, Receive
  <2>2. PICK new \in Events :
          /\ \A d \in Events : KeyOf[d] = KeyOf[new] => row[d] = Nil
          /\ row'[new] # Nil /\ row'[new].status = "pending"
          /\ \A d \in Events \ {new} : row'[d] = row[d]
    BY <1>5, <2>1, InsertEffect
  <2>3. \A d \in Events : KeyOf[d] = KeyOf[new] => MailOf(d) = "absent"
    BY <2>2, PlaceOfRow DEF PlacesOfRows
  <2>4. MailOf(new) = "absent" /\ MailOf(new)' = "open"
    BY <2>2, <2>3, PlaceOfRowNext DEF PlacesOfRows
  <2>5. \A d \in Events \ {new} : MailOf(d)' = MailOf(d)
    BY <1>3, <2>2
  <2>6. Mail!Move(new, "absent", "open")
    BY <2>4, <2>5, MoveInMail
  <2>7. Mail!Accept(new)
    BY <1>1, <2>3, <2>6 DEF Mail!Accept
  <2> QED
    BY <2>7 DEF InboxStep, Mail!InboxNext
<1> QED
  BY <1>4, <1>5

\* Selecting and claiming take up events that are open and stay so.
LEMMA TakeInbox ==
    ASSUME AttemptsInv, AttemptsInv', OneWorker, NEW w \in Workers, Select(w) \/ Claim(w)
    PROVE  InboxStep
<1>1. done' = done
  BY SelectEffect, ClaimEffect
<1>2. ASSUME Select(w), NEW e \in Events
      PROVE  MailOf(e)' = MailOf(e)
  <2>1. pc[w] = "idle" /\ pc'[w] = "claim" /\ row' = row
    BY <1>2, SelectEffect
  <2>2. row[e] # Nil /\ row[e].status = "processing" => ~ HeldBy(w, e) /\ ~ HeldBy(w, e)'
    BY <2>1 DEF HeldBy, AttemptsInv, ClaimsMatchRows
  <2>3. ~ At(w, "succeeded", e) /\ ~ At(w, "succeeded", e)'
    BY <2>1 DEF At
  <2> QED
    BY <2>1, <2>2, <2>3, SamePlace DEF OneWorker
<1>3. ASSUME Claim(w), NEW e \in Events
      PROVE  MailOf(e)' = MailOf(e)
  <2>1. pc[w] = "claim" /\ pc'[w] = "apply" /\ claimed' = claimed
    BY <1>3, ClaimEffect
  <2>2. ~ At(w, "succeeded", e) /\ ~ At(w, "succeeded", e)'
    BY <2>1 DEF At
  <2>3. HeldBy(w, e)' <=> HeldBy(w, e)
    BY <2>1 DEF HeldBy
  <2>4. CASE \A c \in claimed[w] : c.event # e
    <3>1. row'[e] = row[e]
      BY <1>3, <2>4, ClaimEffect
    <3> QED
      BY <2>2, <2>3, <3>1, SamePlace DEF OneWorker
  <2>5. CASE \E c \in claimed[w] : c.event = e
    <3>1. /\ row[e] # Nil /\ row[e].status = "pending"
          /\ row'[e] # Nil /\ row'[e].status = "processing"
      BY <1>3, <2>5, ClaimEffect
    <3>2. MailOf(e) = "open"
      BY <3>1, PlaceOfRow DEF PlacesOfRows
    <3>3. HeldBy(w, e)'
      BY <2>1, <2>5 DEF HeldBy
    <3>4. e \notin Stranded'
      BY <3>3 DEF Stranded
    <3>5. \A v \in Workers : ~ (pc'[v] = "succeeded")
      BY <2>1 DEF OneWorker
    <3>6. MailOf(e)' = "open"
      BY <3>1, <3>4, <3>5 DEF MailOf, Settled
    <3> QED
      BY <3>2, <3>6
  <2> QED
    BY <2>4, <2>5
<1> QED
  BY <1>1, <1>2, <1>3 DEF InboxStep

\* Applying moves the event the run is at when it succeeds.
LEMMA ApplyInbox ==
    ASSUME AttemptsInv, AttemptsInv', OneWorker, NEW w \in Workers,
           ApplyOk(w) \/ ApplyError(w) \/ PayloadError(w)
    PROVE  InboxStep
<1> DEFINE cur == Current(w)
<1>1. /\ pc[w] = "apply" /\ pc'[w] \in {"succeeded", "failed", "invalid"}
      /\ cur \in claimed[w] /\ cur.event \in Events /\ Current(w)' = cur
      /\ UNCHANGED <<row, claimed>>
  BY ApplyEffect DEF AttemptsInv
<1>2. \A e \in Events, v \in Workers : HeldBy(v, e)' <=> HeldBy(v, e)
  BY <1>1 DEF HeldBy, OneWorker
<1>3. \A e \in Events, v \in Workers : ~ At(v, "succeeded", e)
  BY <1>1 DEF At, OneWorker
<1>4. \A e \in Events, v \in Workers :
        At(v, "succeeded", e)' <=> pc'[w] = "succeeded" /\ e = cur.event
  BY <1>1 DEF At, OneWorker
<1>5. ASSUME NEW e \in Events, pc'[w] # "succeeded" \/ e # cur.event
      PROVE  MailOf(e)' = MailOf(e)
  BY <1>1, <1>2, <1>3, <1>4, <1>5, SamePlace
<1>6. CASE ~ ApplyOk(w)
  <2>1. pc'[w] # "succeeded" /\ done' = done
    BY <1>1, <1>6 DEF ApplyError, PayloadError, Goto, history, AttemptsInv, TypeInv, TypeOK
  <2> QED
    BY <1>5, <2>1 DEF InboxStep
<1>7. CASE ApplyOk(w)
  <2>1. pc'[w] = "succeeded" /\ done' = [done EXCEPT ![cur.event] = @ + 1]
    BY <1>7 DEF ApplyOk, Goto, AttemptsInv, TypeInv, TypeOK
  <2>2. row[cur.event] # Nil /\ row[cur.event].status = "processing" /\ HeldBy(w, cur.event)
    BY <1>1 DEF AttemptsInv, ClaimsMatchRows, HeldBy
  <2>3. MailOf(cur.event) = "open"
    BY <1>1, <1>3, <2>2, PlaceInProcessing
  <2>4. cur.event \notin Stranded' /\ pc'[w] = "succeeded" /\ Current(w)'.event = cur.event
    BY <1>1, <1>2, <2>1, <2>2 DEF Stranded
  <2>5. MailOf(cur.event)' = "applied"
    BY <1>1, <2>2, <2>4 DEF MailOf, Settled
  <2>6. Mail!Move(cur.event, "open", "applied")
    BY <1>1, <1>5, <2>3, <2>5, MoveInMail
  <2>7. Mail!Apply(cur.event)
    BY <2>1, <2>6 DEF Mail!Apply
  <2> QED
    BY <1>1, <2>7 DEF InboxStep, Mail!InboxNext
<1> QED
  BY <1>6, <1>7

\* The event a run is at is settled, or left open for a retry.
LEMMA MarkInbox ==
    ASSUME AttemptsInv, AttemptsInv', OneWorker, NEW w \in Workers,
           NEW status \in {"pending"} \union Settled, NEW due \in BOOLEAN, Mark(w, status, due),
           \/ pc[w] = "succeeded" /\ status = "succeeded"
           \/ pc[w] = "failed" /\ status \in {"pending", "failed"}
           \/ pc[w] = "invalid" /\ status = "invalid"
    PROVE  InboxStep
<1> DEFINE at == Current(w).event
<1>0. pc[w] \in {"succeeded", "failed", "invalid"}
  OBVIOUS
<1>1. PICK e \in Events : e = at
  BY <1>0, MarkEffect
<1>2. /\ Current(w) \in claimed[w] /\ e \in Events
      /\ row[e] # Nil /\ row[e].status = "processing" /\ row'[e] # Nil /\ row'[e].status = status
      /\ \A d \in Events \ {e} : row'[d] = row[d]
      /\ claimed'[w] = claimed[w] \ {Current(w)}
      /\ pc'[w] \in {"idle", "apply"} /\ (pc'[w] = "idle" <=> claimed'[w] = {})
      /\ done' = done
  BY <1>0, <1>1, MarkEffect
<1>3. HeldBy(w, e) /\ At(w, pc[w], e)
  BY <1>0, <1>1, <1>2 DEF HeldBy, At
<1>4. MailOf(e) = IF pc[w] = "succeeded" THEN "applied" ELSE "open"
  BY <1>2, <1>3, PlaceInProcessing DEF At
<1>5. MailOf(e)' = IF status = "pending" THEN "open" ELSE status
  BY <1>2, PlaceOfRowNext DEF PlacesOfRows
<1>6. ASSUME NEW d \in Events \ {e}
      PROVE  MailOf(d)' = MailOf(d)
  <2>1. HeldBy(w, d)' <=> HeldBy(w, d)
    BY <1>0, <1>1, <1>2 DEF HeldBy
  <2>2. ~ At(w, "succeeded", d) /\ ~ At(w, "succeeded", d)'
    BY <1>1, <1>2 DEF At
  <2> QED
    BY <1>2, <2>1, <2>2, SamePlace DEF OneWorker
<1>7. CASE status = "pending"
  <2>1. MailOf(e)' = MailOf(e)
    BY <1>4, <1>5, <1>7 DEF Settled
  <2> QED
    BY <1>2, <1>6, <2>1 DEF InboxStep
<1>8. CASE status # "pending"
  <2>1. Mail!Move(e, MailOf(e), status)
    BY <1>2, <1>5, <1>6, <1>8, MoveInMail
  <2>2. \/ MailOf(e) = "applied" /\ status = "succeeded"
        \/ MailOf(e) = "open" /\ status = "failed"
        \/ MailOf(e) = "open" /\ status = "invalid"
    BY <1>4, <1>8
  <2>3. Mail!Settle(e)
    BY <1>2, <2>1, <2>2 DEF Mail!Settle
  <2> QED
    BY <1>2, <2>3 DEF InboxStep, Mail!InboxNext
<1> QED
  BY <1>7, <1>8

LEMMA WorkInbox ==
    ASSUME AttemptsInv, AttemptsInv', OneWorker, NEW w \in Workers, Work(w)
    PROVE  InboxStep
<1>1. CASE MarkSucceeded(w)
  BY <1>1, MarkInbox DEF MarkSucceeded, Settled
<1>2. CASE MarkFailed(w)
  BY <1>2, MarkInbox DEF MarkFailed, Settled
<1>3. CASE MarkInvalid(w)
  BY <1>3, MarkInbox DEF MarkInvalid, Settled
<1> QED
  BY <1>1, <1>2, <1>3, TakeInbox, ApplyInbox DEF Work

\* The run that dies loses what it had claimed.
LEMMA CrashInbox ==
    ASSUME AttemptsInv, AttemptsInv', OneWorker, NEW w \in Workers, Crash(w)
    PROVE  InboxStep
<1> DEFINE lost == {e \in Events : row[e] # Nil /\ row[e].status = "processing" /\ HeldBy(w, e)}
<1>1. pc'[w] = "idle" /\ claimed'[w] = {} /\ UNCHANGED <<row, done>>
  BY CrashEffect
<1>2. \A v \in Workers, e \in Events : ~ HeldBy(v, e)' /\ ~ At(v, "succeeded", e)'
  BY <1>1 DEF HeldBy, At, OneWorker
<1>3. ASSUME NEW e \in lost
      PROVE  MailOf(e) \in {"open", "applied"} /\ MailOf(e)' = "stuck"
  <2>1. MailOf(e) \in {"open", "applied"}
    BY PlaceInProcessing
  <2>2. e \in Stranded'
    BY <1>1, <1>2 DEF Stranded
  <2>3. MailOf(e)' = "stuck"
    BY <1>1, <2>2 DEF MailOf, Settled
  <2> QED
    BY <2>1, <2>3
<1>4. ASSUME NEW e \in Events \ lost
      PROVE  MailOf(e)' = MailOf(e)
  <2>1. row[e] # Nil /\ row[e].status = "processing" => ~ HeldBy(w, e) /\ ~ At(w, "succeeded", e)
    <3>1. At(w, "succeeded", e) => HeldBy(w, e)
      BY AtIsHeld DEF HeldBy, At
    <3> QED
      BY <3>1
  <2> QED
    BY <1>1, <1>2, <2>1, SamePlace DEF OneWorker
<1>5. lost \in SUBSET {e \in Events : MailOf(e) \in {"open", "applied"}}
  BY <1>3
<1> HIDE DEF lost
<1>6. \A e \in Events : MailOf(e)' = IF e \in lost THEN "stuck" ELSE MailOf(e)
  BY <1>3, <1>4
<1>7. [e \in Events |-> MailOf(e)]' =
        [e \in Events |-> IF e \in lost THEN "stuck" ELSE [d \in Events |-> MailOf(d)][e]]
  BY <1>6
<1>8. lost \in SUBSET {e \in Events : [d \in Events |-> MailOf(d)][e] \in {"open", "applied"}}
  BY <1>5
<1>9. Mail!Lose
  BY <1>1, <1>7, <1>8 DEF Mail!Lose
<1> QED
  BY <1>9 DEF InboxStep, Mail!InboxNext

LEMMA EventInbox ==
    ASSUME AttemptsInv, AttemptsInv', NEW x \in Events, RetryDue(x) \/ Purge(x)
    PROVE  InboxStep
<1>1. /\ UNCHANGED <<pc, claimed, done>>
      /\ \A e \in Events \ {x} : row'[e] = row[e]
  BY RetryEffect, PurgeEffect
<1>2. \A e \in Events, w \in Workers : /\ HeldBy(w, e)' <=> HeldBy(w, e)
                                       /\ At(w, "succeeded", e)' <=> At(w, "succeeded", e)
  BY <1>1 DEF HeldBy, At, Current
<1>3. \A e \in Events \ {x} : MailOf(e)' = MailOf(e)
  BY <1>1, <1>2, SamePlace
<1>4. CASE RetryDue(x)
  <2>1. row[x] # Nil /\ row'[x] # Nil /\ row'[x].status = row[x].status
    BY <1>4, RetryEffect
  <2>2. MailOf(x)' = MailOf(x)
    BY <1>2, <2>1, SamePlace
  <2> QED
    BY <1>1, <1>3, <2>2 DEF InboxStep
<1>5. CASE Purge(x)
  <2>1. row[x] # Nil /\ row[x].status \in Settled /\ row'[x] = Nil
    BY <1>5, PurgeEffect
  <2>2. MailOf(x) \in {"succeeded", "failed", "invalid"} /\ MailOf(x)' = "absent"
    BY <2>1, PlaceOfRow, PlaceOfRowNext DEF PlacesOfRows, Settled
  <2>3. Mail!Forget(x)
    BY <1>1, <1>3, <2>2 DEF Mail!Forget, Mail!Outcomes
  <2> QED
    BY <2>3 DEF InboxStep, Mail!InboxNext
<1> QED
  BY <1>4, <1>5

\* When runs do not overlap, the backlog implements the inbox it promises:
\* every step of it is a step of the inbox, or changes nothing there.
THEOREM BacklogImplementsInbox ==
    ASSUME OneWorker
    PROVE  Spec => BacklogIsInbox
<1>1. Init => Mail!InboxInit
  BY DEF Init, MailOf, Mail!InboxInit
<1>2. AttemptsInv /\ [Next]_vars => AttemptsInv'
  BY AttemptsStep
<1>3. AttemptsInv /\ AttemptsInv' /\ [Next]_vars =>
        [Mail!InboxNext]_<<[e \in Events |-> MailOf(e)], done>>
  <2> SUFFICES ASSUME AttemptsInv, AttemptsInv', [Next]_vars PROVE InboxStep
    BY DEF InboxStep
  <2>1. CASE UNCHANGED vars
    <3>1. UNCHANGED <<row, pc, claimed, done>>
      BY <2>1 DEF vars, table, history
    <3>2. \A e \in Events : MailOf(e)' = MailOf(e)
      BY <3>1 DEF MailOf, Stranded, HeldBy, Current
    <3> QED
      BY <3>1, <3>2 DEF InboxStep
  <2> QED
    BY <2>1, DeliverInbox, TakeInbox, WorkInbox, CrashInbox, EventInbox DEF Next
<1> QED
  BY <1>1, <1>2, <1>3, AttemptsInit, PTL DEF Spec, BacklogIsInbox, Mail!InboxSpec

-----------------------------------------------------------------------------
(* The sensor's requests, while neither deliveries nor runs overlap *)

\* A pending event that was tried is older than all that were not.
TriedAreOlder ==
    \A d, e \in Pending : row[d].attempts > 0 /\ row[e].attempts = 0 => row[d].at < row[e].at

Unharmed == crashes = 0 /\ (\A e \in Events : purges[e] = 0) /\ Cardinality(Events) <= Limit

\* The event a run was asked for over is in the table, and while it was never
\* tried a sensor run is queued or a run is about to take it up.
AskedFor ==
    Unharmed => \A key \in asked :
        /\ row[key.last] # Nil
        /\ row[key.last].status = "pending" /\ row[key.last].attempts = 0 =>
              \/ queued > 0
              \/ \E w \in Workers : pc[w] = "claim" /\ \E c \in claimed[w] : c.event = key.last

DispatchInv ==
    /\ OrderInv /\ TriedAreOlder
    /\ asked \subseteq RunKeys /\ queued \in Nat
    /\ AskedFor

LEMMA HarmStays ==
    ASSUME TypeInv, [Next]_vars, Unharmed'
    PROVE  Unharmed
<1>1. \A e \in Events : purges[e] \in Nat
  BY DEF TypeInv, TypeOK
<1>2. crashes \in Nat
  BY BacklogAssumption DEF TypeInv, TypeOK
<1>3. crashes' = crashes \/ crashes' = crashes + 1
  BY DEF vars, history, Next, Deliver, Receive, Insert, Select, Work, Claim, ApplyOk, ApplyError,
         PayloadError, MarkSucceeded, MarkFailed, MarkInvalid, Mark, Crash, RetryDue, Purge
<1>4. purges' = purges \/ \E e \in Events : purges' = [purges EXCEPT ![e] = @ + 1]
  BY DEF vars, history, Next, Deliver, Receive, Insert, Select, Work, Claim, ApplyOk, ApplyError,
         PayloadError, MarkSucceeded, MarkFailed, MarkInvalid, Mark, Crash, RetryDue, Purge
<1>5. ASSUME NEW e \in Events PROVE purges[e] = 0
  BY <1>1, <1>4 DEF Unharmed, TypeInv, TypeOK
<1> QED
  BY <1>2, <1>3, <1>5 DEF Unharmed

\* What a step does to the rows that are pending.
LEMMA PendingAfter ==
    ASSUME OrderInv, OneWorker, [Next]_vars, NEW e \in Events,
           row'[e] # Nil, row'[e].status = "pending"
    PROVE  \/ /\ row[e] = Nil /\ row'[e].attempts = 0
              /\ \A d \in Events : row[d] # Nil => row[d].at < row'[e].at
              /\ \A d \in Events : d # e => row'[d] = row[d]
           \/ /\ row[e] # Nil /\ row[e].status = "pending"
              /\ row'[e].attempts = row[e].attempts /\ row'[e].at = row[e].at
              /\ \A w \in Workers : Claim(w) => \A c \in claimed[w] : c.event # e
           \/ /\ row[e] # Nil /\ row[e].status = "processing" /\ row[e].attempts > 0
              /\ row'[e].attempts = row[e].attempts /\ row'[e].at = row[e].at
              /\ \A d \in Pending : row[d].attempts = 0 => row[e].at < row[d].at
              /\ \A d \in Events : d # e => row'[d] = row[d]
<1> USE DEF OrderInv, HistoryInv, AttemptsInv
<1>1. ASSUME NEW s \in Senders, Insert(s), row' # row
      PROVE  \/ /\ row[e] = Nil /\ row'[e].attempts = 0
                /\ \A d \in Events : row[d] # Nil => row[d].at < row'[e].at
                /\ \A d \in Events : d # e => row'[d] = row[d]
             \/ row'[e] = row[e]
  <2>1. PICK new \in Events :
          /\ \A d \in Events : KeyOf[d] = KeyOf[new] => row[d] = Nil
          /\ row'[new] # Nil /\ row'[new].at = delivery[s].at
          /\ row'[new].attempts = 0
          /\ \A d \in Events \ {new} : row'[d] = row[d]
    BY <1>1, InsertEffect
  <2>2. delivery[s] # Nil
    BY <1>1 DEF Insert
  <2> QED
    BY <2>1, <2>2 DEF ReceivedInOrder
<1>2. ASSUME NEW w \in Workers, Claim(w)
      PROVE  /\ row'[e] = row[e] /\ \A c \in claimed[w] : c.event # e
  <2>1. \A c \in claimed[w] : row'[c.event].status = "processing"
    BY <1>2, ClaimEffect
  <2>2. \A c \in claimed[w] : c.event # e
    BY <2>1
  <2> QED
    BY <1>2, <2>2, ClaimEffect
<1>3. ASSUME NEW w \in Workers, pc[w] \in {"succeeded", "failed", "invalid"},
             NEW status \in {"pending"} \union Settled, NEW due \in BOOLEAN, Mark(w, status, due)
      PROVE  \/ row'[e] = row[e]
             \/ /\ row[e] # Nil /\ row[e].status = "processing" /\ row[e].attempts > 0
                /\ row'[e].attempts = row[e].attempts /\ row'[e].at = row[e].at
                /\ \A d \in Pending : row[d].attempts = 0 => row[e].at < row[d].at
                /\ \A d \in Events : d # e => row'[d] = row[d]
  <2>1. CASE e # Current(w).event
    BY <1>3, <2>1, MarkEffect
  <2>2. CASE e = Current(w).event
    <3>1. /\ Current(w) \in claimed[w] /\ row[e] # Nil /\ row[e].status = "processing"
          /\ row[e].attempts \in Nat /\ row'[e].attempts = row[e].attempts /\ row'[e].at = row[e].at
          /\ \A d \in Events \ {e} : row'[d] = row[d]
      BY <1>3, <2>2, MarkEffect
    <3>2. row[e].attempts # 0
      BY <3>1 DEF FreshIsDue
    <3>3. \A d \in Pending : row[d].attempts = 0 => Current(w).at < row[d].at
      BY <1>3, <3>1 DEF HeldAreFirst
    <3>4. Current(w).at = row[e].at
      BY <2>2, <3>1 DEF ClaimsKeepRows
    <3> QED
      BY <3>1, <3>2, <3>3, <3>4
  <2> QED
    BY <2>1, <2>2
<1>4. ASSUME NEW d \in Events, RetryDue(d)
      PROVE  /\ row[e] # Nil /\ row[e].status = "pending"
             /\ row'[e].attempts = row[e].attempts /\ row'[e].at = row[e].at
  <2>1. CASE d = e
    BY <1>4, <2>1, RetryEffect
  <2>2. CASE d # e
    <3>1. row'[e] = row[e]
      BY <1>4, <2>2, RetryEffect
    <3> QED
      BY <3>1
  <2> QED
    BY <2>1, <2>2
<1>5. ASSUME NEW d \in Events, Purge(d) PROVE row'[e] = row[e]
  BY <1>5, PurgeEffect
<1>6. \A w \in Workers : MarkSucceeded(w) \/ MarkFailed(w) \/ MarkInvalid(w) =>
         /\ pc[w] \in {"succeeded", "failed", "invalid"}
         /\ \E status \in {"pending"} \union Settled, due \in BOOLEAN : Mark(w, status, due)
  BY DEF MarkSucceeded, MarkFailed, MarkInvalid, Settled
<1>7. CASE \E w \in Workers : Claim(w)
  BY <1>2, <1>7 DEF OneWorker
<1>8. CASE ~ \E w \in Workers : Claim(w)
  <2>1. CASE row' = row
    BY <1>8, <2>1
  <2>2. CASE row' # row
    <3>1. \/ \E s \in Senders : Insert(s)
          \/ \E w \in Workers : MarkSucceeded(w) \/ MarkFailed(w) \/ MarkInvalid(w)
          \/ \E d \in Events : RetryDue(d) \/ Purge(d)
      BY <1>8, <2>2
         DEF Next, vars, table, Deliver, Receive, Select, Work, ApplyOk, ApplyError,
             PayloadError, Crash
    <3> QED
      BY <1>1, <1>3, <1>4, <1>5, <1>6, <1>8, <2>2, <3>1
  <2> QED
    BY <2>1, <2>2
<1> QED
  BY <1>7, <1>8

LEMMA TriedStep ==
    ASSUME OrderInv, OrderInv', OneWorker, TriedAreOlder, [Next]_vars
    PROVE  TriedAreOlder'
<1> SUFFICES ASSUME NEW d \in Pending', NEW e \in Pending', row'[d].attempts > 0, row'[e].attempts = 0
             PROVE  row'[d].at < row'[e].at
  BY DEF TriedAreOlder
<1>1. /\ d \in Events /\ row'[d] # Nil /\ row'[d].status = "pending"
      /\ e \in Events /\ row'[e] # Nil /\ row'[e].status = "pending"
  BY DEF Pending
<1>2. row'[d].attempts # 0 /\ d # e
  OBVIOUS
<1>3. CASE /\ row[e] = Nil
           /\ \A x \in Events : row[x] # Nil => row[x].at < row'[e].at
           /\ \A x \in Events : x # e => row'[x] = row[x]
  BY <1>1, <1>2, <1>3
<1>4. CASE /\ row[e] # Nil /\ row[e].status = "pending"
           /\ row'[e].attempts = row[e].attempts /\ row'[e].at = row[e].at
  <2>1. e \in Pending /\ row[e].attempts = 0
    BY <1>1, <1>4 DEF Pending
  <2>2. CASE /\ row[d] # Nil /\ row[d].status = "pending"
             /\ row'[d].attempts = row[d].attempts /\ row'[d].at = row[d].at
    <3>1. d \in Pending /\ row[d].attempts > 0
      BY <1>1, <2>2 DEF Pending
    <3> QED
      BY <1>4, <2>1, <2>2, <3>1 DEF TriedAreOlder
  <2>3. CASE /\ row'[d].at = row[d].at
             /\ \A x \in Pending : row[x].attempts = 0 => row[d].at < row[x].at
    BY <1>4, <2>1, <2>3
  <2> QED
    BY <1>1, <1>2, <2>2, <2>3, PendingAfter
<1> QED
  BY <1>1, <1>3, <1>4, PendingAfter

\* With room for all, a run that selects takes up whatever was never tried.
LEMMA SelectsFresh ==
    ASSUME OrderInv, IsFiniteSet(Events), Cardinality(Events) <= Limit, NEW w \in Workers, Select(w),
           NEW e \in Pending, row[e].attempts = 0
    PROVE  pc'[w] = "claim" /\ \E c \in claimed'[w] : c.event = e
<1> USE DEF OrderInv, HistoryInv, AttemptsInv
<1>1. Due \subseteq Events /\ e \in Due
  BY DEF Due, Pending, FreshIsDue
<1>2. Cardinality(Due) <= Limit
  <2>1. IsFiniteSet(Due) /\ Cardinality(Due) <= Cardinality(Events)
    BY <1>1, FS_Subset
  <2>2. Cardinality(Due) \in Nat /\ Cardinality(Events) \in Nat /\ Limit \in Nat
    BY <2>1, FS_CardinalityType, BacklogAssumption
  <2> QED
    BY <2>1, <2>2
<1>3. claimed' = [claimed EXCEPT ![w] = {Selected(x) : x \in Due}]
  BY <1>2 DEF Select, FirstDue
<1>4. claimed'[w] = {Selected(x) : x \in Due}
  BY <1>3 DEF TypeInv, TypeOK
<1>5. Selected(e) \in claimed'[w] /\ Selected(e).event = e
  BY <1>1, <1>4 DEF Selected
<1> QED
  BY <1>5, SelectEffect

\* Of the requests the sensor has made, one over an event that was never tried
\* is still to be served or being served.
LEMMA AskedStep ==
    ASSUME DispatchInv, OrderInv', OneWorker, OneSender, IsFiniteSet(Events),
           [DispatchNext]_dispatchVars, [Next]_vars
    PROVE  AskedFor' /\ asked' \subseteq RunKeys /\ queued' \in Nat
<1> USE DEF DispatchInv
<1>1. asked' \subseteq RunKeys /\ queued' \in Nat
  BY DEF DispatchNext, dispatchVars, dispatch, SensorTick, SensorRun, HourlyRun, Elsewhere
<1> SUFFICES ASSUME Unharmed', NEW key \in asked'
             PROVE  /\ row'[key.last] # Nil
                    /\ row'[key.last].status = "pending" /\ row'[key.last].attempts = 0 =>
                          \/ queued' > 0
                          \/ \E w \in Workers : pc'[w] = "claim" /\ \E c \in claimed'[w] : c.event = key.last
  BY <1>1 DEF AskedFor
<1> DEFINE e == key.last
<1>2. Unharmed
  BY HarmStays DEF OrderInv, HistoryInv, AttemptsInv
<1>3. e \in Events
  BY <1>1 DEF RunKeys
<1>4. CASE SensorTick
  <2>1. row' = row /\ queued' > 0
    BY <1>4 DEF SensorTick, vars, table
  <2>2. row[e] # Nil
    BY <1>2, <1>4 DEF SensorTick, AskedFor, RunKey, Pending
  <2> QED
    BY <2>1, <2>2
<1>5. CASE ~ SensorTick
  <2>1. key \in asked
    BY <1>5 DEF DispatchNext, dispatchVars, dispatch, SensorRun, HourlyRun, Elsewhere
  <2>2. /\ row[e] # Nil
        /\ row[e].status = "pending" /\ row[e].attempts = 0 =>
              \/ queued > 0 \/ \E w \in Workers : pc[w] = "claim" /\ \E c \in claimed[w] : c.event = e
    BY <1>2, <2>1 DEF AskedFor
  <2> HIDE DEF e
  <2>3. row'[e] # Nil
    <3>1. CASE \E x \in Events : Purge(x)
      <4>1. ~ \A x \in Events : purges'[x] = 0
        BY <3>1, PurgeEffect DEF OrderInv, HistoryInv
      <4> QED
        BY <4>1 DEF Unharmed
    <3>2. CASE ~ \E x \in Events : Purge(x)
      <4>1. CASE row' = row
        BY <2>2, <4>1
      <4>2. ASSUME NEW s \in Senders, Insert(s) PROVE row'[e] # Nil
        BY <1>3, <2>2, <4>2, InsertEffect DEF OrderInv, HistoryInv
      <4>3. ASSUME NEW w \in Workers, Claim(w) PROVE row'[e] # Nil
        BY <1>3, <2>2, <4>3, ClaimEffect DEF OrderInv, HistoryInv
      <4>4. ASSUME NEW w \in Workers, MarkSucceeded(w) \/ MarkFailed(w) \/ MarkInvalid(w)
            PROVE  row'[e] # Nil
        <5>1. PICK status \in {"pending"} \union Settled, due \in BOOLEAN :
                 pc[w] \in {"succeeded", "failed", "invalid"} /\ Mark(w, status, due)
          BY <4>4 DEF MarkSucceeded, MarkFailed, MarkInvalid, Settled
        <5> QED
          BY <1>3, <2>2, <5>1, MarkEffect DEF OrderInv, HistoryInv
      <4>5. ASSUME NEW x \in Events, RetryDue(x) PROVE row'[e] # Nil
        BY <1>3, <2>2, <4>5, RetryEffect DEF OrderInv, HistoryInv
      <4>6. CASE row' # row
        <5>1. \/ \E s \in Senders : Insert(s)
              \/ \E w \in Workers : Claim(w) \/ MarkSucceeded(w) \/ MarkFailed(w) \/ MarkInvalid(w)
              \/ \E x \in Events : RetryDue(x)
          BY <3>2, <4>6
             DEF Next, vars, table, Deliver, Receive, Select, Work, ApplyOk, ApplyError,
                 PayloadError, Crash
        <5> QED
          BY <4>2, <4>3, <4>4, <4>5, <5>1
      <4> QED
        BY <4>1, <4>6
    <3> QED
      BY <3>1, <3>2
  <2> SUFFICES ASSUME row'[e].status = "pending", row'[e].attempts = 0
               PROVE  \/ queued' > 0
                      \/ \E w \in Workers : pc'[w] = "claim" /\ \E c \in claimed'[w] : c.event = e
    BY <2>3 DEF e
  <2>4. /\ row[e].status = "pending" /\ row[e].attempts = 0
        /\ \A w \in Workers : Claim(w) => \A c \in claimed[w] : c.event # e
    BY <1>3, <2>2, <2>3, PendingAfter
  <2>5. e \in Pending
    BY <1>3, <2>2, <2>4 DEF Pending
  <2>6. CASE \E w \in Workers : Select(w)
    BY <1>2, <2>4, <2>5, <2>6, SelectsFresh DEF Unharmed
  <2>7. CASE ~ \E w \in Workers : Select(w)
    <3>1. queued' = queued
      <4>1. e \in Due
        BY <2>4, <2>5 DEF Due, OrderInv, FreshIsDue, Pending
      <4> QED
        BY <1>5, <2>7, <4>1 DEF DispatchNext, dispatchVars, dispatch, SensorRun, HourlyRun, Elsewhere
    <3>2. ASSUME NEW w \in Workers, pc[w] = "claim", NEW c \in claimed[w], c.event = e
          PROVE  pc'[w] = "claim" /\ c \in claimed'[w]
      <4>1. \A v \in Workers : v = w
        BY DEF OneWorker
      <4>2. ~ \E v \in Workers : Work(v)
        BY <2>4, <3>2, <4>1
           DEF Work, ApplyOk, ApplyError, PayloadError, MarkSucceeded, MarkFailed, MarkInvalid, Goto
      <4>3. ~ \E v \in Workers : Crash(v)
        BY <1>2 DEF Crash, Unharmed
      <4> QED
        BY <2>7, <3>2, <4>2, <4>3
           DEF Next, vars, Deliver, Receive, Insert, RetryDue, Purge
    <3> QED
      BY <2>2, <2>4, <3>1, <3>2
  <2> QED
    BY <2>6, <2>7
<1> QED
  BY <1>4, <1>5

\* With one run and one delivery at a time, no run that dies, no event id that
\* comes back and no backlog longer than a run takes, the sensor's run keys
\* never silence it over an event that was not tried.
THEOREM SensorAsksForFreshWork ==
    ASSUME OneWorker, OneSender, IsFiniteSet(Events)
    PROVE  DispatchSpec => []FreshWorkIsAskedFor
<1>1. DispatchInit => DispatchInv
  BY OrderInit DEF DispatchInit, DispatchInv, TriedAreOlder, AskedFor, Init, Pending
<1>2. [DispatchNext]_dispatchVars => [Next]_vars
  BY DEF DispatchNext, dispatchVars, SensorTick, SensorRun, HourlyRun, Elsewhere, Next
<1>3. DispatchInv /\ [DispatchNext]_dispatchVars => DispatchInv'
  <2> SUFFICES ASSUME DispatchInv, [DispatchNext]_dispatchVars PROVE DispatchInv'
    OBVIOUS
  <2>1. [Next]_vars
    BY <1>2
  <2>2. OrderInv'
    BY <2>1, OrderStep DEF DispatchInv
  <2> QED
    BY <2>1, <2>2, TriedStep, AskedStep DEF DispatchInv
<1>4. DispatchInv => FreshWorkIsAskedFor
  <2> SUFFICES ASSUME DispatchInv, Unharmed, NEW e \in Pending, row[e].attempts = 0,
                      ~ queued > 0, \A w \in Workers : pc[w] = "idle"
               PROVE  \E key \in RunKeys \ asked : RunKey(key)
    BY DEF FreshWorkIsAskedFor, Unharmed
  <2> USE DEF DispatchInv, OrderInv, HistoryInv, AttemptsInv
  <2>1. \A d \in Pending : /\ d \in Events /\ row[d] # Nil /\ row[d].status = "pending"
                           /\ row[d].at \in Nat /\ row[d].at <= deliveries /\ row[d].attempts \in Nat
    BY TimesAreNatural DEF Pending, ReceivedInOrder
  <2>2. PICK last \in Pending : \A d \in Pending : row[d].at <= row[last].at
    <3> DEFINE ages == {deliveries - row[d].at : d \in Pending}
    <3>1. deliveries \in Nat
      BY TimesAreNatural
    <3>2. ages \in SUBSET Nat /\ ages # {}
      BY <2>1, <3>1
    <3>3. PICK m \in ages : \A n \in ages : m <= n
      BY <3>2, LeastNatural
    <3>4. PICK last \in Pending : m = deliveries - row[last].at
      BY <3>3
    <3>5. \A d \in Pending : deliveries - row[last].at <= deliveries - row[d].at
      BY <3>3, <3>4
    <3> HIDE DEF ages
    <3>6. \A d \in Pending : row[d].at <= row[last].at
      BY <2>1, <3>1, <3>5
    <3> QED
      BY <3>6
  <2>3. row[last].attempts = 0
    <3>1. ~ (row[last].at < row[e].at)
      BY <2>1, <2>2
    <3>2. ~ (row[last].attempts > 0)
      BY <3>1 DEF TriedAreOlder
    <3> QED
      BY <2>1, <3>2
  <2> DEFINE key == [pending |-> Cardinality(Pending), last |-> last]
  <2>4. key \in RunKeys
    <3>1. Pending \subseteq Events /\ Pending # {}
      BY DEF Pending
    <3>2. IsFiniteSet(Pending) /\ Cardinality(Pending) <= Cardinality(Events)
      BY <3>1, FS_Subset
    <3>3. Cardinality(Pending) \in Nat /\ Cardinality(Events) \in Nat /\ Cardinality(Pending) # 0
      BY <3>1, <3>2, FS_CardinalityType, FS_EmptySet
    <3> QED
      BY <2>1, <3>2, <3>3 DEF RunKeys
  <2>5. RunKey(key)
    BY <2>2 DEF RunKey
  <2>6. key \notin asked
    <3>1. key.last = last /\ last \in Events /\ row[last] # Nil /\ row[last].status = "pending"
      BY <2>1, <2>2
    <3>2. ~ \E w \in Workers : pc[w] = "claim"
      OBVIOUS
    <3> HIDE DEF key
    <3> QED
      BY <2>3, <3>1, <3>2 DEF AskedFor
  <2> QED
    BY <2>4, <2>5, <2>6
<1> QED
  BY <1>1, <1>3, <1>4, PTL DEF DispatchSpec
=============================================================================
