------------------------- MODULE ConnectorJobsProofs -------------------------
(***************************************************************************)
(* What holds of a connector's jobs, and of the operator's reports on      *)
(* them, for every number of programs, calls and deaths.                   *)
(***************************************************************************)
EXTENDS Dashboard, FiniteSetTheorems, NaturalsInduction, WellFoundedInduction, TLAPS

-----------------------------------------------------------------------------
(* Tables *)

\* An UPDATE of one row: the table keeps its length and its other rows.
LEMMA UpdatedTable ==
    ASSUME NEW S, NEW t \in Seq(S), NEW i \in DOMAIN t, NEW x \in S
    PROVE  /\ [t EXCEPT ![i] = x] \in Seq(S)
           /\ Len([t EXCEPT ![i] = x]) = Len(t)
           /\ DOMAIN [t EXCEPT ![i] = x] = DOMAIN t
           /\ [t EXCEPT ![i] = x][i] = x
           /\ \A j \in DOMAIN t : j # i => [t EXCEPT ![i] = x][j] = t[j]
  OBVIOUS

\* An INSERT: the new row is the last one.
LEMMA ExtendedTable ==
    ASSUME NEW S, NEW t \in Seq(S), NEW x \in S
    PROVE  /\ Append(t, x) \in Seq(S)
           /\ Len(Append(t, x)) = Len(t) + 1
           /\ DOMAIN Append(t, x) = DOMAIN t \union {Len(t) + 1}
           /\ Append(t, x)[Len(t) + 1] = x
           /\ \A j \in DOMAIN t : Append(t, x)[j] = t[j]
  OBVIOUS

\* The row a program settles: only its status changes.
LEMMA SettledRow ==
    ASSUME NEW j \in DOMAIN jobs, TypeOK, NEW status \in Statuses
    PROVE  /\ [jobs[j] EXCEPT !.status = status] \in Job
           /\ [jobs[j] EXCEPT !.status = status].status = status
<1>1. jobs[j] \in Job
  BY DEF TypeOK
<1> QED
  BY <1>1 DEF Job

-----------------------------------------------------------------------------
(* The inductive invariant *)

\* A running job is the one inserted last, and whoever works has one.
RunningIsLast == \A j \in Running : j = Len(jobs)

WorkersRun == \A c \in AtWork : mine[c] \in Running

\* Who inserts has taken the time.
Stamped == \A c \in Callers : pc[c] = "insert" => started[c] # Nil

JobsInv ==
    /\ TypeOK /\ Stamped
    /\ RunningIsLast /\ WorkersRun /\ OneAtWork
    /\ CheckpointIsLatestSuccess
    /\ BlockedByDeaths

LEMMA JobsInit == Init => JobsInv
<1> SUFFICES ASSUME Init PROVE JobsInv
  OBVIOUS
<1>1. AtWork = {} /\ Running = {} /\ Succeeded = {}
  BY DEF Init, AtWork, Running, Succeeded
<1>2. TypeOK
  BY JobsAssumption DEF Init, TypeOK, Positions
<1> QED
  BY <1>1, <1>2 DEF JobsInv, Stamped, RunningIsLast, WorkersRun,
     OneAtWork, CheckpointIsLatestSuccess, BlockedByDeaths, Init

\* Steps that leave the table alone and put nobody to work keep everything but
\* the types.
LEMMA TableKept ==
    ASSUME JobsInv, UNCHANGED <<jobs, checkpoint>>, AtWork' \subseteq AtWork,
           \A c \in AtWork' : mine'[c] = mine[c],
           deaths' \in Nat, deaths <= deaths',
           deaths' = deaths => AtWork' = AtWork,
           TypeOK', Stamped'
    PROVE  JobsInv'
<1>1. Running' = Running /\ Succeeded' = Succeeded
  BY DEF Running, Succeeded
<1>2. RunningIsLast' /\ WorkersRun' /\ OneAtWork'
  BY <1>1 DEF JobsInv, RunningIsLast, WorkersRun, OneAtWork
<1>3. CheckpointIsLatestSuccess'
  BY <1>1 DEF JobsInv, CheckpointIsLatestSuccess
<1>4. BlockedByDeaths'
  BY <1>1, JobsAssumption DEF JobsInv, BlockedByDeaths, TypeOK
<1> QED
  BY <1>2, <1>3, <1>4 DEF JobsInv

LEMMA StartStep ==
    ASSUME JobsInv, NEW c \in Callers, Plan(c) \/ Call(c) \/ Start(c)
    PROVE  JobsInv'
<1> USE DEF JobsInv
<1>1. CASE Plan(c)
  <2>1. PICK j \in DOMAIN jobs :
          /\ attempt' = [attempt EXCEPT ![c] = jobs[j].attempt + 1]
          /\ input' = [input EXCEPT ![c] = RetryInput(c, j)]
    BY <1>1 DEF Plan
  <2>0. jobs[j] \in Job
    BY DEF TypeOK
  <2>2. jobs[j].attempt + 1 \in Nat /\ RetryInput(c, j) \in Nat \union {Nil}
    BY <2>0 DEF Job, RetryInput
  <2>3. TypeOK'
    BY <1>1, <2>1, <2>2 DEF Plan, Goto, TypeOK, Positions
  <2>4. AtWork' = AtWork
    BY <1>1 DEF Plan, Goto, AtWork, TypeOK
  <2>5. Stamped'
    BY <1>1 DEF Plan, Goto, Stamped, TypeOK
  <2> QED
    BY <1>1, <2>3, <2>4, <2>5, TableKept DEF Plan, TypeOK
<1>2. CASE Call(c)
  <2>1. TypeOK'
    BY <1>2 DEF Call, Goto, TypeOK, Positions, locals
  <2>2. AtWork' = AtWork
    BY <1>2 DEF Call, Goto, AtWork, TypeOK
  <2>3. Stamped'
    BY <1>2 DEF Call, Goto, Stamped, TypeOK, locals
  <2> QED
    BY <1>2, <2>1, <2>2, <2>3, TableKept DEF Call, TypeOK, locals
<1>3. CASE ReadCheckpoint(c)
  <2>1. TypeOK'
    BY <1>3, JobsAssumption DEF ReadCheckpoint, InputState, Goto, TypeOK, Positions
  <2>2. AtWork' = AtWork
    BY <1>3 DEF ReadCheckpoint, Goto, AtWork, TypeOK
  <2>3. Stamped'
    BY <1>3, JobsAssumption DEF ReadCheckpoint, Goto, Stamped, TypeOK
  <2> QED
    BY <1>3, <2>1, <2>2, <2>3, TableKept DEF ReadCheckpoint, TypeOK
<1>4. CASE Refused(c)
  <2>1. TypeOK'
    BY <1>4 DEF Refused, Goto, Forget, TypeOK, Positions
  <2>2. AtWork' = AtWork /\ \A d \in AtWork : mine'[d] = mine[d]
    BY <1>4 DEF Refused, Goto, Forget, AtWork, TypeOK
  <2>3. Stamped'
    BY <1>4 DEF Refused, Goto, Forget, Stamped, TypeOK
  <2> QED
    BY <1>4, <2>1, <2>2, <2>3, TableKept DEF Refused, TypeOK
<1>5. CASE Insert(c)
  <2>1. NewJob(c) \in Job
    BY <1>5 DEF Insert, Goto, NewJob, Stamped, TypeOK, Job, Statuses
  <2>2. /\ jobs' \in Seq(Job) /\ Len(jobs') = Len(jobs) + 1
        /\ DOMAIN jobs' = DOMAIN jobs \union {Len(jobs) + 1}
        /\ jobs'[Len(jobs) + 1] = NewJob(c)
        /\ \A j \in DOMAIN jobs : jobs'[j] = jobs[j]
    BY <1>5, <2>1, ExtendedTable DEF Insert, TypeOK
  <2>3. Len(jobs) \in Nat /\ Len(jobs) + 1 \notin DOMAIN jobs
    BY DEF TypeOK
  <2>4. TypeOK' /\ Stamped'
    BY <1>5, <2>2, <2>3 DEF Insert, Goto, Stamped, TypeOK, Positions
  <2>5. NewJob(c).status = "running"
    BY DEF NewJob
  <2>6. Running = {}
    BY <1>5 DEF Insert
  <2>7. Running' = {Len(jobs) + 1}
    BY <2>2, <2>5, <2>6 DEF Running
  <2>8. Succeeded' = Succeeded
    BY <2>2, <2>3, <2>5 DEF Succeeded
  <2>9. AtWork' = {c}
    BY <1>5, <2>6 DEF Insert, Goto, AtWork, WorkersRun, TypeOK
  <2>10. mine'[c] = Len(jobs) + 1
    BY <1>5 DEF Insert, TypeOK
  <2>11. RunningIsLast' /\ WorkersRun' /\ OneAtWork' /\ BlockedByDeaths'
    BY <2>2, <2>7, <2>9, <2>10
       DEF RunningIsLast, WorkersRun, OneAtWork, BlockedByDeaths
  <2>12. CheckpointIsLatestSuccess'
    BY <1>5, <2>8 DEF Insert, CheckpointIsLatestSuccess
  <2> QED
    BY <2>4, <2>11, <2>12
<1> QED
  BY <1>1, <1>2, <1>3, <1>4, <1>5 DEF Start

-----------------------------------------------------------------------------
(* The end of a job *)

\* A program that settles its job leaves nobody at work and nothing running.
LEMMA SettleStep ==
    ASSUME JobsInv, NEW c \in AtWork, NEW status \in Statuses \ {"running"},
           pc' = [pc EXCEPT ![c] = "idle"], Settle(c, status),
           checkpoint' = IF status = "succeeded" THEN mine[c] ELSE checkpoint
    PROVE  JobsInv'
<1> USE DEF JobsInv
<1> DEFINE j == mine[c]
<1>1. c \in Callers
  BY DEF AtWork
<1>2. j \in Running /\ j \in DOMAIN jobs /\ j = Len(jobs)
  BY DEF WorkersRun, RunningIsLast, Running
<1> DEFINE row == [jobs[j] EXCEPT !.status = status]
<1>3. row \in Job /\ row.status = status
  BY <1>2, SettledRow
<1>4. jobs' = [jobs EXCEPT ![j] = row]
  BY DEF Settle
<1>0. jobs \in Seq(Job)
  BY DEF TypeOK
<1> HIDE DEF j, row
<1>5. /\ jobs' \in Seq(Job) /\ Len(jobs') = Len(jobs) /\ DOMAIN jobs' = DOMAIN jobs
      /\ jobs'[j].status = status
      /\ \A k \in DOMAIN jobs : k # j => jobs'[k] = jobs[k]
  BY <1>0, <1>2, <1>3, <1>4, UpdatedTable
<1>6. Running' = {}
  BY <1>2, <1>5 DEF Running, RunningIsLast
<1>7. AtWork' = {}
  BY <1>1 DEF AtWork, OneAtWork, TypeOK
<1>8. TypeOK' /\ Stamped'
  <2>1. j \in Nat
    BY <1>2 DEF TypeOK
  <2>2. checkpoint' \in Nat \union {Nil}
    BY <2>1 DEF TypeOK, j
  <2> QED
    BY <1>1, <1>5, <2>2 DEF Settle, Forget, TypeOK, Stamped, Positions
<1>9. RunningIsLast' /\ WorkersRun' /\ OneAtWork' /\ BlockedByDeaths'
  BY <1>6, <1>7 DEF RunningIsLast, WorkersRun, OneAtWork, BlockedByDeaths
<1>10. CASE status = "succeeded"
  <2>1. Succeeded' = Succeeded \union {j}
    BY <1>2, <1>5, <1>10 DEF Succeeded
  <2>2. \A k \in Succeeded' : k <= j
    BY <1>2, <2>1 DEF Succeeded, TypeOK
  <2>3. checkpoint' = j
    BY <1>10 DEF j
  <2> QED
    BY <1>8, <1>9, <2>1, <2>2, <2>3 DEF CheckpointIsLatestSuccess
<1>11. CASE status # "succeeded"
  <2>1. jobs[j].status = "running"
    BY <1>2 DEF Running
  <2>2. Succeeded' = Succeeded
    BY <1>2, <1>5, <1>11, <2>1 DEF Succeeded
  <2> QED
    BY <1>8, <1>9, <1>11, <2>2 DEF CheckpointIsLatestSuccess
<1> QED
  BY <1>10, <1>11

LEMMA FinishStep ==
    ASSUME JobsInv, NEW c \in Callers, Finish(c)
    PROVE  JobsInv'
<1> USE DEF JobsInv
<1>1. CASE Work(c)
  <2>1. TypeOK' /\ Stamped' /\ AtWork' = AtWork
    BY <1>1 DEF Work, Outcomes, Goto, TypeOK, Stamped, Positions, AtWork, locals
  <2> QED
    BY <1>1, <2>1, TableKept DEF Work, locals, TypeOK
<1>2. CASE Complete(c)
  <2>1. c \in AtWork
    BY <1>2 DEF Complete, Goto, AtWork
  <2> QED
    BY <1>2, <2>1, SettleStep DEF Complete, Goto, Statuses
<1>3. CASE Fail(c)
  <2>1. c \in AtWork
    BY <1>3 DEF Fail, Goto, AtWork
  <2> QED
    BY <1>3, <2>1, SettleStep DEF Fail, Goto, Statuses
<1>4. CASE MarkInvalid(c)
  <2>1. c \in AtWork
    BY <1>4 DEF MarkInvalid, Goto, AtWork
  <2> QED
    BY <1>4, <2>1, SettleStep DEF MarkInvalid, Goto, Statuses
<1> QED
  BY <1>1, <1>2, <1>3, <1>4 DEF Finish

\* A death changes no row, and is what BlockedByDeaths makes an exception for.
LEMMA DieStep ==
    ASSUME JobsInv, NEW c \in Callers, Die(c)
    PROVE  JobsInv'
<1> USE DEF JobsInv
<1>1. TypeOK' /\ Stamped'
  BY JobsAssumption DEF Die, Forget, TypeOK, Stamped, Positions
<1>2. AtWork' = AtWork \ {c} /\ \A d \in AtWork' : mine'[d] = mine[d]
  BY DEF Die, Forget, AtWork, TypeOK
<1>3. deaths' = deaths + 1 /\ deaths \in Nat
  BY JobsAssumption DEF Die, TypeOK
<1> QED
  BY <1>1, <1>2, <1>3, TableKept DEF Die

\* The passing of a backoff window changes no status.
LEMMA BackoffStep ==
    ASSUME JobsInv, NEW j \in DOMAIN jobs, BackoffPasses(j)
    PROVE  JobsInv'
<1> USE DEF JobsInv
<1>1. jobs[j] \in Job
  BY DEF TypeOK
<1>2. /\ [jobs[j] EXCEPT !.due = TRUE] \in Job
      /\ [jobs[j] EXCEPT !.due = TRUE].status = jobs[j].status
  BY <1>1 DEF Job
<1>3. jobs' = [jobs EXCEPT ![j] = [jobs[j] EXCEPT !.due = TRUE]]
  BY DEF BackoffPasses
<1>4. /\ jobs' \in Seq(Job) /\ Len(jobs') = Len(jobs) /\ DOMAIN jobs' = DOMAIN jobs
      /\ \A k \in DOMAIN jobs : jobs'[k].status = jobs[k].status
  BY <1>2, <1>3, UpdatedTable DEF TypeOK
<1>5. TypeOK' /\ Stamped' /\ AtWork' = AtWork
  BY <1>4 DEF BackoffPasses, TypeOK, Stamped, AtWork, locals
<1>6. Running' = Running /\ Succeeded' = Succeeded
  BY <1>4 DEF Running, Succeeded
<1>7. RunningIsLast' /\ WorkersRun' /\ OneAtWork' /\ BlockedByDeaths'
  BY <1>4, <1>5, <1>6
     DEF BackoffPasses, RunningIsLast, WorkersRun, OneAtWork, BlockedByDeaths, locals
<1>8. CheckpointIsLatestSuccess'
  BY <1>6 DEF BackoffPasses, CheckpointIsLatestSuccess
<1> QED
  BY <1>5, <1>7, <1>8

LEMMA JobsStep == JobsInv /\ [Next]_vars => JobsInv'
<1> SUFFICES ASSUME JobsInv, [Next]_vars PROVE JobsInv'
  OBVIOUS
<1>1. ASSUME NEW c \in Callers, Plan(c) \/ Call(c) \/ Start(c) PROVE JobsInv'
  BY <1>1, StartStep
<1>2. ASSUME NEW c \in Callers, Finish(c) PROVE JobsInv'
  BY <1>2, FinishStep
<1>3. ASSUME NEW c \in Callers, Die(c) PROVE JobsInv'
  BY <1>3, DieStep
<1>4. ASSUME NEW j \in DOMAIN jobs, BackoffPasses(j) PROVE JobsInv'
  BY <1>4, BackoffStep
<1>5. CASE UNCHANGED vars
  BY <1>5 DEF vars, locals, JobsInv, TypeOK, Stamped, RunningIsLast, WorkersRun, OneAtWork,
     AtWork, Running, Succeeded, CheckpointIsLatestSuccess, BlockedByDeaths
<1> QED
  BY <1>1, <1>2, <1>3, <1>4, <1>5 DEF Next

LEMMA JobsAlwaysInv == Spec => []JobsInv
  BY JobsInit, JobsStep, PTL DEF Spec

-----------------------------------------------------------------------------
\* The tables and the programs' local variables keep their types.
THEOREM JobsTypeCorrect == Spec => []TypeOK
<1>1. JobsInv => TypeOK
  BY DEF JobsInv
<1> QED
  BY <1>1, JobsAlwaysInv, PTL

\* The index on running jobs keeps two programs from working on a connector
\* at the same time, whatever they are and whichever of them die.
THEOREM NeverTwoAtWork == Spec => []OneAtWork
<1>1. JobsInv => OneAtWork
  BY DEF JobsInv
<1> QED
  BY <1>1, JobsAlwaysInv, PTL

\* The checkpoint is always the output of the job that succeeded last: jobs end
\* in the order they were inserted in.
THEOREM CheckpointFollowsSuccess == Spec => []CheckpointIsLatestSuccess
<1>1. JobsInv => CheckpointIsLatestSuccess
  BY DEF JobsInv
<1> QED
  BY <1>1, JobsAlwaysInv, PTL

\* While no program has died, every running job has a program at work on it.
THEOREM OnlyDeathsBlock == Spec => []BlockedByDeaths
<1>1. JobsInv => BlockedByDeaths
  BY DEF JobsInv
<1> QED
  BY <1>1, JobsAlwaysInv, PTL

-----------------------------------------------------------------------------
(* The reports *)

\* A non-empty set of naturals below a bound has a greatest element.
LEMMA GreatestNatural ==
    ASSUME NEW bound \in Nat, NEW S \in SUBSET (0..bound), S # {}
    PROVE  \E m \in S : \A n \in S : n <= m
<1> DEFINE above == {ss \in Nat \X Nat : ss[1] < ss[2]}
           rest == {bound - n : n \in S}
<1>1. IsWellFoundedOn(above, Nat)
  BY NatLessThanWellFounded DEF OpToRel
<1>2. rest \subseteq Nat /\ rest # {}
  <2>1. \A n \in S : n \in Nat /\ bound - n \in Nat
    OBVIOUS
  <2>2. PICK n \in S : TRUE
    OBVIOUS
  <2> QED
    BY <2>1, <2>2
<1>3. PICK l \in rest : \A n \in rest : ~ (<<n, l>> \in above)
  BY <1>1, <1>2, WFMin
<1>4. \A n \in rest : ~ (n < l)
  BY <1>2, <1>3
<1>5. PICK m \in S : l = bound - m
  OBVIOUS
<1>6. \A n \in S : bound - n \in rest
  OBVIOUS
<1> HIDE DEF rest
<1>7. ASSUME NEW n \in S PROVE n <= m
  <2>1. ~ (bound - n < bound - m)
    BY <1>4, <1>5, <1>6
  <2> QED
    BY <2>1
<1> QED
  BY <1>7

\* Where there are jobs, one of them started last.
LEMMA LatestIsAJob ==
    ASSUME jobs \in Seq(Job), jobs # <<>>
    PROVE  LatestStarted \in DOMAIN jobs
<1> DEFINE times == {jobs[j].started : j \in DOMAIN jobs}
<1>1. \A j \in DOMAIN jobs : jobs[j].started \in 1..MaxCalls
  <2>1. \A j \in DOMAIN jobs : jobs[j] \in Job
    OBVIOUS
  <2> QED
    BY <2>1 DEF Job
<1>2. times \subseteq 0..MaxCalls /\ times # {}
  BY <1>1, JobsAssumption
<1>3. PICK m \in times : \A n \in times : n <= m
  BY <1>2, GreatestNatural, JobsAssumption
<1>4. \E j \in DOMAIN jobs : Latest(j)
  BY <1>3 DEF Latest
<1> QED
  BY <1>4 DEF LatestStarted, Latest

\* No step takes a job away or changes what a job that has ended ended with.
Kept(j) ==
    /\ j \in DOMAIN jobs'
    /\ jobs'[j].attempt = jobs[j].attempt
    /\ jobs[j].status # "running" => jobs'[j].status = jobs[j].status

LEMMA JobsAreKept ==
    ASSUME JobsInv, [Next]_vars
    PROVE  /\ \A j \in DOMAIN jobs : Kept(j)
           /\ \A j \in DOMAIN jobs' \ DOMAIN jobs : jobs'[j].status = "running"
<1> DEFINE Goal == /\ \A j \in DOMAIN jobs : Kept(j)
                  /\ \A j \in DOMAIN jobs' \ DOMAIN jobs : jobs'[j].status = "running"
<1>0. jobs \in Seq(Job) /\ \A j \in DOMAIN jobs : jobs[j] \in Job
  BY DEF JobsInv, TypeOK
<1>1. ASSUME jobs' = jobs PROVE Goal
  BY <1>1 DEF Kept
<1>2. ASSUME NEW c \in Callers, Insert(c) PROVE Goal
  <2>1. NewJob(c) \in Job
    BY <1>2 DEF JobsInv, Insert, Goto, NewJob, Stamped, TypeOK, Job, Statuses
  <2>2. /\ DOMAIN jobs' = DOMAIN jobs \union {Len(jobs) + 1}
        /\ jobs'[Len(jobs) + 1] = NewJob(c)
        /\ \A j \in DOMAIN jobs : jobs'[j] = jobs[j]
    BY <1>0, <1>2, <2>1, ExtendedTable DEF Insert
  <2> QED
    BY <2>2 DEF NewJob, Kept
<1>3. ASSUME NEW c \in Callers, NEW status \in Statuses, Settle(c, status),
             c \in AtWork
      PROVE Goal
  <2>1. mine[c] \in Running /\ mine[c] \in DOMAIN jobs
    BY <1>3 DEF JobsInv, WorkersRun, Running
  <2> DEFINE new == [jobs[mine[c]] EXCEPT !.status = status]
  <2>2. new \in Job /\ new.attempt = jobs[mine[c]].attempt
    BY <1>0, <2>1 DEF Job
  <2>3. jobs' = [jobs EXCEPT ![mine[c]] = new]
    BY <1>3 DEF Settle
  <2> HIDE DEF new
  <2>4. /\ DOMAIN jobs' = DOMAIN jobs /\ jobs'[mine[c]] = new
        /\ \A j \in DOMAIN jobs : j # mine[c] => jobs'[j] = jobs[j]
    BY <1>0, <2>1, <2>2, <2>3, UpdatedTable
  <2> QED
    BY <2>1, <2>2, <2>4 DEF Kept, Running
<1>4. ASSUME NEW j \in DOMAIN jobs, BackoffPasses(j) PROVE Goal
  <2> DEFINE new == [jobs[j] EXCEPT !.due = TRUE]
  <2>1. new \in Job /\ new.attempt = jobs[j].attempt /\ new.status = jobs[j].status
    BY <1>0 DEF Job
  <2>2. jobs' = [jobs EXCEPT ![j] = new]
    BY <1>4 DEF BackoffPasses
  <2> HIDE DEF new
  <2>3. /\ DOMAIN jobs' = DOMAIN jobs /\ jobs'[j] = new
        /\ \A k \in DOMAIN jobs : k # j => jobs'[k] = jobs[k]
    BY <1>0, <2>1, <2>2, UpdatedTable
  <2> QED
    BY <2>1, <2>3 DEF Kept
<1>5. ASSUME NEW c \in Callers, Plan(c) \/ Call(c) \/ Start(c) \/ Finish(c) \/ Die(c) PROVE Goal
  <2>1. CASE Complete(c) \/ Fail(c) \/ MarkInvalid(c)
    BY <1>3, <2>1 DEF Complete, Fail, MarkInvalid, Goto, AtWork, Statuses
  <2>2. CASE Plan(c) \/ Call(c) \/ ReadCheckpoint(c) \/ Refused(c) \/ Work(c) \/ Die(c)
    BY <1>1, <2>2 DEF Plan, Call, ReadCheckpoint, Refused, Work, Die
  <2> QED
    BY <1>2, <1>5, <2>1, <2>2 DEF Start, Finish
<1> QED
  BY <1>1, <1>4, <1>5 DEF Next, vars

\* The jobs that have ended, once each or more, and nothing else.
EndedInv ==
    /\ ended \in Seq(Nat)
    /\ \A i \in DOMAIN ended : ended[i] \in Ended(jobs)
    /\ \A j \in Ended(jobs) : \E i \in DOMAIN ended : ended[i] = j

LEMMA EndedStep ==
    ASSUME JobsInv, [Next]_vars, EndedInv, Finished
    PROVE  EndedInv'
<1> DEFINE new == Ended(jobs') \ Ended(jobs)
<1>0. jobs \in Seq(Job)
  BY DEF JobsInv, TypeOK
<1>1. \A j \in new : j \in Running
  BY JobsAreKept DEF Ended, Kept, Running
<1>2. \A j \in new : j = Len(jobs) /\ j \in Nat
  BY <1>0, <1>1 DEF JobsInv, RunningIsLast
<1>3. \A j \in Ended(jobs) : j \in Ended(jobs')
  BY JobsAreKept DEF Ended, Kept
<1>4. CASE new = {}
  <2>1. ended' = ended /\ Ended(jobs') = Ended(jobs)
    BY <1>3, <1>4 DEF Finished
  <2>2. Ended(jobs)' = Ended(jobs')
    BY DEF Ended
  <2> QED
    BY <2>1, <2>2 DEF EndedInv
<1>5. CASE new # {}
  <2> DEFINE j == CHOOSE k \in new : TRUE
  <2>1. j \in new /\ ended' = Append(ended, j)
    BY <1>5 DEF Finished
  <2> HIDE DEF j
  <2>2. j \in Nat /\ new = {j}
    BY <1>2, <2>1
  <2>3. /\ ended' \in Seq(Nat) /\ DOMAIN ended' = DOMAIN ended \union {Len(ended) + 1}
        /\ ended'[Len(ended) + 1] = j
        /\ \A i \in DOMAIN ended : ended'[i] = ended[i]
    BY <2>1, <2>2, ExtendedTable DEF EndedInv
  <2>4. Ended(jobs') = Ended(jobs) \union {j}
    BY <1>3, <2>2
  <2>5. Ended(jobs)' = Ended(jobs')
    BY DEF Ended
  <2>6. \A i \in DOMAIN ended' : ended'[i] \in Ended(jobs')
    BY <2>3, <2>4 DEF EndedInv
  <2>7. \A k \in Ended(jobs') : \E i \in DOMAIN ended' : ended'[i] = k
    BY <2>3, <2>4 DEF EndedInv
  <2> QED
    BY <2>3, <2>5, <2>6, <2>7 DEF EndedInv
<1> QED
  BY <1>4, <1>5

-----------------------------------------------------------------------------
(* What a report has read so far still holds when it reads the next figure *)

FailedJobs == {j \in DOMAIN jobs : jobs[j].status = "failed"}

\* The alert on failed jobs names one.
AlertHolds(counts) == counts["failed"] > 0 => FailedJobs # {}

RetryHolds(retry) ==
    /\ retry.failed # Nil => retry.failed \in FailedJobs
    /\ retry.attempt > 0 => \E j \in FailedJobs : jobs[j].attempt + 1 = retry.attempt

\* What is shown as the latest job is a running one only if it is the first.
LatestHolds(latest) ==
    latest # Nothing =>
        IF latest.status = "running" THEN latest.job = 1
        ELSE \E j \in DOMAIN jobs : jobs[j].status = latest.status

CountHolds(counts, latest) ==
    latest # Nothing /\ latest.status # "running" => counts[latest.status] > 0

Todos == {<<"counts", "retry">>, <<"retry">>, <<"latest", "counts">>, <<"counts">>, <<>>}

Retries == [failed : Nat \union {Nil}, attempt : Nat, exhausted : BOOLEAN]
LatestJobs == [job : Nat \union {Nil}, status : Statuses \union {Nil}]
Reports == [kind : Kinds, todo : Todos, counts : [Statuses -> Nat],
            retry : Retries, latest : LatestJobs]

DashboardInv ==
    \/ report.todo = <<"counts", "retry">>
    \/ report.todo = <<"retry">> /\ AlertHolds(report.counts)
    \/ /\ report.todo = <<>> /\ RetryHolds(report.retry)
       /\ report.counts["failed"] > 0 => report.retry.failed # Nil

StatusInv ==
    \/ report.todo = <<"latest", "counts">>
    \/ report.todo = <<"counts">> /\ LatestHolds(report.latest)
    \/ /\ report.todo = <<>> /\ LatestHolds(report.latest)
       /\ CountHolds(report.counts, report.latest)

ReportInv ==
    /\ JobsInv /\ EndedInv
    /\ report \in Reports
    /\ report.kind = "dashboard" => DashboardInv
    /\ report.kind = "status" => StatusInv

LEMMA BlankReport ==
    ASSUME NEW kind \in Kinds
    PROVE  /\ Blank(kind) \in Reports /\ Blank(kind).kind = kind
           /\ Blank(kind).todo = Reads(kind) /\ Blank(kind).latest = Nothing
           /\ [Blank(kind) EXCEPT !.todo = <<>>] \in Reports
           /\ [Blank(kind) EXCEPT !.todo = <<>>].kind = kind
           /\ [Blank(kind) EXCEPT !.todo = <<>>].todo = <<>>
           /\ [Blank(kind) EXCEPT !.todo = <<>>].latest = Nothing
<1>1. Reads(kind) \in Todos
  BY DEF Reads, Todos
<1>2. NoCounts \in [Statuses -> Nat]
  BY DEF NoCounts
<1>3. NoRetry \in Retries
  BY DEF NoRetry, Retries
<1>4. Nothing \in LatestJobs
  BY DEF Nothing, LatestJobs
<1>5. <<>> \in Todos
  BY DEF Todos
<1> QED
  BY <1>1, <1>2, <1>3, <1>4, <1>5 DEF Blank, Reports

LEMMA ReportStart == ReportInit => ReportInv
<1> SUFFICES ASSUME ReportInit PROVE ReportInv
  OBVIOUS
<1>1. JobsInv
  BY JobsInit DEF ReportInit
<1>2. jobs = <<>> /\ ended = <<>>
  BY DEF ReportInit, Init
<1>3. EndedInv
  BY <1>2 DEF EndedInv, Ended
<1>4. report \in Reports /\ report.kind = "status" /\ report.todo = <<>> /\ report.latest = Nothing
  BY BlankReport DEF ReportInit, Kinds
<1> QED
  BY <1>1, <1>3, <1>4 DEF ReportInv, StatusInv, LatestHolds, CountHolds

\* The programs go on: what was read of ended jobs stays true.
LEMMA ReportOutlivesJobs ==
    ASSUME ReportInv, [Next]_vars, Finished, UNCHANGED report
    PROVE  ReportInv'
<1>1. JobsInv' /\ EndedInv'
  BY JobsStep, EndedStep DEF ReportInv
<1>2. /\ \A j \in DOMAIN jobs : Kept(j)
      /\ \A j \in DOMAIN jobs' \ DOMAIN jobs : jobs'[j].status = "running"
  BY JobsAreKept DEF ReportInv
<1>3. FailedJobs \subseteq FailedJobs' /\ \A j \in FailedJobs : jobs'[j].attempt = jobs[j].attempt
  BY <1>2 DEF FailedJobs, Kept
<1>4. AlertHolds(report.counts) => AlertHolds(report.counts)'
  BY <1>3 DEF AlertHolds
<1>5. RetryHolds(report.retry) => RetryHolds(report.retry)'
  BY <1>3 DEF RetryHolds
<1>6. LatestHolds(report.latest) => LatestHolds(report.latest)'
  BY <1>2 DEF LatestHolds, Kept, Nothing
<1>7. CountHolds(report.counts, report.latest)' <=> CountHolds(report.counts, report.latest)
  BY DEF CountHolds, Nothing
<1>8. DashboardInv => DashboardInv'
  BY <1>4, <1>5 DEF DashboardInv
<1>9. StatusInv => StatusInv'
  BY <1>6, <1>7 DEF StatusInv
<1> QED
  BY <1>1, <1>8, <1>9 DEF ReportInv

\* A job of a status is counted.
LEMMA CountedIfThere ==
    ASSUME jobs \in Seq(Job), NEW s \in Statuses
    PROVE  /\ CountByStatus \in [Statuses -> Nat]
           /\ CountByStatus[s] > 0 <=> \E j \in DOMAIN jobs : jobs[j].status = s
<1>1. IsFiniteSet(DOMAIN jobs)
  <2>1. DOMAIN jobs = 1..Len(jobs) /\ Len(jobs) \in Int
    OBVIOUS
  <2> QED
    BY <2>1, FS_Interval
<1>2. ASSUME NEW t \in Statuses
      PROVE  /\ Cardinality({j \in DOMAIN jobs : jobs[j].status = t}) \in Nat
             /\ Cardinality({j \in DOMAIN jobs : jobs[j].status = t}) = 0
                  <=> {j \in DOMAIN jobs : jobs[j].status = t} = {}
  <2>1. IsFiniteSet({j \in DOMAIN jobs : jobs[j].status = t})
    BY <1>1, FS_Subset
  <2> QED
    BY <2>1, FS_CardinalityType, FS_EmptySet
<1>3. CountByStatus \in [Statuses -> Nat]
  BY <1>2 DEF CountByStatus
<1>4. CountByStatus[s] = Cardinality({j \in DOMAIN jobs : jobs[j].status = s})
  BY DEF CountByStatus
<1>5. CountByStatus[s] > 0 <=> CountByStatus[s] # 0
  BY <1>3
<1>6. CountByStatus[s] # 0 <=> {j \in DOMAIN jobs : jobs[j].status = s} # {}
  BY <1>2, <1>4
<1> QED
  BY <1>3, <1>5, <1>6

\* The job named by the dashboard has failed, and its plan is that of a failed job.
LEMMA RetryRead ==
    ASSUME JobsInv, EndedInv
    PROVE  /\ RetryVisibility \in Retries
           /\ RetryHolds(RetryVisibility)
           /\ FailedJobs # {} => RetryVisibility.failed # Nil
<1>0. /\ jobs \in Seq(Job) /\ \A j \in DOMAIN jobs : jobs[j] \in Job /\ j \in Nat /\ j # Nil
      /\ MaxAttempts \in Nat /\ Nil \notin Nat
  BY JobsAssumption DEF JobsInv, TypeOK
<1>1. CASE FailedAt = {}
  <2>1. RetryVisibility = NoRetry
    BY <1>1 DEF RetryVisibility
  <2>2. FailedJobs = {}
    BY <1>1 DEF FailedAt, FailedJobs, EndedInv, Ended
  <2> QED
    BY <2>1, <2>2 DEF NoRetry, RetryHolds, Retries
<1>2. CASE FailedAt # {}
  <2>1. Len(ended) \in Nat /\ FailedAt \subseteq 0..Len(ended) /\ FailedAt \subseteq DOMAIN ended
    BY DEF FailedAt, EndedInv
  <2>2. \E i \in FailedAt : \A k \in FailedAt : k <= i
    BY <1>2, <2>1, GreatestNatural
  <2>3. PICK i \in FailedAt : LatestFailed = ended[i]
    BY <2>2 DEF LatestFailed
  <2>4. LatestFailed \in FailedJobs
    BY <2>1, <2>3 DEF FailedAt, FailedJobs, EndedInv, Ended
  <2>5. LatestFailed \in Nat /\ LatestFailed # Nil
    BY <1>0, <2>4 DEF FailedJobs
  <2>6. jobs # <<>>
    BY <2>4 DEF FailedJobs
  <2>7. LatestStarted \in DOMAIN jobs
    BY <1>0, <2>6, LatestIsAJob
  <2>8. jobs[LatestStarted].attempt \in Nat
    BY <1>0, <2>7 DEF Job
  <2>9. Planned \in Nat /\ Planned > 0 => \E j \in FailedJobs : jobs[j].attempt + 1 = Planned
    BY <2>7, <2>8 DEF Planned, FailedJobs
  <2>10. Planned \in Nat
    BY <2>8 DEF Planned
  <2>11. RetryVisibility = [failed |-> LatestFailed, attempt |-> Planned,
                            exhausted |-> Planned > MaxAttempts]
    BY <1>2 DEF RetryVisibility
  <2> HIDE DEF Planned, LatestFailed
  <2> QED
    BY <1>0, <2>4, <2>5, <2>9, <2>10, <2>11 DEF RetryHolds, Retries
<1> QED
  BY <1>1, <1>2

\* Where a job has ended, one that has ended is shown; where none has, there is
\* one job at most, since a running one is the last.
LEMMA LatestRead ==
    ASSUME JobsInv, EndedInv
    PROVE  /\ LatestJob \in LatestJobs
           /\ LatestHolds(LatestJob)
<1>0. /\ jobs \in Seq(Job) /\ \A j \in DOMAIN jobs : jobs[j].status \in Statuses /\ j \in Nat
      /\ Nil \notin Nat
  <2>1. jobs \in Seq(Job) /\ \A j \in DOMAIN jobs : jobs[j] \in Job
    BY DEF JobsInv, TypeOK
  <2> QED
    BY <2>1, JobsAssumption DEF Job
<1>1. CASE jobs = <<>>
  <2>0. DOMAIN jobs = {} /\ ended \in Seq(Nat)
    BY <1>1 DEF EndedInv
  <2>1. DOMAIN ended = {}
    BY <2>0 DEF EndedInv, Ended
  <2>3. ended = <<>>
    BY <2>0, <2>1
  <2>2. LatestJob = Nothing
    BY <1>1, <2>3 DEF LatestJob
  <2> QED
    BY <2>2 DEF Nothing, LatestHolds, LatestJobs
<1>2. CASE jobs # <<>> /\ ended # <<>>
  <2>1. ended[Len(ended)] \in Ended(jobs)
    BY <1>2 DEF EndedInv
  <2>2. LatestJob = Shown(ended[Len(ended)])
    BY <1>2 DEF LatestJob
  <2>3. PICK j \in Ended(jobs) : LatestJob = Shown(j)
    BY <2>1, <2>2
  <2> QED
    BY <1>0, <2>3 DEF Shown, LatestHolds, LatestJobs, Ended
<1>3. CASE jobs # <<>> /\ ended = <<>>
  <2>1. \A j \in DOMAIN jobs : j \in Running
    BY <1>3 DEF EndedInv, Ended, Running
  <2>2. \A j \in DOMAIN jobs : j = Len(jobs)
    BY <2>1 DEF JobsInv, RunningIsLast
  <2>3. 1 \in DOMAIN jobs
    BY <1>0, <1>3
  <2>4. LatestStarted \in DOMAIN jobs
    BY <1>0, <1>3, LatestIsAJob
  <2>5. LatestStarted = 1
    BY <2>2, <2>3, <2>4
  <2>6. jobs[1].status = "running"
    BY <2>1, <2>3 DEF Running
  <2>7. LatestJob = Shown(1)
    BY <1>3, <2>5 DEF LatestJob
  <2> QED
    BY <1>0, <2>3, <2>6, <2>7 DEF Shown, LatestHolds, LatestJobs
<1> QED
  BY <1>1, <1>2, <1>3

\* What the next statement of a report fills in.
FigureRead ==
    /\ report' \in Reports /\ report'.kind = report.kind
    /\ report.todo = <<"counts", "retry">> =>
         report'.todo = <<"retry">> /\ report'.counts = CountByStatus
    /\ report.todo = <<"retry">> =>
         /\ report'.todo = <<>> /\ report'.counts = report.counts
         /\ report'.retry = RetryVisibility
    /\ report.todo = <<"latest", "counts">> =>
         report'.todo = <<"counts">> /\ report'.latest = LatestJob
    /\ report.todo = <<"counts">> =>
         /\ report'.todo = <<>> /\ report'.latest = report.latest
         /\ report'.counts = CountByStatus

LEMMA ReadEffect ==
    ASSUME report \in Reports, Read, CountByStatus \in [Statuses -> Nat],
           RetryVisibility \in Retries, LatestJob \in LatestJobs
    PROVE  FigureRead
<1>1. Head(<<"counts", "retry">>) = "counts" /\ Tail(<<"counts", "retry">>) = <<"retry">>
  OBVIOUS
<1>2. Head(<<"latest", "counts">>) = "latest" /\ Tail(<<"latest", "counts">>) = <<"counts">>
  OBVIOUS
<1>3. Head(<<"retry">>) = "retry" /\ Tail(<<"retry">>) = <<>>
  OBVIOUS
<1>4. Head(<<"counts">>) = "counts" /\ Tail(<<"counts">>) = <<>>
  OBVIOUS
<1> DEFINE first == Head(report.todo)
           later == Tail(report.todo)
<1>5. report.todo \in Todos /\ report.todo # <<>>
  BY DEF Reports, Read
<1>6. first \in {"counts", "retry", "latest"} /\ later \in Todos
  BY <1>1, <1>2, <1>3, <1>4, <1>5 DEF Todos
<1>7. /\ first = "counts" =>
            report' = [[report EXCEPT !.todo = later] EXCEPT !.counts = CountByStatus]
      /\ first = "retry" =>
            report' = [[report EXCEPT !.todo = later] EXCEPT !.retry = RetryVisibility]
      /\ first = "latest" =>
            report' = [[report EXCEPT !.todo = later] EXCEPT !.latest = LatestJob]
  BY DEF Read
<1> HIDE DEF first, later
<1>8. /\ report' \in Reports /\ report'.kind = report.kind /\ report'.todo = later
      /\ first = "counts" => report'.counts = CountByStatus /\ report'.latest = report.latest
      /\ first = "retry" => report'.retry = RetryVisibility /\ report'.counts = report.counts
      /\ first = "latest" => report'.latest = LatestJob
  BY <1>6, <1>7 DEF Reports
<1> QED
  BY <1>1, <1>2, <1>3, <1>4, <1>8 DEF FigureRead, first, later

LEMMA ReadStep ==
    ASSUME ReportInv, Read, UNCHANGED <<vars, ended>>
    PROVE  ReportInv'
<1>0. JobsInv /\ EndedInv /\ report \in Reports /\ jobs \in Seq(Job) /\ report.kind \in Kinds
  BY DEF ReportInv, JobsInv, TypeOK, Reports
<1>1. JobsInv' /\ EndedInv'
  BY <1>0, JobsStep DEF EndedInv, vars
<1>2. jobs' = jobs
  BY DEF vars
<1>3. /\ CountByStatus \in [Statuses -> Nat]
      /\ \A s \in Statuses :
            CountByStatus[s] > 0 <=> \E j \in DOMAIN jobs : jobs[j].status = s
  BY <1>0, CountedIfThere DEF Statuses
<1>4. FigureRead
  BY <1>0, <1>3, RetryRead, LatestRead, ReadEffect
<1>5. ASSUME report.kind = "dashboard" PROVE ReportInv'
  <2>1. CASE report.todo = <<"counts", "retry">>
    <3>1. /\ report' \in Reports /\ report'.kind = "dashboard" /\ report'.todo = <<"retry">>
          /\ report'.counts = CountByStatus
      BY <1>5, <1>4, <2>1 DEF FigureRead
    <3>2. AlertHolds(CountByStatus)
      BY <1>3 DEF AlertHolds, FailedJobs, Statuses
    <3>3. AlertHolds(report.counts)'
      BY <1>2, <3>1, <3>2 DEF AlertHolds, FailedJobs
    <3> QED
      BY <1>1, <3>1, <3>3 DEF ReportInv, DashboardInv
  <2>2. CASE report.todo = <<"retry">> /\ AlertHolds(report.counts)
    <3>1. /\ report' \in Reports /\ report'.kind = "dashboard" /\ report'.todo = <<>>
          /\ report'.counts = report.counts /\ report'.retry = RetryVisibility
      BY <1>5, <1>4, <2>2 DEF FigureRead
    <3>2. RetryHolds(RetryVisibility) /\ (FailedJobs # {} => RetryVisibility.failed # Nil)
      BY <1>0, RetryRead
    <3>3. RetryHolds(report.retry)'
      BY <1>2, <3>1, <3>2 DEF RetryHolds, FailedJobs
    <3>4. report.counts["failed"] > 0 => report'.retry.failed # Nil
      BY <2>2, <3>1, <3>2 DEF AlertHolds
    <3> QED
      BY <1>1, <3>1, <3>3, <3>4 DEF ReportInv, DashboardInv
  <2> QED
    BY <1>5, <2>1, <2>2 DEF ReportInv, DashboardInv, Read
<1>6. ASSUME report.kind = "status" PROVE ReportInv'
  <2>1. CASE report.todo = <<"latest", "counts">>
    <3>1. /\ report' \in Reports /\ report'.kind = "status" /\ report'.todo = <<"counts">>
          /\ report'.latest = LatestJob
      BY <1>6, <1>4, <2>1 DEF FigureRead
    <3>2. LatestHolds(LatestJob)
      BY <1>0, LatestRead
    <3>3. LatestHolds(report.latest)'
      BY <1>2, <3>1, <3>2 DEF LatestHolds, Nothing
    <3> QED
      BY <1>1, <3>1, <3>3 DEF ReportInv, StatusInv
  <2>2. CASE report.todo = <<"counts">> /\ LatestHolds(report.latest)
    <3>1. /\ report' \in Reports /\ report'.kind = "status" /\ report'.todo = <<>>
          /\ report'.latest = report.latest /\ report'.counts = CountByStatus
      BY <1>6, <1>4, <2>2 DEF FigureRead
    <3>2. LatestHolds(report.latest)'
      BY <1>2, <2>2, <3>1 DEF LatestHolds, Nothing
    <3>3. CountHolds(CountByStatus, report.latest)
      <4>1. \A j \in DOMAIN jobs : jobs[j].status \in Statuses
        <5>1. \A j \in DOMAIN jobs : jobs[j] \in Job
          BY <1>0
        <5> QED
          BY <5>1 DEF Job
      <4> QED
        BY <1>3, <2>2, <4>1 DEF LatestHolds, CountHolds
    <3>4. CountHolds(report.counts, report.latest)'
      BY <3>1, <3>3 DEF CountHolds, Nothing
    <3> QED
      BY <1>1, <3>1, <3>2, <3>4 DEF ReportInv, StatusInv
  <2> QED
    BY <1>6, <2>1, <2>2 DEF ReportInv, StatusInv, Read
<1> QED
  BY <1>0, <1>5, <1>6 DEF Kinds

LEMMA ReportStep == ReportInv /\ [ReportNext]_reportVars => ReportInv'
<1> SUFFICES ASSUME ReportInv, [ReportNext]_reportVars PROVE ReportInv'
  OBVIOUS
<1>1. CASE Next /\ Finished /\ UNCHANGED report
  BY <1>1, ReportOutlivesJobs
<1>2. CASE Read /\ UNCHANGED <<vars, ended>>
  BY <1>2, ReadStep
<1>3. ASSUME NEW kind \in Kinds, Ask(kind), UNCHANGED <<vars, ended>> PROVE ReportInv'
  <2>1. JobsInv' /\ EndedInv'
    BY <1>3, JobsStep DEF ReportInv, EndedInv, vars
  <2>2. report' \in Reports /\ report'.kind = kind /\ report'.todo = Reads(kind)
    BY <1>3, BlankReport DEF Ask
  <2> QED
    BY <1>3, <2>1, <2>2 DEF ReportInv, DashboardInv, StatusInv, Reads, Kinds
<1>4. CASE UNCHANGED reportVars
  <2>1. UNCHANGED vars /\ ended' = ended /\ report' = report /\ jobs' = jobs
    BY <1>4 DEF reportVars, vars
  <2>2. JobsInv' /\ EndedInv'
    BY <2>1, JobsStep DEF ReportInv, EndedInv
  <2> QED
    BY <2>1, <2>2 DEF ReportInv, DashboardInv, StatusInv, AlertHolds, RetryHolds,
       LatestHolds, CountHolds, FailedJobs, Nothing
<1> QED
  BY <1>1, <1>2, <1>3, <1>4 DEF ReportNext

\* The operator's reports (runtime/dashboard.py) do not contradict themselves,
\* whatever programs and however many share a connector, die, and end jobs
\* between two statements of a report: an alert names a failed job, a retry is
\* announced for the attempt after a failed job's, and the job shown as the
\* latest is counted.
THEOREM ReportsNeverDisagree == ReportSpec => []ReportsAgree
<1>1. ReportInv => ReportsAgree
  <2> SUFFICES ASSUME ReportInv PROVE ReportsAgree
    OBVIOUS
  <2>1. DashboardAgrees
    <3> SUFFICES ASSUME Made("dashboard") PROVE DashboardAgrees
      BY DEF DashboardAgrees
    <3>1. RetryHolds(report.retry) /\ (report.counts["failed"] > 0 => report.retry.failed # Nil)
      BY DEF ReportInv, DashboardInv, Made
    <3> QED
      BY <3>1 DEF DashboardAgrees, RetryHolds, FailedJobs, Alerts, Raised
  <2>2. StatusAgrees
    BY DEF ReportInv, StatusInv, Made, StatusAgrees, LatestHolds, CountHolds
  <2> QED
    BY <2>1, <2>2 DEF ReportsAgree
<1> QED
  BY <1>1, ReportStart, ReportStep, PTL DEF ReportSpec
=============================================================================
