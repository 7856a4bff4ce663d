--------------------------- MODULE PipelineProofs ---------------------------
(***************************************************************************)
(* What the operator's reports say, for every set of connectors, configured *)
(* and broken ones, of other runs, and any number of edits and faults.     *)
(***************************************************************************)
EXTENDS Pipeline, TLAPS

-----------------------------------------------------------------------------
(* Types *)

Report(Base) ==
    [status: {"missing", "started", "running", "failed", "stale", "fresh"},
     base: Base \union {Nil}, met: SUBSET {"imports", "rebuilds"}]

TypeOK ==
    /\ offered \in [Connectors -> Versions]
    /\ landing \in [Connectors -> Versions]
    /\ row \in [Connectors -> Versions]
    /\ unit \in [Connectors -> Versions]
    /\ run \in [Runs -> RunRecord \union {Nil}]
    /\ job \in [Connectors -> Report(Versions)]
    /\ \A c \in Connectors : job[c].status = "fresh" => job[c].base \in Versions
    /\ latest \in Report([Connectors -> Versions])
    /\ latest.status = "fresh" => latest.base \in [Connectors -> Versions]
    /\ faults \in Nat

\* Overlapping runs know of each other.
Overlaps ==
    \A s, t \in Runs : s # t /\ run[s] # Nil /\ run[t] # Nil => Sort(run[t].kind) \in run[s].met

\* A run goes through the steps of its kind, in the order of their deps, and a
\* connector it has landed has been landed since it began.
InGraph(s) ==
    /\ Selected(s) \in Selections(run[s].kind, run[s].of)
    /\ run[s].kind = "backfill" => run[s].of \in Connectors
    /\ run[s].at = Nil \/ run[s].at \in run[s].todo
    /\ run[s].at = Units => run[s].read \in [Connectors -> Versions]
    /\ Objects \in run[s].done =>
          \A c \in Connectors : Step("import", c) \in Selected(s) => Step("import", c) \in run[s].done
    /\ \A c \in Connectors : run[s].base[c] <= offered[c]
    /\ \A c \in Connectors : Step("land", c) \in run[s].done => Landed(s, c) >= run[s].base[c]

WithinGraph ==
    /\ \A c \in Connectors : landing[c] <= offered[c]
    /\ run[JobRun] # Nil => run[JobRun].kind = "hourly"
    /\ \A s \in Runs : run[s] # Nil => InGraph(s)

\* Run s is past the commit of its import of c.
Imported(s, c) == run[s].at = Step("import", c) \/ Step("import", c) \in run[s].done

\* As long as no other import overlaps a run, what it has imported is there.
ImportsStay ==
    \A s \in Runs : run[s] # Nil /\ ~ Sandboxed(s) /\ "imports" \notin run[s].met =>
        \A c \in Connectors : Imported(s, c) => row[c] >= run[s].base[c]

\* As long as no run at all overlaps it, it is served, too.
ImportsServed ==
    \A s \in Runs : run[s] # Nil /\ run[s].kind = "hourly" /\ run[s].met = {} =>
        /\ \A c \in Configured : Imported(s, c) => unit[c] >= run[s].base[c]
        /\ run[s].at = Units => \A c \in Configured : run[s].read[c] >= run[s].base[c]

\* What a fresh job reports is there, and the imports under way began later.
FreshInv ==
    \A c \in Connectors : job[c].status = "fresh" /\ "imports" \notin job[c].met =>
        /\ row[c] >= job[c].base /\ job[c].base <= offered[c]
        /\ \A s \in Runs : run[s] # Nil /\ run[s].kind # "sensor" => run[s].base[c] >= job[c].base

\* So is what the runtime status reports, and all runs under way began later.
OkInv ==
    RuntimeOk /\ latest.met = {} =>
        \A c \in Configured :
            /\ latest.base[c] <= offered[c] /\ row[c] >= latest.base[c] /\ unit[c] >= latest.base[c]
            /\ \A s \in Runs : run[s] # Nil =>
                  /\ run[s].base[c] >= latest.base[c]
                  /\ run[s].at = Units => run[s].read[c] >= latest.base[c]

-----------------------------------------------------------------------------
(* The steps of a run *)

LEMMA StepsDiffer ==
    /\ Units # Objects
    /\ \A c, d \in Connectors :
          /\ Step("land", c) \in AllSteps /\ Step("import", c) \in AllSteps
          /\ Step("land", c) # Step("import", d)
          /\ Step("import", c) = Step("import", d) => c = d
          /\ Step("land", c) = Step("land", d) => c = d
          /\ Step("land", c) \notin {Objects, Units}
          /\ Step("import", c) \notin {Objects, Units}
    /\ Objects \in AllSteps /\ Units \in AllSteps
BY DEF Step, Units, Objects, AllSteps, LandingSteps, SharedSteps

LEMMA NeedsOf ==
    /\ \A c \in Connectors : Needs(Step("import", c)) = {Step("land", c)}
    /\ Needs(Objects) = {Step("import", c) : c \in Connectors}
    /\ Needs(Units) = {Objects}
<1>1. ASSUME NEW c \in Connectors
      PROVE  Needs(Step("import", c)) = {Step("land", c)}
  BY DEF Needs, Step, Objects, Units
<1>2. Objects.op # "import" /\ Units.op # "import"
  BY DEF Objects, Units, Step
<1>3. Needs(Objects) = {Step("import", c) : c \in Connectors}
  BY <1>2, StepsDiffer DEF Needs
<1>4. Needs(Units) = {Objects}
  BY <1>2, StepsDiffer DEF Needs
<1> QED
  BY <1>1, <1>3, <1>4

\* What a run selects: an import with its landing, and in the hourly job the
\* imports of all configured connectors.
LEMMA SelectionFacts ==
    ASSUME NEW kind \in Kinds, NEW of, kind = "backfill" => of \in Connectors,
           NEW steps \in Selections(kind, of)
    PROVE  /\ steps \subseteq AllSteps
           /\ \A c \in Connectors : Step("import", c) \in steps =>
                 /\ Step("land", c) \in steps /\ kind # "sensor"
                 /\ kind = "backfill" => c = of
           /\ \A c \in Connectors : Step("land", c) \in steps /\ kind = "backfill" => c = of
           /\ kind = "backfill" => Step("import", of) \in steps
           /\ kind = "hourly" => Objects \in steps /\ \A c \in Configured : Step("import", c) \in steps
<1> USE PipelineAssumption
<1>1. ASSUME NEW cs \in SUBSET Connectors
      PROVE  /\ LandingSteps(cs) \subseteq AllSteps
             /\ \A c \in cs : Step("import", c) \in LandingSteps(cs)
             /\ \A c \in Connectors : Step("import", c) \in LandingSteps(cs) =>
                   c \in cs /\ Step("land", c) \in LandingSteps(cs)
             /\ \A c \in Connectors : Step("land", c) \in LandingSteps(cs) => c \in cs
  <2>1. \A c \in cs : Step("import", c) \in LandingSteps(cs) /\ Step("land", c) \in LandingSteps(cs)
    BY DEF LandingSteps
  <2>2. ASSUME NEW x \in LandingSteps(cs)
        PROVE  x \in AllSteps /\ x.of \in cs
    <3>1. PICK op \in {"land", "import"}, c \in cs : x = Step(op, c)
      BY DEF LandingSteps
    <3> QED
      BY <3>1 DEF AllSteps, LandingSteps, Step
  <2>3. \A c \in Connectors : Step("import", c).of = c /\ Step("land", c).of = c
    BY DEF Step
  <2> QED
    BY <2>1, <2>2, <2>3
<1>2. SharedSteps \subseteq AllSteps /\ Objects \in SharedSteps
      /\ \A c \in Connectors : Step("import", c) \notin SharedSteps
  BY StepsDiffer DEF SharedSteps, AllSteps
<1>3. CASE kind = "hourly"
  <2>1. PICK cs \in {Configured, Connectors} : steps = LandingSteps(cs) \union SharedSteps
    BY <1>3 DEF Selections
  <2> QED
    BY <1>1, <1>2, <1>3, <2>1
<1>4. CASE kind = "sensor"
  BY <1>2, <1>4 DEF Selections
<1>5. CASE kind = "operator"
  BY <1>1, <1>5 DEF Selections
<1>6. CASE kind = "backfill"
  BY <1>1, <1>6 DEF Selections
<1> QED
  BY <1>3, <1>4, <1>5, <1>6 DEF Kinds

\* A run that goes on stays the run it was.
GoesOn(s) ==
    /\ run' \in [Runs -> RunRecord \union {Nil}]
    /\ run'[s] # Nil /\ \A t \in Runs : t # s => run'[t] = run[t]
    /\ run'[s].kind = run[s].kind /\ run'[s].of = run[s].of
    /\ run'[s].base = run[s].base /\ run'[s].met = run[s].met

LEMMA EndsEffect ==
    ASSUME TypeOK, NEW s \in Runs, run[s] # Nil, NEW step \in AllSteps, Ends(s, step)
    PROVE  /\ GoesOn(s) /\ run'[s].own = run[s].own
           /\ run'[s].done = run[s].done \union {step} /\ run'[s].at = Nil
           /\ step \in run[s].todo => Selected(s)' = Selected(s)
<1> DEFINE new == [run[s] EXCEPT !.todo = @ \ {step}, !.done = @ \union {step},
                                 !.at = Nil, !.read = Nil]
<1>1. run[s] \in RunRecord
  BY DEF TypeOK
<1>2. new \in RunRecord
  BY <1>1 DEF RunRecord
<1>3. /\ new.kind = run[s].kind /\ new.of = run[s].of /\ new.base = run[s].base
      /\ new.met = run[s].met /\ new.own = run[s].own /\ new.failed = run[s].failed
      /\ new.todo = run[s].todo \ {step} /\ new.done = run[s].done \union {step} /\ new.at = Nil
  BY <1>1 DEF RunRecord
<1>4. run' = [run EXCEPT ![s] = new]
  BY DEF Ends
<1>5. run'[s] = new /\ \A t \in Runs : t # s => run'[t] = run[t]
  BY <1>4 DEF TypeOK
<1>6. run' \in [Runs -> RunRecord \union {Nil}]
  BY <1>2, <1>4 DEF TypeOK
<1> HIDE DEF new
<1>7. step \in run[s].todo => Selected(s)' = Selected(s)
  BY <1>3, <1>5 DEF Selected
<1> QED
  BY <1>2, <1>3, <1>5, <1>6, <1>7, NilIsNoRun DEF GoesOn

LEMMA FailedEffect ==
    ASSUME TypeOK, NEW s \in Runs, run[s] # Nil, NEW step \in AllSteps, Failed(s, step)
    PROVE  /\ GoesOn(s) /\ run'[s].own = run[s].own
           /\ run'[s].done = run[s].done /\ run'[s].at = Nil
           /\ step \in run[s].todo => Selected(s)' = Selected(s)
<1> DEFINE new == [run[s] EXCEPT !.todo = @ \ {step}, !.failed = @ \union {step},
                                 !.at = Nil, !.read = Nil]
<1>1. run[s] \in RunRecord
  BY DEF TypeOK
<1>2. new \in RunRecord
  BY <1>1 DEF RunRecord
<1>3. /\ new.kind = run[s].kind /\ new.of = run[s].of /\ new.base = run[s].base
      /\ new.met = run[s].met /\ new.own = run[s].own /\ new.failed = run[s].failed \union {step}
      /\ new.todo = run[s].todo \ {step} /\ new.done = run[s].done /\ new.at = Nil
  BY <1>1 DEF RunRecord
<1>4. run' = [run EXCEPT ![s] = new]
  BY DEF Failed
<1>5. run'[s] = new /\ \A t \in Runs : t # s => run'[t] = run[t]
  BY <1>4 DEF TypeOK
<1>6. run' \in [Runs -> RunRecord \union {Nil}]
  BY <1>2, <1>4 DEF TypeOK
<1> HIDE DEF new
<1>7. step \in run[s].todo => Selected(s)' = Selected(s)
  BY <1>3, <1>5 DEF Selected
<1> QED
  BY <1>2, <1>3, <1>5, <1>6, <1>7, NilIsNoRun DEF GoesOn

LEMMA HalfwayEffect ==
    ASSUME TypeOK, NEW s \in Runs, run[s] # Nil, NEW step \in AllSteps,
           NEW rows \in [Connectors -> Versions] \union {Nil}, Halfway(s, step, rows)
    PROVE  /\ GoesOn(s) /\ run'[s].own = run[s].own
           /\ run'[s].done = run[s].done /\ run'[s].todo = run[s].todo
           /\ run'[s].at = step /\ run'[s].read = rows
           /\ Selected(s)' = Selected(s)
<1> DEFINE new == [run[s] EXCEPT !.at = step, !.read = rows]
<1>1. run[s] \in RunRecord
  BY DEF TypeOK
<1>2. new \in RunRecord
  BY <1>1 DEF RunRecord
<1>3. /\ new.kind = run[s].kind /\ new.of = run[s].of /\ new.base = run[s].base
      /\ new.met = run[s].met /\ new.own = run[s].own /\ new.failed = run[s].failed
      /\ new.todo = run[s].todo /\ new.done = run[s].done /\ new.at = step /\ new.read = rows
  BY <1>1 DEF RunRecord
<1>4. run' = [run EXCEPT ![s] = new]
  BY DEF Halfway
<1>5. run'[s] = new /\ \A t \in Runs : t # s => run'[t] = run[t]
  BY <1>4 DEF TypeOK
<1>6. run' \in [Runs -> RunRecord \union {Nil}]
  BY <1>2, <1>4 DEF TypeOK
<1> HIDE DEF new
<1>7. Selected(s)' = Selected(s)
  BY <1>3, <1>5 DEF Selected
<1> QED
  BY <1>2, <1>3, <1>5, <1>6, <1>7, NilIsNoRun DEF GoesOn

\* A landing raises what is landed to what the provider has.
LEMMA LandEffect ==
    ASSUME TypeOK, NEW s \in Runs, NEW c \in Connectors, Land(s, c)
    PROVE  /\ run[s] # Nil /\ GoesOn(s)
           /\ run'[s].done = run[s].done \union {Step("land", c)} /\ run'[s].at = Nil
           /\ Selected(s)' = Selected(s)
           /\ IF run[s].kind = "backfill" THEN run'[s].own = offered[c] /\ landing' = landing
              ELSE run'[s].own = run[s].own /\ landing' = [landing EXCEPT ![c] = offered[c]]
<1> DEFINE step == Step("land", c)
<1>1. run[s] # Nil /\ step \in run[s].todo /\ step \in AllSteps
  BY StepsDiffer DEF Land, Ready
<1>2. CASE run[s].kind # "backfill"
  <2>1. Ends(s, step) /\ landing' = [landing EXCEPT ![c] = offered[c]]
    BY <1>2 DEF Land
  <2> QED
    BY <1>1, <1>2, <2>1, EndsEffect
<1>3. CASE run[s].kind = "backfill"
  <2> DEFINE new == [run[s] EXCEPT !.todo = @ \ {step}, !.done = @ \union {step}, !.own = offered[c]]
  <2>1. run[s] \in RunRecord /\ offered[c] \in Versions
    BY <1>1 DEF TypeOK
  <2>2. new \in RunRecord
    BY <1>1, <2>1 DEF RunRecord
  <2>3. /\ new.kind = run[s].kind /\ new.of = run[s].of /\ new.base = run[s].base
        /\ new.met = run[s].met /\ new.own = offered[c] /\ new.failed = run[s].failed
        /\ new.todo = run[s].todo \ {step} /\ new.done = run[s].done \union {step}
        /\ new.at = run[s].at
    BY <2>1 DEF RunRecord
  <2>4. run' = [run EXCEPT ![s] = new] /\ landing' = landing
    BY <1>3 DEF Land
  <2>5. run'[s] = new /\ \A t \in Runs : t # s => run'[t] = run[t]
    BY <2>4 DEF TypeOK
  <2>6. run' \in [Runs -> RunRecord \union {Nil}]
    BY <2>2, <2>4 DEF TypeOK
  <2> HIDE DEF new
  <2>7. Selected(s)' = Selected(s)
    BY <1>1, <2>3, <2>5 DEF Selected
  <2>8. run[s].at = Nil
    BY DEF Land, Ready
  <2> QED
    BY <1>1, <1>3, <2>2, <2>3, <2>4, <2>5, <2>6, <2>7, <2>8, NilIsNoRun DEF GoesOn
<1> QED
  BY <1>2, <1>3

\* A run that begins has done nothing, and it and the others know of each other.
LEMMA BeginEffect ==
    ASSUME TypeOK, NEW s \in Runs, NEW kind \in Kinds, NEW c \in Connectors \union {Nil},
           kind = "backfill" => c \in Connectors, Begin(s, kind, c)
    PROVE  /\ run' \in [Runs -> RunRecord \union {Nil}]
           /\ run[s] = Nil /\ run'[s] # Nil
           /\ run'[s].kind = kind /\ run'[s].of = c /\ run'[s].done = {} /\ run'[s].at = Nil
           /\ run'[s].base = offered
           /\ run'[s].met = {Sort(run[t].kind) : t \in {u \in Runs : run[u] # Nil}}
           /\ Selected(s)' \in Selections(kind, c)
           /\ \A t \in Runs : t # s =>
                 IF run[t] = Nil THEN run'[t] = Nil
                 ELSE /\ run'[t] # Nil
                      /\ run'[t].kind = run[t].kind /\ run'[t].of = run[t].of
                      /\ run'[t].base = run[t].base /\ run'[t].own = run[t].own
                      /\ run'[t].done = run[t].done /\ run'[t].todo = run[t].todo
                      /\ run'[t].at = run[t].at /\ run'[t].read = run[t].read
                      /\ run'[t].met = run[t].met \union {Sort(kind)}
                      /\ Selected(t)' = Selected(t)
<1>1. PICK steps \in Selections(kind, c) :
         run' = [t \in Runs |-> IF t = s THEN NewRun(kind, c, steps)
                               ELSE IF run[t] = Nil THEN Nil
                               ELSE [run[t] EXCEPT !.met = @ \union {Sort(kind)}]]
  BY DEF Begin
<1> DEFINE new == NewRun(kind, c, steps)
<1>2. steps \subseteq AllSteps
  BY SelectionFacts
<1>3. \A k : Sort(k) \in {"imports", "rebuilds"}
  BY DEF Sort
<1>4. offered \in [Connectors -> Versions] /\ 0 \in Versions
  BY PipelineAssumption DEF TypeOK, Versions
<1>5. new \in RunRecord
  BY <1>2, <1>3, <1>4 DEF NewRun, RunRecord
<1>6. /\ new.kind = kind /\ new.of = c /\ new.done = {} /\ new.at = Nil /\ new.base = offered
      /\ new.todo = steps /\ new.failed = {}
      /\ new.met = {Sort(run[t].kind) : t \in {u \in Runs : run[u] # Nil}}
  BY DEF NewRun
<1>7. run'[s] = new
  BY <1>1
<1> HIDE DEF new
<1>8. ASSUME NEW t \in Runs, t # s, run[t] # Nil
      PROVE  /\ run'[t] \in RunRecord /\ run'[t] # Nil
             /\ run'[t].kind = run[t].kind /\ run'[t].of = run[t].of
             /\ run'[t].base = run[t].base /\ run'[t].own = run[t].own
             /\ run'[t].done = run[t].done /\ run'[t].todo = run[t].todo
             /\ run'[t].at = run[t].at /\ run'[t].read = run[t].read
             /\ run'[t].met = run[t].met \union {Sort(kind)}
             /\ Selected(t)' = Selected(t)
  <2> DEFINE later == [run[t] EXCEPT !.met = @ \union {Sort(kind)}]
  <2>1. run[t] \in RunRecord
    BY <1>8 DEF TypeOK
  <2>2. later \in RunRecord
    BY <1>3, <2>1 DEF RunRecord
  <2>3. /\ later.kind = run[t].kind /\ later.of = run[t].of
        /\ later.base = run[t].base /\ later.own = run[t].own
        /\ later.done = run[t].done /\ later.todo = run[t].todo /\ later.failed = run[t].failed
        /\ later.at = run[t].at /\ later.read = run[t].read
        /\ later.met = run[t].met \union {Sort(kind)}
    BY <2>1 DEF RunRecord
  <2>4. run'[t] = later
    BY <1>1, <1>8
  <2> HIDE DEF later
  <2>5. Selected(t)' = Selected(t)
    BY <2>3, <2>4 DEF Selected
  <2> QED
    BY <2>2, <2>3, <2>4, <2>5, NilIsNoRun
<1>9. run' \in [Runs -> RunRecord \union {Nil}]
  <2>1. run' = [t \in Runs |-> run'[t]]
    BY <1>1
  <2>2. \A t \in Runs : run'[t] \in RunRecord \union {Nil}
    BY <1>1, <1>5, <1>7, <1>8
  <2> QED
    BY <2>1, <2>2
<1>10. \A t \in Runs : t # s /\ run[t] = Nil => run'[t] = Nil
  BY <1>1
<1>11. Selected(s)' = steps
  BY <1>6, <1>7 DEF Selected
<1>12. run[s] = Nil
  BY DEF Begin
<1> QED
  BY <1>5, <1>6, <1>7, <1>8, <1>9, <1>10, <1>11, <1>12, NilIsNoRun

-----------------------------------------------------------------------------
(* Types, continued *)

LEMMA ReportTypes ==
    /\ \A status \in {"missing", "started", "running", "failed", "stale"} :
          /\ Told(status) \in Report(Versions) /\ Told(status).status # "fresh"
          /\ Told(status) \in Report([Connectors -> Versions])
    /\ \A base \in Versions, met \in SUBSET {"imports", "rebuilds"} :
          /\ Success(base, met) \in Report(Versions) /\ Success(base, met).base = base
          /\ Success(base, met).met = met
    /\ \A base \in [Connectors -> Versions], met \in SUBSET {"imports", "rebuilds"} :
          /\ Success(base, met) \in Report([Connectors -> Versions])
          /\ Success(base, met).base = base /\ Success(base, met).met = met
BY DEF Told, Success, Report

LEMMA RunTypes ==
    ASSUME TypeOK, NEW s \in Runs, run[s] # Nil
    PROVE  /\ run[s] \in RunRecord /\ run[s].kind \in Kinds
           /\ run[s].base \in [Connectors -> Versions] /\ run[s].met \in SUBSET {"imports", "rebuilds"}
           /\ run[s].own \in Versions
           /\ \A c \in Connectors : Landed(s, c) \in Versions
BY DEF TypeOK, RunRecord, Landed

LEMMA TypeInit == Init => TypeOK
<1> SUFFICES ASSUME Init PROVE TypeOK
  OBVIOUS
<1>1. 0 \in Versions
  BY PipelineAssumption DEF Versions
<1>2. job \in [Connectors -> Report(Versions)] /\ \A c \in Connectors : job[c].status # "fresh"
  BY ReportTypes DEF Init
<1>3. latest \in Report([Connectors -> Versions]) /\ latest.status # "fresh"
  BY ReportTypes DEF Init
<1> QED
  BY <1>1, <1>2, <1>3 DEF Init, TypeOK

LEMMA TypeStep ==
    ASSUME TypeOK, WithinGraph, [Next]_vars
    PROVE  TypeOK'
<1> USE PipelineAssumption DEF TypeOK
<1>1. \A c \in Connectors : Step("land", c) \in AllSteps /\ Step("import", c) \in AllSteps
  BY StepsDiffer
<1>2. ASSUME NEW c \in Connectors, Edit(c)
      PROVE  TypeOK'
  <2>1. offered' \in [Connectors -> Versions]
    BY <1>2 DEF Edit, Versions
  <2> QED
    BY <1>2, <2>1 DEF Edit, tables, reports
<1>3. CASE StartJob
  <2>1. run' \in [Runs -> RunRecord \union {Nil}]
    BY <1>3, BeginEffect DEF StartJob, Runs, Kinds
  <2>2. latest' \in Report([Connectors -> Versions]) /\ latest'.status # "fresh"
    BY <1>3, ReportTypes DEF StartJob
  <2> QED
    BY <1>3, <2>1, <2>2 DEF StartJob, Begin, tables
<1>4. ASSUME NEW s \in OtherRuns, StartSensorJob(s) \/ StartOperatorLive(s)
      PROVE  TypeOK'
  <2>1. run' \in [Runs -> RunRecord \union {Nil}]
    BY <1>4, BeginEffect DEF StartSensorJob, StartOperatorLive, Runs, Kinds
  <2> QED
    BY <1>4, <2>1 DEF StartSensorJob, StartOperatorLive, Begin, tables, reports
<1>5. ASSUME NEW s \in OtherRuns, NEW c \in Connectors, StartBackfill(s, c)
      PROVE  TypeOK'
  <2>1. run' \in [Runs -> RunRecord \union {Nil}]
    BY <1>5, BeginEffect DEF StartBackfill, Runs, Kinds
  <2>2. /\ job' \in [Connectors -> Report(Versions)]
        /\ \A d \in Connectors : job'[d].status = "fresh" => job'[d].base \in Versions
    BY <1>5, ReportTypes DEF StartBackfill
  <2> QED
    BY <1>5, <2>1, <2>2 DEF StartBackfill, Begin, tables
<1>6. ASSUME NEW s \in Runs, NEW c \in Connectors, Land(s, c)
      PROVE  TypeOK'
  <2>1. run' \in [Runs -> RunRecord \union {Nil}] /\ landing' \in [Connectors -> Versions]
    BY <1>6, LandEffect DEF GoesOn
  <2> QED
    BY <1>6, <2>1 DEF Land, tables, reports
<1>7. ASSUME NEW s \in Runs, NEW c \in Connectors, LandingFails(s, c)
      PROVE  TypeOK'
  <2>1. run' \in [Runs -> RunRecord \union {Nil}]
    BY <1>1, <1>7, FailedEffect DEF LandingFails, Ready, GoesOn
  <2> QED
    BY <1>7, <2>1 DEF LandingFails, tables, reports
<1>8. ASSUME NEW s \in Runs, NEW c \in Connectors, Import(s, c)
      PROVE  TypeOK'
  <2>1. run[s] # Nil /\ run' \in [Runs -> RunRecord \union {Nil}]
    BY <1>1, <1>8, HalfwayEffect DEF Import, Ready, GoesOn
  <2>2. row' \in [Connectors -> Versions] /\ unit' \in [Connectors -> Versions]
    BY <1>8, <2>1, RunTypes DEF Import, Stored, tables
  <2> QED
    BY <1>8, <2>1, <2>2 DEF Import, reports
<1>9. ASSUME NEW s \in Runs, NEW c \in Connectors, RecordSuccess(s, c)
      PROVE  TypeOK'
  <2>1. run[s] # Nil /\ run' \in [Runs -> RunRecord \union {Nil}]
    BY <1>1, <1>9, EndsEffect DEF RecordSuccess, GoesOn
  <2>2. /\ job' \in [Connectors -> Report(Versions)]
        /\ \A d \in Connectors : job'[d].status = "fresh" => job'[d].base \in Versions
    <3>1. run[s].base[c] \in Versions /\ run[s].met \in SUBSET {"imports", "rebuilds"}
      BY <2>1, RunTypes
    <3>2. /\ Success(run[s].base[c], run[s].met) \in Report(Versions)
          /\ Success(run[s].base[c], run[s].met).base \in Versions
      BY <3>1, ReportTypes
    <3> QED
      BY <1>9, <3>2 DEF RecordSuccess
  <2> QED
    BY <1>9, <2>1, <2>2 DEF RecordSuccess, tables
<1>10. ASSUME NEW s \in Runs, BuildObjects(s)
       PROVE  TypeOK'
  <2>1. run' \in [Runs -> RunRecord \union {Nil}]
    BY <1>10, EndsEffect, StepsDiffer DEF BuildObjects, Ready, GoesOn
  <2> QED
    BY <1>10, <2>1 DEF BuildObjects, tables, reports
<1>11. ASSUME NEW s \in Runs, ReadRows(s)
       PROVE  TypeOK'
  <2>1. run' \in [Runs -> RunRecord \union {Nil}]
    BY <1>11, HalfwayEffect, StepsDiffer DEF ReadRows, Ready, GoesOn
  <2> QED
    BY <1>11, <2>1 DEF ReadRows, tables, reports
<1>12. ASSUME NEW s \in Runs, RebuildUnits(s)
       PROVE  TypeOK'
  <2>1. run[s] # Nil /\ run' \in [Runs -> RunRecord \union {Nil}]
    BY <1>12, EndsEffect, StepsDiffer DEF RebuildUnits, GoesOn
  <2>2. unit' \in [Connectors -> Versions]
    BY <1>12, <2>1 DEF RebuildUnits, WithinGraph, InGraph
  <2> QED
    BY <1>12, <2>1, <2>2 DEF RebuildUnits, reports
<1>13. ASSUME NEW s \in Runs, NEW step \in AllSteps, Fail(s, step)
       PROVE  TypeOK'
  <2>1. run' \in [Runs -> RunRecord \union {Nil}]
    BY <1>13, FailedEffect DEF Fail, Ready, GoesOn
  <2> QED
    BY <1>13, <2>1 DEF Fail, tables, reports
<1>14. ASSUME NEW s \in Runs, End(s)
       PROVE  TypeOK'
  <2>1. run[s] # Nil /\ run' \in [Runs -> RunRecord \union {Nil}]
    BY <1>14 DEF End, AtRest
  <2>2. /\ run[s].base \in [Connectors -> Versions] /\ run[s].met \in SUBSET {"imports", "rebuilds"}
        /\ run[s].kind = "backfill" => run[s].of \in Connectors
    BY <2>1, RunTypes DEF WithinGraph, InGraph
  <2>3. /\ latest' \in Report([Connectors -> Versions])
        /\ latest'.status = "fresh" => latest'.base \in [Connectors -> Versions]
    <3>1. latest' \in {latest, Success(run[s].base, run[s].met), Told("failed")}
      BY <1>14 DEF End
    <3>2. /\ Success(run[s].base, run[s].met) \in Report([Connectors -> Versions])
          /\ Success(run[s].base, run[s].met).base \in [Connectors -> Versions]
      BY <2>2 DEF Success, Report
    <3>3. Told("failed") \in Report([Connectors -> Versions]) /\ Told("failed").status # "fresh"
      BY ReportTypes
    <3> QED
      BY <3>1, <3>2, <3>3
  <2>4. /\ job' \in [Connectors -> Report(Versions)]
        /\ \A d \in Connectors : job'[d].status = "fresh" => job'[d].base \in Versions
    <3>1. CASE run[s].kind # "backfill"
      BY <1>14, <3>1 DEF End
    <3>2. CASE run[s].kind = "backfill"
      <4>1. PICK report : /\ report \in {Success(run[s].base[run[s].of], run[s].met), Told("failed")}
                          /\ job' = [job EXCEPT ![run[s].of] = report]
        BY <1>14, <3>2 DEF End
      <4>2. report \in Report(Versions) /\ (report.status = "fresh" => report.base \in Versions)
        BY <2>2, <3>2, <4>1, ReportTypes
      <4> QED
        BY <4>1, <4>2
    <3> QED
      BY <3>1, <3>2
  <2>5. faults' \in Nat
    BY <1>14 DEF End
  <2> QED
    BY <1>14, <2>1, <2>3, <2>4, <2>5 DEF End, tables
<1>15. ASSUME NEW s \in Runs, Die(s)
       PROVE  TypeOK'
  BY <1>15 DEF Die, tables, reports
<1>16. CASE HourPasses
  <2>1. Told("stale") \in Report(Versions) /\ Told("stale") \in Report([Connectors -> Versions])
        /\ Told("stale").status # "fresh"
    BY ReportTypes
  <2>2. /\ job' \in [Connectors -> Report(Versions)]
        /\ \A d \in Connectors : job'[d].status = "fresh" => job'[d].base \in Versions
    BY <1>16, <2>1 DEF HourPasses
  <2>3. /\ latest' \in Report([Connectors -> Versions])
        /\ latest'.status = "fresh" => latest'.base \in [Connectors -> Versions]
    BY <1>16, <2>1 DEF HourPasses
  <2> QED
    BY <1>16, <2>2, <2>3 DEF HourPasses, tables
<1>17. CASE UNCHANGED vars
  BY <1>17 DEF vars, tables, reports
<1> QED
  BY <1>2, <1>3, <1>4, <1>5, <1>6, <1>7, <1>8, <1>9, <1>10, <1>11, <1>12, <1>13, <1>14, <1>15,
     <1>16, <1>17 DEF Next, Proceed

-----------------------------------------------------------------------------
(* Runs *)

\* Begin with the kinds of runs it is used with.
LEMMA Begins ==
    ASSUME TypeOK,
           StartJob \/ \E s \in OtherRuns : \/ StartSensorJob(s) \/ StartOperatorLive(s)
                                            \/ \E c \in Connectors : StartBackfill(s, c)
    PROVE  \E s \in Runs, kind \in Kinds, c \in Connectors \union {Nil} :
              /\ Begin(s, kind, c) /\ (kind = "backfill" => c \in Connectors)
              /\ s = JobRun => kind = "hourly"
              /\ latest' = IF s = JobRun THEN Told("started") ELSE latest
              /\ \A d \in Connectors : job'[d] = job[d] \/ job'[d] = Told("running")
<1>1. CASE StartJob
  BY <1>1 DEF StartJob, Runs, Kinds
<1>2. ASSUME NEW s \in OtherRuns, StartSensorJob(s) \/ StartOperatorLive(s)
      PROVE  \E kind \in {"sensor", "operator"} : Begin(s, kind, Nil) /\ UNCHANGED reports
  BY <1>2 DEF StartSensorJob, StartOperatorLive
<1>3. ASSUME NEW s \in OtherRuns, NEW c \in Connectors, StartBackfill(s, c)
      PROVE  /\ Begin(s, "backfill", c) /\ latest' = latest
             /\ \A d \in Connectors : job'[d] = job[d] \/ job'[d] = Told("running")
  BY <1>3 DEF StartBackfill, TypeOK
<1>4. \A s \in OtherRuns : s # JobRun /\ s \in Runs
  BY PipelineAssumption DEF Runs
<1> QED
  BY <1>1, <1>2, <1>3, <1>4 DEF Kinds, reports

\* How a step changes the runs.
Goes(s) ==
    \/ \E c \in Connectors : Land(s, c) \/ LandingFails(s, c) \/ Import(s, c) \/ RecordSuccess(s, c)
    \/ BuildObjects(s) \/ ReadRows(s) \/ RebuildUnits(s) \/ \E step \in AllSteps : Fail(s, step)

Leaves(s) == End(s) \/ Die(s)

LEMMA GoingOn ==
    ASSUME TypeOK, NEW s \in Runs, Goes(s)
    PROVE  run[s] # Nil /\ GoesOn(s)
<1>1. \A c \in Connectors : Step("land", c) \in AllSteps /\ Step("import", c) \in AllSteps
  BY StepsDiffer
<1>2. ASSUME NEW c \in Connectors, Land(s, c)
      PROVE  run[s] # Nil /\ GoesOn(s)
  BY <1>2, LandEffect
<1>3. ASSUME NEW c \in Connectors, LandingFails(s, c)
      PROVE  run[s] # Nil /\ GoesOn(s)
  BY <1>1, <1>3, FailedEffect DEF LandingFails, Ready
<1>4. ASSUME NEW c \in Connectors, Import(s, c)
      PROVE  run[s] # Nil /\ GoesOn(s)
  BY <1>1, <1>4, HalfwayEffect DEF Import, Ready
<1>5. ASSUME NEW c \in Connectors, RecordSuccess(s, c)
      PROVE  run[s] # Nil /\ GoesOn(s)
  BY <1>1, <1>5, EndsEffect DEF RecordSuccess
<1>6. CASE BuildObjects(s)
  BY <1>6, StepsDiffer, EndsEffect DEF BuildObjects, Ready
<1>7. CASE ReadRows(s)
  BY <1>7, StepsDiffer, HalfwayEffect DEF ReadRows, Ready, TypeOK
<1>8. CASE RebuildUnits(s)
  BY <1>8, StepsDiffer, EndsEffect DEF RebuildUnits
<1>9. ASSUME NEW step \in AllSteps, Fail(s, step)
      PROVE  run[s] # Nil /\ GoesOn(s)
  BY <1>9, FailedEffect DEF Fail, Ready
<1> QED
  BY <1>2, <1>3, <1>4, <1>5, <1>6, <1>7, <1>8, <1>9 DEF Goes

\* Every step begins a run, goes on with one, ends one or touches none.
Starts ==
    StartJob \/ \E s \in OtherRuns : \/ StartSensorJob(s) \/ StartOperatorLive(s)
                                     \/ \E c \in Connectors : StartBackfill(s, c)
Rests == run' = run /\ ((\E c \in Connectors : Edit(c)) \/ HourPasses \/ UNCHANGED vars)

LEMMA RunSteps ==
    ASSUME [Next]_vars
    PROVE  Starts \/ Rests \/ \E s \in Runs : Goes(s) \/ Leaves(s)
BY DEF Next, Proceed, Starts, Rests, Goes, Leaves, Edit, HourPasses, vars

LEMMA OverlapsStep ==
    ASSUME TypeOK, Overlaps, [Next]_vars
    PROVE  Overlaps'
<1>1. CASE Starts
  <2>1. PICK s \in Runs, kind \in Kinds, c \in Connectors \union {Nil} :
           Begin(s, kind, c) /\ (kind = "backfill" => c \in Connectors)
    BY <1>1, Begins DEF Starts
  <2> QED
    BY <2>1, BeginEffect DEF Overlaps
<1>2. ASSUME NEW s \in Runs, Goes(s)
      PROVE  Overlaps'
  BY <1>2, GoingOn DEF Overlaps, GoesOn
<1>3. ASSUME NEW s \in Runs, Leaves(s)
      PROVE  Overlaps'
  BY <1>3 DEF Leaves, End, Die, Overlaps, TypeOK
<1>4. CASE Rests
  BY <1>4 DEF Rests, Overlaps
<1> QED
  BY <1>1, <1>2, <1>3, <1>4, RunSteps

\* What the others do keeps a run where it is in the graph.
LEMMA InGraphStays ==
    ASSUME TypeOK, NEW t \in Runs, run[t] # Nil, InGraph(t),
           run'[t].kind = run[t].kind, run'[t].of = run[t].of, run'[t].base = run[t].base,
           run'[t].own = run[t].own, run'[t].todo = run[t].todo, run'[t].done = run[t].done,
           run'[t].at = run[t].at, run'[t].read = run[t].read, Selected(t)' = Selected(t),
           \A c \in Connectors : /\ offered'[c] \in Versions /\ landing'[c] \in Versions
                                /\ offered'[c] >= offered[c] /\ landing'[c] >= landing[c]
    PROVE  InGraph(t)'
<1>1. \A c \in Connectors : run[t].base[c] \in Nat /\ run[t].own \in Nat /\ landing[c] \in Nat
                            /\ landing'[c] \in Nat /\ offered[c] \in Nat /\ offered'[c] \in Nat
  BY RunTypes DEF TypeOK, Versions
<1>2. \A c \in Connectors : run'[t].base[c] <= offered'[c]
  BY <1>1 DEF InGraph
<1>3. \A c \in Connectors : Step("land", c) \in run'[t].done => Landed(t, c)' >= run'[t].base[c]
  BY <1>1 DEF InGraph, Landed
<1> QED
  BY <1>2, <1>3 DEF InGraph

\* So does what it does itself, but for the landing it ends.
LEMMA InGraphGoes ==
    ASSUME TypeOK, NEW s \in Runs, run[s] # Nil, InGraph(s), GoesOn(s), run'[s].own = run[s].own,
           UNCHANGED <<offered, landing>>, NEW step \in AllSteps,
           step \notin {Step("land", c) : c \in Connectors},
           run'[s].done \in {run[s].done, run[s].done \union {step}},
           step = Objects => \A c \in Connectors :
                                Step("import", c) \in Selected(s) => Step("import", c) \in run[s].done,
           \/ run'[s].at = Nil
           \/ /\ run'[s].at = step /\ step \in run'[s].todo
              /\ step = Units => run'[s].read \in [Connectors -> Versions],
           Selected(s)' = Selected(s), Nil # Units
    PROVE  InGraph(s)'
<1>1. \A c \in Connectors : Landed(s, c)' = Landed(s, c)
  BY DEF Landed, GoesOn
<1>2. \A c \in Connectors : Step("land", c) \in run'[s].done => Step("land", c) \in run[s].done
  OBVIOUS
<1>3. Objects \in run'[s].done =>
         \A c \in Connectors : Step("import", c) \in Selected(s) => Step("import", c) \in run'[s].done
  BY DEF InGraph
<1> QED
  BY <1>1, <1>2, <1>3 DEF InGraph, GoesOn

\* A run is in the graph after each of its steps.
LEMMA GoesInGraph ==
    ASSUME TypeOK, WithinGraph, NEW s \in Runs, Goes(s)
    PROVE  /\ InGraph(s)' /\ UNCHANGED offered
           /\ \A c \in Connectors : landing'[c] \in {landing[c], offered[c]}
<1> USE DEF TypeOK
<1>1. run[s] # Nil /\ GoesOn(s) /\ InGraph(s)
  BY GoingOn DEF WithinGraph
<1>2. /\ run[s].kind \in Kinds /\ (run[s].kind = "backfill" => run[s].of \in Connectors)
      /\ Selected(s) \in Selections(run[s].kind, run[s].of)
  BY <1>1, RunTypes DEF InGraph
<1>3. Nil \notin AllSteps /\ Units \in AllSteps /\ Objects \in AllSteps
  BY StepsDiffer, NilIsNoRun
<1>4. \A c \in Connectors : /\ Step("land", c) \in AllSteps /\ Step("import", c) \in AllSteps
                            /\ Step("import", c) \notin {Step("land", d) : d \in Connectors}
                            /\ Step("import", c) # Objects /\ Step("import", c) # Units
  BY StepsDiffer
<1>5. /\ Objects \notin {Step("land", d) : d \in Connectors}
      /\ Units \notin {Step("land", d) : d \in Connectors} /\ Units # Objects
  BY StepsDiffer
<1>6. ASSUME NEW c \in Connectors, Land(s, c)
      PROVE  /\ InGraph(s)' /\ UNCHANGED offered
             /\ \A d \in Connectors : landing'[d] \in {landing[d], offered[d]}
  <2>1. /\ run'[s].done = run[s].done \union {Step("land", c)} /\ run'[s].at = Nil
        /\ Selected(s)' = Selected(s) /\ offered' = offered /\ Step("land", c) \in Selected(s)
        /\ run[s].at = Nil
    BY <1>6, LandEffect DEF Land, Ready, Selected
  <2>2. IF run[s].kind = "backfill" THEN run'[s].own = offered[c] /\ landing' = landing
        ELSE run'[s].own = run[s].own /\ landing' = [landing EXCEPT ![c] = offered[c]]
    BY <1>6, LandEffect
  <2>3. \A d \in Connectors : landing'[d] \in {landing[d], offered[d]}
    BY <2>2
  <2>4. \A d \in Connectors : /\ offered[d] \in Nat /\ landing[d] \in Nat /\ run[s].base[d] \in Nat
                              /\ landing[d] <= offered[d] /\ run[s].base[d] <= offered[d]
    BY <1>1, RunTypes DEF Versions, WithinGraph, InGraph
  <2>5. ASSUME NEW d \in Connectors, Step("land", d) \in run'[s].done
        PROVE  Landed(s, d)' >= run'[s].base[d]
    <3>1. d = c \/ (Step("land", d) \in run[s].done /\ d # c)
      BY <2>1, <2>5, StepsDiffer
    <3>2. CASE run[s].kind = "backfill"
      <4>1. Step("land", d) \in Selected(s)
        BY <2>1, <3>1 DEF Selected
      <4>2. d = c
        BY <1>2, <2>1, <3>2, <4>1, SelectionFacts
      <4> QED
        BY <1>1, <2>2, <2>4, <3>2, <4>2 DEF Landed, GoesOn
    <3>3. CASE run[s].kind # "backfill"
      <4>1. Landed(s, d)' = landing'[d] /\ Landed(s, d) = landing[d]
        BY <1>1, <3>3 DEF Landed, GoesOn
      <4>2. landing'[d] = IF d = c THEN offered[d] ELSE landing[d]
        BY <2>2, <3>3
      <4> QED
        BY <1>1, <2>4, <3>1, <4>1, <4>2 DEF InGraph, GoesOn
    <3> QED
      BY <3>2, <3>3
  <2>6. Objects \in run'[s].done => Objects \in run[s].done
    BY <1>5, <2>1
  <2>7. Nil # Units
    BY <1>3
  <2> QED
    BY <1>1, <2>1, <2>3, <2>4, <2>5, <2>6, <2>7 DEF InGraph, GoesOn
<1>7. ASSUME NEW c \in Connectors, LandingFails(s, c)
      PROVE  InGraph(s)' /\ UNCHANGED <<offered, landing>>
  <2>1. /\ run'[s].own = run[s].own /\ run'[s].done = run[s].done /\ run'[s].at = Nil
        /\ Selected(s)' = Selected(s) /\ UNCHANGED <<offered, landing>>
    BY <1>1, <1>4, <1>7, FailedEffect DEF LandingFails, Ready
  <2> QED
    BY <1>1, <1>3, <1>5, <2>1, InGraphGoes
<1>8. ASSUME NEW c \in Connectors, Import(s, c)
      PROVE  InGraph(s)' /\ UNCHANGED <<offered, landing>>
  <2>1. /\ run'[s].own = run[s].own /\ run'[s].done = run[s].done /\ run'[s].todo = run[s].todo
        /\ run'[s].at = Step("import", c) /\ Selected(s)' = Selected(s)
        /\ UNCHANGED <<offered, landing>> /\ Step("import", c) \in run[s].todo
    BY <1>1, <1>4, <1>8, HalfwayEffect DEF Import, Ready
  <2> QED
    BY <1>1, <1>3, <1>4, <2>1, InGraphGoes
<1>9. ASSUME NEW c \in Connectors, RecordSuccess(s, c)
      PROVE  InGraph(s)' /\ UNCHANGED <<offered, landing>>
  <2>1. run[s].at = Step("import", c) /\ Step("import", c) \in run[s].todo
    BY <1>1, <1>3, <1>4, <1>9 DEF RecordSuccess, InGraph
  <2>2. /\ run'[s].own = run[s].own /\ run'[s].done = run[s].done \union {Step("import", c)}
        /\ run'[s].at = Nil /\ Selected(s)' = Selected(s) /\ UNCHANGED <<offered, landing>>
    BY <1>1, <1>4, <1>9, <2>1, EndsEffect DEF RecordSuccess
  <2> QED
    BY <1>1, <1>3, <1>4, <2>2, InGraphGoes
<1>10. CASE BuildObjects(s)
  <2>1. /\ run'[s].own = run[s].own /\ run'[s].done = run[s].done \union {Objects}
        /\ run'[s].at = Nil /\ Selected(s)' = Selected(s) /\ UNCHANGED <<offered, landing>>
    BY <1>1, <1>3, <1>10, EndsEffect DEF BuildObjects, Ready
  <2>2. \A c \in Connectors : Step("import", c) \in Selected(s) => Step("import", c) \in run[s].done
    BY <1>10, NeedsOf DEF BuildObjects, Ready
  <2> QED
    BY <1>1, <1>3, <1>5, <2>1, <2>2, InGraphGoes
<1>11. CASE ReadRows(s)
  <2>1. /\ run'[s].own = run[s].own /\ run'[s].done = run[s].done /\ run'[s].todo = run[s].todo
        /\ run'[s].at = Units /\ run'[s].read = row /\ Selected(s)' = Selected(s)
        /\ UNCHANGED <<offered, landing>> /\ Units \in run[s].todo
    BY <1>1, <1>3, <1>11, HalfwayEffect DEF ReadRows, Ready
  <2> QED
    BY <1>1, <1>3, <1>5, <2>1, InGraphGoes
<1>12. CASE RebuildUnits(s)
  <2>1. run[s].at = Units /\ Units \in run[s].todo
    BY <1>1, <1>3, <1>12 DEF RebuildUnits, InGraph
  <2>2. /\ run'[s].own = run[s].own /\ run'[s].done = run[s].done \union {Units}
        /\ run'[s].at = Nil /\ Selected(s)' = Selected(s) /\ UNCHANGED <<offered, landing>>
    BY <1>1, <1>3, <1>12, <2>1, EndsEffect DEF RebuildUnits
  <2> QED
    BY <1>1, <1>3, <1>5, <2>2, InGraphGoes
<1>13. ASSUME NEW step \in AllSteps, Fail(s, step)
       PROVE  InGraph(s)' /\ UNCHANGED <<offered, landing>>
  <2>1. step \in run[s].todo
    BY <1>1, <1>3, <1>13 DEF Fail, Ready, InGraph
  <2>2. /\ run'[s].own = run[s].own /\ run'[s].done = run[s].done /\ run'[s].at = Nil
        /\ Selected(s)' = Selected(s) /\ UNCHANGED <<offered, landing>>
    BY <1>1, <1>13, <2>1, FailedEffect DEF Fail
  <2> QED
    BY <1>1, <1>3, <1>5, <2>2, InGraphGoes
<1> QED
  BY <1>6, <1>7, <1>8, <1>9, <1>10, <1>11, <1>12, <1>13 DEF Goes

LEMMA GraphStep ==
    ASSUME TypeOK, WithinGraph, [Next]_vars
    PROVE  WithinGraph'
<1>1. TypeOK'
  BY TypeStep
<1>2. \A c \in Connectors : /\ offered[c] \in Nat /\ landing[c] \in Nat /\ landing[c] <= offered[c]
                            /\ offered[c] \in Versions /\ landing[c] \in Versions
  BY DEF TypeOK, Versions, WithinGraph
<1>3. \A t \in Runs : run[t] # Nil => InGraph(t)
  BY DEF WithinGraph
<1>4. CASE Starts
  <2>1. PICK s \in Runs, kind \in Kinds, c \in Connectors \union {Nil} :
           Begin(s, kind, c) /\ (kind = "backfill" => c \in Connectors) /\ (s = JobRun => kind = "hourly")
    BY <1>4, Begins DEF Starts
  <2>2. UNCHANGED <<offered, landing>>
    BY <2>1 DEF Begin
  <2>3. ASSUME NEW t \in Runs, run'[t] # Nil
        PROVE  InGraph(t)' /\ (t = JobRun => run'[t].kind = "hourly")
    <3>1. CASE t = s
      <4>1. /\ run'[s].kind = kind /\ run'[s].of = c /\ run'[s].done = {} /\ run'[s].at = Nil
            /\ run'[s].base = offered /\ Selected(s)' \in Selections(kind, c)
        BY <2>1, BeginEffect
      <4>2. Nil # Units
        BY StepsDiffer, NilIsNoRun
      <4> QED
        BY <1>2, <2>1, <2>2, <3>1, <4>1, <4>2 DEF InGraph
    <3>2. CASE t # s
      <4>1. /\ run[t] # Nil /\ run'[t].kind = run[t].kind /\ run'[t].of = run[t].of
            /\ run'[t].base = run[t].base /\ run'[t].own = run[t].own
            /\ run'[t].done = run[t].done /\ run'[t].todo = run[t].todo
            /\ run'[t].at = run[t].at /\ run'[t].read = run[t].read /\ Selected(t)' = Selected(t)
        BY <2>1, <2>3, <3>2, BeginEffect
      <4>2. InGraph(t)'
        BY <1>2, <1>3, <2>2, <4>1, InGraphStays
      <4> QED
        BY <4>1, <4>2 DEF WithinGraph
    <3> QED
      BY <3>1, <3>2
  <2> QED
    BY <1>2, <2>2, <2>3, PipelineAssumption DEF WithinGraph, Runs
<1>5. ASSUME NEW s \in Runs, Goes(s)
      PROVE  WithinGraph'
  <2>1. /\ InGraph(s)' /\ offered' = offered /\ run[s] # Nil /\ GoesOn(s)
        /\ \A c \in Connectors : landing'[c] \in {landing[c], offered[c]}
    BY <1>5, GoesInGraph, GoingOn
  <2>2. ASSUME NEW t \in Runs, t # s, run'[t] # Nil
        PROVE  InGraph(t)'
    <3>1. run'[t] = run[t] /\ Selected(t)' = Selected(t)
      BY <2>1, <2>2 DEF GoesOn, Selected
    <3> QED
      BY <1>2, <1>3, <2>1, <2>2, <3>1, InGraphStays
  <2>3. \A c \in Connectors : landing'[c] <= offered'[c]
    BY <1>2, <2>1
  <2>4. run'[JobRun] # Nil => run'[JobRun].kind = "hourly"
    BY <2>1, PipelineAssumption DEF WithinGraph, GoesOn, Runs
  <2>5. \A t \in Runs : run'[t] # Nil => InGraph(t)'
    BY <2>1, <2>2
  <2> QED
    BY <2>3, <2>4, <2>5 DEF WithinGraph
<1>6. ASSUME NEW s \in Runs, Leaves(s)
      PROVE  WithinGraph'
  <2>1. run' = [run EXCEPT ![s] = Nil] /\ UNCHANGED <<offered, landing>>
    BY <1>6 DEF Leaves, End, Die
  <2>2. \A t \in Runs : run'[t] # Nil => run[t] # Nil /\ run'[t] = run[t]
    BY <2>1 DEF TypeOK
  <2>3. ASSUME NEW t \in Runs, run'[t] # Nil
        PROVE  InGraph(t)'
    <3>1. run'[t] = run[t] /\ run[t] # Nil /\ Selected(t)' = Selected(t)
      BY <2>2, <2>3 DEF Selected
    <3> QED
      BY <1>2, <1>3, <2>1, <3>1, InGraphStays
  <2> QED
    BY <1>2, <2>1, <2>2, <2>3, PipelineAssumption DEF WithinGraph, Runs
<1>7. CASE Rests
  <2>1. run' = run /\ landing' = landing /\ \A c \in Connectors : offered'[c] >= offered[c]
    BY <1>2, <1>7 DEF Rests, Edit, HourPasses, vars, TypeOK
  <2>2. \A c \in Connectors : /\ offered'[c] \in Versions /\ landing'[c] \in Versions
                              /\ offered'[c] \in Nat
    BY <1>1 DEF TypeOK, Versions
  <2>3. ASSUME NEW t \in Runs, run'[t] # Nil
        PROVE  InGraph(t)'
    <3>1. run'[t] = run[t] /\ run[t] # Nil /\ Selected(t)' = Selected(t)
      BY <2>1, <2>3 DEF Selected
    <3> QED
      BY <1>2, <1>3, <2>1, <2>2, <3>1, InGraphStays
  <2> QED
    BY <1>2, <2>1, <2>2, <2>3 DEF WithinGraph
<1> QED
  BY <1>4, <1>5, <1>6, <1>7, RunSteps

-----------------------------------------------------------------------------
(* What the steps write *)

\* An import stores a landing that began after its run.
LEMMA ImportEffect ==
    ASSUME TypeOK, WithinGraph, NEW s \in Runs, NEW c \in Connectors, Import(s, c)
    PROVE  /\ run[s] # Nil /\ Sort(run[s].kind) = "imports" /\ run[s].kind # "sensor"
           /\ run'[s].at = Step("import", c) /\ run'[s].done = run[s].done
           /\ Landed(s, c) \in Versions /\ Landed(s, c) >= run[s].base[c]
           /\ IF Sandboxed(s) THEN UNCHANGED tables
              ELSE /\ row' = [row EXCEPT ![c] = Landed(s, c)]
                   /\ unit' = [unit EXCEPT ![c] = Landed(s, c)]
           /\ UNCHANGED <<reports, offered>>
<1>1. run[s] # Nil /\ Step("import", c) \in Selected(s) /\ Step("import", c) \in AllSteps
  BY StepsDiffer DEF Import, Ready, Selected
<1>2. InGraph(s) /\ run[s].kind \in Kinds
  BY <1>1, RunTypes DEF WithinGraph
<1>3. Step("land", c) \in Selected(s) /\ run[s].kind # "sensor"
  BY <1>1, <1>2, SelectionFacts DEF InGraph
<1>4. Step("land", c) \in run[s].done
  BY <1>3, NeedsOf DEF Import, Ready
<1>5. run'[s].at = Step("import", c) /\ run'[s].done = run[s].done
  BY <1>1, HalfwayEffect DEF Import
<1> QED
  BY <1>1, <1>2, <1>3, <1>4, <1>5, RunTypes DEF InGraph, Import, Stored, Sort, tables

\* The steps that write neither rows nor units.
Quiet(s) ==
    \/ \E c \in Connectors : Land(s, c) \/ LandingFails(s, c) \/ RecordSuccess(s, c)
    \/ BuildObjects(s) \/ ReadRows(s) \/ \E step \in AllSteps : Fail(s, step)

LEMMA QuietEffect ==
    ASSUME TypeOK, WithinGraph, NEW s \in Runs, Quiet(s)
    PROVE  /\ UNCHANGED <<tables, offered, latest>>
           /\ \A c \in Connectors : Imported(s, c)' => Imported(s, c)
           /\ run'[s].at # Units \/ ReadRows(s)
           /\ job' = job \/ \E c \in Connectors : RecordSuccess(s, c)
<1>1. /\ Nil # Units
      /\ \A c \in Connectors : /\ Step("land", c) \in AllSteps /\ Step("import", c) \in AllSteps
                               /\ Step("import", c) \notin {Nil, Objects, Units}
                               /\ \A d \in Connectors : /\ Step("land", d) # Step("import", c)
                                                        /\ Step("import", c) = Step("import", d) => c = d
  BY StepsDiffer, NilIsNoRun
<1>2. ASSUME run'[s].at \in {Nil, Units}, run'[s].done \subseteq run[s].done \union {Objects}
                                            \union {Step("land", c) : c \in Connectors}
      PROVE  \A c \in Connectors : Imported(s, c)' => Imported(s, c)
  BY <1>1, <1>2 DEF Imported
<1>3. ASSUME NEW c \in Connectors, Land(s, c)
      PROVE  /\ run'[s].at = Nil /\ run'[s].done = run[s].done \union {Step("land", c)}
             /\ UNCHANGED <<tables, offered, latest, job>>
  BY <1>3, LandEffect DEF Land, reports
<1>4. ASSUME NEW c \in Connectors, LandingFails(s, c)
      PROVE  /\ run'[s].at = Nil /\ run'[s].done = run[s].done
             /\ UNCHANGED <<tables, offered, latest, job>>
  BY <1>1, <1>4, FailedEffect DEF LandingFails, Ready, reports
<1>5. ASSUME NEW c \in Connectors, RecordSuccess(s, c)
      PROVE  /\ run'[s].at = Nil /\ UNCHANGED <<tables, offered, latest>>
             /\ \A d \in Connectors : Imported(s, d)' => Imported(s, d)
  <2>1. run'[s].at = Nil /\ run'[s].done = run[s].done \union {Step("import", c)}
    BY <1>1, <1>5, EndsEffect DEF RecordSuccess
  <2> QED
    BY <1>1, <1>5, <2>1 DEF RecordSuccess, Imported
<1>6. CASE BuildObjects(s)
  <2>1. run'[s].at = Nil /\ run'[s].done = run[s].done \union {Objects}
    BY <1>6, EndsEffect, StepsDiffer DEF BuildObjects, Ready
  <2> QED
    BY <1>1, <1>2, <1>6, <2>1 DEF BuildObjects, reports
<1>7. CASE ReadRows(s)
  <2>1. run'[s].at = Units /\ run'[s].done = run[s].done
    BY <1>7, HalfwayEffect, StepsDiffer DEF ReadRows, Ready, TypeOK
  <2> QED
    BY <1>2, <1>7, <2>1 DEF ReadRows, reports
<1>8. ASSUME NEW step \in AllSteps, Fail(s, step)
      PROVE  /\ run'[s].at = Nil /\ run'[s].done = run[s].done
             /\ UNCHANGED <<tables, offered, latest, job>>
  BY <1>8, FailedEffect DEF Fail, Ready, reports
<1> QED
  BY <1>1, <1>2, <1>3, <1>4, <1>5, <1>6, <1>7, <1>8 DEF Quiet

\* The hourly job's rebuild reads the rows once all it imports is imported.
LEMMA ReadEffect ==
    ASSUME TypeOK, WithinGraph, NEW s \in Runs, ReadRows(s)
    PROVE  /\ run'[s].at = Units /\ run'[s].read = row /\ run'[s].done = run[s].done
           /\ run[s].kind = "hourly" => \A c \in Configured : Imported(s, c)
<1>1. run[s] # Nil
  BY DEF ReadRows, Ready
<1>2. InGraph(s) /\ run[s].kind \in Kinds
  BY <1>1, RunTypes DEF WithinGraph
<1>3. run[s].kind = "hourly" => Objects \in run[s].done
  BY <1>2, SelectionFacts, NeedsOf DEF InGraph, ReadRows, Ready
<1>4. run[s].kind = "hourly" => \A c \in Configured : Step("import", c) \in run[s].done
  BY <1>2, <1>3, SelectionFacts, PipelineAssumption DEF InGraph
<1> QED
  BY <1>1, <1>4, HalfwayEffect, StepsDiffer DEF ReadRows, Imported, TypeOK

LEMMA RebuildEffect ==
    ASSUME TypeOK, WithinGraph, NEW s \in Runs, RebuildUnits(s)
    PROVE  /\ run[s] # Nil /\ run[s].at = Units /\ run'[s].at = Nil
           /\ unit' = run[s].read /\ UNCHANGED <<row, reports, offered>>
           /\ \A c \in Connectors : Imported(s, c)' => Imported(s, c)
<1>1. \A c \in Connectors : Step("import", c) # Nil /\ Step("import", c) # Units
  BY StepsDiffer, NilIsNoRun
<1>2. run'[s].at = Nil /\ run'[s].done = run[s].done \union {Units}
  BY EndsEffect, StepsDiffer DEF RebuildUnits
<1> QED
  BY <1>1, <1>2 DEF RebuildUnits, Imported

LEMMA GoesAs ==
    ASSUME NEW s \in Runs, Goes(s)
    PROVE  Quiet(s) \/ RebuildUnits(s) \/ \E c \in Connectors : Import(s, c)
BY DEF Goes, Quiet

-----------------------------------------------------------------------------
(* What the runs have imported *)

LEMMA StayStep ==
    ASSUME TypeOK, WithinGraph, Overlaps, ImportsStay, [Next]_vars
    PROVE  ImportsStay'
<1>1. \A s \in Runs, c \in Connectors : run[s] # Nil => run[s].base[c] \in Nat
  BY RunTypes DEF Versions
<1>2. \A c \in Connectors : Nil # Step("import", c)
  BY StepsDiffer, NilIsNoRun
<1>3. CASE Starts
  <2>1. PICK s \in Runs, kind \in Kinds, c \in Connectors \union {Nil} :
           Begin(s, kind, c) /\ (kind = "backfill" => c \in Connectors)
    BY <1>3, Begins DEF Starts
  <2>2. row' = row /\ ~ \E d \in Connectors : Imported(s, d)'
    <3>1. run'[s].done = {} /\ run'[s].at = Nil
      BY <2>1, BeginEffect
    <3>2. row' = row
      BY <2>1 DEF Begin, tables
    <3> QED
      BY <1>2, <3>1, <3>2 DEF Imported
  <2> QED
    BY <2>1, <2>2, BeginEffect DEF ImportsStay, Imported, Sandboxed
<1>4. ASSUME NEW s \in Runs, Goes(s)
      PROVE  ImportsStay'
  <2>1. run[s] # Nil /\ GoesOn(s)
    BY <1>4, GoingOn
  <2>2. CASE row' = row /\ \A c \in Connectors : Imported(s, c)' => Imported(s, c)
    BY <2>1, <2>2 DEF ImportsStay, GoesOn, Imported, Sandboxed
  <2>3. ASSUME NEW c \in Connectors, Import(s, c)
        PROVE  ImportsStay'
    <3> SUFFICES ASSUME NEW t \in Runs, run'[t] # Nil, ~ Sandboxed(t)', "imports" \notin run'[t].met,
                        NEW d \in Connectors, Imported(t, d)'
                 PROVE  row'[d] >= run'[t].base[d]
      BY DEF ImportsStay
    <3>1. t = s
      BY <2>1, <2>3, ImportEffect DEF Overlaps, GoesOn
    <3>2. ~ Sandboxed(s) /\ run'[s].base = run[s].base /\ "imports" \notin run[s].met
      BY <2>1, <3>1 DEF Sandboxed, GoesOn
    <3>3. row' = [row EXCEPT ![c] = Landed(s, c)] /\ Landed(s, c) >= run[s].base[c]
      BY <2>3, <3>2, ImportEffect
    <3>4. CASE d = c
      BY <3>1, <3>2, <3>3, <3>4 DEF TypeOK
    <3>5. CASE d # c
      <4>1. Imported(s, d)
        BY <2>3, <3>1, <3>5, ImportEffect, StepsDiffer DEF Imported
      <4> QED
        BY <2>1, <3>1, <3>2, <3>3, <3>5, <4>1 DEF ImportsStay, TypeOK
    <3> QED
      BY <3>4, <3>5
  <2> QED
    BY <1>4, <2>2, <2>3, GoesAs, QuietEffect, RebuildEffect DEF tables
<1>5. ASSUME NEW s \in Runs, Leaves(s)
      PROVE  ImportsStay'
  <2>1. run' = [run EXCEPT ![s] = Nil] /\ row' = row
    BY <1>5 DEF Leaves, End, Die, tables
  <2>2. \A t \in Runs : run'[t] # Nil => run[t] # Nil /\ run'[t] = run[t]
    BY <2>1 DEF TypeOK
  <2> QED
    BY <2>1, <2>2 DEF ImportsStay, Imported, Sandboxed
<1>6. CASE Rests
  BY <1>6 DEF Rests, Edit, HourPasses, vars, tables, ImportsStay, Imported, Sandboxed
<1> QED
  BY <1>3, <1>4, <1>5, <1>6, RunSteps

LEMMA ServedStep ==
    ASSUME TypeOK, WithinGraph, Overlaps, ImportsStay, ImportsServed, [Next]_vars
    PROVE  ImportsServed'
<1>1. \A s \in Runs, c \in Connectors : run[s] # Nil => run[s].base[c] \in Nat
  BY RunTypes DEF Versions
<1>2. Nil # Units /\ \A c \in Connectors : Nil # Step("import", c) /\ Units # Step("import", c)
  BY StepsDiffer, NilIsNoRun
<1>3. Configured \subseteq Connectors
  BY PipelineAssumption
<1>4. CASE Starts
  <2>1. PICK s \in Runs, kind \in Kinds, c \in Connectors \union {Nil} :
           Begin(s, kind, c) /\ (kind = "backfill" => c \in Connectors)
    BY <1>4, Begins DEF Starts
  <2>2. unit' = unit /\ (~ \E d \in Connectors : Imported(s, d)') /\ run'[s].at # Units
    <3>1. run'[s].done = {} /\ run'[s].at = Nil
      BY <2>1, BeginEffect
    <3>2. unit' = unit
      BY <2>1 DEF Begin, tables
    <3> QED
      BY <1>2, <3>1, <3>2 DEF Imported
  <2>3. \A t \in Runs : t # s /\ run'[t] # Nil => run'[t].met # {}
    BY <2>1, BeginEffect
  <2> QED
    BY <1>3, <2>2, <2>3 DEF ImportsServed
<1>5. ASSUME NEW s \in Runs, Goes(s)
      PROVE  ImportsServed'
  <2>1. run[s] # Nil /\ GoesOn(s)
    BY <1>5, GoingOn
  <2>2. \A t \in Runs : t # s /\ run'[t] # Nil => run'[t].met # {}
    BY <2>1 DEF Overlaps, GoesOn
  <2>3. CASE run'[s].kind # "hourly" \/ run'[s].met # {}
    BY <2>2, <2>3 DEF ImportsServed
  <2>4. CASE run'[s].kind = "hourly" /\ run'[s].met = {}
    <3>1. /\ run[s].kind = "hourly" /\ run[s].met = {} /\ run'[s].base = run[s].base
          /\ ~ Sandboxed(s)
      BY <2>1, <2>4 DEF GoesOn, Sandboxed
    <3>2. /\ \A c \in Configured : Imported(s, c) => unit[c] >= run[s].base[c]
          /\ run[s].at = Units => \A c \in Configured : run[s].read[c] >= run[s].base[c]
          /\ \A c \in Connectors : Imported(s, c) => row[c] >= run[s].base[c]
      BY <2>1, <3>1 DEF ImportsServed, ImportsStay
    <3>3. SUFFICES /\ \A c \in Configured : Imported(s, c)' => unit'[c] >= run[s].base[c]
                   /\ run'[s].at = Units => \A c \in Configured : run'[s].read[c] >= run[s].base[c]
      BY <2>2, <3>1 DEF ImportsServed
    <3>4. CASE Quiet(s)
      <4>1. \A c \in Configured : Imported(s, c)' => unit'[c] >= run[s].base[c]
        BY <1>3, <3>2, <3>4, QuietEffect DEF tables
      <4>2. run'[s].at = Units => \A c \in Configured : run'[s].read[c] >= run[s].base[c]
        BY <1>3, <3>1, <3>2, <3>4, QuietEffect, ReadEffect
      <4> QED
        BY <4>1, <4>2
    <3>5. CASE RebuildUnits(s)
      BY <1>2, <3>2, <3>5, RebuildEffect
    <3>6. ASSUME NEW c \in Connectors, Import(s, c)
          PROVE  /\ \A d \in Configured : Imported(s, d)' => unit'[d] >= run[s].base[d]
                 /\ run'[s].at # Units
      <4>1. /\ run'[s].at = Step("import", c) /\ run'[s].done = run[s].done
            /\ unit' = [unit EXCEPT ![c] = Landed(s, c)] /\ Landed(s, c) >= run[s].base[c]
        BY <3>1, <3>6, ImportEffect
      <4>2. \A d \in Connectors : d # c /\ Imported(s, d)' => Imported(s, d)
        BY <4>1, StepsDiffer DEF Imported
      <4> QED
        BY <1>2, <1>3, <3>2, <4>1, <4>2 DEF TypeOK
    <3> QED
      BY <1>5, <3>4, <3>5, <3>6, GoesAs
  <2> QED
    BY <2>3, <2>4
<1>6. ASSUME NEW s \in Runs, Leaves(s)
      PROVE  ImportsServed'
  <2>1. run' = [run EXCEPT ![s] = Nil] /\ unit' = unit
    BY <1>6 DEF Leaves, End, Die, tables
  <2>2. \A t \in Runs : run'[t] # Nil => run[t] # Nil /\ run'[t] = run[t]
    BY <2>1 DEF TypeOK
  <2> QED
    BY <2>1, <2>2 DEF ImportsServed, Imported
<1>7. CASE Rests
  BY <1>7 DEF Rests, Edit, HourPasses, vars, tables, ImportsServed, Imported
<1> QED
  BY <1>4, <1>5, <1>6, <1>7, RunSteps

-----------------------------------------------------------------------------
(* What the reports say *)

\* What holds of a run that reports a connector it has imported.
LEMMA ReportedIsThere ==
    ASSUME TypeOK, WithinGraph, Overlaps, ImportsStay, NEW s \in Runs, run[s] # Nil,
           ~ Sandboxed(s), "imports" \notin run[s].met, NEW c \in Connectors, Imported(s, c)
    PROVE  /\ row[c] >= run[s].base[c] /\ run[s].base[c] <= offered[c]
           /\ \A t \in Runs : run[t] # Nil /\ run[t].kind # "sensor" => t = s
BY DEF WithinGraph, InGraph, ImportsStay, Overlaps, Sort

LEMMA FreshStep ==
    ASSUME VerifyLiveDb, TypeOK, WithinGraph, Overlaps, ImportsStay, FreshInv, [Next]_vars
    PROVE  FreshInv'
<1>1. \A s \in Runs, c \in Connectors : run[s] # Nil => run[s].base[c] \in Nat
  BY RunTypes DEF Versions
<1>2. \A c \in Connectors : /\ offered[c] \in Nat /\ row[c] \in Nat
                            /\ job[c].status = "fresh" => job[c].base \in Nat
  BY DEF TypeOK, Versions
<1>3. Told("running").status # "fresh" /\ Told("failed").status # "fresh" /\ Told("stale").status # "fresh"
  BY DEF Told
<1>4. \A base, met : Success(base, met).base = base /\ Success(base, met).met = met
  BY DEF Success
<1>5. \A s \in Runs : ~ Sandboxed(s)
  BY DEF Sandboxed
<1>6. ASSUME NEW c \in Connectors, job'[c] = job[c], row' = row, offered' = offered,
             \A s \in Runs : run'[s] # Nil => /\ run[s] # Nil /\ run'[s].kind = run[s].kind
                                              /\ run'[s].base = run[s].base
      PROVE  job'[c].status = "fresh" /\ "imports" \notin job'[c].met =>
                /\ row'[c] >= job'[c].base /\ job'[c].base <= offered'[c]
                /\ \A s \in Runs : run'[s] # Nil /\ run'[s].kind # "sensor" => run'[s].base[c] >= job'[c].base
  BY <1>6 DEF FreshInv
<1>7. CASE Starts
  <2>1. PICK s \in Runs, kind \in Kinds, c \in Connectors \union {Nil} :
           /\ Begin(s, kind, c) /\ (kind = "backfill" => c \in Connectors)
           /\ \A d \in Connectors : job'[d] = job[d] \/ job'[d] = Told("running")
    BY <1>7, Begins DEF Starts
  <2>2. row' = row /\ offered' = offered /\ run'[s].base = offered
    <3>1. run'[s].base = offered
      BY <2>1, BeginEffect
    <3> QED
      BY <2>1, <3>1 DEF Begin, tables
  <2>3. \A t \in Runs : t # s /\ run'[t] # Nil => /\ run[t] # Nil /\ run'[t].kind = run[t].kind
                                                  /\ run'[t].base = run[t].base
    BY <2>1, BeginEffect
  <2> SUFFICES ASSUME NEW d \in Connectors, job'[d].status = "fresh", "imports" \notin job'[d].met
               PROVE  /\ row'[d] >= job'[d].base /\ job'[d].base <= offered'[d]
                      /\ \A t \in Runs : run'[t] # Nil /\ run'[t].kind # "sensor" => run'[t].base[d] >= job'[d].base
    BY DEF FreshInv
  <2>4. job'[d] = job[d]
    BY <1>3, <2>1
  <2>5. /\ row[d] >= job[d].base /\ job[d].base <= offered[d]
        /\ \A t \in Runs : run[t] # Nil /\ run[t].kind # "sensor" => run[t].base[d] >= job[d].base
    BY <2>4 DEF FreshInv
  <2> QED
    BY <1>2, <2>2, <2>3, <2>4, <2>5
<1>8. ASSUME NEW s \in Runs, Goes(s)
      PROVE  FreshInv'
  <2>1. run[s] # Nil /\ GoesOn(s)
    BY <1>8, GoingOn
  <2>2. \A t \in Runs : run'[t] # Nil => /\ run[t] # Nil /\ run'[t].kind = run[t].kind
                                         /\ run'[t].base = run[t].base
    BY <2>1 DEF GoesOn
  <2>3. CASE job' = job /\ row' = row /\ offered' = offered
    BY <1>6, <2>2, <2>3 DEF FreshInv
  <2>4. ASSUME NEW c \in Connectors, RecordSuccess(s, c)
        PROVE  FreshInv'
    <3>1. row' = row /\ offered' = offered
      BY <2>4 DEF RecordSuccess, tables
    <3>2. \A d \in Connectors : d # c => job'[d] = job[d]
      BY <2>4 DEF RecordSuccess, TypeOK
    <3>3. job'[c] = job[c] \/ job'[c] = Success(run[s].base[c], run[s].met)
      BY <2>4 DEF RecordSuccess, TypeOK
    <3>4. CASE job'[c] = job[c]
      BY <1>6, <2>2, <3>1, <3>2, <3>4 DEF FreshInv
    <3>5. CASE job'[c] = Success(run[s].base[c], run[s].met)
      <4>1. Imported(s, c)
        BY <2>4 DEF RecordSuccess, Imported
      <4>2. job'[c].base = run[s].base[c] /\ job'[c].met = run[s].met
        BY <1>4, <3>5
      <4>3. "imports" \notin job'[c].met =>
               /\ row'[c] >= job'[c].base /\ job'[c].base <= offered'[c]
               /\ \A t \in Runs : run'[t] # Nil /\ run'[t].kind # "sensor" => run'[t].base[c] >= job'[c].base
        <5> SUFFICES ASSUME "imports" \notin run[s].met
                     PROVE  /\ row[c] >= run[s].base[c] /\ run[s].base[c] <= offered[c]
                            /\ \A t \in Runs : run'[t] # Nil /\ run'[t].kind # "sensor" =>
                                                  run'[t].base[c] >= run[s].base[c]
          BY <3>1, <4>2
        <5>1. /\ row[c] >= run[s].base[c] /\ run[s].base[c] <= offered[c]
              /\ \A t \in Runs : run[t] # Nil /\ run[t].kind # "sensor" => t = s
          BY <1>5, <2>1, <4>1, ReportedIsThere
        <5> QED
          BY <1>1, <2>1, <2>2, <5>1
      <4> QED
        BY <1>6, <2>2, <3>1, <3>2, <4>3 DEF FreshInv
    <3> QED
      BY <3>3, <3>4, <3>5
  <2>5. ASSUME NEW c \in Connectors, Import(s, c)
        PROVE  FreshInv'
    <3>1. /\ row' = [row EXCEPT ![c] = Landed(s, c)] /\ Landed(s, c) >= run[s].base[c]
          /\ Landed(s, c) \in Versions /\ job' = job /\ offered' = offered /\ run[s].kind # "sensor"
      BY <1>5, <2>5, ImportEffect DEF reports
    <3> SUFFICES ASSUME NEW d \in Connectors, job[d].status = "fresh", "imports" \notin job[d].met
                 PROVE  /\ row'[d] >= job[d].base /\ job[d].base <= offered[d]
                        /\ \A t \in Runs : run'[t] # Nil /\ run'[t].kind # "sensor" => run'[t].base[d] >= job[d].base
      BY <3>1 DEF FreshInv
    <3>2. /\ row[d] >= job[d].base /\ job[d].base <= offered[d]
          /\ \A t \in Runs : run[t] # Nil /\ run[t].kind # "sensor" => run[t].base[d] >= job[d].base
      BY DEF FreshInv
    <3>3. row'[d] >= job[d].base
      <4>1. CASE d = c
        <5>1. row'[d] = Landed(s, d) /\ run[s].base[d] >= job[d].base
          BY <2>1, <3>1, <3>2, <4>1 DEF TypeOK
        <5> QED
          BY <1>1, <1>2, <2>1, <3>1, <4>1, <5>1 DEF Versions
      <4>2. CASE d # c
        BY <3>1, <3>2, <4>2 DEF TypeOK
      <4> QED
        BY <4>1, <4>2
    <3> QED
      BY <2>2, <3>2, <3>3
  <2> QED
    BY <1>8, <2>3, <2>4, <2>5, GoesAs, QuietEffect, RebuildEffect DEF tables, reports
<1>9. ASSUME NEW s \in Runs, Leaves(s)
      PROVE  FreshInv'
  <2>1. run' = [run EXCEPT ![s] = Nil] /\ row' = row /\ offered' = offered /\ run[s] # Nil
    BY <1>9 DEF Leaves, End, AtRest, Die, tables
  <2>2. \A t \in Runs : run'[t] # Nil => run[t] # Nil /\ run'[t] = run[t] /\ t # s
    BY <2>1 DEF TypeOK
  <2>3. CASE job' = job
    BY <1>6, <2>1, <2>2, <2>3 DEF FreshInv
  <2>4. CASE job' # job
    <3> DEFINE of == run[s].of
    <3>1. /\ run[s].kind = "backfill" /\ of \in Connectors /\ InGraph(s) /\ End(s)
          /\ run[s].kind \in Kinds
      BY <1>9, <2>1, <2>4, RunTypes DEF Leaves, End, Die, reports, WithinGraph, InGraph
    <3>2. \/ job' = [job EXCEPT ![of] = Told("failed")]
          \/ Succeeded(s) /\ job' = [job EXCEPT ![of] = Success(run[s].base[of], run[s].met)]
      BY <3>1 DEF End
    <3>3. CASE job' = [job EXCEPT ![of] = Told("failed")]
      <4>1. job'[of].status # "fresh" /\ \A d \in Connectors : d # of => job'[d] = job[d]
        BY <1>3, <3>1, <3>3 DEF TypeOK
      <4> QED
        BY <1>6, <2>1, <2>2, <4>1 DEF FreshInv
    <3>4. CASE Succeeded(s) /\ job' = [job EXCEPT ![of] = Success(run[s].base[of], run[s].met)]
      <4>1. Imported(s, of)
        BY <3>1, <3>4, SelectionFacts DEF InGraph, Succeeded, Selected, Imported
      <4>2. job'[of].base = run[s].base[of] /\ job'[of].met = run[s].met
        BY <1>4, <3>1, <3>4 DEF TypeOK
      <4>3. "imports" \notin job'[of].met =>
               /\ row'[of] >= job'[of].base /\ job'[of].base <= offered'[of]
               /\ \A t \in Runs : run'[t] # Nil /\ run'[t].kind # "sensor" => run'[t].base[of] >= job'[of].base
        BY <1>5, <2>1, <2>2, <3>1, <4>1, <4>2, ReportedIsThere
      <4>4. \A d \in Connectors : d # of => job'[d] = job[d]
        BY <3>1, <3>4 DEF TypeOK
      <4> QED
        BY <1>6, <2>1, <2>2, <4>3, <4>4 DEF FreshInv
    <3> QED
      BY <3>2, <3>3, <3>4
  <2> QED
    BY <2>3, <2>4
<1>10. CASE Rests
  <2>1. run' = run /\ row' = row /\ \A c \in Connectors : offered'[c] \in Nat /\ offered'[c] >= offered[c]
    BY <1>2, <1>10 DEF Rests, Edit, HourPasses, vars, tables, TypeOK
  <2>2. \A c \in Connectors : job'[c] = job[c] \/ job'[c].status # "fresh"
    BY <1>3, <1>10 DEF Rests, Edit, HourPasses, vars, reports, TypeOK
  <2> QED
    BY <1>2, <2>1, <2>2 DEF FreshInv
<1> QED
  BY <1>7, <1>8, <1>9, <1>10, RunSteps

LEMMA OkStep ==
    ASSUME TypeOK, WithinGraph, Overlaps, ImportsStay, ImportsServed, OkInv, [Next]_vars
    PROVE  OkInv'
<1>1. \A s \in Runs, c \in Connectors : run[s] # Nil => run[s].base[c] \in Nat
  BY RunTypes DEF Versions
<1>2. \A c \in Connectors : /\ offered[c] \in Nat /\ row[c] \in Nat /\ unit[c] \in Nat
                            /\ latest.status = "fresh" => latest.base[c] \in Nat
  BY DEF TypeOK, Versions
<1>3. Told("started").status # "fresh" /\ Told("failed").status # "fresh" /\ Told("stale").status # "fresh"
  BY DEF Told
<1>4. \A base, met : Success(base, met).base = base /\ Success(base, met).met = met
  BY DEF Success
<1>5. Configured \subseteq Connectors /\ Nil # Units /\ \A c \in Connectors : Units # Step("import", c)
  BY PipelineAssumption, StepsDiffer, NilIsNoRun
<1>6. CASE Starts
  <2>1. PICK s \in Runs, kind \in Kinds, c \in Connectors \union {Nil} :
           /\ Begin(s, kind, c) /\ (kind = "backfill" => c \in Connectors)
           /\ latest' = IF s = JobRun THEN Told("started") ELSE latest
    BY <1>6, Begins DEF Starts
  <2>2. /\ row' = row /\ unit' = unit /\ offered' = offered /\ run'[s].base = offered
        /\ run'[s].at = Nil
    <3>1. run'[s].base = offered /\ run'[s].at = Nil
      BY <2>1, BeginEffect
    <3> QED
      BY <2>1, <3>1 DEF Begin, tables
  <2>3. \A t \in Runs : t # s /\ run'[t] # Nil =>
           /\ run[t] # Nil /\ run'[t].base = run[t].base /\ run'[t].at = run[t].at
           /\ run'[t].read = run[t].read
    BY <2>1, BeginEffect
  <2> SUFFICES ASSUME latest'.status = "fresh", latest'.met = {}, NEW d \in Configured
               PROVE  /\ latest'.base[d] <= offered'[d] /\ row'[d] >= latest'.base[d]
                      /\ unit'[d] >= latest'.base[d]
                      /\ \A t \in Runs : run'[t] # Nil =>
                            /\ run'[t].base[d] >= latest'.base[d]
                            /\ run'[t].at = Units => run'[t].read[d] >= latest'.base[d]
    BY DEF OkInv, RuntimeOk
  <2>4. latest' = latest
    BY <1>3, <2>1
  <2>5. /\ latest.base[d] <= offered[d] /\ row[d] >= latest.base[d] /\ unit[d] >= latest.base[d]
        /\ \A t \in Runs : run[t] # Nil => /\ run[t].base[d] >= latest.base[d]
                                           /\ run[t].at = Units => run[t].read[d] >= latest.base[d]
    BY <2>4 DEF OkInv, RuntimeOk
  <2> QED
    BY <1>2, <1>5, <2>2, <2>3, <2>4, <2>5
<1>7. ASSUME NEW s \in Runs, Goes(s)
      PROVE  OkInv'
  <2>1. run[s] # Nil /\ GoesOn(s)
    BY <1>7, GoingOn
  <2>2. latest' = latest /\ offered' = offered
    BY <1>7, GoesAs, QuietEffect, RebuildEffect, ImportEffect DEF reports
  <2> SUFFICES ASSUME latest.status = "fresh", latest.met = {}, NEW d \in Configured
               PROVE  /\ latest.base[d] <= offered[d] /\ row'[d] >= latest.base[d]
                      /\ unit'[d] >= latest.base[d]
                      /\ \A t \in Runs : run'[t] # Nil =>
                            /\ run'[t].base[d] >= latest.base[d]
                            /\ run'[t].at = Units => run'[t].read[d] >= latest.base[d]
    BY <2>2 DEF OkInv, RuntimeOk
  <2>3. /\ latest.base[d] <= offered[d] /\ row[d] >= latest.base[d] /\ unit[d] >= latest.base[d]
        /\ \A t \in Runs : run[t] # Nil => /\ run[t].base[d] >= latest.base[d]
                                           /\ run[t].at = Units => run[t].read[d] >= latest.base[d]
    BY DEF OkInv, RuntimeOk
  <2>4. \A t \in Runs : t # s => run'[t] = run[t]
    BY <2>1 DEF GoesOn
  <2>5. ASSUME row'[d] >= latest.base[d], unit'[d] >= latest.base[d],
               run'[s].at = Units => run'[s].read[d] >= latest.base[d]
        PROVE  /\ latest.base[d] <= offered[d] /\ row'[d] >= latest.base[d]
               /\ unit'[d] >= latest.base[d]
               /\ \A t \in Runs : run'[t] # Nil =>
                     /\ run'[t].base[d] >= latest.base[d]
                     /\ run'[t].at = Units => run'[t].read[d] >= latest.base[d]
    BY <2>1, <2>3, <2>4, <2>5 DEF GoesOn
  <2>6. CASE Quiet(s)
    <3>1. row' = row /\ unit' = unit /\ (run'[s].at # Units \/ ReadRows(s))
      BY <2>6, QuietEffect DEF tables
    <3>2. ReadRows(s) => run'[s].read = row
      BY ReadEffect
    <3> QED
      BY <2>3, <2>5, <3>1, <3>2
  <2>7. CASE RebuildUnits(s)
    BY <1>5, <2>3, <2>5, <2>7, RebuildEffect
  <2>8. ASSUME NEW c \in Connectors, Import(s, c)
        PROVE  /\ row'[d] >= latest.base[d] /\ unit'[d] >= latest.base[d] /\ run'[s].at # Units
    <3>1. /\ run'[s].at # Units /\ Landed(s, c) >= run[s].base[c] /\ Landed(s, c) \in Versions
          /\ \/ row' = row /\ unit' = unit
             \/ /\ row' = [row EXCEPT ![c] = Landed(s, c)]
                /\ unit' = [unit EXCEPT ![c] = Landed(s, c)]
      BY <1>5, <2>8, ImportEffect DEF tables
    <3>2. CASE d # c \/ (row' = row /\ unit' = unit)
      <4>1. row'[d] = row[d] /\ unit'[d] = unit[d]
        BY <1>5, <3>1, <3>2 DEF TypeOK
      <4> QED
        BY <2>3, <3>1, <4>1
    <3>3. CASE d = c /\ row'[d] = Landed(s, d) /\ unit'[d] = Landed(s, d)
      <4>1. run[s].base[d] >= latest.base[d]
        BY <2>1, <2>3
      <4> QED
        BY <1>1, <1>2, <1>5, <2>1, <3>1, <3>3, <4>1 DEF Versions
    <3> QED
      BY <3>1, <3>2, <3>3 DEF TypeOK
  <2> QED
    BY <1>7, <2>5, <2>6, <2>7, <2>8, GoesAs
<1>8. ASSUME NEW s \in Runs, Leaves(s)
      PROVE  OkInv'
  <2>1. run' = [run EXCEPT ![s] = Nil] /\ row' = row /\ unit' = unit /\ offered' = offered /\ run[s] # Nil
    BY <1>8 DEF Leaves, End, AtRest, Die, tables
  <2>2. \A t \in Runs : run'[t] # Nil => run[t] # Nil /\ run'[t] = run[t] /\ t # s
    BY <2>1 DEF TypeOK
  <2>3. CASE latest' = latest \/ latest' = Told("failed")
    BY <1>3, <2>1, <2>2, <2>3 DEF OkInv, RuntimeOk
  <2>4. CASE s = JobRun /\ Succeeded(s) /\ latest' = Success(run[s].base, run[s].met)
    <3>1. latest'.base = run[s].base /\ latest'.met = run[s].met
      BY <1>4, <2>4
    <3> SUFFICES ASSUME run[s].met = {}, NEW d \in Configured
                 PROVE  /\ run[s].base[d] <= offered[d] /\ row[d] >= run[s].base[d]
                        /\ unit[d] >= run[s].base[d] /\ \A t \in Runs : run'[t] = Nil
      BY <2>1, <3>1 DEF OkInv, RuntimeOk
    <3>2. run[s].kind = "hourly" /\ InGraph(s) /\ ~ Sandboxed(s)
      BY <2>1, <2>4 DEF WithinGraph, Sandboxed
    <3>3. Imported(s, d)
      BY <2>4, <3>2, SelectionFacts DEF InGraph, Succeeded, Selected, Imported, Kinds
    <3>4. unit[d] >= run[s].base[d] /\ row[d] >= run[s].base[d] /\ run[s].base[d] <= offered[d]
      BY <1>5, <2>1, <3>2, <3>3 DEF ImportsServed, ImportsStay, InGraph
    <3>5. \A t \in Runs : run'[t] = Nil
      BY <2>1, <2>2 DEF Overlaps
    <3> QED
      BY <3>4, <3>5
  <2> QED
    BY <1>8, <2>3, <2>4 DEF Leaves, End, Die, reports
<1>9. CASE Rests
  <2>1. run' = run /\ row' = row /\ unit' = unit
        /\ \A c \in Connectors : offered'[c] \in Nat /\ offered'[c] >= offered[c]
    BY <1>2, <1>9 DEF Rests, Edit, HourPasses, vars, tables, TypeOK
  <2>2. latest' = latest \/ latest'.status # "fresh"
    BY <1>3, <1>9 DEF Rests, Edit, HourPasses, vars, reports
  <2> QED
    BY <1>2, <1>5, <2>1, <2>2 DEF OkInv, RuntimeOk
<1> QED
  BY <1>6, <1>7, <1>8, <1>9, RunSteps

-----------------------------------------------------------------------------
(* The theorems *)

LEMMA InvInit ==
    ASSUME Init
    PROVE  Overlaps /\ WithinGraph /\ ImportsStay /\ ImportsServed /\ FreshInv /\ OkInv
<1>1. \A s \in Runs : run[s] = Nil
  BY DEF Init
<1>2. Told("missing").status # "fresh"
  BY DEF Told
<1>3. (\A c \in Connectors : job[c].status # "fresh") /\ ~ RuntimeOk
  BY <1>2 DEF Init, RuntimeOk
<1>4. JobRun \in Runs /\ \A c \in Connectors : landing[c] = 0 /\ offered[c] = 0
  BY DEF Init, Runs
<1> QED
  BY <1>1, <1>3, <1>4
     DEF Overlaps, WithinGraph, ImportsStay, ImportsServed, FreshInv, OkInv

\* Every variable has its type, and every run goes through the steps of its
\* kind in the order of their deps: what an import stores was landed after its
\* run began, and the objects come after all the imports of the run.
THEOREM RunsFollowTheGraph == FairSpec => [](TypeOK /\ WithinGraph)
<1>1. Init => TypeOK /\ WithinGraph
  BY TypeInit, InvInit
<1>2. TypeOK /\ WithinGraph /\ [Next]_vars => TypeOK' /\ WithinGraph'
  BY TypeStep, GraphStep
<1> QED
  BY <1>1, <1>2, PTL DEF FairSpec

\* While dagster_status calls the runtime ok, search serves at least what the
\* providers had when the latest run of the job began, unless another run met
\* that one, in the databases that the backfills work on or without them.
THEOREM OkIsServed == FairSpec => []OkMeansServed
<1> DEFINE Inv == TypeOK /\ WithinGraph /\ Overlaps /\ ImportsStay /\ ImportsServed /\ OkInv
<1>1. Init => Inv
  BY TypeInit, InvInit
<1>2. Inv /\ [Next]_vars => Inv'
  BY TypeStep, GraphStep, OverlapsStep, StayStep, ServedStep, OkStep
<1>3. Inv => OkMeansServed
  <2> SUFFICES ASSUME OkInv PROVE OkMeansServed
    OBVIOUS
  <2> QED
    BY DEF OkInv, OkMeansServed
<1> HIDE DEF Inv
<1> QED
  BY <1>1, <1>2, <1>3, PTL DEF FairSpec

\* With --verify-live-db the reports are true: a connector that
\* live-ingestion-status calls fresh has been imported since the run behind the
\* report began, unless an import of another run overlapped it, and what
\* dagster_status calls ok is served.
THEOREM ReportsTrue ==
    ASSUME VerifyLiveDb
    PROVE  FairSpec => []ReportsAreTrue
<1> DEFINE Inv == /\ TypeOK /\ WithinGraph /\ Overlaps /\ ImportsStay /\ ImportsServed
                  /\ FreshInv /\ OkInv
<1>1. Init => Inv
  BY TypeInit, InvInit
<1>2. Inv /\ [Next]_vars => Inv'
  BY TypeStep, GraphStep, OverlapsStep, StayStep, ServedStep, FreshStep, OkStep
<1>3. Inv => ReportsAreTrue
  <2> SUFFICES ASSUME FreshInv, OkInv PROVE ReportsAreTrue
    OBVIOUS
  <2> QED
    BY DEF FreshInv, OkInv, ReportsAreTrue, FreshMeansImported, OkMeansServed
<1> HIDE DEF Inv
<1> QED
  BY <1>1, <1>2, <1>3, PTL DEF FairSpec
=============================================================================
