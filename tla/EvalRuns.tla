------------------------------- MODULE EvalRuns -------------------------------
(***************************************************************************)
(* Evaluation runs on the server: the generator that drives a run for the  *)
(* lifetime of its POST /evals/run (evals/router.py), the results it       *)
(* stores case by case (evals/service.py), the start-up pass (db.py), the  *)
(* hand verdicts, and the report that is computed from the stored results  *)
(* (evals/report.py).                                                      *)
(*                                                                         *)
(* A model answer is abstracted to whether the case passed: a backend      *)
(* error, a failed assertion and a low judge score all are "not ok".  A    *)
(* model stands for a (model_id, backend) pair.  Result ids are positions  *)
(* in the table; created_at follows them, as a result is committed in the  *)
(* step that creates it.                                                   *)
(***************************************************************************)
EXTENDS Naturals, Sequences, FiniteSets

CONSTANTS
  Models,      \* (model_id, backend) pairs
  Categories,  \* the categories of test cases
  Outcomes,    \* what may come of a case: TRUE (it passed), FALSE
  MaxRuns,     \* bound: run ids are 1..MaxRuns
  MaxCases,    \* bound: case ids are 1..MaxCases, in the order of their file names
  MaxReviewed, \* bound: results that carry a verdict at the same time
  None         \* no category, no verdict, no model

ASSUME EvalRunsAssumption ==
  /\ MaxRuns \in Nat /\ MaxCases \in Nat /\ MaxReviewed \in Nat
  /\ Outcomes \subseteq BOOLEAN
  /\ None \notin Models /\ None \notin Categories /\ None \notin {"pass", "fail"}

VARIABLES
  category,  \* the dataset: the category of a case, None if there is no such file
  run,       \* the table eval_runs
  gen,       \* the generator of a run: where it is, the cases it has in memory, and those
             \* of them its loop has still to take
  results    \* the table eval_results

vars == <<category, run, gen, results>>

RunIds  == 1..MaxRuns
CaseIds == 1..MaxCases
Verdicts == {"pass", "fail"}
Ended    == {"completed", "failed"}

Case   == [id : CaseIds, category : Categories]
Result == [run : RunIds, case : CaseIds, category : Categories,
           ok : Outcomes, verdict : Verdicts \union {None}]
Run    == [status : {"absent", "running"} \union Ended, model : Models \union {None},
           total : 0..MaxCases, completed : 0..MaxCases]
\* A generator is about to take a case, inside one, has stored a result without having
\* counted it, or is in its finally block with the status it is about to record.
Places == {"none", "ready", "case", "stored"} \union Ended

TypeOK ==
  /\ category \in [CaseIds -> Categories \union {None}]
  /\ run \in [RunIds -> Run]
  /\ gen \in [RunIds -> [at : Places, cases : SUBSET Case, left : SUBSET Case]]
  /\ results \in Seq(Result)

NoGen == [at |-> "none", cases |-> {}, left |-> {}]
NoRun == [status |-> "absent", model |-> None, total |-> 0, completed |-> 0]

Init ==
  /\ category \in [CaseIds -> Categories \union {None}]
  /\ run = [r \in RunIds |-> NoRun]
  /\ gen = [r \in RunIds |-> NoGen]
  /\ results = <<>>

\* The rows of a run in the table, by their ids.
ResultsOf(r) == {i \in 1..Len(results) : results[i].run = r}

-----------------------------------------------------------------------------
\* The dataset is edited at any time, also under a running run.

\* create_case, update_case and delete_case.
EditCase(c) ==
  /\ \E k \in Categories \union {None} :
       /\ k # category[c]
       /\ category' = [category EXCEPT ![c] = k]
  /\ UNCHANGED <<run, gen, results>>

\* load_cases: the cases of one category, or all.
LoadCases(filter) ==
  {[id |-> c, category |-> category[c]] :
     c \in {k \in CaseIds : category[k] # None /\ filter \in {None, category[k]}}}

\* They are sorted by id, so this is the one the loop takes next.
First(cases) == CHOOSE c \in cases : \A d \in cases : c.id <= d.id

-----------------------------------------------------------------------------
\* start_eval_run and _run_events.

StartRun(r, m, filter) ==
  /\ run[r].status = "absent" /\ \A s \in RunIds : s < r => run[s].status # "absent"
  /\ LET cases == LoadCases(filter) IN
       /\ run' = [run EXCEPT ![r] = [status |-> "running", model |-> m,
                                     total |-> Cardinality(cases), completed |-> 0]]
       /\ gen' = [gen EXCEPT ![r] = [at |-> "ready", cases |-> cases, left |-> cases]]
  /\ UNCHANGED <<category, results>>

Goto(r, place) == gen' = [gen EXCEPT ![r].at = place]

\* The loop takes the next case and reports it; without one the run is complete.
NextCase(r) ==
  /\ gen[r].at = "ready"
  /\ Goto(r, IF gen[r].left # {} THEN "case" ELSE "completed")
  /\ UNCHANGED <<category, run, results>>

\* The result of a case is inserted, and the loop has one case less to take.
Insert(r, case, k) ==
  /\ \E ok \in Outcomes :
       results' = Append(results, [run |-> r, case |-> case.id, category |-> k,
                                   ok |-> ok, verdict |-> None])
  /\ gen' = [gen EXCEPT ![r].at = "stored", ![r].left = @ \ {case}]
  /\ UNCHANGED <<category, run>>

\* Mutant: the category of the case is read again when its result is stored.
StoreResultAsItIsNow(r) ==
  /\ gen[r].at = "case"
  /\ LET case == First(gen[r].left) IN Insert(r, case, category[case.id])

\* run_one_case came back: whatever the model and the judge did is on the result.
StoreResult(r) ==
  /\ gen[r].at = "case"
  /\ LET case == First(gen[r].left) IN Insert(r, case, case.category)

\* The second commit of a case.
CountResult(r) ==
  /\ gen[r].at = "stored"
  /\ run' = [run EXCEPT ![r].completed = @ + 1]
  /\ Goto(r, "ready")
  /\ UNCHANGED <<category, results>>

\* Mutant: an exception moves on to the end without marking the run as failed.
EscapeAsDone(r) ==
  /\ gen[r].at = "case"
  /\ Goto(r, "completed")
  /\ UNCHANGED <<category, run, results>>

\* Something ends the case before its result is stored: an expected tool that is not
\* registered, a pattern that is no regular expression, or the client that goes away,
\* which cancels the generator where it awaits or closes it where it yields.  Between
\* storing a result and the next event there is no place to do so.
Escape(r) ==
  /\ gen[r].at = "case"
  /\ Goto(r, "failed")
  /\ UNCHANGED <<category, run, results>>

\* The finally block: the backends are closed, which is taken to succeed, and the
\* outcome is committed.
EndRun(r) ==
  /\ gen[r].at \in Ended
  /\ run' = [run EXCEPT ![r].status = gen[r].at]
  /\ gen' = [gen EXCEPT ![r] = NoGen]
  /\ UNCHANGED <<category, results>>

\* Mutant: only the runs without a stored result are failed.
RestartSparesStarted ==
  /\ gen' = [r \in RunIds |-> NoGen]
  /\ run' = [r \in RunIds |-> IF run[r].status = "running" /\ run[r].completed = 0
                              THEN [run[r] EXCEPT !.status = "failed"] ELSE run[r]]
  /\ UNCHANGED <<category, results>>

\* The server is stopped or crashes and starts again: fail_interrupted_jobs.
Restart ==
  /\ gen' = [r \in RunIds |-> NoGen]
  /\ run' = [r \in RunIds |-> IF run[r].status = "running"
                              THEN [run[r] EXCEPT !.status = "failed"] ELSE run[r]]
  /\ UNCHANGED <<category, results>>

-----------------------------------------------------------------------------
\* update_eval_result: the verdict of a result is set, changed or cleared.
UpdateResult(i, v) ==
  /\ v # None => Cardinality({j \in 1..Len(results) : j # i /\ results[j].verdict # None})
                   < MaxReviewed
  /\ results' = [results EXCEPT ![i].verdict = v]
  /\ UNCHANGED <<category, run, gen>>

Drive ==
  \/ \E c \in CaseIds : EditCase(c)
  \/ \E r \in RunIds, m \in Models, f \in Categories \union {None} : StartRun(r, m, f)
  \/ \E r \in RunIds :
       NextCase(r) \/ StoreResult(r) \/ CountResult(r) \/ Escape(r) \/ EndRun(r)
  \/ Restart

Next ==
  \/ Drive
  \/ \E i \in 1..Len(results), v \in Verdicts \union {None} : UpdateResult(i, v)

Spec == Init /\ [][Next]_vars

-----------------------------------------------------------------------------
(***************************************************************************)
(* The report.                                                             *)
(***************************************************************************)

\* result_passed: the verdict of a reviewer, or else the outcome.
Passed(x) == IF x.verdict = None THEN x.ok ELSE x.verdict = "pass"

\* Result i is an answer of model m, and j another one for the same case.
Of(m, i)   == run[results[i].run].model = m
Again(i, j) == Of(run[results[i].run].model, j) /\ results[j].case = results[i].case

\* Mutant: the first result of a case stays the one that counts.
FirstCounts(m) ==
  {i \in 1..Len(results) : Of(m, i) /\ \A j \in 1..(i - 1) : ~Again(i, j)}

\* Mutant: a case counts once per category it ever had.
PerCategoryCounts(m) ==
  {i \in 1..Len(results) : Of(m, i) /\ \A j \in (i + 1)..Len(results) :
                            ~(Again(i, j) /\ results[j].category = results[i].category)}

\* latest_by_case: of each case, the result of model m that no later one replaces.
Counted(m) ==
  {i \in 1..Len(results) : Of(m, i) /\ \A j \in (i + 1)..Len(results) : ~Again(i, j)}

\* The row of one category; the report has it when it has a case.
Row(counted, k) ==
  LET cell == {i \in counted : results[i].category = k} IN
  [cases  |-> Cardinality(cell),
   passed |-> Cardinality({i \in cell : Passed(results[i])}),
   latestRun |-> {results[i].run : i \in {n \in cell : \A j \in cell : j <= n}}]

\* build_eval_report.
Report ==
  [m \in Models |-> LET counted == Counted(m) IN [k \in Categories |-> Row(counted, k)]]

-----------------------------------------------------------------------------
(***************************************************************************)
(* Properties.                                                             *)
(***************************************************************************)

\* A run is shown as running exactly as long as its generator is alive, whatever
\* ended it: the last case, an exception, a client that left, a restart.
RunningIsDriven ==
  /\ TypeOK
  /\ \A r \in RunIds : run[r].status = "running" <=> gen[r].at # "none"

\* The results of a run are those of the cases it has taken, as they were when it was
\* started, in their order, none twice; the counter agrees with them but for the result
\* that is being counted, which a restart may leave uncounted for ever.
ResultsFollowCases ==
  \A r \in RunIds :
    LET mine == ResultsOf(r)
        n    == Cardinality(mine)
    IN
    /\ \A i, j \in mine : i < j => results[i].case < results[j].case
    /\ n = run[r].completed \/ (n = run[r].completed + 1
                                /\ (gen[r].at = "stored" \/ run[r].status = "failed"))
    /\ gen[r].at # "none" =>
         {[id |-> results[i].case, category |-> results[i].category] : i \in mine}
           = gen[r].cases \ gen[r].left
    /\ run[r].status = "completed" => n = run[r].total

\* The rows of a model add up to the cases it ever answered, each counted once however
\* often it was run and wherever it was moved, and a row names a run of that model.
ReportCountsOnce ==
  \A m \in Models :
    LET rows     == Report[m]
        answered == {results[i].case : i \in {j \in 1..Len(results) : Of(m, j)}}
        places   == UNION {{k} \X (1..rows[k].cases) : k \in Categories}  \* as many as all rows say
    IN
    /\ Cardinality(places) = Cardinality(answered)
    /\ \A k \in Categories : \A r \in rows[k].latestRun : run[r].model = m

\* The report moves only with what it counts: a new result, or a verdict on the
\* latest result of a case.  Editing the dataset, the end of a run, and a verdict on
\* a result that a later run has replaced leave every row as it was.
ReportMovesWithLatest ==
  [][\/ Len(results') = Len(results) + 1
     \/ \E i \in 1..Len(results) :
          /\ Passed(results'[i]) # Passed(results[i])
          /\ \A j \in (i + 1)..Len(results) : ~Again(i, j)
     \/ Report' = Report]_vars

\* What a run promises its observers.
Lifecycle == INSTANCE RunLifecycle WITH
  Runs <- RunIds, MaxTotal <- MaxCases,
  status <- [r \in RunIds |-> run[r].status],
  total  <- [r \in RunIds |-> run[r].total],
  stored <- [r \in RunIds |-> Cardinality(ResultsOf(r))]

\* Results arrive one at a time and only while the run is running, a completed run
\* has them all, and an ended run never changes.
ImplementsRunLifecycle == Lifecycle!Spec
=============================================================================
