--------------------------- MODULE EvalReviewProofs ---------------------------
(***************************************************************************)
(* Proofs about the runs (EvalRuns) and the page that reviews one          *)
(* (EvalReview).  Of the runs: their types, the inductive invariant        *)
(* RunsInv with the two safety properties it contains, that they implement *)
(* RunLifecycle, and that the report moves only with the latest result of  *)
(* a case.  Of the page: the invariant ReviewInv of the run and its page,  *)
(* the completeness of an ended page, the verdicts it shows, and the       *)
(* agreement of its panel, its list and its counts.                        *)
(***************************************************************************)
EXTENDS EvalReview, FiniteSetTheorems, WellFoundedInduction, TLAPS

(***************************************************************************)
(* The inductive invariant.                                                *)
(***************************************************************************)

\* The cases a run has stored a result of, as the generator read them.
Taken(r) == {[id |-> results[i].case, category |-> results[i].category] : i \in ResultsOf(r)}

\* What holds of the generator of run r while it is alive: its loop takes the cases in
\* their order, and the results of the run are those of the cases it has taken.
GenInv(r) ==
  LET g == gen[r] IN
  /\ g.left \subseteq g.cases
  /\ \A c, d \in g.cases : c.id = d.id => c = d
  /\ \A c \in g.cases \ g.left, d \in g.left : c.id < d.id
  /\ Taken(r) = g.cases \ g.left
  /\ Cardinality(ResultsOf(r)) + Cardinality(g.left) = run[r].total
  /\ g.at = "case" => g.left # {}
  /\ g.at = "completed" => g.left = {}

\* How many results run r has, at each place of its life.
CountInv(r) ==
  LET n == Cardinality(ResultsOf(r)) IN
  /\ run[r].status = "absent" => ResultsOf(r) = {} /\ run[r].completed = 0 /\ run[r].total = 0
  /\ gen[r].at = "stored" => n = run[r].completed + 1
  /\ gen[r].at # "stored" /\ run[r].status # "failed" => n = run[r].completed
  /\ n \in {run[r].completed, run[r].completed + 1}
  /\ run[r].status = "completed" => n = run[r].total

RunInv(r) ==
  /\ run[r].status = "running" <=> gen[r].at # "none"
  /\ \A i, j \in ResultsOf(r) : i < j => results[i].case < results[j].case
  /\ gen[r].at # "none" => GenInv(r)
  /\ CountInv(r)

RunsInv == TypeOK /\ \A r \in RunIds : RunInv(r)

-----------------------------------------------------------------------------
(***************************************************************************)
(* The operators.                                                          *)
(***************************************************************************)

\* The generator's places, and the records of a run and of a generator before it starts.
LEMMA Blanks == NoRun \in Run /\ NoGen \in [at : Places, cases : SUBSET Case, left : SUBSET Case]
  BY EvalRunsAssumption DEF NoRun, NoGen, Run, Places

\* A set of cases with different ids is no larger than the dataset.
LEMMA FewCases ==
  ASSUME NEW S \in SUBSET Case, \A c, d \in S : c.id = d.id => c = d
  PROVE  IsFiniteSet(S) /\ Cardinality(S) \in 0..MaxCases
<1> DEFINE f == [c \in S |-> c.id]
<1>1. f \in Injection(S, CaseIds)
  BY DEF Injection, IsInjective, Case
<1>2. IsFiniteSet(CaseIds) /\ Cardinality(CaseIds) = MaxCases
  BY EvalRunsAssumption, FS_Interval DEF CaseIds
<1> HIDE DEF f
<1>3. IsFiniteSet(S) /\ Cardinality(S) <= MaxCases
  BY <1>1, <1>2, FS_Injection
<1>4. Cardinality(S) \in Nat
  BY <1>3, FS_CardinalityType
<1> QED BY <1>3, <1>4, EvalRunsAssumption

\* A set of cases that is not empty has a first one.
LEMMA FirstIsLeast ==
  ASSUME NEW S \in SUBSET Case, S # {}
  PROVE  First(S) \in S /\ \A d \in S : First(S).id <= d.id
<1> DEFINE ids == {c.id : c \in S}
<1>1. ids \subseteq Nat /\ ids # {}
  BY DEF Case, CaseIds
<1>2. PICK x \in ids : \A y \in ids : ~ (<<y, x>> \in OpToRel(<, Nat))
  BY <1>1, WFMin, NatLessThanWellFounded
<1>3. ASSUME NEW y \in ids, y < x PROVE FALSE
  <2>1. <<y, x>> \in Nat \X Nat /\ <<y, x>>[1] < <<y, x>>[2]
    BY <1>1, <1>3
  <2>2. <<y, x>> \in OpToRel(<, Nat)
    BY <2>1 DEF OpToRel
  <2> QED BY <1>2, <2>2
<1>4. PICK c \in S : x = c.id
  OBVIOUS
<1>5. \A d \in S : c.id <= d.id
  BY <1>1, <1>3, <1>4
<1> QED BY <1>5 DEF First

\* load_cases reads every file at most once.
LEMMA LoadedCases ==
  ASSUME TypeOK, NEW f \in Categories \union {None}
  PROVE  /\ LoadCases(f) \in SUBSET Case
         /\ \A c, d \in LoadCases(f) : c.id = d.id => c = d
<1> DEFINE K == {k \in CaseIds : category[k] # None /\ f \in {None, category[k]}}
<1>1. \A k \in K : k \in CaseIds /\ category[k] \in Categories
  BY DEF TypeOK
<1>2. LoadCases(f) = {[id |-> k, category |-> category[k]] : k \in K}
  BY DEF LoadCases
<1> HIDE DEF K
<1> QED BY <1>1, <1>2 DEF Case

\* The rows of a run are finitely many.
LEMMA RowsAreFinite ==
  ASSUME TypeOK, NEW r \in RunIds
  PROVE  /\ IsFiniteSet(ResultsOf(r)) /\ Cardinality(ResultsOf(r)) \in Nat
         /\ ResultsOf(r) \subseteq 1..Len(results)
<1>1. Len(results) \in Nat
  BY DEF TypeOK
<1>2. ResultsOf(r) \in SUBSET (1..Len(results))
  BY DEF ResultsOf
<1>3. IsFiniteSet(1..Len(results))
  BY <1>1, FS_Interval
<1> QED BY <1>2, <1>3, FS_Subset, FS_CardinalityType

-----------------------------------------------------------------------------
(***************************************************************************)
(* Types.                                                                  *)
(***************************************************************************)

\* The initial state has the declared types.
LEMMA InitType == Init => TypeOK
  BY Blanks DEF Init, TypeOK

\* What NextCase, Escape and CountResult write of a generator.
LEMMA GotoType ==
  ASSUME TypeOK, NEW r \in RunIds, NEW p \in Places, Goto(r, p)
  PROVE  gen' \in [RunIds -> [at : Places, cases : SUBSET Case, left : SUBSET Case]]
  BY DEF TypeOK, Goto

\* A verdict changes nothing else of its result.
LEMMA VerdictKeeps ==
  ASSUME TypeOK, NEW i \in 1..Len(results), NEW v \in Verdicts \union {None}, UpdateResult(i, v)
  PROVE  /\ results' \in Seq(Result) /\ Len(results') = Len(results)
         /\ \A j \in 1..Len(results) :
              /\ results'[j].run = results[j].run /\ results'[j].case = results[j].case
              /\ results'[j].category = results[j].category /\ results'[j].ok = results[j].ok
              /\ j # i => results'[j] = results[j]
<1>1. results' = [results EXCEPT ![i].verdict = v] /\ results \in Seq(Result)
  BY DEF TypeOK, UpdateResult
<1>2. ASSUME NEW j \in 1..Len(results) PROVE results[j] \in Result
  BY <1>1
<1>3. [results[i] EXCEPT !.verdict = v] \in Result
  BY <1>2 DEF Result
<1>4. results' = [results EXCEPT ![i] = [results[i] EXCEPT !.verdict = v]]
  BY <1>1
<1>5. results' \in Seq(Result) /\ Len(results') = Len(results)
  BY <1>1, <1>3, <1>4
<1>6. ASSUME NEW j \in 1..Len(results)
      PROVE  results'[j] = IF j = i THEN [results[i] EXCEPT !.verdict = v] ELSE results[j]
  BY <1>1, <1>4
<1>7. ASSUME NEW j \in 1..Len(results)
      PROVE  /\ results'[j].run = results[j].run /\ results'[j].case = results[j].case
             /\ results'[j].category = results[j].category /\ results'[j].ok = results[j].ok
             /\ j # i => results'[j] = results[j]
  BY <1>2, <1>6 DEF Result
<1> QED BY <1>5, <1>7

\* A new result is a row of its own run, after all others.
LEMMA AppendRow ==
  ASSUME TypeOK, NEW x \in Result, results' = Append(results, x)
  PROVE  /\ results' \in Seq(Result) /\ Len(results') = Len(results) + 1
         /\ \A i \in 1..Len(results) : results'[i] = results[i]
         /\ results'[Len(results) + 1] = x
         /\ \A r \in RunIds : ResultsOf(r)' =
              IF x.run = r THEN ResultsOf(r) \union {Len(results) + 1} ELSE ResultsOf(r)
<1>1. results \in Seq(Result) /\ Len(results) \in Nat
  BY DEF TypeOK
<1>2. /\ results' \in Seq(Result) /\ Len(results') = Len(results) + 1
      /\ \A i \in 1..Len(results) : results'[i] = results[i]
      /\ results'[Len(results) + 1] = x
  BY <1>1
<1>3. ASSUME NEW r \in RunIds, NEW i
      PROVE  i \in ResultsOf(r)' <=> i \in ResultsOf(r) \/ (i = Len(results) + 1 /\ x.run = r)
  BY <1>1, <1>2 DEF ResultsOf
<1>4. ASSUME NEW r \in RunIds
      PROVE  ResultsOf(r)' =
               IF x.run = r THEN ResultsOf(r) \union {Len(results) + 1} ELSE ResultsOf(r)
  BY <1>3
<1> QED BY <1>2, <1>4

\* What a stored result looks like, whatever came of the case.
LEMMA StoreRow ==
  ASSUME TypeOK, NEW r \in RunIds, RunInv(r), StoreResult(r)
  PROVE  /\ First(gen[r].left) \in gen[r].left
         /\ \A d \in gen[r].left : First(gen[r].left).id <= d.id
         /\ \E x \in Result : /\ results' = Append(results, x) /\ x.run = r
                              /\ x.case = First(gen[r].left).id
                              /\ x.category = First(gen[r].left).category
         /\ gen' = [gen EXCEPT ![r].at = "stored", ![r].left = @ \ {First(gen[r].left)}]
<1> DEFINE c == First(gen[r].left)
<1>1. gen[r].left \in SUBSET Case /\ gen[r].left # {}
  BY DEF TypeOK, RunInv, GenInv, StoreResult
<1>2. c \in gen[r].left /\ \A d \in gen[r].left : c.id <= d.id
  BY <1>1, FirstIsLeast
<1>3. c \in Case
  BY <1>1, <1>2
<1> HIDE DEF c
<1>4. PICK ok \in Outcomes :
        results' = Append(results, [run |-> r, case |-> c.id, category |-> c.category,
                                    ok |-> ok, verdict |-> None])
  BY DEF StoreResult, Insert, c
<1>5. [run |-> r, case |-> c.id, category |-> c.category, ok |-> ok, verdict |-> None] \in Result
  BY <1>3 DEF Result, Case
<1>6. gen' = [gen EXCEPT ![r].at = "stored", ![r].left = @ \ {c}]
  BY DEF StoreResult, Insert, c
<1> QED BY <1>2, <1>4, <1>5, <1>6 DEF c

\* A run whose row, generator and results are left alone stays as it is.
LEMMA RunKept ==
  ASSUME NEW r \in RunIds, RunInv(r), run'[r] = run[r], gen'[r] = gen[r],
         ResultsOf(r)' = ResultsOf(r),
         \A i \in ResultsOf(r) : /\ results'[i].case = results[i].case
                                 /\ results'[i].category = results[i].category
  PROVE  RunInv(r)'
<1>1. Taken(r)' = Taken(r)
  BY DEF Taken
<1> QED BY <1>1 DEF RunInv, GenInv, CountInv

\* So does one whose results alone are left alone, as long as its row and its generator
\* fit the number of its results.
LEMMA SameResults ==
  ASSUME NEW r \in RunIds, UNCHANGED results
  PROVE  ResultsOf(r)' = ResultsOf(r) /\ Taken(r)' = Taken(r)
  BY DEF ResultsOf, Taken

-----------------------------------------------------------------------------
(***************************************************************************)
(* The invariant is inductive.                                             *)
(***************************************************************************)

\* No run has started: none has a result.
LEMMA InitInv == Init => RunsInv
<1> SUFFICES ASSUME Init PROVE RunsInv
  OBVIOUS
<1>1. TypeOK
  BY InitType
<1>2. ASSUME NEW r \in RunIds PROVE RunInv(r)
  <2>1. run[r] = NoRun /\ gen[r] = NoGen
    BY DEF Init
  <2>2. ResultsOf(r) = {}
    BY DEF Init, ResultsOf
  <2>3. Cardinality(ResultsOf(r)) = 0
    BY <2>2, FS_EmptySet
  <2> QED BY <2>1, <2>2, <2>3 DEF RunInv, CountInv, NoRun, NoGen
<1> QED BY <1>1, <1>2 DEF RunsInv

\* A run that starts has all its cases before it.
LEMMA StartRunInv ==
  ASSUME RunsInv, NEW r \in RunIds, NEW m \in Models, NEW f \in Categories \union {None},
         StartRun(r, m, f)
  PROVE  RunsInv'
<1> DEFINE cs == LoadCases(f)
<1>0. TypeOK /\ \A s \in RunIds : RunInv(s)
  BY DEF RunsInv
<1>1. cs \in SUBSET Case /\ \A c, d \in cs : c.id = d.id => c = d
  BY <1>0, LoadedCases
<1>2. IsFiniteSet(cs) /\ Cardinality(cs) \in 0..MaxCases
  BY <1>1, FewCases
<1>3. /\ run' = [run EXCEPT ![r] = [status |-> "running", model |-> m,
                                    total |-> Cardinality(cs), completed |-> 0]]
      /\ gen' = [gen EXCEPT ![r] = [at |-> "ready", cases |-> cs, left |-> cs]]
      /\ run[r].status = "absent" /\ UNCHANGED <<category, results>>
  BY DEF StartRun
<1> HIDE DEF cs
<1>4. TypeOK'
  <2>1. [status |-> "running", model |-> m, total |-> Cardinality(cs), completed |-> 0] \in Run
    BY <1>2, EvalRunsAssumption DEF Run
  <2>2. [at |-> "ready", cases |-> cs, left |-> cs]
          \in [at : Places, cases : SUBSET Case, left : SUBSET Case]
    BY <1>1 DEF Places
  <2> QED BY <1>0, <1>3, <2>1, <2>2 DEF TypeOK
<1>5. RunInv(r)'
  <2>1. ResultsOf(r) = {} /\ Cardinality(ResultsOf(r)) = 0
    BY <1>0, <1>3, FS_EmptySet DEF RunInv, CountInv
  <2>2. ResultsOf(r)' = {} /\ Cardinality(ResultsOf(r))' = 0 /\ Taken(r)' = {}
    BY <1>3, <2>1, SameResults DEF Taken
  <2>3. run'[r] = [status |-> "running", model |-> m, total |-> Cardinality(cs), completed |-> 0]
        /\ gen'[r] = [at |-> "ready", cases |-> cs, left |-> cs]
    BY <1>0, <1>3 DEF TypeOK
  <2> QED BY <1>1, <1>2, <2>2, <2>3 DEF RunInv, GenInv, CountInv
<1>6. ASSUME NEW s \in RunIds, s # r PROVE RunInv(s)'
  <2>1. run'[s] = run[s] /\ gen'[s] = gen[s]
    BY <1>0, <1>3, <1>6 DEF TypeOK
  <2> QED BY <1>0, <1>3, <2>1, SameResults, RunKept
<1> QED BY <1>4, <1>5, <1>6 DEF RunsInv

\* A generator that moves on without storing or counting anything.
LEMMA MoveInv ==
  ASSUME RunsInv, NEW r \in RunIds, NextCase(r) \/ Escape(r)
  PROVE  RunsInv'
<1>0. TypeOK /\ \A s \in RunIds : RunInv(s)
  BY DEF RunsInv
<1>1. PICK p \in Places : Goto(r, p) /\ p \notin {"none", "stored"}
                          /\ (p = "case" => gen[r].left # {})
                          /\ (p = "completed" => gen[r].left = {})
  BY DEF NextCase, Escape, Places, Ended
<1>2. gen[r].at \notin {"none", "stored"} /\ UNCHANGED <<category, run, results>>
  BY DEF NextCase, Escape
<1>3. TypeOK'
  BY <1>0, <1>1, <1>2, GotoType DEF TypeOK
<1>4. ASSUME NEW s \in RunIds PROVE RunInv(s)'
  <2>1. ResultsOf(s)' = ResultsOf(s) /\ Taken(s)' = Taken(s)
    BY <1>2, SameResults
  <2>2. CASE s # r
    <3>1. gen'[s] = gen[s]
      BY <1>0, <1>1, <2>2 DEF TypeOK, Goto
    <3> QED BY <1>0, <1>2, <3>1, <2>1, RunKept
  <2>3. CASE s = r
    <3>1. gen'[r].at = p /\ gen'[r].cases = gen[r].cases /\ gen'[r].left = gen[r].left
      BY <1>0, <1>1 DEF TypeOK, Goto
    <3>2. GenInv(r)'
      BY <1>0, <1>1, <1>2, <2>1, <2>3, <3>1 DEF RunInv, GenInv
    <3>3. CountInv(r)'
      BY <1>0, <1>1, <1>2, <2>1, <2>3, <3>1 DEF RunInv, CountInv
    <3> QED BY <1>0, <1>1, <1>2, <2>1, <2>3, <3>1, <3>2, <3>3 DEF RunInv
  <2> QED BY <2>2, <2>3
<1> QED BY <1>3, <1>4 DEF RunsInv

\* A stored result is that of the first case left, behind those of all earlier cases.
LEMMA StoreResultInv ==
  ASSUME RunsInv, NEW r \in RunIds, StoreResult(r)
  PROVE  RunsInv'
<1> DEFINE c == First(gen[r].left)
           k == Len(results) + 1
<1>0. TypeOK /\ \A s \in RunIds : RunInv(s)
  BY DEF RunsInv
<1>1. gen[r].at = "case" /\ UNCHANGED <<category, run>>
  BY DEF StoreResult, Insert
<1>2. /\ c \in gen[r].left /\ \A d \in gen[r].left : c.id <= d.id
      /\ gen' = [gen EXCEPT ![r].at = "stored", ![r].left = @ \ {c}]
      /\ \E x \in Result : results' = Append(results, x) /\ x.run = r
                           /\ x.case = c.id /\ x.category = c.category
  BY <1>0, StoreRow
<1> HIDE DEF c
<1>3. PICK x \in Result : results' = Append(results, x) /\ x.run = r
                          /\ x.case = c.id /\ x.category = c.category
  BY <1>2
<1>4. /\ results' \in Seq(Result)
      /\ \A i \in 1..Len(results) : results'[i] = results[i]
      /\ results'[k] = x
      /\ \A s \in RunIds : ResultsOf(s)' = IF s = r THEN ResultsOf(s) \union {k} ELSE ResultsOf(s)
  BY <1>0, <1>3, AppendRow
<1>5. \A s \in RunIds : ResultsOf(s) \subseteq 1..Len(results) /\ Len(results) \in Nat
  BY <1>0, RowsAreFinite DEF TypeOK
<1>6. /\ gen'[r].at = "stored" /\ gen'[r].cases = gen[r].cases /\ gen'[r].left = gen[r].left \ {c}
      /\ \A s \in RunIds : s # r => gen'[s] = gen[s]
      /\ gen' \in [RunIds -> [at : Places, cases : SUBSET Case, left : SUBSET Case]]
  BY <1>0, <1>2 DEF TypeOK, Places
<1>7. TypeOK'
  BY <1>0, <1>1, <1>4, <1>6 DEF TypeOK
<1>8. RunInv(r)'
  <2>1. GenInv(r) /\ CountInv(r) /\ run[r].status = "running"
    BY <1>0, <1>1 DEF RunInv
  <2>2. gen[r].cases \subseteq Case /\ gen[r].left \subseteq gen[r].cases /\ c \in gen[r].cases
    BY <1>0, <1>2, <2>1 DEF TypeOK, GenInv
  <2>3. c \in Case /\ c = [id |-> c.id, category |-> c.category]
    BY <2>2 DEF Case
  <2>4. Taken(r)' = Taken(r) \union {c}
    <3>1. /\ \A i \in ResultsOf(r) : results'[i].case = results[i].case
                                     /\ results'[i].category = results[i].category
          /\ results'[k].case = c.id /\ results'[k].category = c.category
          /\ ResultsOf(r)' = ResultsOf(r) \union {k}
      BY <1>3, <1>4, <1>5
    <3> QED BY <2>3, <3>1 DEF Taken
  <2>5. Taken(r)' = gen'[r].cases \ gen'[r].left
    BY <1>2, <1>6, <2>1, <2>2, <2>4 DEF GenInv
  <2>6. ASSUME NEW d \in gen'[r].left PROVE c.id < d.id
    <3>1. d \in gen[r].left /\ d # c /\ d \in gen[r].cases /\ d.id # c.id
      BY <1>6, <2>1, <2>2, <2>6 DEF GenInv
    <3>2. d.id \in Nat /\ c.id \in Nat /\ c.id <= d.id
      BY <1>2, <2>2, <3>1 DEF Case, CaseIds
    <3> QED BY <3>1, <3>2
  <2>7. \A e \in gen'[r].cases \ gen'[r].left, d \in gen'[r].left : e.id < d.id
    BY <1>6, <2>1, <2>6 DEF GenInv
  <2>8. /\ Cardinality(ResultsOf(r))' = Cardinality(ResultsOf(r)) + 1
        /\ Cardinality(gen'[r].left) = Cardinality(gen[r].left) - 1
        /\ Cardinality(ResultsOf(r)) \in Nat /\ Cardinality(gen[r].left) \in Nat
    <3>1. IsFiniteSet(gen[r].left)
      BY <2>1, <2>2, FewCases DEF GenInv
    <3>2. IsFiniteSet(ResultsOf(r)) /\ k \notin ResultsOf(r) /\ Cardinality(ResultsOf(r)) \in Nat
      BY <1>0, <1>5, RowsAreFinite
    <3>3. ResultsOf(r)' = ResultsOf(r) \union {k}
      BY <1>4
    <3>4. Cardinality(ResultsOf(r) \union {k}) = Cardinality(ResultsOf(r)) + 1
      BY <3>2, FS_AddElement
    <3>5. Cardinality(gen[r].left \ {c}) = Cardinality(gen[r].left) - 1
      BY <3>1, <1>2, FS_RemoveElement
    <3>6. Cardinality(gen[r].left) \in Nat
      BY <3>1, FS_CardinalityType
    <3> QED BY <1>6, <3>2, <3>3, <3>4, <3>5, <3>6
  <2>9. GenInv(r)'
    <3>1. gen'[r].left \subseteq gen'[r].cases
      BY <1>6, <2>2
    <3>2. \A a, b \in gen'[r].cases : a.id = b.id => a = b
      BY <1>6, <2>1 DEF GenInv
    <3>3. run[r].total \in Nat
      BY <1>0 DEF TypeOK, Run
    <3>4. Cardinality(ResultsOf(r))' + Cardinality(gen'[r].left) = run'[r].total
      BY <1>1, <2>1, <2>8, <3>3 DEF GenInv
    <3> QED BY <1>6, <2>5, <2>7, <3>1, <3>2, <3>4 DEF GenInv
  <2>10. CountInv(r)'
    BY <1>1, <1>6, <2>1, <2>8 DEF CountInv
  <2>11. \A i, j \in ResultsOf(r)' : i < j => results'[i].case < results'[j].case
    <3>1. ASSUME NEW i \in ResultsOf(r) PROVE results[i].case < c.id
      <4>1. [id |-> results[i].case, category |-> results[i].category] \in gen[r].cases \ gen[r].left
        BY <2>1 DEF GenInv, Taken
      <4> QED BY <1>2, <2>1, <4>1 DEF GenInv
    <3>2. /\ \A i \in ResultsOf(r) : results'[i] = results[i]
          /\ \A i \in ResultsOf(r) : i \in 1..Len(results)
      BY <1>4, <1>5
    <3>3. \A i, j \in ResultsOf(r) : i < j => results[i].case < results[j].case
      BY <1>0 DEF RunInv
    <3>4. ResultsOf(r)' = ResultsOf(r) \union {k}
      BY <1>4
    <3> QED BY <1>3, <1>4, <1>5, <3>1, <3>2, <3>3, <3>4
  <2> QED BY <1>1, <1>6, <2>1, <2>9, <2>10, <2>11 DEF RunInv
<1>9. ASSUME NEW s \in RunIds, s # r PROVE RunInv(s)'
  <2>1. /\ run'[s] = run[s] /\ gen'[s] = gen[s] /\ ResultsOf(s)' = ResultsOf(s)
        /\ \A i \in ResultsOf(s) : results'[i] = results[i]
    BY <1>1, <1>4, <1>5, <1>6, <1>9
  <2> QED BY <1>0, <2>1, RunKept
<1> QED BY <1>7, <1>8, <1>9 DEF RunsInv

\* Counting a result that is stored: there is a case for it in the total.
LEMMA CountResultInv ==
  ASSUME RunsInv, NEW r \in RunIds, CountResult(r)
  PROVE  RunsInv'
<1>0. TypeOK /\ \A s \in RunIds : RunInv(s)
  BY DEF RunsInv
<1>1. gen[r].at = "stored" /\ Goto(r, "ready") /\ UNCHANGED <<category, results>>
      /\ run' = [run EXCEPT ![r].completed = @ + 1]
  BY DEF CountResult
<1>2. GenInv(r) /\ CountInv(r) /\ run[r].status = "running"
  BY <1>0, <1>1 DEF RunInv
<1>3. run[r] \in Run /\ gen[r].cases \subseteq Case
  BY <1>0 DEF TypeOK
<1>4. run[r].completed + 1 \in 0..MaxCases
  <2>1. Cardinality(ResultsOf(r)) \in Nat /\ Cardinality(gen[r].left) \in Nat
    BY <1>0, <1>2, <1>3, RowsAreFinite, FewCases DEF GenInv
  <2>2. run[r].total \in 0..MaxCases /\ run[r].completed \in 0..MaxCases
    BY <1>3 DEF Run
  <2> QED BY <1>1, <1>2, <2>1, <2>2, EvalRunsAssumption DEF GenInv, CountInv
<1>5. /\ run' \in [RunIds -> Run] /\ run'[r].completed = run[r].completed + 1
      /\ run'[r].status = run[r].status /\ run'[r].total = run[r].total
      /\ \A s \in RunIds : s # r => run'[s] = run[s]
  BY <1>0, <1>1, <1>3, <1>4 DEF TypeOK, Run
<1>6. /\ gen'[r].at = "ready" /\ gen'[r].cases = gen[r].cases /\ gen'[r].left = gen[r].left
      /\ \A s \in RunIds : s # r => gen'[s] = gen[s]
  BY <1>0, <1>1 DEF TypeOK, Goto
<1>7. TypeOK'
  BY <1>0, <1>1, <1>5, GotoType DEF TypeOK, Places
<1>8. RunInv(r)'
  <2>1. ResultsOf(r)' = ResultsOf(r) /\ Taken(r)' = Taken(r)
    BY <1>1, SameResults
  <2>2. GenInv(r)'
    BY <1>2, <1>5, <1>6, <2>1 DEF GenInv
  <2>3. CountInv(r)'
    BY <1>1, <1>2, <1>5, <1>6, <2>1 DEF CountInv
  <2> QED BY <1>0, <1>1, <1>2, <1>5, <1>6, <2>1, <2>2, <2>3 DEF RunInv
<1>9. ASSUME NEW s \in RunIds, s # r PROVE RunInv(s)'
  BY <1>0, <1>1, <1>5, <1>6, <1>9, SameResults, RunKept
<1> QED BY <1>7, <1>8, <1>9 DEF RunsInv

\* A run that ends, in its own time or with the server: it is "completed" only with a
\* result for every case, and "failed" may leave a result uncounted.
LEMMA EndedRun ==
  ASSUME RunsInv, NEW r \in RunIds, NEW st \in Ended, UNCHANGED results,
         gen[r].at # "none", st = "completed" => gen[r].at = "completed",
         gen'[r] = NoGen, run'[r] = [run[r] EXCEPT !.status = st]
  PROVE  run'[r] \in Run /\ RunInv(r)'
<1>1. RunInv(r) /\ GenInv(r) /\ CountInv(r) /\ run[r] \in Run /\ run[r].status = "running"
  BY DEF RunsInv, RunInv, TypeOK
<1>2. run'[r] \in Run /\ run'[r].status = st /\ run'[r].completed = run[r].completed
      /\ run'[r].total = run[r].total
  BY <1>1 DEF Run, Ended
<1>3. gen'[r].at = "none" /\ ResultsOf(r)' = ResultsOf(r)
  BY SameResults DEF NoGen
<1>4. st = "completed" => Cardinality(ResultsOf(r)) = run[r].total
  <2> SUFFICES ASSUME st = "completed" PROVE Cardinality(ResultsOf(r)) = run[r].total
    OBVIOUS
  <2>1. gen[r].at = "completed" /\ gen[r].left = {}
    BY <1>1 DEF GenInv, Ended
  <2>2. Cardinality(gen[r].left) = 0
    BY <2>1, FS_EmptySet
  <2>3. Cardinality(ResultsOf(r)) \in Nat
    BY RowsAreFinite DEF RunsInv
  <2> QED BY <1>1, <2>2, <2>3 DEF GenInv
<1>5. CountInv(r)'
  BY <1>1, <1>2, <1>3, <1>4 DEF CountInv, Ended
<1>6. \A i, j \in ResultsOf(r)' : i < j => results'[i].case < results'[j].case
  BY <1>1, <1>3 DEF RunInv
<1> QED BY <1>2, <1>3, <1>5, <1>6 DEF RunInv, Ended

\* The finally block.
LEMMA EndRunInv ==
  ASSUME RunsInv, NEW r \in RunIds, EndRun(r)
  PROVE  RunsInv'
<1>0. TypeOK /\ \A s \in RunIds : RunInv(s)
  BY DEF RunsInv
<1>1. /\ gen[r].at \in Ended /\ UNCHANGED <<category, results>>
      /\ run' = [run EXCEPT ![r].status = gen[r].at] /\ gen' = [gen EXCEPT ![r] = NoGen]
  BY DEF EndRun
<1>2. run'[r] = [run[r] EXCEPT !.status = gen[r].at] /\ gen'[r] = NoGen
      /\ \A s \in RunIds : s # r => run'[s] = run[s] /\ gen'[s] = gen[s]
  BY <1>0, <1>1 DEF TypeOK
<1>3. run'[r] \in Run /\ RunInv(r)'
  BY <1>1, <1>2, EndedRun DEF Ended
<1>4. TypeOK'
  BY <1>0, <1>1, <1>3, Blanks DEF TypeOK
<1>5. ASSUME NEW s \in RunIds, s # r PROVE RunInv(s)'
  BY <1>0, <1>1, <1>2, <1>5, SameResults, RunKept
<1> QED BY <1>3, <1>4, <1>5 DEF RunsInv

\* fail_interrupted_jobs fails every run that has a generator, and only those.
LEMMA RestartInv ==
  ASSUME RunsInv, Restart
  PROVE  RunsInv'
<1>0. TypeOK /\ \A s \in RunIds : RunInv(s)
  BY DEF RunsInv
<1>1. /\ gen' = [s \in RunIds |-> NoGen] /\ UNCHANGED <<category, results>>
      /\ \A s \in RunIds : run'[s] = IF run[s].status = "running"
                                     THEN [run[s] EXCEPT !.status = "failed"] ELSE run[s]
      /\ run' = [s \in RunIds |-> run'[s]]
  BY DEF Restart
<1>2. ASSUME NEW s \in RunIds PROVE run'[s] \in Run /\ RunInv(s)'
  <2>1. gen'[s] = NoGen
    BY <1>1
  <2>2. CASE run[s].status = "running"
    <3>1. gen[s].at # "none" /\ run'[s] = [run[s] EXCEPT !.status = "failed"]
      BY <1>0, <1>1, <2>2 DEF RunInv
    <3> QED BY <1>1, <2>1, <3>1, EndedRun DEF Ended
  <2>3. CASE run[s].status # "running"
    <3>1. run'[s] = run[s] /\ gen[s].at = "none" /\ gen'[s].at = "none"
      BY <1>0, <1>1, <2>1, <2>3 DEF RunInv, NoGen
    <3>2. ResultsOf(s)' = ResultsOf(s) /\ results' = results
      BY <1>1, SameResults
    <3> QED BY <1>0, <3>1, <3>2 DEF RunInv, CountInv, TypeOK
  <2> QED BY <2>2, <2>3
<1>3. TypeOK'
  BY <1>0, <1>1, <1>2, Blanks DEF TypeOK
<1> QED BY <1>2, <1>3 DEF RunsInv

\* A verdict moves no result to another run or case.
LEMMA UpdateResultInv ==
  ASSUME RunsInv, NEW i \in 1..Len(results), NEW v \in Verdicts \union {None}, UpdateResult(i, v)
  PROVE  RunsInv'
<1>0. TypeOK /\ \A s \in RunIds : RunInv(s)
  BY DEF RunsInv
<1>1. UNCHANGED <<category, run, gen>>
  BY DEF UpdateResult
<1>2. /\ results' \in Seq(Result) /\ Len(results') = Len(results)
      /\ \A j \in 1..Len(results) :
           results'[j].run = results[j].run /\ results'[j].case = results[j].case
           /\ results'[j].category = results[j].category
  BY <1>0, VerdictKeeps
<1>3. TypeOK'
  BY <1>0, <1>1, <1>2 DEF TypeOK
<1>4. ASSUME NEW s \in RunIds PROVE RunInv(s)'
  <2>1. ResultsOf(s)' = ResultsOf(s)
    BY <1>2 DEF ResultsOf
  <2> QED BY <1>0, <1>1, <1>2, <2>1, RowsAreFinite, RunKept
<1> QED BY <1>3, <1>4 DEF RunsInv

\* The dataset is edited under the runs: they have their cases in memory.
LEMMA EditCaseInv ==
  ASSUME RunsInv, NEW c \in CaseIds, EditCase(c)
  PROVE  RunsInv'
<1>1. category' \in [CaseIds -> Categories \union {None}] /\ UNCHANGED <<run, gen, results>>
  BY DEF RunsInv, TypeOK, EditCase
<1>2. TypeOK'
  BY <1>1 DEF RunsInv, TypeOK
<1>3. ASSUME NEW s \in RunIds PROVE RunInv(s)'
  BY <1>1, SameResults, RunKept DEF RunsInv
<1> QED BY <1>2, <1>3 DEF RunsInv

\* The steps of the generators and of the dataset (Drive), also for the review page.
LEMMA DriveInv == RunsInv /\ Drive => RunsInv'
  BY StartRunInv, MoveInv, StoreResultInv, CountResultInv, EndRunInv, RestartInv, EditCaseInv DEF Drive

\* The invariant is inductive.
LEMMA StepInv == RunsInv /\ [Next]_vars => RunsInv'
<1> SUFFICES ASSUME RunsInv, [Next]_vars PROVE RunsInv'
  OBVIOUS
<1>1. CASE UNCHANGED vars
  <2>1. UNCHANGED <<category, run, gen, results>>
    BY <1>1 DEF vars
  <2>2. TypeOK'
    BY <2>1 DEF RunsInv, TypeOK
  <2>3. ASSUME NEW s \in RunIds PROVE RunInv(s)'
    BY <2>1, SameResults, RunKept DEF RunsInv
  <2> QED BY <2>2, <2>3 DEF RunsInv
<1> QED BY <1>1, DriveInv, UpdateResultInv DEF Next

-----------------------------------------------------------------------------
(***************************************************************************)
(* The theorems.                                                           *)
(***************************************************************************)

\* The inductive invariant holds: the results of a run are those of the cases it has
\* taken, and its counter is at most one behind.
THEOREM RunsSafe == Spec => []RunsInv
  BY InitInv, StepInv, PTL DEF Spec

\* The dataset, the runs, their generators and the stored results have their types.
THEOREM RunsTypeCorrect == Spec => []TypeOK
<1>1. RunsInv => TypeOK
  BY DEF RunsInv
<1> QED BY <1>1, RunsSafe, PTL

\* A run is "running" exactly as long as its generator is alive.
THEOREM RunningRunsAreDriven == Spec => []RunningIsDriven
<1>1. RunsInv => RunningIsDriven
  BY DEF RunsInv, RunInv, RunningIsDriven
<1> QED BY <1>1, RunsSafe, PTL

\* The results of a run are those of the cases it has taken, in their order and once
\* each, and a completed run has a result for every case.
THEOREM ResultsAreOfTheCases == Spec => []ResultsFollowCases
<1>1. RunsInv => ResultsFollowCases
  <2> SUFFICES ASSUME RunsInv, NEW r \in RunIds
               PROVE  LET mine == ResultsOf(r)
                          n    == Cardinality(mine)
                      IN
                      /\ \A i, j \in mine : i < j => results[i].case < results[j].case
                      /\ n = run[r].completed \/ (n = run[r].completed + 1
                                /\ (gen[r].at = "stored" \/ run[r].status = "failed"))
                      /\ gen[r].at # "none" =>
                           {[id |-> results[i].case, category |-> results[i].category] : i \in mine}
                             = gen[r].cases \ gen[r].left
                      /\ run[r].status = "completed" => n = run[r].total
    BY DEF ResultsFollowCases
  <2>1. RunInv(r)
    BY DEF RunsInv
  <2> QED BY <2>1, Zenon DEF RunInv, GenInv, CountInv, Taken
<1> QED BY <1>1, RunsSafe, PTL

\* A step is one of RunLifecycle's, or none: only StartRun, StoreResult, EndRun and
\* Restart change what an observer sees of a run.
LEMMA LifecycleStep ==
  RunsInv /\ RunsInv' /\ [Next]_vars => [Lifecycle!Next]_(Lifecycle!vars)
<1> DEFINE status == [r \in RunIds |-> run[r].status]
           total  == [r \in RunIds |-> run[r].total]
           stored == [r \in RunIds |-> Cardinality(ResultsOf(r))]
<1> SUFFICES ASSUME RunsInv, RunsInv', [Next]_vars
             PROVE  Lifecycle!Next \/ UNCHANGED <<status, total, stored>>
  BY DEF Lifecycle!vars
<1>0. TypeOK /\ TypeOK' /\ \A r \in RunIds : RunInv(r) /\ run[r] \in Run
  BY DEF RunsInv, TypeOK
<1>1. ASSUME UNCHANGED results PROVE UNCHANGED stored
  BY <1>1, SameResults
<1>2. ASSUME UNCHANGED run PROVE UNCHANGED <<status, total>>
  BY <1>2
<1>3. ASSUME NEW r \in RunIds, NEW m \in Models, NEW f \in Categories \union {None}, StartRun(r, m, f)
      PROVE  Lifecycle!Begin(r)
  <2> DEFINE n == Cardinality(LoadCases(f))
  <2>1. n \in 0..MaxCases
    BY <1>0, LoadedCases, FewCases
  <2> HIDE DEF n
  <2>2. /\ run' = [run EXCEPT ![r] = [status |-> "running", model |-> m, total |-> n, completed |-> 0]]
        /\ run[r].status = "absent" /\ UNCHANGED results
    BY <1>3 DEF StartRun, n
  <2>3. status' = [status EXCEPT ![r] = "running"] /\ total' = [total EXCEPT ![r] = n]
    BY <1>0, <2>2 DEF TypeOK
  <2> QED BY <1>1, <2>1, <2>2, <2>3 DEF Lifecycle!Begin
<1>4. ASSUME NEW r \in RunIds, StoreResult(r) PROVE Lifecycle!Store(r)
  <2>1. PICK x \in Result : results' = Append(results, x) /\ x.run = r
    BY <1>0, <1>4, StoreRow
  <2>2. /\ \A s \in RunIds : s # r => ResultsOf(s)' = ResultsOf(s)
        /\ ResultsOf(r)' = ResultsOf(r) \union {Len(results) + 1}
    BY <1>0, <2>1, AppendRow
  <2>3. /\ IsFiniteSet(ResultsOf(r)) /\ Cardinality(ResultsOf(r)) \in Nat
        /\ Len(results) + 1 \notin ResultsOf(r)
    BY <1>0, RowsAreFinite DEF TypeOK
  <2>4. Cardinality(ResultsOf(r))' = Cardinality(ResultsOf(r)) + 1
    BY <2>2, <2>3, FS_AddElement
  <2>5. stored' = [stored EXCEPT ![r] = @ + 1]
    BY <2>2, <2>4
  <2>6. GenInv(r) /\ gen[r].at = "case" /\ run[r].status = "running" /\ UNCHANGED run
    BY <1>0, <1>4 DEF RunInv, StoreResult, Insert
  <2>7. IsFiniteSet(gen[r].left) /\ gen[r].left # {}
    BY <1>0, <2>6, FewCases DEF GenInv, TypeOK
  <2>8. Cardinality(gen[r].left) \in Nat /\ Cardinality(gen[r].left) # 0
    BY <2>7, FS_CardinalityType, FS_EmptySet
  <2>9. Cardinality(ResultsOf(r)) < run[r].total
    BY <2>3, <2>6, <2>8 DEF GenInv
  <2> QED BY <1>2, <2>5, <2>6, <2>9 DEF Lifecycle!Store
<1>5. ASSUME NEW r \in RunIds, EndRun(r) PROVE \E s \in {"completed", "failed"} : Lifecycle!End(r, s)
  <2>1. PICK s \in {"completed", "failed"} :
          /\ s = gen[r].at /\ run' = [run EXCEPT ![r].status = s]
          /\ gen' = [gen EXCEPT ![r] = NoGen] /\ UNCHANGED results
    BY <1>5 DEF EndRun, Ended
  <2>2. \A q \in RunIds : /\ run'[q].status = (IF q = r THEN s ELSE run[q].status)
                          /\ run'[q].total = run[q].total
    BY <1>0, <2>1 DEF TypeOK, Run
  <2>3. status' = [status EXCEPT ![r] = s] /\ total' = total
    BY <2>2
  <2>4. run[r].status = "running"
    BY <1>0, <2>1 DEF RunInv
  <2>5. s = "completed" => Cardinality(ResultsOf(r)) = run[r].total
    <3>1. CountInv(r)' /\ run'[r].status = s /\ run'[r].total = run[r].total
      BY <1>0, <2>1 DEF RunsInv, RunInv, TypeOK
    <3> QED BY <1>0, <2>1, <3>1, SameResults DEF CountInv
  <2>6. Lifecycle!End(r, s)
    BY <1>1, <2>1, <2>4, <2>5, <2>3 DEF Lifecycle!End
  <2> QED BY <2>1, <2>6
<1>6. ASSUME Restart PROVE Lifecycle!Interrupt
  <2>1. /\ \A r \in RunIds : run'[r] = IF run[r].status = "running"
                                       THEN [run[r] EXCEPT !.status = "failed"] ELSE run[r]
        /\ UNCHANGED results
    BY <1>6 DEF Restart
  <2>2. \A r \in RunIds : /\ run'[r].status = (IF run[r].status = "running" THEN "failed" ELSE run[r].status)
                          /\ run'[r].total = run[r].total
    BY <1>0, <2>1 DEF Run
  <2>3. status' = [r \in RunIds |-> IF status[r] = "running" THEN "failed" ELSE status[r]] /\ total' = total
    BY <2>2
  <2> QED BY <1>1, <2>1, <2>3 DEF Lifecycle!Interrupt
<1>7. ASSUME NEW r \in RunIds, CountResult(r) PROVE UNCHANGED <<status, total, stored>>
  <2>1. run' = [run EXCEPT ![r].completed = @ + 1] /\ UNCHANGED results
    BY <1>7 DEF CountResult
  <2>2. \A s \in RunIds : run'[s].status = run[s].status /\ run'[s].total = run[s].total
    BY <1>0, <2>1 DEF TypeOK, Run
  <2> QED BY <1>1, <2>1, <2>2
<1>8. ASSUME NEW i \in 1..Len(results), NEW v \in Verdicts \union {None}, UpdateResult(i, v)
      PROVE  UNCHANGED <<status, total, stored>>
  <2>1. \A r \in RunIds : ResultsOf(r)' = ResultsOf(r)
    BY <1>0, <1>8, VerdictKeeps DEF ResultsOf
  <2> QED BY <1>2, <1>8, <2>1 DEF UpdateResult
<1>9. ASSUME UNCHANGED <<run, results>> PROVE UNCHANGED <<status, total, stored>>
  BY <1>1, <1>2, <1>9
<1> HIDE DEF status, total, stored
<1>10. ASSUME NEW r \in RunIds, NextCase(r) \/ Escape(r) PROVE UNCHANGED <<run, results>>
  BY <1>10 DEF NextCase, Escape
<1>11. ASSUME NEW c \in CaseIds, EditCase(c) PROVE UNCHANGED <<run, results>>
  BY <1>11 DEF EditCase
<1> QED
  BY <1>3, <1>4, <1>5, <1>6, <1>7, <1>8, <1>9, <1>10, <1>11 DEF Next, Drive, vars, Lifecycle!Next

\* The runs are a faithful implementation of the run life cycle: results arrive one at a
\* time and only while the run is running, a completed run has them all, and an ended run
\* never changes.
THEOREM ImplementsLifecycle == Spec => ImplementsRunLifecycle
<1>1. Init => Lifecycle!Init
  <2>1. Init => \A r \in RunIds : Cardinality(ResultsOf(r)) = 0
    BY FS_EmptySet DEF Init, ResultsOf
  <2> QED BY <2>1 DEF Init, Lifecycle!Init, NoRun
<1> QED BY <1>1, LifecycleStep, RunsSafe, PTL DEF Spec, ImplementsRunLifecycle, Lifecycle!Spec

-----------------------------------------------------------------------------
(***************************************************************************)
(* The report.                                                             *)
(***************************************************************************)

\* The report is read off the models of the runs, and off the results: their runs, cases
\* and categories, and whether those that count have passed.
LEMMA ReportKept ==
  ASSUME Len(results') = Len(results),
         \A i \in 1..Len(results) :
           /\ results'[i].run = results[i].run /\ results'[i].case = results[i].case
           /\ results'[i].category = results[i].category
           /\ run'[results[i].run].model = run[results[i].run].model,
         \A m \in Models : \A i \in Counted(m) : Passed(results'[i]) = Passed(results[i])
  PROVE  Report' = Report
<1>1. ASSUME NEW m \in Models PROVE Counted(m)' = Counted(m)
  <2>1. \A i \in 1..Len(results) : Of(m, i)' <=> Of(m, i)
    BY DEF Of
  <2>2. \A i, j \in 1..Len(results) : Again(i, j)' <=> Again(i, j)
    BY DEF Again, Of
  <2>3. \A i \in 1..Len(results) : \A j \in (i + 1)..Len(results) : j \in 1..Len(results)
    OBVIOUS
  <2> QED BY <2>1, <2>2, <2>3, Zenon DEF Counted
<1>2. ASSUME NEW m \in Models, NEW k \in Categories PROVE Row(Counted(m), k)' = Row(Counted(m), k)
  <2> DEFINE counted == Counted(m)
  <2>1. counted' = counted /\ counted \subseteq 1..Len(results)
    BY <1>1 DEF Counted
  <2>2. \A i \in counted : /\ results'[i].category = results[i].category
                           /\ results'[i].run = results[i].run
                           /\ Passed(results'[i]) = Passed(results[i])
    BY <2>1
  <2> HIDE DEF counted
  <2>3. {i \in counted' : results'[i].category = k} = {i \in counted : results[i].category = k}
    BY <2>1, <2>2
  <2>4. {i \in {j \in counted' : results'[j].category = k} : Passed(results'[i])}
          = {i \in {j \in counted : results[j].category = k} : Passed(results[i])}
    BY <2>1, <2>2, Zenon
  <2>5. {results'[i].run : i \in {n \in {a \in counted : results[a].category = k} :
                                    \A j \in {a \in counted : results[a].category = k} : j <= n}}
          = {results[i].run : i \in {n \in {a \in counted : results[a].category = k} :
                                    \A j \in {a \in counted : results[a].category = k} : j <= n}}
    BY <2>2
  <2>6. Row(counted, k)' = Row(counted, k)
    BY <2>3, <2>4, <2>5, Zenon DEF Row
  <2> QED BY <2>6 DEF counted
<1> QED BY <1>2, Zenon DEF Report

\* The report when no result is changed, and the runs that have results keep their model.
LEMMA ReportStays ==
  ASSUME TypeOK, UNCHANGED results,
         \A i \in 1..Len(results) : run'[results[i].run].model = run[results[i].run].model
  PROVE  Report' = Report
<1>1. \A m \in Models : Counted(m) \subseteq 1..Len(results)
  BY DEF Counted
<1> QED BY <1>1, ReportKept

\* A result belongs to a run.
LEMMA RowHasRun ==
  ASSUME TypeOK, NEW i \in 1..Len(results)
  PROVE  results[i] \in Result /\ results[i].run \in RunIds /\ i \in ResultsOf(results[i].run)
<1>1. results[i] \in Result
  BY DEF TypeOK
<1> QED BY <1>1 DEF Result, ResultsOf

\* The report moves only with a new result, or with a verdict on the latest result of a
\* case: nothing else reaches it.
THEOREM ReportMoves == Spec => ReportMovesWithLatest
<1> DEFINE OnLatest ==
             \E i \in 1..Len(results) :
               /\ Passed(results'[i]) # Passed(results[i])
               /\ \A j \in (i + 1)..Len(results) : ~Again(i, j)
           Moves == Len(results') = Len(results) + 1 \/ OnLatest \/ Report' = Report
<1>1. RunsInv /\ [Next]_vars => [Moves]_vars
  <2> SUFFICES ASSUME RunsInv, Next PROVE Moves
    OBVIOUS
  <2>0. TypeOK /\ \A r \in RunIds : RunInv(r)
    BY DEF RunsInv
  <2>1. ASSUME UNCHANGED <<run, results>> PROVE Report' = Report
    BY <2>0, <2>1, ReportStays
  <2>2. ASSUME NEW r \in RunIds, NEW m \in Models, NEW f \in Categories \union {None}, StartRun(r, m, f)
        PROVE  Report' = Report
    <3>1. ResultsOf(r) = {} /\ UNCHANGED results /\ \A s \in RunIds : s # r => run'[s] = run[s]
      BY <2>0, <2>2 DEF StartRun, RunInv, CountInv, TypeOK
    <3>2. \A i \in 1..Len(results) : results[i].run \in RunIds \ {r}
      BY <2>0, <3>1, RowHasRun
    <3> QED BY <2>0, <3>1, <3>2, ReportStays
  <2>3. ASSUME NEW r \in RunIds, NextCase(r) \/ Escape(r) PROVE Report' = Report
    BY <2>1, <2>3 DEF NextCase, Escape
  <2>4. ASSUME NEW r \in RunIds, StoreResult(r) PROVE Len(results') = Len(results) + 1
    BY <2>0, <2>4, StoreRow, AppendRow
  <2>5. ASSUME NEW r \in RunIds, CountResult(r) \/ EndRun(r) PROVE Report' = Report
    <3>1. /\ UNCHANGED results
          /\ \/ run' = [run EXCEPT ![r].completed = run[r].completed + 1]
             \/ run' = [run EXCEPT ![r].status = gen[r].at]
      BY <2>5 DEF CountResult, EndRun
    <3>2. run \in [RunIds -> Run]
      BY <2>0 DEF TypeOK
    <3>3. \A s \in RunIds : run'[s].model = run[s].model
      BY <3>1, <3>2 DEF Run
    <3> QED BY <2>0, <3>1, <3>3, RowHasRun, ReportStays
  <2>6. ASSUME Restart PROVE Report' = Report
    <3>1. /\ \A s \in RunIds : run'[s] = IF run[s].status = "running"
                                         THEN [run[s] EXCEPT !.status = "failed"] ELSE run[s]
          /\ UNCHANGED results
      BY <2>6 DEF Restart
    <3>2. \A s \in RunIds : run'[s].model = run[s].model
      BY <2>0, <3>1 DEF TypeOK, Run
    <3> QED BY <2>0, <3>1, <3>2, RowHasRun, ReportStays
  <2>7. ASSUME NEW i \in 1..Len(results), NEW v \in Verdicts \union {None}, UpdateResult(i, v)
        PROVE  OnLatest \/ Report' = Report
    <3>1. /\ Len(results') = Len(results) /\ UNCHANGED run
          /\ \A j \in 1..Len(results) :
               /\ results'[j].run = results[j].run /\ results'[j].case = results[j].case
               /\ results'[j].category = results[j].category
               /\ j # i => results'[j] = results[j]
      BY <2>0, <2>7, VerdictKeeps DEF UpdateResult
    <3>2. CASE \E j \in (i + 1)..Len(results) : Again(i, j)
      <4>1. \A m \in Models : i \notin Counted(m)
        BY <3>2 DEF Counted, Again, Of
      <4>2. \A m \in Models : \A j \in Counted(m) : j \in 1..Len(results) /\ j # i
        BY <4>1 DEF Counted
      <4> QED BY <3>1, <4>2, ReportKept
    <3>3. CASE Passed(results'[i]) = Passed(results[i])
      <4>1. \A m \in Models : \A j \in Counted(m) : j \in 1..Len(results)
        BY DEF Counted
      <4> QED BY <3>1, <3>3, <4>1, ReportKept
    <3> QED BY <3>2, <3>3
  <2>8. ASSUME NEW c \in CaseIds, EditCase(c) PROVE Report' = Report
    BY <2>1, <2>8 DEF EditCase
  <2> HIDE DEF OnLatest
  <2> QED BY <2>2, <2>3, <2>4, <2>5, <2>6, <2>7, <2>8 DEF Next, Drive
<1> QED BY <1>1, RunsSafe, PTL DEF Spec, ReportMovesWithLatest

\* A set of positions that is not empty has a last one.
LEMMA LastPosition ==
  ASSUME NEW n \in Nat, NEW S \in SUBSET (1..n), S # {}
  PROVE  \E x \in S : \A y \in S : y <= x
<1> DEFINE T == {n - x : x \in S}
<1>1. T \subseteq Nat /\ T # {}
  <2>1. \A x \in S : n - x \in Nat
    OBVIOUS
  <2> QED BY <2>1
<1>2. PICK t \in T : \A u \in T : ~ (<<u, t>> \in OpToRel(<, Nat))
  BY <1>1, WFMin, NatLessThanWellFounded
<1>3. ASSUME NEW u \in T, u < t PROVE FALSE
  <2>1. <<u, t>> \in Nat \X Nat /\ <<u, t>>[1] < <<u, t>>[2]
    BY <1>1, <1>3
  <2>2. <<u, t>> \in OpToRel(<, Nat)
    BY <2>1 DEF OpToRel
  <2> QED BY <1>2, <2>2
<1>4. PICK x \in S : t = n - x
  OBVIOUS
<1>5. ASSUME NEW y \in S PROVE y <= x
  <2>1. n - y \in T /\ x \in 1..n /\ y \in 1..n
    OBVIOUS
  <2>2. ~ (n - y < n - x)
    BY <1>3, <1>4, <2>1
  <2> QED BY <2>1, <2>2
<1> QED BY <1>5

\* Of every case model m has answered exactly one result counts.
LEMMA OneCounts ==
  ASSUME TypeOK, NEW m \in Models
  PROVE  LET answered == {results[i].case : i \in {j \in 1..Len(results) : Of(m, j)}} IN
         /\ \A i \in Counted(m) : i \in 1..Len(results) /\ results[i].case \in answered
         /\ \A c \in answered : \E i \in Counted(m) : results[i].case = c
         /\ \A i, j \in Counted(m) : results[i].case = results[j].case => i = j
<1> DEFINE answered == {results[i].case : i \in {j \in 1..Len(results) : Of(m, j)}}
<1>0. Len(results) \in Nat
  BY DEF TypeOK
<1>1. \A i \in 1..Len(results) :
        i \in Counted(m) <=>
          /\ Of(m, i)
          /\ \A j \in (i + 1)..Len(results) : ~(Of(m, j) /\ results[j].case = results[i].case)
  BY DEF Counted, Again, Of
<1>2. \A i \in Counted(m) : i \in 1..Len(results) /\ results[i].case \in answered
  BY DEF Counted
<1>3. ASSUME NEW c \in answered PROVE \E i \in Counted(m) : results[i].case = c
  <2> DEFINE S == {i \in 1..Len(results) : Of(m, i) /\ results[i].case = c}
  <2>1. S \in SUBSET (1..Len(results)) /\ S # {}
    OBVIOUS
  <2>2. PICK i \in S : \A j \in S : j <= i
    BY <1>0, <2>1, LastPosition
  <2>3. ASSUME NEW j \in (i + 1)..Len(results), Of(m, j), results[j].case = results[i].case PROVE FALSE
    <3>1. j \in S /\ j > i
      BY <1>0, <2>3
    <3> QED BY <1>0, <2>2, <3>1
  <2>4. i \in Counted(m)
    BY <1>1, <2>3
  <2> QED BY <2>4
<1>4. ASSUME NEW i \in Counted(m), NEW j \in Counted(m), results[i].case = results[j].case
      PROVE  i = j
  <2>1. i \in 1..Len(results) /\ j \in 1..Len(results) /\ Of(m, i) /\ Of(m, j)
    BY DEF Counted
  <2>2. ~(i < j)
    BY <1>0, <1>1, <1>4, <2>1
  <2>3. ~(j < i)
    BY <1>0, <1>1, <1>4, <2>1
  <2> QED BY <1>0, <2>1, <2>2, <2>3
<1> QED BY <1>2, <1>3, <1>4

\* Counting the members of a finite set kind by kind counts each of them once.
LEMMA SumOfKinds ==
  ASSUME NEW A, IsFiniteSet(A), NEW K, NEW Cell \in [K -> SUBSET A],
         \A a \in A : \E k \in K : a \in Cell[k],
         \A k, l \in K : Cell[k] \intersect Cell[l] # {} => k = l,
         NEW Size, \A k \in K : Size[k] = Cardinality(Cell[k]),
         NEW P, \A p : p \in P <=> \E k \in K : \E n \in 1..Size[k] : p = <<k, n>>
  PROVE  Cardinality(P) = Cardinality(A)
<1> DEFINE Number == [k \in K |-> CHOOSE f : f \in Bijection(1..Size[k], Cell[k])]
           member == [p \in P |-> Number[p[1]][p[2]]]
<1>1. ASSUME NEW k \in K
      PROVE  /\ Number[k] \in [1..Size[k] -> Cell[k]]
             /\ \A n \in 1..Size[k] : Number[k][n] \in Cell[k]
             /\ \A n, o \in 1..Size[k] : Number[k][n] = Number[k][o] => n = o
             /\ \A a \in Cell[k] : \E n \in 1..Size[k] : Number[k][n] = a
  <2>1. Cell[k] \in SUBSET A /\ Size[k] = Cardinality(Cell[k])
    OBVIOUS
  <2>2. ExistsBijection(1..Size[k], Cell[k])
    BY <2>1, FS_Subset, FS_CardinalityType
  <2>3. Number[k] \in Bijection(1..Size[k], Cell[k])
    BY <2>2 DEF ExistsBijection
  <2> HIDE DEF Number
  <2> QED BY <2>3 DEF Bijection, Injection, Surjection, IsInjective
<1> HIDE DEF Number
<1>2. \A k \in K : \A n \in 1..Size[k] : <<k, n>> \in P /\ member[<<k, n>>] = Number[k][n]
  OBVIOUS
<1> HIDE DEF member
<1>3. member \in Bijection(P, A)
  <2>1. ASSUME NEW p \in P PROVE member[p] \in A
    <3>1. PICK k \in K : \E n \in 1..Size[k] : p = <<k, n>>
      OBVIOUS
    <3>2. PICK n \in 1..Size[k] : p = <<k, n>>
      BY <3>1
    <3>3. Number[k][n] \in Cell[k]
      BY <1>1
    <3> QED BY <1>2, <3>2, <3>3
  <2>2. member \in [P -> A]
    BY <2>1 DEF member
  <2>3. ASSUME NEW p \in P, NEW q \in P, member[p] = member[q] PROVE p = q
    <3>1. PICK k \in K : \E n \in 1..Size[k] : p = <<k, n>>
      OBVIOUS
    <3>2. PICK n \in 1..Size[k] : p = <<k, n>>
      BY <3>1
    <3>3. PICK l \in K : \E o \in 1..Size[l] : q = <<l, o>>
      OBVIOUS
    <3>4. PICK o \in 1..Size[l] : q = <<l, o>>
      BY <3>3
    <3>5. Number[k][n] = Number[l][o]
      BY <1>2, <2>3, <3>2, <3>4
    <3>6. Number[k][n] \in Cell[k] /\ Number[l][o] \in Cell[l]
      BY <1>1
    <3>7. k = l
      BY <3>5, <3>6
    <3>8. n = o
      BY <1>1, <3>5, <3>7
    <3> QED BY <3>2, <3>4, <3>7, <3>8
  <2>4. ASSUME NEW a \in A PROVE \E p \in P : member[p] = a
    <3>1. PICK k \in K : a \in Cell[k]
      OBVIOUS
    <3>2. PICK n \in 1..Size[k] : Number[k][n] = a
      BY <1>1, <3>1
    <3> QED BY <1>2, <3>2
  <2> QED BY <2>2, <2>3, <2>4 DEF Bijection, Injection, IsInjective, Surjection
<1>4. IsFiniteSet(P)
  BY <1>3, FS_Injection DEF Bijection
<1> QED BY <1>3, <1>4, FS_Bijection DEF ExistsBijection

\* As many results count for a model as it has answered cases.
LEMMA AsManyCount ==
  ASSUME TypeOK, NEW m \in Models
  PROVE  /\ IsFiniteSet(Counted(m))
         /\ Cardinality(Counted(m)) =
              Cardinality({results[i].case : i \in {j \in 1..Len(results) : Of(m, j)}})
<1> DEFINE answered == {results[i].case : i \in {j \in 1..Len(results) : Of(m, j)}}
           caseOf   == [i \in Counted(m) |-> results[i].case]
<1>1. IsFiniteSet(Counted(m))
  <2>1. Counted(m) \in SUBSET (1..Len(results))
    BY DEF Counted
  <2>2. IsFiniteSet(1..Len(results))
    BY FS_Interval DEF TypeOK
  <2> QED BY <2>1, <2>2, FS_Subset
<1>2. /\ \A i \in Counted(m) : i \in 1..Len(results) /\ results[i].case \in answered
      /\ \A c \in answered : \E i \in Counted(m) : results[i].case = c
      /\ \A i, j \in Counted(m) : results[i].case = results[j].case => i = j
  BY OneCounts
<1> HIDE DEF answered
<1>3. caseOf \in Bijection(Counted(m), answered)
  BY <1>2 DEF Bijection, Injection, IsInjective, Surjection
<1> HIDE DEF caseOf
<1>4. Cardinality(answered) = Cardinality(Counted(m))
  BY <1>1, <1>3, FS_Bijection DEF ExistsBijection
<1> QED BY <1>1, <1>4 DEF answered

\* The rows of a model add up to the cases it answered, each counted once, and name runs
\* of that model: whatever was run, moved to another category or reviewed, in any order.
THEOREM ReportCounts == Spec => []ReportCountsOnce
<1>1. ASSUME TypeOK, NEW m \in Models
      PROVE  Cardinality(UNION {{k} \X (1..Report[m][k].cases) : k \in Categories})
               = Cardinality({results[i].case : i \in {j \in 1..Len(results) : Of(m, j)}})
  <2> DEFINE counted == Counted(m)
             Cell    == [k \in Categories |-> {i \in counted : results[i].category = k}]
             Size    == [k \in Categories |-> Report[m][k].cases]
             places  == UNION {{k} \X (1..Size[k]) : k \in Categories}
  <2>1. \A i \in counted : results[i].category \in Categories
    <3>1. \A i \in counted : i \in 1..Len(results)
      BY DEF Counted
    <3> QED BY <1>1, <3>1, RowHasRun DEF Result
  <2>2. \A k \in Categories : Size[k] = Cardinality(Cell[k])
    BY DEF Report, Row
  <2>3. IsFiniteSet(counted)
    BY <1>1, AsManyCount
  <2>4. Cardinality(counted) =
          Cardinality({results[i].case : i \in {j \in 1..Len(results) : Of(m, j)}})
    BY <1>1, AsManyCount
  <2> HIDE DEF counted
  <2>5. /\ Cell \in [Categories -> SUBSET counted]
        /\ \A i \in counted : \E k \in Categories : i \in Cell[k]
        /\ \A k, l \in Categories : Cell[k] \intersect Cell[l] # {} => k = l
    BY <2>1
  <2>6. places = UNION {{k} \X (1..Report[m][k].cases) : k \in Categories}
    BY Zenon
  <2> HIDE DEF Cell, Size
  <2>7. \A p : p \in places <=> \E k \in Categories : \E n \in 1..Size[k] : p = <<k, n>>
    OBVIOUS
  <2> HIDE DEF places
  <2>8. Cardinality(places) = Cardinality(counted)
    BY <2>2, <2>3, <2>5, <2>7, SumOfKinds
  <2> QED BY <2>4, <2>6, <2>8
<1>2. ASSUME NEW m \in Models, NEW k \in Categories, NEW r \in Report[m][k].latestRun
      PROVE  run[r].model = m
  <2>1. \E i \in Counted(m) : r = results[i].run
    BY DEF Report, Row
  <2> QED BY <2>1 DEF Counted, Of
<1>3. TypeOK => ReportCountsOnce
  BY <1>1, <1>2, Zenon DEF ReportCountsOnce
<1> QED BY <1>3, RunsTypeCorrect, PTL

-------------------------------------------------------------------------------
(***************************************************************************)
(* The inductive invariant, of any state p of the page.                    *)
(***************************************************************************)

\* The page asks nothing before it is opened; what it has heard of an ended run is true.
StatusInv(p) ==
  /\ p.run = 0 => p.status = None /\ p.statusFetch = "idle" /\ p.rowsFetch = "idle" /\ p.rows = None
  /\ p.run # 0 => run[p.run].status # "absent"
  /\ p.status \in Ended \/ p.statusFetch \in Ended => run[p.run].status \in Ended
  /\ p.status \in Ended => p.statusFetch = "idle"
  /\ p.sawRunning => p.status # None

\* A list of results the server gave out for run r: some of its rows, which have changed
\* at most in their verdicts since.
PartOf(list, r) ==
  /\ DOMAIN list \subseteq ResultsOf(r)
  /\ \A i \in DOMAIN list : list[i].case = results[i].case

RowsInv(p) ==
  /\ p.rows # None => PartOf(p.rows, p.run)
  /\ p.rowsFetch = "answered" => PartOf(p.answer, p.run)
  /\ p.saves # {} => p.rows # None
  /\ \A s \in p.saves : s.row \in 1..Len(results)

\* What the last fetch comes to is good: nothing was read yet, or the answer on its way is
\* one of the good lists, or the list that is shown.
LastFetch(p, good) ==
  \/ p.rowsFetch = "asked"
  \/ p.rowsFetch = "answered" /\ p.answer \in good
  \/ p.rowsFetch = "idle" /\ (p.rows # None /\ ~ p.rowsError => p.rows \in good)

\* The lists that have every result of run r, and those with every verdict that is stored.
WholeLists(r) == {list \in Lists : DOMAIN list = ResultsOf(r)}
FreshLists    == {list \in Lists : \A i \in DOMAIN list : list[i] = results[i]}

\* A run seen to end has its results fetched once more, after its last result was stored.
CompleteInv(p) ==
  p.sawRunning /\ p.status \in Ended /\ ~ p.joined => LastFetch(p, WholeLists(p.run))

\* When no answer to a save is outstanding or lost, the last fetch comes after the last save.
FreshInv(p) ==
  ~ p.unheard /\ (\A s \in p.saves : s.stage = "sent") => LastFetch(p, FreshLists)

PageOK(p) == p \in Page /\ StatusInv(p) /\ RowsInv(p) /\ CompleteInv(p) /\ FreshInv(p)

ReviewInv == RunsInv /\ PageOK(page)

-----------------------------------------------------------------------------
(***************************************************************************)
(* The server, as the page sees it.                                        *)
(***************************************************************************)

\* There is room for the ids of all results: no run has two of one case.
LEMMA FewResults ==
  ASSUME RunsInv
  PROVE  1..Len(results) \subseteq RowIds
<1> DEFINE D == 1..Len(results)
           f == [i \in D |-> <<results[i].run, results[i].case>>]
<1>1. TypeOK /\ Len(results) \in Nat /\ \A i \in D : results[i] \in Result
  BY DEF RunsInv, TypeOK
<1>2. \A i \in D : results[i].run \in RunIds /\ results[i].case \in CaseIds
  BY <1>1 DEF Result
<1>3. ASSUME NEW i \in D, NEW j \in D, i < j, f[i] = f[j] PROVE FALSE
  <2>1. results[i].run = results[j].run /\ results[i].case = results[j].case
    BY <1>3
  <2>2. i \in ResultsOf(results[i].run) /\ j \in ResultsOf(results[i].run)
    BY <2>1 DEF ResultsOf
  <2>3. results[i].case < results[j].case
    BY <1>2, <1>3, <2>2 DEF RunsInv, RunInv
  <2> QED BY <1>2, <2>1, <2>3 DEF CaseIds
<1>4. f \in Injection(D, RunIds \X CaseIds)
  <2>1. f \in [D -> RunIds \X CaseIds]
    BY <1>2
  <2>2. \A i, j \in D : f[i] = f[j] => i = j
    <3>1. \A i, j \in D : i < j \/ i = j \/ j < i
      BY <1>1
    <3> HIDE DEF f
    <3> QED BY <1>3, <3>1
  <2> HIDE DEF f, D
  <2> QED BY <2>1, <2>2 DEF Injection, IsInjective
<1>5. /\ IsFiniteSet(RunIds) /\ Cardinality(RunIds) = MaxRuns
      /\ IsFiniteSet(CaseIds) /\ Cardinality(CaseIds) = MaxCases
  BY EvalRunsAssumption, FS_Interval DEF RunIds, CaseIds
<1>6. IsFiniteSet(RunIds \X CaseIds) /\ Cardinality(RunIds \X CaseIds) = MaxRuns * MaxCases
  BY <1>5, FS_Product
<1> HIDE DEF f
<1>7. Cardinality(D) <= MaxRuns * MaxCases
  BY <1>4, <1>6, FS_Injection
<1>8. Cardinality(D) = Len(results)
  <2>1. \A n \in Nat : Cardinality(1..n) = n
    BY FS_Interval
  <2> QED BY <1>1, <2>1
<1>9. MaxRuns * MaxCases \in Nat
  BY EvalRunsAssumption
<1> QED BY <1>1, <1>7, <1>8, <1>9 DEF RowIds

\* What GET /evals/runs/{id}/results answers is a list, whole and fresh.
LEMMA RowsOfIs ==
  ASSUME RunsInv, NEW r \in RunIds
  PROVE  RowsOf(r) \in WholeLists(r) /\ RowsOf(r) \in FreshLists /\ PartOf(RowsOf(r), r)
<1> DEFINE ids == ResultsOf(r)
<1>1. TypeOK
  BY DEF RunsInv
<1>2. ids \in SUBSET RowIds
  BY <1>1, FewResults, RowsAreFinite
<1>3. \A i \in ids : results[i] \in Result
  BY <1>1, RowsAreFinite DEF TypeOK
<1>4. RowsOf(r) = [i \in ids |-> results[i]]
  BY DEF RowsOf
<1> HIDE DEF ids
<1>5. RowsOf(r) \in [ids -> Result] /\ DOMAIN RowsOf(r) = ids /\ \A i \in ids : RowsOf(r)[i] = results[i]
  BY <1>3, <1>4
<1>6. RowsOf(r) \in Lists
  BY <1>2, <1>5 DEF Lists
<1> QED BY <1>5, <1>6 DEF WholeLists, FreshLists, PartOf, ids

\* What a step of the server does to the tables.
ServerMoves ==
  /\ Len(results') \in Nat /\ Len(results) <= Len(results')
  /\ \A i \in 1..Len(results) : results'[i].case = results[i].case
  /\ \A r \in RunIds :
       /\ ResultsOf(r) \subseteq ResultsOf(r)'
       /\ run[r].status # "absent" => run'[r].status # "absent"
       /\ run[r].status \in Ended => run'[r].status \in Ended /\ ResultsOf(r)' = ResultsOf(r)

\* A run that goes on stores results behind those there are, an ended run stores none.
LEMMA DriveMoves ==
  ASSUME RunsInv, Drive
  PROVE  ServerMoves /\ \A i \in 1..Len(results) : results'[i] = results[i]
<1>0. TypeOK /\ Len(results) \in Nat /\ \A r \in RunIds : RunInv(r)
  BY DEF RunsInv, TypeOK
<1>1. ASSUME UNCHANGED results,
             \A r \in RunIds : /\ run[r].status # "absent" => run'[r].status # "absent"
                               /\ run[r].status \in Ended => run'[r].status \in Ended
      PROVE  ServerMoves /\ \A i \in 1..Len(results) : results'[i] = results[i]
  BY <1>0, <1>1, SameResults DEF ServerMoves
<1>2. CASE \E c \in CaseIds : EditCase(c)
  BY <1>1, <1>2 DEF EditCase
<1>3. ASSUME NEW r \in RunIds, NextCase(r) \/ Escape(r)
      PROVE  ServerMoves /\ \A i \in 1..Len(results) : results'[i] = results[i]
  BY <1>1, <1>3 DEF NextCase, Escape
<1>4. ASSUME NEW r \in RunIds, NEW m \in Models, NEW f \in Categories \union {None}, StartRun(r, m, f)
      PROVE  ServerMoves /\ \A i \in 1..Len(results) : results'[i] = results[i]
  <2>1. run[r].status = "absent" /\ run'[r].status = "running" /\ UNCHANGED results
        /\ \A q \in RunIds : q # r => run'[q] = run[q]
    BY <1>0, <1>4 DEF StartRun, TypeOK
  <2> QED BY <1>1, <2>1 DEF Ended
<1>5. ASSUME NEW r \in RunIds, CountResult(r)
      PROVE  ServerMoves /\ \A i \in 1..Len(results) : results'[i] = results[i]
  <2>1. UNCHANGED results /\ \A q \in RunIds : run'[q].status = run[q].status
    BY <1>0, <1>5 DEF CountResult, TypeOK, Run
  <2> QED BY <1>1, <2>1
<1>6. ASSUME NEW r \in RunIds, EndRun(r)
      PROVE  ServerMoves /\ \A i \in 1..Len(results) : results'[i] = results[i]
  <2>1. UNCHANGED results /\ run'[r].status \in Ended /\ \A q \in RunIds : q # r => run'[q] = run[q]
    BY <1>0, <1>6 DEF EndRun, TypeOK, Run
  <2> QED BY <1>1, <2>1 DEF Ended
<1>7. CASE Restart
  <2>1. UNCHANGED results
        /\ \A q \in RunIds : run'[q].status = IF run[q].status = "running" THEN "failed" ELSE run[q].status
    BY <1>0, <1>7 DEF Restart, TypeOK, Run
  <2> QED BY <1>1, <2>1 DEF Ended
<1>8. ASSUME NEW r \in RunIds, StoreResult(r)
      PROVE  ServerMoves /\ \A i \in 1..Len(results) : results'[i] = results[i]
  <2>1. UNCHANGED run /\ run[r].status \notin Ended
    BY <1>0, <1>8 DEF StoreResult, Insert, RunInv, Ended
  <2>2. PICK x \in Result : results' = Append(results, x) /\ x.run = r
    BY <1>0, <1>8, StoreRow
  <2>3. /\ Len(results') = Len(results) + 1 /\ \A i \in 1..Len(results) : results'[i] = results[i]
        /\ \A q \in RunIds : ResultsOf(q)' =
             IF q = r THEN ResultsOf(q) \union {Len(results) + 1} ELSE ResultsOf(q)
    BY <1>0, <2>2, AppendRow
  <2> QED BY <1>0, <2>1, <2>3 DEF ServerMoves
<1> QED BY <1>2, <1>3, <1>4, <1>5, <1>6, <1>7, <1>8 DEF Drive

\* A verdict moves no result.
LEMMA VerdictMoves ==
  ASSUME RunsInv, NEW i \in 1..Len(results), NEW v \in Verdicts \union {None}, UpdateResult(i, v)
  PROVE  ServerMoves
<1>0. TypeOK /\ Len(results) \in Nat
  BY DEF RunsInv, TypeOK
<1>1. /\ Len(results') = Len(results) /\ UNCHANGED run
      /\ \A j \in 1..Len(results) : results'[j].run = results[j].run /\ results'[j].case = results[j].case
  BY <1>0, VerdictKeeps DEF UpdateResult
<1>2. \A r \in RunIds : ResultsOf(r)' = ResultsOf(r)
  BY <1>1 DEF ResultsOf
<1> QED BY <1>0, <1>1, <1>2 DEF ServerMoves

-----------------------------------------------------------------------------
(***************************************************************************)
(* The steps of the page.                                                  *)
(***************************************************************************)

\* An empty list is a list, and no list is None.
LEMMA EmptyList == NoRows \in Lists /\ None \notin Lists
<1>1. NoRows \in [{} -> Result] /\ {} \in SUBSET RowIds
  BY DEF NoRows
<1> QED BY <1>1, EvalReviewAssumption DEF Lists

\* Nothing has been asked.
LEMMA ReviewInitInv == ReviewInit => ReviewInv
<1> SUFFICES ASSUME ReviewInit PROVE ReviewInv
  OBVIOUS
<1>1. RunsInv /\ page = Blank
  BY InitInv DEF ReviewInit
<1>2. Blank \in Page
  <2>1. 0 \in 0..MaxRuns
    BY EvalRunsAssumption
  <2> QED BY <2>1, EmptyList DEF Blank, Page
<1>3. StatusInv(Blank) /\ RowsInv(Blank) /\ CompleteInv(Blank) /\ FreshInv(Blank)
  BY EvalReviewAssumption DEF Blank, StatusInv, RowsInv, CompleteInv, FreshInv, LastFetch, Ended
<1> QED BY <1>1, <1>2, <1>3 DEF ReviewInv, PageOK

\* A step of the page alone.
LEMMA PageStep ==
  ASSUME UNCHANGED <<run, results>>, NEW w, page' = w, PageOK(w)
  PROVE  PageOK(page)'
<1>1. \A r : ResultsOf(r)' = ResultsOf(r)
  BY DEF ResultsOf
<1>2. \A r : WholeLists(r)' = WholeLists(r)
  BY <1>1 DEF WholeLists
<1>3. FreshLists' = FreshLists
  BY DEF FreshLists
<1>4. StatusInv(page)'
  BY DEF PageOK, StatusInv
<1>5. RowsInv(page)'
  BY <1>1 DEF PageOK, RowsInv, PartOf
<1>6. CompleteInv(page)' /\ FreshInv(page)'
  BY <1>2, <1>3 DEF PageOK, CompleteInv, FreshInv, LastFetch
<1> QED BY <1>4, <1>5, <1>6 DEF PageOK

\* A fetch that is asked for comes after all that has happened; a page without data keeps the
\* fetch it has, and has no saves.
LEMMA AskAgainOK ==
  ASSUME NEW p \in Page, StatusInv(p), RowsInv(p), p.run # 0, p.rows = None => FreshInv(p)
  PROVE  PageOK(AskAgain(p))
<1>1. CASE p.rows = None /\ p.rowsFetch = "answered"
  <2> DEFINE w == [p EXCEPT !.joined = TRUE]
  <2>1. w \in Page /\ w.run = p.run /\ w.status = p.status /\ w.statusFetch = p.statusFetch
        /\ w.rows = p.rows /\ w.rowsError = p.rowsError /\ w.rowsFetch = p.rowsFetch /\ w.answer = p.answer
        /\ w.saves = p.saves /\ w.sawRunning = p.sawRunning /\ w.unheard = p.unheard /\ w.joined
    BY DEF Page
  <2>2. AskAgain(p) = w
    BY <1>1 DEF AskAgain
  <2> HIDE DEF w
  <2>3. StatusInv(w) /\ RowsInv(w) /\ CompleteInv(w) /\ FreshInv(w)
    BY <1>1, <2>1 DEF StatusInv, RowsInv, CompleteInv, FreshInv, LastFetch
  <2> QED BY <2>1, <2>2, <2>3 DEF PageOK
<1>2. CASE ~ (p.rows = None /\ p.rowsFetch = "answered")
  <2> DEFINE w == [p EXCEPT !.rowsFetch = "asked", !.answer = NoRows, !.unheard = FALSE, !.joined = FALSE]
  <2>1. w \in Page /\ w.run = p.run /\ w.status = p.status /\ w.statusFetch = p.statusFetch
        /\ w.rows = p.rows /\ w.rowsFetch = "asked" /\ w.saves = p.saves /\ w.sawRunning = p.sawRunning
    BY EmptyList DEF Page
  <2>2. AskAgain(p) = w
    BY <1>2 DEF AskAgain
  <2> HIDE DEF w
  <2>3. StatusInv(w) /\ RowsInv(w) /\ CompleteInv(w) /\ FreshInv(w)
    BY <2>1 DEF StatusInv, RowsInv, CompleteInv, FreshInv, LastFetch
  <2> QED BY <2>1, <2>2, <2>3 DEF PageOK
<1> QED BY <1>1, <1>2

\* The page is opened.
LEMMA OpenOK ==
  ASSUME ReviewInv, NEW r \in RunIds, Open(r)
  PROVE  PageOK(page)'
<1> DEFINE w == [Blank EXCEPT !.run = r, !.statusFetch = "asked", !.rowsFetch = "asked"]
<1>1. run[r].status # "absent" /\ page' = w /\ UNCHANGED <<run, results>>
  BY DEF Open, vars
<1>2. r \in 0..MaxRuns /\ r # 0
  BY EvalRunsAssumption DEF RunIds
<1>3. w \in Page /\ w.run = r /\ w.status = None /\ w.statusFetch = "asked" /\ w.rows = None
      /\ w.rowsFetch = "asked" /\ w.saves = {} /\ ~ w.sawRunning
  BY <1>2, EmptyList DEF Blank, Page
<1> HIDE DEF w
<1>4. None \notin Ended
  BY EvalReviewAssumption
<1>5. StatusInv(w) /\ RowsInv(w) /\ CompleteInv(w) /\ FreshInv(w)
  BY <1>1, <1>2, <1>3, <1>4 DEF StatusInv, RowsInv, CompleteInv, FreshInv, LastFetch, Ended
<1> QED BY <1>1, <1>3, <1>5, PageStep DEF PageOK

\* The status is asked for again.
LEMMA PollStatusOK ==
  ASSUME ReviewInv, PollStatus
  PROVE  PageOK(page)'
<1> DEFINE w == [page EXCEPT !.statusFetch = "asked"]
<1>1. PageOK(page) /\ page.status = "running" /\ page' = w /\ UNCHANGED <<run, results>>
  BY DEF ReviewInv, PollStatus, vars
<1>2. w \in Page /\ w.run = page.run /\ w.status = page.status /\ w.statusFetch = "asked"
      /\ w.rows = page.rows /\ w.rowsError = page.rowsError /\ w.rowsFetch = page.rowsFetch
      /\ w.answer = page.answer /\ w.saves = page.saves /\ w.sawRunning = page.sawRunning
      /\ w.unheard = page.unheard /\ w.joined = page.joined
  BY <1>1 DEF PageOK, Page
<1> HIDE DEF w
<1>3. StatusInv(w) /\ RowsInv(w) /\ CompleteInv(w) /\ FreshInv(w)
  BY <1>1, <1>2, EvalReviewAssumption
     DEF PageOK, StatusInv, RowsInv, CompleteInv, FreshInv, LastFetch, Ended
<1> QED BY <1>1, <1>2, <1>3, PageStep DEF PageOK

\* The server reads the status: what it answers stays true once it is the end.
LEMMA ServeStatusOK ==
  ASSUME ReviewInv, ServeStatus
  PROVE  PageOK(page)'
<1> DEFINE now == run[page.run].status
           w == [page EXCEPT !.statusFetch = now]
<1>1. PageOK(page) /\ page.statusFetch = "asked" /\ page' = w /\ UNCHANGED <<run, results>>
  BY DEF ReviewInv, ServeStatus, vars
<1>2. page.run \in RunIds /\ page.run # 0
  BY <1>1, EvalRunsAssumption DEF PageOK, StatusInv, Page, RunIds
<1>3. now \in {"running"} \union Ended
  BY <1>1, <1>2 DEF PageOK, StatusInv, ReviewInv, RunsInv, TypeOK, Run
<1>4. w \in Page /\ w.run = page.run /\ w.status = page.status /\ w.statusFetch = now
      /\ w.rows = page.rows /\ w.rowsError = page.rowsError /\ w.rowsFetch = page.rowsFetch
      /\ w.answer = page.answer /\ w.saves = page.saves /\ w.sawRunning = page.sawRunning
      /\ w.unheard = page.unheard /\ w.joined = page.joined
  BY <1>1, <1>3 DEF PageOK, Page
<1> HIDE DEF w
<1>5. StatusInv(w) /\ RowsInv(w) /\ CompleteInv(w) /\ FreshInv(w)
  BY <1>1, <1>2, <1>4 DEF PageOK, StatusInv, RowsInv, CompleteInv, FreshInv, LastFetch, Ended
<1> QED BY <1>1, <1>4, <1>5, PageStep DEF PageOK

\* The status arrives: a run that stops being "running" has its results fetched once more.
LEMMA TakeStatusOK ==
  ASSUME ReviewInv, TakeStatus
  PROVE  PageOK(page)'
<1> DEFINE now == page.statusFetch
           w == [page EXCEPT !.status = now, !.statusFetch = "idle",
                             !.sawRunning = @ \/ now = "running"]
<1>1. PageOK(page) /\ now \notin {"idle", "asked"} /\ UNCHANGED <<run, results>>
      /\ page' = IF page.status = "running" /\ now # "running" THEN AskAgain(w) ELSE w
  BY DEF ReviewInv, TakeStatus, vars
<1>2. now \in {"running"} \union Ended
  BY <1>1 DEF PageOK, Page
<1>3. w \in Page /\ w.run = page.run /\ w.status = now /\ w.statusFetch = "idle"
      /\ w.rows = page.rows /\ w.rowsError = page.rowsError /\ w.rowsFetch = page.rowsFetch
      /\ w.answer = page.answer /\ w.saves = page.saves
      /\ (w.sawRunning <=> page.sawRunning \/ now = "running")
      /\ w.unheard = page.unheard /\ w.joined = page.joined
  BY <1>1, <1>2 DEF PageOK, Page, Ended
<1> HIDE DEF w
<1>4. page.run # 0
  BY <1>1 DEF PageOK, StatusInv
<1>5. now # None
  BY <1>2, EvalReviewAssumption
<1>6. StatusInv(w) /\ RowsInv(w) /\ FreshInv(w)
  BY <1>1, <1>2, <1>3, <1>4, <1>5 DEF PageOK, StatusInv, RowsInv, FreshInv, LastFetch, Ended
<1>7. CASE page.status = "running" /\ now # "running"
  <2>1. PageOK(AskAgain(w))
    BY <1>3, <1>4, <1>6, AskAgainOK
  <2> QED BY <1>1, <1>7, <2>1, PageStep
<1>8. CASE ~ (page.status = "running" /\ now # "running")
  \* The status was None before, or is "running" now.
  <2>1. now \in Ended => ~ page.sawRunning /\ now # "running"
    BY <1>1, <1>2, <1>8 DEF PageOK, StatusInv, Page, Ended
  <2>2. CompleteInv(w)
    BY <1>3, <2>1 DEF CompleteInv
  <2> QED BY <1>1, <1>3, <1>6, <1>8, <2>2, PageStep DEF PageOK
<1> QED BY <1>7, <1>8

\* The results are asked for again.
LEMMA PollRowsOK ==
  ASSUME ReviewInv, PollRows
  PROVE  PageOK(page)'
<1>1. PageOK(page) /\ page.status = "running" /\ page' = AskAgain(page) /\ UNCHANGED <<run, results>>
  BY DEF ReviewInv, PollRows, vars
<1>2. page.run # 0
  BY <1>1, EvalReviewAssumption DEF PageOK, StatusInv
<1>3. PageOK(AskAgain(page))
  BY <1>1, <1>2, AskAgainOK DEF PageOK
<1> QED BY <1>1, <1>3, PageStep

\* The server reads the results.
LEMMA ServeRowsOK ==
  ASSUME ReviewInv, ServeRows
  PROVE  PageOK(page)'
<1> DEFINE list == RowsOf(page.run)
           w == [page EXCEPT !.rowsFetch = "answered", !.answer = list]
<1>1. RunsInv /\ PageOK(page) /\ page.rowsFetch = "asked" /\ page' = w /\ UNCHANGED <<run, results>>
  BY DEF ReviewInv, ServeRows, vars
<1>2. page.run \in RunIds /\ page.run # 0
  BY <1>1, EvalRunsAssumption DEF PageOK, StatusInv, Page, RunIds
<1>3. list \in WholeLists(page.run) /\ list \in FreshLists /\ PartOf(list, page.run) /\ list \in Lists
  BY <1>1, <1>2, RowsOfIs DEF WholeLists
<1> HIDE DEF list
<1>4. w \in Page /\ w.run = page.run /\ w.status = page.status /\ w.statusFetch = page.statusFetch
      /\ w.rows = page.rows /\ w.rowsError = page.rowsError /\ w.rowsFetch = "answered"
      /\ w.answer = list /\ w.saves = page.saves /\ w.sawRunning = page.sawRunning
  BY <1>1, <1>3 DEF PageOK, Page
<1> HIDE DEF w
<1>5. StatusInv(w) /\ RowsInv(w) /\ CompleteInv(w) /\ FreshInv(w)
  BY <1>1, <1>2, <1>3, <1>4 DEF PageOK, StatusInv, RowsInv, CompleteInv, FreshInv, LastFetch
<1> QED BY <1>1, <1>4, <1>5, PageStep DEF PageOK

\* The answer is shown.
LEMMA TakeRowsOK ==
  ASSUME ReviewInv, TakeRows
  PROVE  PageOK(page)'
<1> DEFINE w == [page EXCEPT !.rows = page.answer, !.rowsError = FALSE,
                             !.rowsFetch = "idle", !.answer = NoRows]
<1>1. PageOK(page) /\ page.rowsFetch = "answered" /\ page' = w /\ UNCHANGED <<run, results>>
  BY DEF ReviewInv, TakeRows, vars
<1>2. page.run # 0 /\ page.answer \in Lists
  BY <1>1 DEF PageOK, StatusInv, Page
<1>3. w \in Page /\ w.run = page.run /\ w.status = page.status /\ w.statusFetch = page.statusFetch
      /\ w.rows = page.answer /\ w.rowsFetch = "idle" /\ w.saves = page.saves
      /\ w.sawRunning = page.sawRunning /\ w.unheard = page.unheard /\ w.joined = page.joined
  BY <1>1, EmptyList DEF PageOK, Page
<1> HIDE DEF w
<1>4. StatusInv(w) /\ RowsInv(w) /\ CompleteInv(w) /\ FreshInv(w)
  BY <1>1, <1>2, <1>3, EmptyList DEF PageOK, StatusInv, RowsInv, CompleteInv, FreshInv, LastFetch
<1> QED BY <1>1, <1>3, <1>4, PageStep DEF PageOK

\* An error takes the place of the list.
LEMMA RowsFailOK ==
  ASSUME ReviewInv, RowsFail
  PROVE  PageOK(page)'
<1> DEFINE w == [page EXCEPT !.rowsError = TRUE, !.rowsFetch = "idle"]
<1>1. PageOK(page) /\ page.rowsFetch = "asked" /\ page' = w /\ UNCHANGED <<run, results>>
  BY DEF ReviewInv, RowsFail, vars
<1>2. w \in Page /\ w.run = page.run /\ w.status = page.status /\ w.statusFetch = page.statusFetch
      /\ w.rows = page.rows /\ w.rowsError /\ w.rowsFetch = "idle" /\ w.saves = page.saves
      /\ w.sawRunning = page.sawRunning
  BY <1>1 DEF PageOK, Page
<1> HIDE DEF w
<1>3. StatusInv(w) /\ RowsInv(w) /\ CompleteInv(w) /\ FreshInv(w)
  BY <1>1, <1>2 DEF PageOK, StatusInv, RowsInv, CompleteInv, FreshInv, LastFetch
<1> QED BY <1>1, <1>2, <1>3, PageStep DEF PageOK

\* A verdict is sent.
LEMMA SaveOK ==
  ASSUME ReviewInv, NEW i \in 1..Len(results), NEW v \in Verdicts \union {None}, Save(i, v)
  PROVE  PageOK(page)'
<1> DEFINE new == [row |-> i, verdict |-> v, stage |-> "sent"]
           w == [page EXCEPT !.saves = @ \union {new}]
<1>1. PageOK(page) /\ page.rows # None /\ page' = w /\ UNCHANGED <<run, results>>
  BY DEF ReviewInv, Save, ShowsRows, vars
<1>2. new \in Saving /\ new.row = i /\ new.stage = "sent"
  <2>1. i \in RowIds
    BY FewResults DEF ReviewInv
  <2> QED BY <2>1 DEF Saving
<1> HIDE DEF new
<1>3. w \in Page /\ w.run = page.run /\ w.status = page.status /\ w.statusFetch = page.statusFetch
      /\ w.rows = page.rows /\ w.rowsError = page.rowsError /\ w.rowsFetch = page.rowsFetch
      /\ w.answer = page.answer /\ w.saves = page.saves \union {new} /\ w.sawRunning = page.sawRunning
      /\ w.unheard = page.unheard /\ w.joined = page.joined
  BY <1>1, <1>2 DEF PageOK, Page
<1> HIDE DEF w
<1>4. StatusInv(w) /\ RowsInv(w) /\ CompleteInv(w) /\ FreshInv(w)
  BY <1>1, <1>2, <1>3 DEF PageOK, StatusInv, RowsInv, CompleteInv, FreshInv, LastFetch
<1> QED BY <1>1, <1>3, <1>4, PageStep DEF PageOK

\* A step of the server that leaves the page in state w.
LEMMA ServerStep ==
  ASSUME RunsInv, ServerMoves, NEW w \in Page, page' = w, StatusInv(w), RowsInv(w), CompleteInv(w)
  PROVE  StatusInv(page)' /\ RowsInv(page)' /\ CompleteInv(page)'
<1>1. w.run = 0 \/ w.run \in RunIds
  BY EvalRunsAssumption DEF Page, RunIds
<1>2. StatusInv(page)'
  <2>1. w.run \in RunIds => /\ run[w.run].status # "absent" => run'[w.run].status # "absent"
                            /\ run[w.run].status \in Ended => run'[w.run].status \in Ended
    BY DEF ServerMoves
  <2>2. w.run = 0 => w.status \notin Ended /\ w.statusFetch \notin Ended
    BY EvalReviewAssumption DEF StatusInv, Ended
  <2> QED BY <1>1, <2>1, <2>2 DEF StatusInv
<1>3. ASSUME NEW list, PartOf(list, w.run), w.run \in RunIds
      PROVE  PartOf(list, w.run)'
  <2>1. DOMAIN list \subseteq ResultsOf(w.run) /\ ResultsOf(w.run) \subseteq ResultsOf(w.run)'
        /\ ResultsOf(w.run) \subseteq 1..Len(results)
    BY <1>3, RowsAreFinite DEF PartOf, ServerMoves, RunsInv
  <2> QED BY <1>3, <2>1 DEF PartOf, ServerMoves
<1>4. w.rows # None \/ w.rowsFetch = "answered" => w.run \in RunIds
  BY <1>1 DEF StatusInv
<1>5. \A s \in w.saves : s.row \in 1..Len(results')
  <2>1. Len(results) \in Nat
    BY DEF RunsInv, TypeOK
  <2> QED BY <2>1 DEF RowsInv, ServerMoves
<1>6. RowsInv(page)'
  <2>1. w.rows # None => PartOf(w.rows, w.run)'
    BY <1>3, <1>4 DEF RowsInv
  <2>2. w.rowsFetch = "answered" => PartOf(w.answer, w.run)'
    BY <1>3, <1>4 DEF RowsInv
  <2>3. w.rows # None => PartOf(page.rows, page.run)'
    BY <2>1 DEF PartOf
  <2>4. w.rowsFetch = "answered" => PartOf(page.answer, page.run)'
    BY <2>2 DEF PartOf
  <2> QED BY <1>5, <2>3, <2>4 DEF RowsInv
<1>7. CompleteInv(page)'
  <2>1. w.status \in Ended => w.run \in RunIds /\ run[w.run].status \in Ended
    BY <1>1, EvalReviewAssumption DEF StatusInv
  <2>2. w.status \in Ended => ResultsOf(w.run)' = ResultsOf(w.run)
    BY <2>1 DEF ServerMoves
  <2>3. w.status \in Ended => WholeLists(page.run)' = WholeLists(w.run)
    BY <2>2 DEF WholeLists
  <2> QED BY <2>3 DEF CompleteInv, LastFetch
<1> QED BY <1>2, <1>6, <1>7

\* The server sets a verdict: until its answer is heard, what is shown may be stale.
LEMMA ServeSaveOK ==
  ASSUME ReviewInv, NEW s \in page.saves, ServeSave(s)
  PROVE  RunsInv' /\ PageOK(page)'
<1> DEFINE written == [s EXCEPT !.stage = "written"]
           w == [page EXCEPT !.saves = (@ \ {s}) \union {written}]
<1>1. RunsInv /\ PageOK(page) /\ UpdateResult(s.row, s.verdict) /\ page' = w
  BY DEF ReviewInv, ServeSave
<1>2. s \in Saving /\ s.row \in 1..Len(results) /\ page.rows # None
  BY <1>1 DEF PageOK, Page, RowsInv
<1>3. s.verdict \in Verdicts \union {None}
  BY <1>2 DEF Saving
<1>4. written \in Saving /\ written.row = s.row /\ written.stage = "written"
  BY <1>2 DEF Saving
<1> HIDE DEF written
<1>5. w \in Page /\ w.run = page.run /\ w.status = page.status /\ w.statusFetch = page.statusFetch
      /\ w.rows = page.rows /\ w.rowsError = page.rowsError /\ w.rowsFetch = page.rowsFetch
      /\ w.answer = page.answer /\ w.saves = (page.saves \ {s}) \union {written}
      /\ w.sawRunning = page.sawRunning /\ w.joined = page.joined
  BY <1>1, <1>4 DEF PageOK, Page
<1> HIDE DEF w
<1>6. StatusInv(w) /\ RowsInv(w) /\ CompleteInv(w)
  BY <1>1, <1>2, <1>4, <1>5 DEF PageOK, StatusInv, RowsInv, CompleteInv, LastFetch
<1>7. ServerMoves
  BY <1>1, <1>2, <1>3, VerdictMoves
<1>8. StatusInv(page)' /\ RowsInv(page)' /\ CompleteInv(page)'
  BY <1>1, <1>5, <1>6, <1>7, ServerStep
<1>9. FreshInv(page)'
  BY <1>1, <1>4, <1>5 DEF FreshInv
<1>10. RunsInv'
  BY <1>1, <1>2, <1>3, UpdateResultInv
<1> QED BY <1>1, <1>5, <1>8, <1>9, <1>10 DEF PageOK

\* A step of the run leaves the page as it is.
LEMMA DriveOK ==
  ASSUME ReviewInv, Drive, UNCHANGED page
  PROVE  RunsInv' /\ PageOK(page)'
<1>1. RunsInv /\ PageOK(page) /\ RunsInv'
  BY DriveInv DEF ReviewInv
<1>2. ServerMoves /\ \A i \in 1..Len(results) : results'[i] = results[i]
  BY <1>1, DriveMoves
<1>3. StatusInv(page)' /\ RowsInv(page)' /\ CompleteInv(page)'
  BY <1>1, <1>2, ServerStep DEF PageOK
<1>4. FreshInv(page)'
  <2>1. page.rows # None \/ page.rowsFetch = "answered" => page.run \in RunIds
    BY <1>1, EvalRunsAssumption DEF PageOK, StatusInv, Page, RunIds
  <2>2. page.run \in RunIds => ResultsOf(page.run) \subseteq 1..Len(results)
    BY <1>1, RowsAreFinite DEF RunsInv
  <2>3. ASSUME NEW list \in FreshLists, PartOf(list, page.run), page.run \in RunIds
        PROVE  list \in FreshLists'
    <3>1. list \in Lists /\ \A i \in DOMAIN list : list[i] = results[i] /\ i \in 1..Len(results)
      BY <2>2, <2>3 DEF FreshLists, PartOf
    <3> QED BY <1>2, <3>1 DEF FreshLists
  <2>4. LastFetch(page, FreshLists) => LastFetch(page, FreshLists)'
    <3>1. LastFetch(page, FreshLists)' <=> LastFetch(page, FreshLists')
      BY DEF LastFetch
    <3> QED BY <1>1, <2>1, <2>3, <3>1 DEF LastFetch, PageOK, RowsInv
  <2> QED BY <1>1, <2>4 DEF FreshInv, PageOK
<1> QED BY <1>1, <1>3, <1>4 DEF PageOK

\* What is left of the page's state when a save is over.
LEMMA SaveDoneIs ==
  ASSUME ReviewInv, NEW s \in page.saves
  PROVE  LET p == SaveDone(s) IN
         /\ p \in Page /\ p.run = page.run /\ p.status = page.status /\ p.statusFetch = page.statusFetch
         /\ p.rows = page.rows /\ p.rowsError = page.rowsError /\ p.rowsFetch = page.rowsFetch
         /\ p.answer = page.answer /\ p.saves = page.saves \ {s} /\ p.sawRunning = page.sawRunning
         /\ p.unheard = page.unheard /\ p.joined = page.joined
         /\ StatusInv(p) /\ RowsInv(p) /\ CompleteInv(p)
         /\ p.rows # None /\ p.run # 0
<1> DEFINE p == SaveDone(s)
<1>1. PageOK(page)
  BY DEF ReviewInv
<1>2. p \in Page /\ p.run = page.run /\ p.status = page.status /\ p.statusFetch = page.statusFetch
      /\ p.rows = page.rows /\ p.rowsError = page.rowsError /\ p.rowsFetch = page.rowsFetch
      /\ p.answer = page.answer /\ p.saves = page.saves \ {s} /\ p.sawRunning = page.sawRunning
      /\ p.unheard = page.unheard /\ p.joined = page.joined
  BY <1>1 DEF PageOK, Page, SaveDone
<1> HIDE DEF p
<1>3. StatusInv(p) /\ RowsInv(p) /\ CompleteInv(p) /\ p.rows # None /\ p.run # 0
  BY <1>1, <1>2 DEF PageOK, StatusInv, RowsInv, CompleteInv, LastFetch
<1> QED BY <1>2, <1>3 DEF p

\* A save succeeds: the results are asked for after it.
LEMMA SavedOK ==
  ASSUME ReviewInv, NEW s \in page.saves, Saved(s)
  PROVE  PageOK(page)'
<1> DEFINE p == SaveDone(s)
<1>1. page' = AskAgain(p) /\ UNCHANGED <<run, results>>
  BY DEF Saved, vars
<1>2. p \in Page /\ StatusInv(p) /\ RowsInv(p) /\ p.rows # None /\ p.run # 0
  BY SaveDoneIs
<1> HIDE DEF p
<1>3. PageOK(AskAgain(p))
  BY <1>2, AskAgainOK
<1> QED BY <1>1, <1>3, PageStep

\* A save fails, or its answer is lost.
LEMMA SaveFailsOK ==
  ASSUME ReviewInv, NEW s \in page.saves, SaveFails(s)
  PROVE  PageOK(page)'
<1> DEFINE p == SaveDone(s)
           w == [p EXCEPT !.unheard = @ \/ s.stage = "written"]
<1>1. PageOK(page) /\ page' = w /\ UNCHANGED <<run, results>>
  BY DEF ReviewInv, SaveFails, vars
<1>2. /\ p \in Page /\ p.run = page.run /\ p.status = page.status /\ p.statusFetch = page.statusFetch
      /\ p.rows = page.rows /\ p.rowsError = page.rowsError /\ p.rowsFetch = page.rowsFetch
      /\ p.answer = page.answer /\ p.saves = page.saves \ {s} /\ p.unheard = page.unheard
      /\ StatusInv(p) /\ RowsInv(p) /\ CompleteInv(p)
  BY SaveDoneIs
<1> HIDE DEF p
<1>3. w \in Page /\ w.run = p.run /\ w.status = p.status /\ w.statusFetch = p.statusFetch
      /\ w.rows = p.rows /\ w.rowsError = p.rowsError /\ w.rowsFetch = p.rowsFetch
      /\ w.answer = p.answer /\ w.saves = p.saves /\ w.sawRunning = p.sawRunning
      /\ (w.unheard <=> p.unheard \/ s.stage = "written") /\ w.joined = p.joined
  BY <1>2 DEF Page
<1> HIDE DEF w
<1>4. StatusInv(w) /\ RowsInv(w) /\ CompleteInv(w)
  BY <1>2, <1>3 DEF StatusInv, RowsInv, CompleteInv, LastFetch
<1>5. FreshInv(w)
  <2>1. s.stage \in {"sent", "written"}
    BY <1>1 DEF PageOK, Page, Saving
  <2> QED BY <1>1, <1>2, <1>3, <2>1 DEF PageOK, FreshInv, LastFetch
<1> QED BY <1>1, <1>3, <1>4, <1>5, PageStep DEF PageOK

\* The invariant is inductive.
LEMMA ReviewStepInv == ReviewInv /\ [ReviewNext]_reviewVars => ReviewInv'
<1> SUFFICES ASSUME ReviewInv, [ReviewNext]_reviewVars PROVE ReviewInv'
  OBVIOUS
<1>1. UNCHANGED vars => RunsInv'
  BY StepInv DEF ReviewInv
<1>2. CASE Drive /\ UNCHANGED page
  BY <1>2, DriveOK DEF ReviewInv
<1>3. ASSUME NEW r \in RunIds, Open(r) PROVE ReviewInv'
  BY <1>1, <1>3, OpenOK DEF ReviewInv, Open
<1>4. CASE PollStatus
  BY <1>1, <1>4, PollStatusOK DEF ReviewInv, PollStatus
<1>5. CASE ServeStatus
  BY <1>1, <1>5, ServeStatusOK DEF ReviewInv, ServeStatus
<1>6. CASE TakeStatus
  BY <1>1, <1>6, TakeStatusOK DEF ReviewInv, TakeStatus
<1>7. CASE PollRows
  BY <1>1, <1>7, PollRowsOK DEF ReviewInv, PollRows
<1>8. CASE ServeRows
  BY <1>1, <1>8, ServeRowsOK DEF ReviewInv, ServeRows
<1>9. CASE TakeRows
  BY <1>1, <1>9, TakeRowsOK DEF ReviewInv, TakeRows
<1>10. CASE RowsFail
  BY <1>1, <1>10, RowsFailOK DEF ReviewInv, RowsFail
<1>11. ASSUME NEW i \in 1..Len(results), NEW v \in Verdicts \union {None}, Save(i, v) PROVE ReviewInv'
  BY <1>1, <1>11, SaveOK DEF ReviewInv, Save
<1>12. ASSUME NEW s \in page.saves, ServeSave(s) PROVE ReviewInv'
  BY <1>12, ServeSaveOK DEF ReviewInv
<1>13. ASSUME NEW s \in page.saves, Saved(s) PROVE ReviewInv'
  BY <1>1, <1>13, SavedOK DEF ReviewInv, Saved
<1>14. ASSUME NEW s \in page.saves, SaveFails(s) PROVE ReviewInv'
  BY <1>1, <1>14, SaveFailsOK DEF ReviewInv, SaveFails
<1>15. CASE UNCHANGED reviewVars
  <2>1. UNCHANGED vars /\ page' = page /\ UNCHANGED <<run, results>>
    BY <1>15 DEF reviewVars, vars
  <2> QED BY <1>1, <2>1, PageStep DEF ReviewInv
<1> QED BY <1>2, <1>3, <1>4, <1>5, <1>6, <1>7, <1>8, <1>9, <1>10, <1>11, <1>12, <1>13, <1>14, <1>15
        DEF ReviewNext

-----------------------------------------------------------------------------
(***************************************************************************)
(* What is rendered.                                                       *)
(***************************************************************************)

\* A list of results in the order of their cases.
InOrder(rows) ==
  /\ rows \in Lists
  /\ \A i, j \in DOMAIN rows : i < j => rows[i].case < rows[j].case

\* The rows of a list are finitely many results, one of each case.
LEMMA ListIs ==
  ASSUME NEW rows, InOrder(rows)
  PROVE  /\ DOMAIN rows \in SUBSET RowIds /\ DOMAIN rows \in SUBSET Nat /\ IsFiniteSet(DOMAIN rows)
         /\ \A i \in DOMAIN rows : rows[i] \in Result /\ rows[i].case \in CaseIds /\ rows[i].case \in Nat
         /\ \A i, j \in DOMAIN rows : rows[i].case = rows[j].case => i = j
<1>1. PICK ids \in SUBSET RowIds : rows \in [ids -> Result]
  BY DEF InOrder, Lists
<1>2. MaxRuns * MaxCases \in Nat /\ MaxCases \in Nat
  BY EvalRunsAssumption
<1>3. IsFiniteSet(RowIds)
  BY <1>2, FS_Interval DEF RowIds
<1>4. DOMAIN rows \in SUBSET RowIds /\ IsFiniteSet(DOMAIN rows)
  BY <1>1, <1>3, FS_Subset
<1>5. \A i \in DOMAIN rows : i \in Nat
  BY <1>2, <1>4 DEF RowIds
<1>6. \A i \in DOMAIN rows : rows[i] \in Result /\ rows[i].case \in CaseIds /\ rows[i].case \in Nat
  BY <1>1, <1>2 DEF Result, CaseIds
<1>7. ASSUME NEW i \in DOMAIN rows, NEW j \in DOMAIN rows, rows[i].case = rows[j].case PROVE i = j
  BY <1>5, <1>6, <1>7 DEF InOrder
<1> QED BY <1>4, <1>5, <1>6, <1>7

\* A list that is not empty has a first row.
LEMMA LeastIs ==
  ASSUME NEW S \in SUBSET Nat, S # {}
  PROVE  Least(S) \in S /\ \A j \in S : Least(S) <= j
<1>1. PICK x \in S : \A y \in S : ~ (<<y, x>> \in OpToRel(<, Nat))
  BY WFMin, NatLessThanWellFounded
<1>2. ASSUME NEW y \in S, y < x PROVE FALSE
  <2>1. <<y, x>> \in Nat \X Nat /\ <<y, x>>[1] < <<y, x>>[2]
    BY <1>2
  <2>2. <<y, x>> \in OpToRel(<, Nat)
    BY <2>1 DEF OpToRel
  <2> QED BY <1>1, <2>2
<1>3. \A y \in S : x <= y
  BY <1>2
<1> QED BY <1>3 DEF Least

\* The panel is of the case the URL asks for, or of the first row.
LEMMA PanelAgrees ==
  ASSUME NEW rows, InOrder(rows), NEW filtered \in SUBSET DOMAIN rows, NEW requested
  PROVE  LET selected == SelectedCaseId(rows, filtered, requested) IN
         /\ Cardinality(SelectedResults(rows, filtered, selected)) = IF filtered = {} THEN 0 ELSE 1
         /\ requested \in CasesIn(rows, filtered) => selected = requested
         /\ filtered # {} => \E i \in filtered : selected = rows[i].case
<1> DEFINE selected == SelectedCaseId(rows, filtered, requested)
           panel    == SelectedResults(rows, filtered, selected)
<1>1. requested \in CasesIn(rows, filtered) => selected = requested
  BY DEF SelectedCaseId
<1>2. ASSUME filtered # {} PROVE \E i \in filtered : selected = rows[i].case
  <2>1. CASE requested \in CasesIn(rows, filtered)
    BY <1>1, <2>1 DEF CasesIn
  <2>2. CASE requested \notin CasesIn(rows, filtered)
    <3>1. filtered \in SUBSET Nat
      BY ListIs
    <3>2. Least(filtered) \in filtered
      BY <1>2, <3>1, LeastIs
    <3>3. selected = rows[Least(filtered)].case
      BY <1>2, <2>2 DEF SelectedCaseId
    <3> QED BY <3>2, <3>3
  <2> QED BY <2>1, <2>2
<1>3. CASE filtered = {}
  <2>1. panel = {}
    BY <1>3 DEF SelectedResults
  <2> QED BY <1>1, <1>3, <2>1, FS_EmptySet
<1>4. CASE filtered # {}
  <2>1. PICK i \in filtered : selected = rows[i].case
    BY <1>2, <1>4
  <2>2. panel = {i}
    BY <2>1, ListIs DEF SelectedResults
  <2>3. Cardinality(panel) = 1
    BY <2>2, FS_Singleton
  <2> QED BY <1>1, <1>2, <1>4, <2>3
<1> QED BY <1>3, <1>4

\* "Next unreviewed" finds an open row, and another one than the selected if there are two.
LEMMA NextAgrees ==
  ASSUME NEW rows, InOrder(rows), NEW filtered \in SUBSET DOMAIN rows, NEW selected,
         filtered # {} => \E i \in filtered : selected = rows[i].case
  PROVE  LET open == CasesIn(rows, {i \in filtered : rows[i].verdict = None})
             next == NextUnreviewedCaseId(rows, filtered, selected)
         IN /\ IF open = {} THEN next = None ELSE next \in open
            /\ Cardinality(open) > 1 => next # selected
<1> DEFINE O      == {i \in filtered : rows[i].verdict = None}
           behind == {i \in O : \A k \in filtered : rows[k].case = selected => k < i}
           from   == IF behind # {} THEN behind ELSE O
           open   == CasesIn(rows, O)
           next   == NextUnreviewedCaseId(rows, filtered, selected)
<1>1. O \in SUBSET Nat /\ behind \subseteq O /\ \A i \in O : i \in filtered /\ i \in DOMAIN rows
  BY ListIs
<1>2. CASE O = {}
  <2>1. open = {} /\ next = None
    BY <1>2 DEF CasesIn, NextUnreviewedCaseId
  <2> QED BY <2>1, FS_EmptySet
<1>3. CASE O # {}
  <2>1. from # {} /\ from \in SUBSET Nat /\ from \subseteq O
    BY <1>1, <1>3
  <2>2. Least(from) \in from /\ \A j \in from : Least(from) <= j
    BY <2>1, LeastIs
  <2>3. next = rows[Least(from)].case
    BY <1>3 DEF NextUnreviewedCaseId
  <2>4. next \in open /\ open # {}
    BY <2>1, <2>2, <2>3 DEF CasesIn
  <2>5. ASSUME Cardinality(open) > 1, next = selected PROVE FALSE
    <3> DEFINE l == Least(from)
    <3>1. l \in O /\ l \in filtered /\ rows[l].case = selected
      BY <1>1, <2>1, <2>2, <2>3, <2>5
    <3> HIDE DEF from, l
    <3>2. l \in Nat /\ l \notin behind
      <4>1. l \in Nat /\ ~ (l < l)
        BY <1>1, <3>1
      <4> QED BY <3>1, <4>1
    <3>3. from = O /\ behind = {}
      BY <2>2, <3>2 DEF from, l
    \* The selected row is the first open one, and no other is behind it: it is the only one.
    <3>4. ASSUME NEW i \in O, i # l PROVE FALSE
      <4>1. l <= i /\ i \in Nat
        BY <1>1, <2>2, <3>3, <3>4 DEF l
      <4>2. \A k \in filtered : rows[k].case = selected => k = l
        BY <3>1, ListIs
      <4>3. i \in behind
        BY <3>2, <3>4, <4>1, <4>2
      <4> QED BY <3>3, <4>3
    <3>5. O = {l}
      BY <3>1, <3>4
    <3>6. open = {rows[l].case}
      BY <3>5 DEF CasesIn
    <3>7. Cardinality(open) = 1
      BY <3>6, FS_Singleton
    <3> QED BY <2>5, <3>7
  <2> QED BY <2>4, <2>5
<1> QED BY <1>2, <1>3

\* The counts are those of the filters' lists.
LEMMA CountsAgree ==
  ASSUME NEW rows, InOrder(rows), NEW filter \in Filters
  PROVE  Cardinality(FilterResults(rows, filter)) =
           CASE filter = "all"        -> CountByStatus(rows).total
             [] filter = "failed"     -> CountByStatus(rows).failed
             [] filter = "unreviewed" -> CountByStatus(rows).unreviewed
<1> DEFINE D == DOMAIN rows
           P == {i \in D : Passed(rows[i])}
<1>1. IsFiniteSet(D) /\ P \subseteq D
  BY ListIs
<1>2. CASE filter = "all"
  <2>1. FilterResults(rows, filter) = D
    BY <1>2 DEF FilterResults
  <2> QED BY <1>2, <2>1 DEF CountByStatus
<1>3. CASE filter = "failed"
  <2>1. FilterResults(rows, filter) = D \ P
    BY <1>3 DEF FilterResults
  <2>2. D \intersect P = P
    BY <1>1
  <2>3. Cardinality(D \ P) = Cardinality(D) - Cardinality(P)
    <3> HIDE DEF D, P
    <3> QED BY <1>1, <2>2, FS_Difference
  <2> QED BY <1>3, <2>1, <2>3 DEF CountByStatus
<1>4. CASE filter = "unreviewed"
  <2>1. FilterResults(rows, filter) = {i \in D : rows[i].verdict = None}
    BY <1>4 DEF FilterResults
  <2> QED BY <1>4, <2>1 DEF CountByStatus
<1> QED BY <1>2, <1>3, <1>4 DEF Filters

\* What the page shows is in the order of the cases.
LEMMA ShownInOrder ==
  ASSUME ReviewInv, ShowsRows
  PROVE  InOrder(page.rows)
<1>1. page.rows \in Lists /\ page.run \in RunIds /\ PartOf(page.rows, page.run)
  BY EvalRunsAssumption
     DEF ReviewInv, PageOK, Page, ShowsRows, StatusInv, RowsInv, RunIds
<1>2. \A i, j \in ResultsOf(page.run) : i < j => results[i].case < results[j].case
  BY <1>1 DEF ReviewInv, RunsInv, RunInv
<1> QED BY <1>1, <1>2 DEF InOrder, PartOf

-----------------------------------------------------------------------------
(***************************************************************************)
(* The theorems.                                                           *)
(***************************************************************************)

\* The inductive invariant holds: the runs keep theirs under the page and its verdicts.
THEOREM ReviewSafe == ReviewSpec => []ReviewInv
  BY ReviewInitInv, ReviewStepInv, PTL DEF ReviewSpec

\* A page that has seen its run end shows all its results.
THEOREM EndedPagesAreComplete == ReviewSpec => []EndedPageIsComplete
<1>1. ReviewInv => EndedPageIsComplete
  BY DEF ReviewInv, PageOK, CompleteInv, LastFetch, WholeLists, ShowsRows, EndedPageIsComplete
<1> QED BY <1>1, ReviewSafe, PTL

\* A page that waits for nothing shows the verdicts that are stored.
THEOREM StoredVerdictsAreShown == ReviewSpec => []VerdictsAreShown
<1>1. ReviewInv => VerdictsAreShown
  BY DEF ReviewInv, PageOK, FreshInv, LastFetch, FreshLists, ShowsRows, VerdictsAreShown
<1> QED BY <1>1, ReviewSafe, PTL

\* Panel, list, counts and next case agree.
THEOREM PageAgrees == ReviewSpec => []PageInv
<1>1. ASSUME ReviewInv PROVE PageInv
  <2>1. PageTypeOK
    BY <1>1 DEF ReviewInv, PageOK, PageTypeOK
  <2>2. ASSUME ShowsRows, NEW filter \in Filters
        PROVE  LET rows     == page.rows
                   filtered == FilterResults(rows, filter)
                   open     == CasesIn(rows, {i \in filtered : rows[i].verdict = None})
                   counts   == CountByStatus(rows)
               IN
               /\ \A requested \in CaseIds \union {None} :
                    LET selected == SelectedCaseId(rows, filtered, requested)
                        next     == NextUnreviewedCaseId(rows, filtered, selected)
                    IN
                    /\ Cardinality(SelectedResults(rows, filtered, selected)) = IF filtered = {} THEN 0 ELSE 1
                    /\ requested \in CasesIn(rows, filtered) => selected = requested
                    /\ IF open = {} THEN next = None ELSE next \in open
                    /\ Cardinality(open) > 1 => next # selected
               /\ Cardinality(filtered) = CASE filter = "all"        -> counts.total
                                            [] filter = "failed"     -> counts.failed
                                            [] filter = "unreviewed" -> counts.unreviewed
    <3> DEFINE filtered == FilterResults(page.rows, filter)
    <3>1. InOrder(page.rows)
      BY <1>1, <2>2, ShownInOrder
    <3>2. filtered \in SUBSET DOMAIN page.rows
      BY DEF FilterResults
    <3>3. Cardinality(filtered) = CASE filter = "all"        -> CountByStatus(page.rows).total
                                    [] filter = "failed"     -> CountByStatus(page.rows).failed
                                    [] filter = "unreviewed" -> CountByStatus(page.rows).unreviewed
      BY <2>2, <3>1, CountsAgree
    <3> HIDE DEF filtered
    <3>4. ASSUME NEW requested \in CaseIds \union {None}, NEW selected,
                 selected = SelectedCaseId(page.rows, filtered, requested)
          PROVE  LET open == CasesIn(page.rows, {i \in filtered : page.rows[i].verdict = None})
                     next == NextUnreviewedCaseId(page.rows, filtered, selected)
                 IN
                 /\ Cardinality(SelectedResults(page.rows, filtered, selected))
                      = IF filtered = {} THEN 0 ELSE 1
                 /\ requested \in CasesIn(page.rows, filtered) => selected = requested
                 /\ IF open = {} THEN next = None ELSE next \in open
                 /\ Cardinality(open) > 1 => next # selected
      <4>1. /\ Cardinality(SelectedResults(page.rows, filtered, selected))
                 = IF filtered = {} THEN 0 ELSE 1
            /\ requested \in CasesIn(page.rows, filtered) => selected = requested
            /\ filtered # {} => \E i \in filtered : selected = page.rows[i].case
        BY <3>1, <3>2, <3>4, PanelAgrees
      <4> QED BY <3>1, <3>2, <4>1, NextAgrees
    <3> QED BY <3>3, <3>4 DEF filtered
  <2> QED BY <2>1, <2>2 DEF PageInv
<1> QED BY <1>1, ReviewSafe, PTL

===============================================================================
