----------------------------- MODULE EvalMatrix -----------------------------
(***************************************************************************)
(* What the Evals page and the model page make of the report: the matrix   *)
(* of models and categories (aggregateReport, ComparisonMatrix) and the    *)
(* history of one model on its best backend (modelHelpers,                 *)
(* EvalHistoryCard).                                                       *)
(*                                                                         *)
(* The report is any that GET /evals/report may answer: a row per model,   *)
(* backend and category with at least one case, sorted by these three.     *)
(* One metric stands for the three that are averaged alike.  A group of    *)
(* rows is the set of their positions.                                     *)
(***************************************************************************)
EXTENDS Arrays, SequencesExt, FiniteSetsExt

CONSTANTS RatedModels,       \* 1 .. n: models, in the order of their ids
          RatedBackends,     \* backends, likewise
          RatedCategories,   \* categories, likewise
          Counts,            \* what a row counts: cases, those that passed, the latest run
          Metrics,           \* means a row may have; NoMetric for none
          MaxReportRows      \* bound: rows of a report

NoMetric == -1

ASSUME EvalMatrixAssumption ==
  /\ RatedModels \subseteq Nat /\ RatedBackends \subseteq Nat /\ RatedCategories \subseteq Nat
  /\ \A n \in Counts : n.cases \in Nat \ {0} /\ n.passed \in 0 .. n.cases /\ n.latestRun \in Nat
  /\ Metrics \subseteq Nat \cup {NoMetric}

VARIABLE reportRows      \* the answer to GET /evals/report

MatrixInit == reportRows = <<>>

Before(r, q) ==
  \/ r.model < q.model
  \/ r.model = q.model /\ r.backend < q.backend
  \/ r.model = q.model /\ r.backend = q.backend /\ r.category < q.category

(* A report of one row more: every report there is grows out of the empty  *)
(* one.                                                                    *)
ReportGrows ==
  /\ Len(reportRows) < MaxReportRows
  /\ \E m \in RatedModels, b \in RatedBackends, c \in RatedCategories,
        n \in Counts, x \in Metrics :
       LET row == [model |-> m, backend |-> b, category |-> c, cases |-> n.cases,
                   passed |-> n.passed, metric |-> x, latestRun |-> n.latestRun]
       IN /\ reportRows # <<>> => Before(Last(reportRows), row)
          /\ reportRows' = Append(reportRows, row)

MatrixNext == ReportGrows

MatrixSpec == MatrixInit /\ [][MatrixNext]_reportRows

(* ---- aggregateReport -------------------------------------------------- *)

Column(rows, field) == [i \in DOMAIN rows |-> rows[i][field]]

(* Math.round of a percentage *)
Pct(passed, n) == (200 * passed + n) \div (2 * n)

(* The columns: a category and its largest number of cases. *)
MatrixCategories(rows) ==
  LET names == Sorted(Range(Column(rows, "category")))
  IN [k \in DOMAIN names |->
        [name |-> names[k],
         cases |-> Max({rows[i].cases : i \in {j \in DOMAIN rows : rows[j].category = names[k]}})]]

(* Mutant: the rows of a model are one group, whatever backend ran it. *)
GroupsByModel(rows) ==
  {{j \in DOMAIN rows : rows[j].model = rows[i].model} : i \in DOMAIN rows}

(* The rows of one model and backend are a group. *)
Groups(rows) ==
  {{j \in DOMAIN rows : rows[j].model = rows[i].model /\ rows[j].backend = rows[i].backend}
     : i \in DOMAIN rows}

(* The tint is in 140ths. *)
Cell(row) ==
  LET pct == Pct(row.passed, row.cases)
  IN [passed |-> row.passed, cases |-> row.cases, pct |-> pct,
      tint |-> IF pct > 30 THEN pct - 30 ELSE 0]

(* A cell holds the last row of its category, or nothing: "not run". *)
Cells(rows, group, categories) ==
  [k \in DOMAIN categories |->
     LET at == {i \in group : rows[i].category = categories[k].name}
     IN {Cell(rows[i]) : i \in {j \in at : \A l \in at : l <= j}}]

(* A mean is its sum and its weight; the weight is 0 when no row has one. *)
WeightedMean(rows, group) ==
  LET known == {i \in group : rows[i].metric # NoMetric}
  IN [sum    |-> Total([i \in DOMAIN rows |-> rows[i].metric * rows[i].cases], known),
      weight |-> Total(Column(rows, "cases"), known)]

MatrixRow(rows, group, categories) ==
  LET passed == Total(Column(rows, "passed"), group)
      cases  == Total(Column(rows, "cases"), group)
  IN [model |-> rows[Min(group)].model, backend |-> rows[Min(group)].backend,
      cells |-> Cells(rows, group, categories),
      overallPassed |-> passed, overallCases |-> cases, overallPct |-> Pct(passed, cases),
      mean |-> WeightedMean(rows, group),
      latestRun |-> Max({rows[i].latestRun : i \in group})]

(* The best first; equal ones stay in the order they came. *)
BestFirst(row) ==
  LET ahead(g, h) == \/ row[g].overallPct > row[h].overallPct
                     \/ row[g].overallPct = row[h].overallPct /\ Min(g) <= Min(h)
  IN InOrder(DOMAIN row, {p \in (DOMAIN row) \X (DOMAIN row) : ahead(p[1], p[2])})

MatrixRows(rows, groups, categories) ==
  LET row     == [g \in groups |-> MatrixRow(rows, g, categories)]
      ranking == BestFirst(row)
  IN [k \in DOMAIN ranking |-> row[ranking[k]]]

AggregateReport(rows) ==
  [categories |-> MatrixCategories(rows),
   rows |-> MatrixRows(rows, Groups(rows), MatrixCategories(rows))]

(* ---- the model page --------------------------------------------------- *)

(* The first of the backends with the most cases. *)
BestEvalBackend(rows, mine) ==
  LET total(i) == Total(Column(rows, "cases"), {j \in mine : rows[j].backend = rows[i].backend})
  IN rows[Min({i \in mine : \A j \in mine : total(j) <= total(i)})].backend

(* Nothing for a model that was not evaluated. *)
EvalHistoryCard(model) ==
  LET mine   == {i \in DOMAIN reportRows : reportRows[i].model = model}
      ofBest == {i \in mine : reportRows[i].backend = BestEvalBackend(reportRows, mine)}
  IN [bars   |-> Kept([i \in DOMAIN reportRows |-> Pct(reportRows[i].passed, reportRows[i].cases)],
                      ofBest),
      passed |-> Total(Column(reportRows, "passed"), ofBest),
      cases  |-> Total(Column(reportRows, "cases"), ofBest)]

(* ---- properties ------------------------------------------------------- *)

(* Each row of the report is in one cell of the matrix, that of its model, *)
(* backend and category, and nothing else is.                              *)
RowsFillCells(matrix) ==
  LET filled == {p \in (DOMAIN matrix.rows) \X (DOMAIN matrix.categories) :
                   matrix.rows[p[1]].cells[p[2]] # {}}
      rowOf(i, k) == {r \in Range(reportRows) :
                        /\ r.model = matrix.rows[i].model /\ r.backend = matrix.rows[i].backend
                        /\ r.category = matrix.categories[k].name}
  IN /\ Cardinality(filled) = Len(reportRows)
     /\ \A i \in DOMAIN matrix.rows, k \in DOMAIN matrix.categories :
          \A c \in matrix.rows[i].cells[k] :
            /\ \E r \in rowOf(i, k) : c.passed = r.passed /\ c.cases = r.cases
            /\ c.cases <= matrix.categories[k].cases /\ c.tint \in 0 .. 70

(* The total of a matrix row is that of its report rows and lies between   *)
(* them, and so does its mean.                                             *)
RowTotals(row) ==
  LET mine  == {i \in DOMAIN reportRows :
                  reportRows[i].model = row.model /\ reportRows[i].backend = row.backend}
      pcts  == {Pct(reportRows[i].passed, reportRows[i].cases) : i \in mine}
      known == {reportRows[i].metric : i \in mine} \ {NoMetric}
  IN /\ row.overallCases = Total(Column(reportRows, "cases"), mine)
     /\ \E low, high \in pcts : low <= row.overallPct /\ row.overallPct <= high
     /\ known = {} <=> row.mean.weight = 0
     /\ known # {} => \E low, high \in known : /\ low * row.mean.weight <= row.mean.sum
                                               /\ row.mean.sum <= high * row.mean.weight
     /\ \E i \in mine : reportRows[i].latestRun = row.latestRun

(* The model page shows, of the backends of a model, one with the most     *)
(* cases, with the numbers its row of the matrix has.                      *)
CardIsARow(card, row, rows) ==
  /\ row.overallCases <= card.cases
  /\ \E j \in DOMAIN rows :
       /\ rows[j].model = row.model
       /\ rows[j].overallCases = card.cases /\ rows[j].overallPassed = card.passed
       /\ Len(card.bars) = Cardinality({k \in DOMAIN rows[j].cells : rows[j].cells[k] # {}})

AddsUp(matrix) ==
  LET sum(column) == Total(column, DOMAIN column)
  IN /\ RowsFillCells(matrix)
     /\ sum(Column(matrix.rows, "overallCases")) = sum(Column(reportRows, "cases"))
     /\ sum(Column(matrix.rows, "overallPassed")) = sum(Column(reportRows, "passed"))
     /\ \A i \in DOMAIN matrix.rows :
          /\ RowTotals(matrix.rows[i])
          /\ i > 1 => matrix.rows[i - 1].overallPct >= matrix.rows[i].overallPct
          /\ CardIsARow(EvalHistoryCard(matrix.rows[i].model), matrix.rows[i], matrix.rows)

(* The matrix is the report: every row of it in its own cell, no case      *)
(* counted twice or left out, totals and means those of the rows they are  *)
(* made of, the best row first, and the card of the model page one of its  *)
(* rows.                                                                   *)
MatrixAddsUp == AddsUp(AggregateReport(reportRows))

=============================================================================
