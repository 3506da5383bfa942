------------------------------ MODULE EvalReview ------------------------------
(***************************************************************************)
(* The review page of one run (frontend pages/review): two queries that    *)
(* poll the run and its results, independently of each other, while the    *)
(* run is running, one more fetch of the results when it stops running,    *)
(* and verdicts that are saved and then read back.                         *)
(*                                                                         *)
(* The page is opened once and is the only one that sets verdicts.  A      *)
(* fetch is "asked" until the server reads its tables, and then on its     *)
(* way with what was read.  The fetch that a browser adds when its window  *)
(* gets the focus is left out.  The filter and the case the URL names only *)
(* choose what is rendered: they are parameters, not state.                *)
(*                                                                         *)
(* A list of results is a function on their ids: the answer has the rows   *)
(* in the order of their ids, and filter() keeps it.                       *)
(***************************************************************************)
EXTENDS EvalRuns

CONSTANT MaxSaves   \* bound: verdicts on their way at once

VARIABLE page

reviewVars == <<vars, page>>

Filters == {"all", "failed", "unreviewed"}

RowIds == 1..(MaxRuns * MaxCases)
Lists  == UNION {[ids -> Result] : ids \in SUBSET RowIds}
NoRows == [i \in {} |-> None]

ASSUME EvalReviewAssumption == MaxSaves \in Nat /\ None \notin Lists \union {"running"} \union Ended

\* What GET /evals/runs/{id}/results answers.
RowsOf(r) == [i \in ResultsOf(r) |-> results[i]]

\* A verdict on its way to the server, or its answer on the way back.
Saving == [row : RowIds, verdict : Verdicts \union {None}, stage : {"sent", "written"}]

Page == [run         : 0..MaxRuns,                               \* 0: no run is opened
         status      : {None, "running"} \union Ended,
         statusFetch : {"idle", "asked", "running"} \union Ended,  \* or the answer on its way
         rows        : Lists \union {None},
         rowsError   : BOOLEAN,
         rowsFetch   : {"idle", "asked", "answered"},
         answer      : Lists,
         saves       : SUBSET Saving,
         sawRunning  : BOOLEAN,  \* history: the run was seen "running"
         unheard     : BOOLEAN,  \* history: the answer to a save was lost, and nothing fetched since
         joined      : BOOLEAN]  \* history: the last fetch asked for is one the server had answered

PageTypeOK == page \in Page

\* A page that shows nothing.
Blank == [run |-> 0, status |-> None, statusFetch |-> "idle", rows |-> None, rowsError |-> FALSE,
          rowsFetch |-> "idle", answer |-> NoRows, saves |-> {}, sawRunning |-> FALSE,
          unheard |-> FALSE, joined |-> FALSE]

ReviewInit == Init /\ page = Blank

-----------------------------------------------------------------------------
\* What is rendered (ReviewPage, reviewLogic).

\* The ids of the rows a filter keeps.
FilterResults(rows, filter) ==
  {i \in DOMAIN rows : /\ filter = "failed" => ~Passed(rows[i])
                       /\ filter = "unreviewed" => rows[i].verdict = None}

CountByStatus(rows) ==
  LET total  == Cardinality(DOMAIN rows)
      passed == Cardinality({i \in DOMAIN rows : Passed(rows[i])})
  IN [total |-> total, passed |-> passed, failed |-> total - passed,
      unreviewed |-> Cardinality({i \in DOMAIN rows : rows[i].verdict = None})]

CasesIn(rows, list) == {rows[i].case : i \in list}

Least(list) == CHOOSE i \in list : \A j \in list : i <= j

\* The next row without a verdict behind that of a case, or from the start of the list; the
\* page passes the list its filter leaves.
NextUnreviewedCaseId(rows, list, after) ==
  LET open   == {i \in list : rows[i].verdict = None}
      behind == {i \in open : \A k \in list : rows[k].case = after => k < i}
  IN IF open = {} THEN None
     ELSE rows[Least(IF behind # {} THEN behind ELSE open)].case

\* Mutant: a case the filter hides stays selected.
SelectedAnywhere(rows, filtered, requested) ==
  IF requested \in CasesIn(rows, DOMAIN rows) THEN requested
  ELSE IF filtered = {} THEN None ELSE rows[Least(filtered)].case

\* The case the URL asks for, or the first of the list when the list does not show it.
SelectedCaseId(rows, filtered, requested) ==
  IF requested \in CasesIn(rows, filtered) THEN requested
  ELSE IF filtered = {} THEN None ELSE rows[Least(filtered)].case

\* The rows the panel and the verdict form may be of.
SelectedResults(rows, filtered, selected) == {i \in filtered : rows[i].case = selected}

ShowsRows == page.rows # None /\ ~page.rowsError

-----------------------------------------------------------------------------

\* Mutant: a fetch that is under way is good enough.
JoinFetch(p) == IF p.rowsFetch = "idle" THEN [p EXCEPT !.rowsFetch = "asked", !.unheard = FALSE] ELSE p

\* invalidateQueries: the results are asked for again, and an answer that is on its
\* way is dropped with the fetch it belongs to - but not the first one: the query keeps
\* a fetch it has under way as long as it has no data.
AskAgain(p) ==
  IF p.rows = None /\ p.rowsFetch = "answered" THEN [p EXCEPT !.joined = TRUE]
  ELSE [p EXCEPT !.rowsFetch = "asked", !.answer = NoRows, !.unheard = FALSE, !.joined = FALSE]

\* The page is opened on a run that exists (otherwise both requests are a 404).
Open(r) ==
  /\ page.run = 0 /\ run[r].status # "absent"
  /\ page' = [Blank EXCEPT !.run = r, !.statusFetch = "asked", !.rowsFetch = "asked"]
  /\ UNCHANGED vars

-----------------------------------------------------------------------------
\* useEvalRun: polled every two seconds while the last answer is "running".

PollStatus ==
  /\ page.status = "running" /\ page.statusFetch = "idle"
  /\ page' = [page EXCEPT !.statusFetch = "asked"]
  /\ UNCHANGED vars

\* get_eval_run.
ServeStatus ==
  /\ page.statusFetch = "asked"
  /\ page' = [page EXCEPT !.statusFetch = run[page.run].status]
  /\ UNCHANGED vars

\* Mutant: the results are not fetched once more.
TakeStatusOnly ==
  /\ page.statusFetch \notin {"idle", "asked"}
  /\ page' = [page EXCEPT !.status = page.statusFetch, !.statusFetch = "idle",
                          !.sawRunning = @ \/ page.statusFetch = "running"]
  /\ UNCHANGED vars

\* The status arrives, and with it the effect of useEvalRunResults: a run that stops
\* being "running" has its results fetched once more.
TakeStatus ==
  /\ page.statusFetch \notin {"idle", "asked"}
  /\ LET now  == page.statusFetch
         next == [page EXCEPT !.status = now, !.statusFetch = "idle",
                              !.sawRunning = @ \/ now = "running"]
     IN page' = IF page.status = "running" /\ now # "running" THEN AskAgain(next) ELSE next
  /\ UNCHANGED vars

-----------------------------------------------------------------------------
\* useEvalRunResults: polled every two seconds while the run is "running".

PollRows ==
  /\ page.status = "running" /\ page.rowsFetch = "idle"
  /\ page' = AskAgain(page)
  /\ UNCHANGED vars

\* get_eval_run_results.
ServeRows ==
  /\ page.rowsFetch = "asked"
  /\ page' = [page EXCEPT !.rowsFetch = "answered", !.answer = RowsOf(page.run)]
  /\ UNCHANGED vars

TakeRows ==
  /\ page.rowsFetch = "answered"
  /\ page' = [page EXCEPT !.rows = page.answer, !.rowsError = FALSE,
                          !.rowsFetch = "idle", !.answer = NoRows]
  /\ UNCHANGED vars

\* The fetch fails, after its retry: an error takes the place of the list.
RowsFail ==
  /\ page.rowsFetch = "asked"
  /\ page' = [page EXCEPT !.rowsError = TRUE, !.rowsFetch = "idle"]
  /\ UNCHANGED vars

-----------------------------------------------------------------------------
\* VerdictForm and useUpdateEvalResult.  The choice and the notes are read when the form
\* is submitted.

\* Every row that is shown can be selected, and its form submitted.  The button is off
\* while the form's own save is on its way, but the form of another row, or of the same
\* row mounted again, has a button of its own.
Save(i, v) ==
  /\ ShowsRows /\ i \in DOMAIN page.rows
  /\ Cardinality(page.saves) < MaxSaves
  /\ page' = [page EXCEPT !.saves = @ \union {[row |-> i, verdict |-> v, stage |-> "sent"]}]
  /\ UNCHANGED vars

\* The server sets the verdict, in whatever order the requests reach it.
ServeSave(s) ==
  /\ s.stage = "sent"
  /\ UpdateResult(s.row, s.verdict)
  /\ page' = [page EXCEPT !.saves = (@ \ {s}) \union {[s EXCEPT !.stage = "written"]}]

SaveDone(s) == [page EXCEPT !.saves = @ \ {s}]

\* onSuccess, whichever form is mounted by then.
Saved(s) ==
  /\ s.stage = "written"
  /\ page' = AskAgain(SaveDone(s))
  /\ UNCHANGED vars

\* The request or its answer is lost; the form shows the error and may be sent again.
SaveFails(s) ==
  /\ page' = [SaveDone(s) EXCEPT !.unheard = @ \/ s.stage = "written"]
  /\ UNCHANGED vars

ReviewNext ==
  \/ Drive /\ UNCHANGED page
  \/ \E r \in RunIds : Open(r)
  \/ PollStatus \/ ServeStatus \/ TakeStatus
  \/ PollRows \/ ServeRows \/ TakeRows \/ RowsFail
  \/ \E i \in 1..Len(results), v \in Verdicts \union {None} : Save(i, v)
  \/ \E s \in page.saves : ServeSave(s) \/ Saved(s) \/ SaveFails(s)

ReviewSpec == ReviewInit /\ [][ReviewNext]_reviewVars

-----------------------------------------------------------------------------
(***************************************************************************)
(* Properties.                                                             *)
(***************************************************************************)

\* The panel and the list agree, under any filter and whatever case the URL names, while
\* answers and verdicts come and go: there is a panel exactly when the list has a row, for
\* one row of the list, and for the case of the URL if the list has it.  "Next unreviewed",
\* which the page asks of the list the filter leaves, finds a row of that list without a
\* verdict when there is one, and another one than the selected when there are two.  The
\* counts are those of the filters' lists.  (NextIgnoresTheFilter: what it does not find.)
PageInv ==
  /\ PageTypeOK
  /\ ShowsRows => \A filter \in Filters :
       LET rows     == page.rows
           filtered == FilterResults(rows, filter)
           open     == CasesIn(rows, {i \in filtered : rows[i].verdict = None})
           counts   == CountByStatus(rows)
       IN
       /\ \A requested \in CaseIds \union {None} :
            LET selected == SelectedCaseId(rows, filtered, requested)
                next     == NextUnreviewedCaseId(rows, filtered, selected)
            IN
            /\ Cardinality(SelectedResults(rows, filtered, selected)) = IF filtered = {} THEN 0 ELSE 1
            /\ requested \in CasesIn(rows, filtered) => selected = requested
            /\ IF open = {} THEN next = None ELSE next \in open
            /\ Cardinality(open) > 1 => next # selected
       /\ Cardinality(filtered) = CASE filter = "all"        -> counts.total
                                    [] filter = "failed"     -> counts.failed
                                    [] filter = "unreviewed" -> counts.unreviewed

\* "Next unreviewed" wraps around all results, whatever the filter hides, and is without a
\* target only when every result has a verdict (the comment of nextUnreviewedCaseId, which
\* the page calls with the filtered list).
NextIgnoresTheFilter ==
  ShowsRows => \A filter \in Filters, requested \in CaseIds \union {None} :
    LET rows     == page.rows
        filtered == FilterResults(rows, filter)
        selected == SelectedCaseId(rows, filtered, requested)
    IN selected # None => NextUnreviewedCaseId(rows, filtered, selected)
                            = NextUnreviewedCaseId(rows, DOMAIN rows, selected)

\* A page that has seen its run "running" and now shows it as ended, with no fetch
\* under way, shows every result the run has stored: neither the poll that came
\* before the last case nor an answer that was overtaken hides one - unless the page
\* hears of the end with its first results still on their way, which it then keeps.
EndedPageIsComplete ==
  page.sawRunning /\ page.status \in Ended /\ page.rowsFetch = "idle" /\ ShowsRows /\ ~page.joined
    => DOMAIN page.rows = ResultsOf(page.run)

\* With no save and no fetch under way the page shows the verdicts that are stored,
\* in whatever order saves and answers overtook each other - unless the answer to a
\* save was lost and nothing was fetched since.
VerdictsAreShown ==
  ShowsRows /\ page.rowsFetch = "idle" /\ ~page.unheard /\ page.saves = {}
    => \A i \in DOMAIN page.rows : results[i] = page.rows[i]
=============================================================================
