----------------------------- MODULE EvalClient -----------------------------
(***************************************************************************)
(* Starting an evaluation from the browser and following it: the loop that *)
(* reads the stream of POST /evals/run and is tied to no page, the one     *)
(* cache entry it writes, and the Evals page that comes and goes and shows *)
(* the entry and the report (activeRun, evals/queries, EvalsPage).         *)
(*                                                                         *)
(* The server is RunLifecycle, what EvalRuns is shown to implement: a run  *)
(* announces each case, stores its result, and ends with a last event.     *)
(***************************************************************************)
EXTENDS RunLifecycle, Sequences, FiniteSets

CONSTANTS Calls,      \* calls of startEvalRun, 1 .. n
          MaxEvents   \* bound: events on the way of one stream

(* Runs and calls are numbered from 1 in the order they begin.             *)
ASSUME ClientAssumption ==
  /\ IsFiniteSet(Runs) /\ Runs = 1 .. Cardinality(Runs)
  /\ IsFiniteSet(Calls) /\ Calls = 1 .. Cardinality(Calls)
  /\ MaxEvents \in Nat

VARIABLES
  call,     \* per call: where its loop is, the run it follows, the events on the way
  entry,    \* the cache's activeEvalRun
  evals,    \* the Evals page: is it open, and the call its mutation waits for
  report    \* the cache's evalReport: what it counts, a fetch under way or the end of the last,
            \* whether the last need for one was met by one that had been read, and whether it
            \* has no data yet

clientVars == <<vars, call, entry, evals, report>>

NoRun == 0
NoCall == 0
NoCount == [r \in Runs |-> 0]

ClientInit ==
  /\ Init
  /\ call = [k \in Calls |-> [at |-> "unmade", run |-> NoRun, wire |-> <<>>,
                              stream |-> "open", announced |-> 0,
                              wordless |-> FALSE]]   \* history: failed with an empty message
  /\ entry = [request |-> NoCall, run |-> NoRun, completed |-> 0, status |-> "none"]
  /\ evals = [open |-> TRUE, pending |-> NoCall]
  /\ report = [count |-> NoCount, fetch |-> "asked", read |-> NoCount, joined |-> FALSE,
               empty |-> TRUE]

(* ---- the page --------------------------------------------------------- *)

RunForm == [alreadyRunning |-> entry.status = "streaming",
            disabled |-> evals.pending # NoCall \/ entry.status = "streaming"]

RunningStrip ==
  CASE entry.status = "none"      -> "nothing"
    [] entry.status = "error"     -> "error"
    [] entry.status = "done"      -> "finished"
    [] entry.status = "streaming" -> "running"

HandleSubmit(k) ==
  /\ evals.open /\ ~RunForm.disabled
  /\ call[k].at = "unmade" /\ \A j \in 1 .. k - 1 : call[j].at # "unmade"
  /\ call' = [call EXCEPT ![k].at = "first"]
  /\ evals' = [evals EXCEPT !.pending = k]
  /\ UNCHANGED <<vars, entry, report>>

(* The mutation's state goes with the page; loop and cache stay. *)
LeaveEvals ==
  /\ evals.open
  /\ evals' = [open |-> FALSE, pending |-> NoCall]
  /\ UNCHANGED <<vars, call, entry, report>>

(* Opening the page fetches the report, unless a fetch is under way, which *)
(* it joins.                                                               *)
OpenEvals ==
  /\ ~evals.open
  /\ evals' = [evals EXCEPT !.open = TRUE]
  /\ report' = IF report.fetch = "read" THEN [report EXCEPT !.joined = TRUE]
               ELSE [report EXCEPT !.fetch = "asked", !.joined = FALSE]
  /\ UNCHANGED <<vars, call, entry>>

(* ---- GET /evals/report ------------------------------------------------ *)

Fetching == report.fetch \in {"asked", "read"}

ReadReport ==
  /\ report.fetch = "asked"
  /\ report' = [report EXCEPT !.fetch = "read", !.read = stored]
  /\ UNCHANGED <<vars, call, entry, evals>>

ReportArrives ==
  /\ report.fetch = "read"
  /\ report' = [report EXCEPT !.count = report.read, !.fetch = "idle", !.read = NoCount,
                              !.empty = FALSE]
  /\ UNCHANGED <<vars, call, entry, evals>>

(* The fetch or its answer is lost, after its retry: the page shows the    *)
(* error, above the matrix it had.                                         *)
ReportFails ==
  /\ Fetching
  /\ report' = [report EXCEPT !.fetch = "failed", !.read = NoCount, !.joined = FALSE]
  /\ UNCHANGED <<vars, call, entry, evals>>

(* Mutant: a fetch that is under way is good enough. *)
JoinReportFetch ==
  report' = IF evals.open /\ ~Fetching THEN [report EXCEPT !.fetch = "asked", !.joined = FALSE]
            ELSE report

(* A query no page shows is only marked: it is fetched when one opens.     *)
(* One that has no data keeps the fetch it has under way.                  *)
InvalidateReport ==
  report' = CASE ~evals.open -> report
              [] evals.open /\ report.empty /\ report.fetch = "read" -> [report EXCEPT !.joined = TRUE]
              [] OTHER -> [report EXCEPT !.fetch = "asked", !.read = NoCount, !.joined = FALSE]

(* ---- the loop of call k ----------------------------------------------- *)

ResolvePending(k) ==
  evals' = IF evals.pending = k THEN [evals EXCEPT !.pending = NoCall] ELSE evals

(* Nothing reads the stream any more, so how it ends makes no difference. *)
CallOver(k) == [call EXCEPT ![k].at = "over", ![k].wire = <<>>, ![k].stream = "ended"]

(* applyEvent: the entry is written whatever it held. *)
ApplyEvent(k, event) ==
  /\ entry' = [request |-> k, run |-> call[k].run, completed |-> event.completed,
               status |-> CASE event.kind = "progress" -> "streaming"
                            [] event.kind = "done"     -> "done"
                            [] event.kind = "error"    -> "error"]
  /\ IF event.kind = "progress" THEN UNCHANGED report ELSE InvalidateReport

(* A run that ends with its first event keeps its mutation pending until   *)
(* the report has been fetched.                                            *)
FirstEvent(k) ==
  /\ call[k].at = "first" /\ call[k].wire # <<>>
  /\ LET event == Head(call[k].wire)
     IN /\ ApplyEvent(k, event)
        /\ IF event.kind = "progress"
           THEN /\ call' = [call EXCEPT ![k].at = "consuming", ![k].wire = Tail(@)]
                /\ ResolvePending(k)
           ELSE call' = [call EXCEPT ![k].at = "refreshing", ![k].wire = <<>>]
                /\ UNCHANGED evals
  /\ UNCHANGED vars

FirstDone(k) ==
  /\ call[k].at = "refreshing" /\ ~Fetching
  /\ call' = CallOver(k)
  /\ ResolvePending(k)
  /\ UNCHANGED <<vars, entry, report>>

(* The stream ends or breaks before its first event, or is refused: an     *)
(* empty stream writes the entry, the others only reject the mutation.     *)
NoFirstEvent(k) ==
  /\ call[k].at = "first" /\ call[k].wire = <<>>
  /\ \/ call[k].stream = "ended"
        /\ entry' = [request |-> k, run |-> NoRun, completed |-> 0, status |-> "error"]
     \/ (call[k].stream = "broken" \/ call[k].run = NoRun) /\ UNCHANGED entry
  /\ call' = CallOver(k)
  /\ ResolvePending(k)
  /\ UNCHANGED <<vars, report>>

ConsumeEvent(k) ==
  /\ call[k].at = "consuming" /\ call[k].wire # <<>>
  /\ LET event == Head(call[k].wire)
     IN /\ ApplyEvent(k, event)
        /\ call' = IF event.kind = "progress" THEN [call EXCEPT ![k].wire = Tail(@)]
                   ELSE CallOver(k)
  /\ UNCHANGED <<vars, evals>>

(* Mutant: a stream that is lost just ends its loop. *)
StreamLostQuietly(k) ==
  /\ call[k].at = "consuming"
  /\ \/ call[k].stream = "ended" /\ call[k].wire = <<>>
     \/ call[k].stream = "broken"
  /\ call' = CallOver(k)
  /\ UNCHANGED <<vars, entry, evals, report>>

(* The stream ended or broke before the last event: whatever entry is in   *)
(* the cache becomes an error.                                             *)
StreamLost(k) ==
  /\ call[k].at = "consuming"
  /\ \/ call[k].stream = "ended" /\ call[k].wire = <<>>
     \/ call[k].stream = "broken"
  /\ entry' = [entry EXCEPT !.status = "error"]
  /\ call' = CallOver(k)
  /\ UNCHANGED <<vars, evals, report>>

(* ---- the server's side of call k -------------------------------------- *)

Waiting(k) == call[k].at \in {"first", "consuming"} /\ call[k].stream = "open"

ServerBegins(k) ==
  /\ Waiting(k) /\ call[k].run = NoRun
  /\ \E r \in Runs : /\ \A q \in 1 .. r - 1 : status[q] # "absent"
                     /\ Begin(r)
                     /\ call' = [call EXCEPT ![k].run = r]
  /\ UNCHANGED <<entry, evals, report>>

Driving(k) == call[k].run # NoRun /\ status[call[k].run] = "running"

Emitted(k, kind) ==
  IF call[k].stream = "open"
  THEN [call EXCEPT ![k].wire = Append(@, [kind |-> kind, completed |-> stored[call[k].run]])]
  ELSE call

(* Before each case, an event; then the case runs and its result is kept. *)
ServerAnnounces(k) ==
  /\ Waiting(k) /\ Driving(k) /\ Len(call[k].wire) < MaxEvents
  /\ call[k].announced = stored[call[k].run] /\ stored[call[k].run] < total[call[k].run]
  /\ call' = [Emitted(k, "progress") EXCEPT ![k].announced = @ + 1]
  /\ UNCHANGED <<vars, entry, evals, report>>

ServerStores(k) ==
  /\ Driving(k) /\ call[k].announced = stored[call[k].run] + 1
  /\ Store(call[k].run)
  /\ UNCHANGED <<call, entry, evals, report>>

(* The outcome is committed, and the last event sent.  The event of a run  *)
(* that failed says so only if the exception has a message.  A client that *)
(* has gone is noticed here too: the run is failed and nobody is told.     *)
ServerEndsRun(k) ==
  /\ Driving(k) /\ Len(call[k].wire) < MaxEvents
  /\ \/ /\ call[k].announced = stored[call[k].run]
        /\ End(call[k].run, "completed") /\ call' = Emitted(k, "done")
     \/ End(call[k].run, "failed") /\ call' = Emitted(k, "error")
     \/ /\ End(call[k].run, "failed")
        /\ call' = [Emitted(k, "done") EXCEPT ![k].wordless = TRUE]
  /\ UNCHANGED <<entry, evals, report>>

(* The response ends after its last event, or the connection is lost. *)
StreamCloses(k) ==
  /\ Waiting(k) /\ call[k].run # NoRun
  /\ \E how \in {"ended", "broken"} : call' = [call EXCEPT ![k].stream = how]
  /\ UNCHANGED <<vars, entry, evals, report>>

ClientNext ==
  \/ LeaveEvals \/ OpenEvals \/ ReadReport \/ ReportArrives \/ ReportFails
  \/ \E k \in Calls :
       \/ HandleSubmit(k) \/ FirstEvent(k) \/ FirstDone(k) \/ NoFirstEvent(k)
       \/ ConsumeEvent(k) \/ StreamLost(k)
       \/ ServerBegins(k) \/ ServerAnnounces(k) \/ ServerStores(k) \/ ServerEndsRun(k)
       \/ StreamCloses(k)

ClientSpec == ClientInit /\ [][ClientNext]_clientVars

(* ---- properties ------------------------------------------------------- *)

ClientTypeOK ==
  /\ \A k \in Calls : /\ call[k].at \in {"unmade", "first", "consuming", "refreshing", "over"}
                      /\ call[k].run \in Runs \cup {NoRun} /\ Len(call[k].wire) <= MaxEvents
  /\ entry.request \in Calls \cup {NoCall} /\ entry.run \in Runs \cup {NoRun}
  /\ report.fetch \in {"idle", "failed", "asked", "read"}

(* A strip that says "running" has a loop reading that very run, which     *)
(* will write the entry again, so it is never left saying so; its numbers  *)
(* are the run's own; the form is locked for a call under way on its page. *)
(* Two runs may be followed at once when the page was left before the      *)
(* first event: their events then take turns in the one entry.             *)
ClientInv ==
  /\ ClientTypeOK
  /\ RunningStrip = "running" =>
       /\ call[entry.request].at = "consuming" /\ call[entry.request].run = entry.run
       /\ RunForm.alreadyRunning
  /\ entry.run # NoRun => /\ call[entry.request].run = entry.run
                          /\ entry.completed <= stored[entry.run]
  /\ evals.pending # NoCall => call[evals.pending].at \in {"first", "refreshing"}

(* A run shown as finished has completed, with a result for each case - or *)
(* it failed with an exception that has no message, which its last event   *)
(* does not tell from a success, and the strip counts what was stored.     *)
(* The report next to it, once no fetch is under way, counts the same      *)
(* results - unless the page says that the fetch failed, or was opened, or *)
(* the end came, with a report on its way that was read before, and that   *)
(* the page then keeps.                                                    *)
FinishedRunIsReported ==
  RunningStrip = "finished" =>
    /\ \/ status[entry.run] = "completed" /\ entry.completed = total[entry.run]
       \/ /\ status[entry.run] = "failed" /\ call[entry.request].wordless
          /\ entry.completed = stored[entry.run]
    /\ evals.open /\ report.fetch = "idle" /\ ~report.joined
         => report.count[entry.run] = entry.completed

=============================================================================
