---------------------------- MODULE DownloadEvents ----------------------------
(***************************************************************************)
(* Download progress as a client sees it: the event stream that follows    *)
(* the download_jobs table by polling it (downloads/events.py), the hook   *)
(* that keeps the client's job map and its list of downloaded models up to *)
(* date across dropped streams (frontend api/hooks.ts, api/sse.ts), and    *)
(* what the Library and the model page make of both.                       *)
(*                                                                         *)
(* The table is the abstract one of JobLifecycle, which Downloads is       *)
(* proved to implement.  The streams of different clients share nothing    *)
(* but the table, so there is one client, with one page open.              *)
(***************************************************************************)
EXTENDS Naturals, Sequences, FiniteSets

CONSTANTS
  MaxJobs,     \* bound: job ids are 1..MaxJobs
  MaxPercent,  \* bound: the progress values a job passes through
  MaxWire,     \* bound: events on their way to the client
  MaxDeletes,  \* bound: DELETEs on their way at once
  None         \* no row

ASSUME DownloadEventsAssumption ==
  /\ MaxJobs \in Nat \ {0} /\ MaxPercent \in Nat /\ MaxWire \in Nat \ {0}
  /\ MaxDeletes \in Nat

VARIABLES
  phase,     \* JobLifecycle's view of the jobs
  percent,   \* download_jobs.percent
  records,   \* downloaded_models: the jobs whose record is there
  stream,    \* "closed" or "open": the connection of the client
  newest,    \* newest_at_connect
  sent,      \* the row last sent for each job on this connection, or None
  wire,      \* events sent and not yet read by the client
  shown,     \* the client's job map: the row it shows for a job, or None
  list,      \* useDownloadedModels: its data, and the fetch that is under way
  deletes    \* DELETEs whose answer is on its way: of which record, and whether it was there

JobIds == 1..MaxJobs
Table  == INSTANCE JobLifecycle WITH Jobs <- JobIds

tableVars  == <<phase, percent, records>>
streamVars == <<stream, newest, sent, wire>>
clientVars == <<shown, list, deletes>>
vars == <<tableVars, streamVars, clientVars>>

Statuses == {"pending", "downloading", "completed", "failed"}
Rows     == [status : Statuses, percent : 0..MaxPercent]
Events   == [id : JobIds, row : Rows]
Final    == {"completed", "failed"}

ASSUME NoneIsNoRow == None \notin Rows

\* Two fields are histories.  missed: the answer of a fetch was lost, or the list was to
\* be fetched again while the first answer, read before, was on its way.  unheard: the
\* records that went since the last fetch with a DELETE whose answer was lost.
List == [data : SUBSET JobIds, loaded : BOOLEAN, fetch : {"idle", "asked", "read"},
         read : SUBSET JobIds, missed : BOOLEAN, unheard : SUBSET JobIds]

TypeOK ==
  /\ phase \in [JobIds -> Table!Phases]
  /\ percent \in [JobIds -> 0..MaxPercent]
  /\ stream \in {"closed", "open"}
  /\ newest \in 0..MaxJobs
  /\ sent \in [JobIds -> Rows \union {None}]
  /\ wire \in Seq(Events) /\ Len(wire) <= MaxWire
  /\ shown \in [JobIds -> Rows \union {None}]
  /\ records \in SUBSET JobIds
  /\ list \in List
  /\ deletes \subseteq [job : JobIds, deleted : BOOLEAN]

Init ==
  /\ Table!Init
  /\ percent = [j \in JobIds |-> 0]
  /\ stream = "closed" /\ newest = 0 /\ sent = [j \in JobIds |-> None] /\ wire = <<>>
  /\ records = {} /\ deletes = {}
  /\ shown = [j \in JobIds |-> None]
  /\ list = [data |-> {}, loaded |-> FALSE, fetch |-> "asked", read |-> {},
             missed |-> FALSE, unheard |-> {}]

-----------------------------------------------------------------------------
\* The download threads and the start-up pass: they only write the table.

\* Ids are given out in order; rows of download_jobs are never deleted.
Enqueue(j) ==
  /\ \A i \in JobIds : i < j => phase[i] # "absent"
  /\ Table!Enqueue(j)
  /\ UNCHANGED <<percent, records, streamVars, clientVars>>

\* Mutant: the progress is that of the file being fetched, not of the whole job.
ProgressPerFile(j) ==
  /\ phase[j] = "downloading"
  /\ percent' = [percent EXCEPT ![j] = (@ + 1) % (MaxPercent + 1)]
  /\ UNCHANGED <<phase, records, streamVars, clientVars>>

Progress(j) ==
  /\ phase[j] = "downloading" /\ percent[j] < MaxPercent
  /\ percent' = [percent EXCEPT ![j] = @ + 1]
  /\ UNCHANGED <<phase, records, streamVars, clientVars>>

\* The record of a job is inserted first; a completed job has reached 100 percent.
Settle(j) ==
  /\ \/ Table!Start(j) /\ UNCHANGED <<percent, records>>
     \/ Table!Publish(j) /\ records' = records \union {j} /\ UNCHANGED percent
     \/ Table!Complete(j) /\ percent' = [percent EXCEPT ![j] = MaxPercent] /\ UNCHANGED records
     \/ Table!Fail(j) /\ UNCHANGED <<percent, records>>
  /\ UNCHANGED <<streamVars, clientVars>>

-----------------------------------------------------------------------------
\* job_events.

HasRow(j) == phase[j] # "absent"

\* The row a query returns: the record of a published job is in another table.
Row(j) == [status  |-> IF phase[j] = "published" THEN "downloading" ELSE phase[j],
           percent |-> percent[j]]

Largest(S) == CHOOSE n \in S : \A m \in S : m <= n

\* The client connects (or comes back after RECONNECT_MS): the generator reads the
\* largest job id, and nothing else yet.
Connect ==
  /\ stream = "closed"
  /\ stream' = "open"
  /\ newest' = Largest({0} \union {j \in JobIds : HasRow(j)})
  /\ UNCHANGED <<tableVars, sent, wire, clientVars>>

\* Mutant: a job that was sent is forgotten once it is no longer active.
FollowedWhileActive(j) == HasRow(j) /\ (Row(j).status \notin Final \/ j > newest)

\* The query: active jobs, jobs created after connecting, jobs sent before.
Followed(j) ==
  /\ HasRow(j)
  /\ Row(j).status \notin Final \/ j > newest \/ sent[j] # None

Changed == {j \in JobIds : Followed(j) /\ sent[j] # Row(j)}

\* order_by(DownloadJob.id).
InOrder(jobs) ==
  {order \in [1..Cardinality(jobs) -> jobs] :
     \A m, n \in 1..Cardinality(jobs) : m < n => order[m] < order[n]}

\* One round of the loop sends every job whose row is not what was last sent.
Poll ==
  /\ stream = "open"
  /\ Changed # {} /\ Len(wire) + Cardinality(Changed) <= MaxWire
  /\ sent' = [j \in JobIds |-> IF j \in Changed THEN Row(j) ELSE sent[j]]
  /\ \E order \in InOrder(Changed) :
       wire' = wire \o [n \in 1..Cardinality(Changed) |-> [id |-> order[n], row |-> Row(order[n])]]
  /\ UNCHANGED <<tableVars, stream, newest, clientVars>>

-----------------------------------------------------------------------------
\* useDownloadJobs.

\* invalidateQueries: the list is fetched again, in place of a fetch under way - but the
\* first one, that has no data yet to fall back on, is kept.
Invalidate ==
  list' = IF ~list.loaded /\ list.fetch # "idle"
          THEN [list EXCEPT !.missed = @ \/ list.fetch = "read"]
          ELSE [list EXCEPT !.fetch = "asked", !.read = {}, !.missed = FALSE]

\* Mutant: the end of a job does not touch the list of models.
DeliverNoRefetch ==
  /\ wire # <<>>
  /\ wire' = Tail(wire)
  /\ shown' = [shown EXCEPT ![Head(wire).id] = Head(wire).row]
  /\ UNCHANGED <<tableVars, stream, newest, sent, list, deletes>>

\* The client reads one event; a completed job has the list fetched again.
Deliver ==
  LET e == Head(wire) IN
  /\ wire # <<>>
  /\ wire' = Tail(wire)
  /\ shown' = [shown EXCEPT ![e.id] = e.row]
  /\ IF e.row.status = "completed" THEN Invalidate ELSE UNCHANGED list
  /\ UNCHANGED <<tableVars, stream, newest, sent, deletes>>

\* GET /models/downloaded reads the records there are.
FetchList ==
  /\ list.fetch = "asked"
  /\ list' = [list EXCEPT !.fetch = "read", !.read = records, !.unheard = {}]
  /\ UNCHANGED <<tableVars, streamVars, shown, deletes>>

\* Its answer arrives.
ListArrives ==
  /\ list.fetch = "read"
  /\ list' = [list EXCEPT !.data = list.read, !.loaded = TRUE, !.fetch = "idle", !.read = {}]
  /\ UNCHANGED <<tableVars, streamVars, shown, deletes>>

\* It failed, and so did the retry; the data there was stays.
ListFails ==
  /\ list.fetch # "idle"
  /\ list' = [list EXCEPT !.fetch = "idle", !.read = {}, !.missed = TRUE]
  /\ UNCHANGED <<tableVars, streamVars, shown, deletes>>

\* Mutant: what has been sent is remembered for the next connection.
DisconnectKeepsSent ==
  /\ stream' = "closed" /\ wire' = <<>> /\ newest' = 0
  /\ UNCHANGED sent

\* A connection goes with its generator and the events the client has not read.
Disconnect ==
  /\ stream' = "closed" /\ wire' = <<>> /\ newest' = 0
  /\ sent' = [j \in JobIds |-> None]

\* The connection is lost; what the client shows stays.
Drop ==
  /\ stream = "open"
  /\ Disconnect
  /\ UNCHANGED <<tableVars, clientVars>>

\* The DELETEs ds go without an answer.  The page shows the error, and fetches nothing.
LoseAnswers(ds) ==
  /\ deletes' = deletes \ ds
  /\ list' = [list EXCEPT !.unheard = @ \union {d.job : d \in {e \in ds : e.deleted}}]

\* The server restarts: every connection is lost, a DELETE under way gets no answer, and
\* the unfinished jobs fail.  (A job that was published keeps its record.)
Restart ==
  /\ Table!Interrupt
  /\ Disconnect
  /\ LoseAnswers(deletes)
  /\ UNCHANGED <<percent, records, shown>>

-----------------------------------------------------------------------------
\* The Library's delete button, which nothing disables while a DELETE is on its way, and
\* delete_downloaded: a record that has gone already is a 404.  Whether the server is
\* early or late makes no difference to anyone but the answer.
HandleDelete(j) ==
  /\ j \in list.data
  /\ Cardinality(deletes) < MaxDeletes
  /\ deletes' = deletes \union {[job |-> j, deleted |-> j \in records]}
  /\ records' = records \ {j}
  /\ UNCHANGED <<phase, percent, streamVars, shown, list>>

\* Mutant: the answer does not touch the list.
DeletedOnly(d) ==
  /\ deletes' = deletes \ {d}
  /\ UNCHANGED <<tableVars, streamVars, shown, list>>

\* The answer; only a success has the list fetched again.
Deleted(d) ==
  /\ deletes' = deletes \ {d}
  /\ IF d.deleted THEN Invalidate ELSE UNCHANGED list
  /\ UNCHANGED <<tableVars, streamVars, shown>>

\* The answer never comes: for the page the DELETE has failed, and onSuccess is not called.
AnswerLost(d) ==
  /\ LoseAnswers({d})
  /\ UNCHANGED <<tableVars, streamVars, shown>>

Next ==
  \/ \E j \in JobIds : Enqueue(j) \/ Progress(j) \/ Settle(j)
  \/ Connect \/ Poll \/ Drop \/ Restart
  \/ Deliver \/ FetchList \/ ListArrives \/ ListFails
  \/ \E j \in JobIds : HandleDelete(j)
  \/ \E d \in deletes : Deleted(d) \/ AnswerLost(d)

Spec == Init /\ [][Next]_vars

\* The client reconnects and reads, and the stream polls.
FairSpec == Spec /\ WF_vars(Connect) /\ WF_vars(Poll) /\ WF_vars(Deliver)

-----------------------------------------------------------------------------
(***************************************************************************)
(* Properties.                                                             *)
(***************************************************************************)

\* How far a row has come.
Rank(row) ==
  CASE row = None -> 0
    [] row # None /\ row.status = "pending" -> 1
    [] row # None /\ row.status = "downloading" -> 2 + row.percent
    [] OTHER -> 3 + MaxPercent

\* What the client shows of a job only moves forward, over any number of dropped
\* streams and restarts: no late event of an old stream undoes a newer one.
ShownMovesForward ==
  [][\A j \in JobIds : shown'[j] # shown[j] => Rank(shown'[j]) > Rank(shown[j])]_vars

\* The places on the wire of what was sent about a job.
Coming(j) == {n \in 1..Len(wire) : wire[n].id = j}

\* The server's idea of what it has sent is what the client shows or is about to
\* read, so a row that is not sent again needs no sending.
SentReachesClient ==
  \A j \in JobIds : stream = "open" /\ sent[j] # None =>
    \/ Coming(j) = {} /\ shown[j] = sent[j]
    \/ \E n \in Coming(j) : wire[n].row = sent[j] /\ \A m \in Coming(j) : m <= n

\* A model whose job the client shows as completed is in the client's list, as soon as
\* the fetch the event asked for is done - unless it was deleted since, or that fetch
\* was lost or given up for the first one.
CompletedIsListed ==
  \A j \in JobIds : shown[j] # None /\ shown[j].status = "completed" /\ list.fetch = "idle" =>
    list.missed \/ j \in list.data \/ j \notin records

\* A job that has been sent, or was created while the stream is open, is shown and
\* followed to its end, even if it ends between two polls: as long as the stream stays
\* open, the client learns how the job ended.
FollowedToTheEnd ==
  \A j \in JobIds :
    stream = "open" /\ HasRow(j) /\ (sent[j] # None \/ j > newest) ~>
      \/ stream = "closed"
      \/ shown[j] # None /\ (phase[j] \in Final => shown[j] = Row(j))

\* What the comments promise: every job a client shows as active is followed
\* through to completed or failed, and a dropped stream reconnects.
ShownJobsSettle ==
  \A j \in JobIds :
    shown[j] # None /\ phase[j] \in Final ~> shown[j] # None /\ shown[j].status \in Final
=============================================================================
