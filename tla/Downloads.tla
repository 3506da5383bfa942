------------------------------ MODULE Downloads ------------------------------
(***************************************************************************)
(* The download manager of the backend: POST /models/{id}/download,        *)
(* DELETE /models/downloaded/{id}, the background tasks that stream the    *)
(* files, and the start-up pass that fails what a restart cut off          *)
(* (downloads/router.py, downloads/service.py, db.py).                     *)
(*                                                                         *)
(* Every endpoint is a sync function that FastAPI runs in a thread pool,   *)
(* and so is every background task: the threads interleave freely between  *)
(* any two database statements or file-system calls.  A SELECT and a       *)
(* COMMIT are one atomic step each (SQLite), a file-system call is one     *)
(* atomic step.  A "target" is one thing that can be downloaded: the       *)
(* triple (repo_id, kind, filename), which fixes the path on disk, the     *)
(* record query and the job query of _reject_duplicate.  The content of a  *)
(* path is the set of its parts: blocks of one GGUF file, files of one     *)
(* snapshot directory.                                                     *)
(***************************************************************************)
EXTENDS Naturals

CONSTANTS
  Targets,     \* what can be downloaded
  Snapshots,   \* the targets that are transformers snapshots, the rest is GGUF
  Requests,    \* threads serving POST .../download
  Deletes,     \* threads serving DELETE /models/downloaded/{id}
  MaxJobs,     \* bound: job ids are 1..MaxJobs, one record per job at most
  NumParts,    \* parts of a target: blocks of a GGUF, files of a snapshot
  None         \* no target

ASSUME DownloadsAssumption ==
  /\ Snapshots \subseteq Targets
  /\ None \notin Targets
  /\ MaxJobs \in Nat \ {0}
  /\ NumParts \in Nat \ {0}

JobIds    == 1..MaxJobs
RecordIds == 1..MaxJobs
Parts     == 1..NumParts
Active    == {"pending", "downloading"}   \* ACTIVE_DOWNLOAD_STATUSES

(***************************************************************************)
(* What has befallen a target so far (ghost state, read by no action's     *)
(* guard): which threads have overlapped on it, and what the network or    *)
(* the file system did.  None of them says that a property was broken.     *)
(*   "overlap"      a POST passed its job query while another one, which   *)
(*                  had passed, was waiting for the Hub                    *)
(*   "lateFinish"   a task completed its job while a POST was between its  *)
(*                  record query and its job query                         *)
(*   "doubleDelete" a DELETE read a record another DELETE was working on   *)
(*   "strayDelete"  a DELETE removed the row of another target, because    *)
(*                  its record id had been given to a new row meanwhile    *)
(*   "cutDelete"    a restart hit a DELETE between its file and its row    *)
(*   "undeclared"   a response without a content-length was opened         *)
(*   "stuckFile"    the file of a failed download could not be removed     *)
(***************************************************************************)
Mishaps == {"overlap", "lateFinish", "doubleDelete", "strayDelete", "cutDelete",
            "undeclared", "stuckFile"}

VARIABLES
  status,      \* download_jobs.status, "absent" where there is no row
  jobTarget,   \* download_jobs.(repo_id, kind, filename)
  record,      \* downloaded_models: record[r] is the target of row r, or None
  worker,      \* the background task of each job
  onDisk,      \* the targets whose path exists
  parts,       \* parts[t]: the parts of t that are at its path
  request,     \* the POST threads
  deletion,    \* the DELETE threads
  mishaps      \* ghost: what has befallen each target

jobVars  == <<status, jobTarget>>
diskVars == <<onDisk, parts>>
vars == <<status, jobTarget, record, worker, onDisk, parts, request, deletion, mishaps>>

WorkerPCs == {"none", "queued", "dest", "stream", "stored", "sized", "recorded",
              "cleanup", "failing"}

Task == [pc : WorkerPCs,
         next : 1..(NumParts + 1),                  \* the part it is at
         file : {"closed", "linked", "unlinked"},   \* is the open file still at its path
         declared : BOOLEAN]                        \* does its response have a content-length

TypeOK ==
  /\ status \in [JobIds -> {"absent", "completed", "failed"} \union Active]
  /\ jobTarget \in [JobIds -> Targets \union {None}]
  /\ record \in [RecordIds -> Targets \union {None}]
  /\ worker \in [JobIds -> Task]
  /\ onDisk \in SUBSET Targets
  /\ parts \in [Targets -> SUBSET Parts]
  /\ request \in [Requests -> [pc : {"idle", "checked", "cleared"},
                               target : Targets \union {None}]]
  /\ deletion \in [Deletes -> [pc : {"idle", "got", "found", "gone"},
                               id : RecordIds \union {0},
                               target : Targets \union {None}]]
  /\ mishaps \in [Targets -> SUBSET Mishaps]

NoWorker   == [pc |-> "none", next |-> 1, file |-> "closed", declared |-> TRUE]
NoRequest  == [pc |-> "idle", target |-> None]
NoDeletion == [pc |-> "idle", id |-> 0, target |-> None]

Init ==
  /\ status = [j \in JobIds |-> "absent"]
  /\ jobTarget = [j \in JobIds |-> None]
  /\ record = [r \in RecordIds |-> None]
  /\ worker = [j \in JobIds |-> NoWorker]
  /\ onDisk = {}
  /\ parts = [t \in Targets |-> {}]
  /\ request = [c \in Requests |-> NoRequest]
  /\ deletion = [d \in Deletes |-> NoDeletion]
  /\ mishaps = [t \in Targets |-> {}]

-----------------------------------------------------------------------------
\* Predicates over the two tables, and the ghost's.

HasRecord(t)    == \E r \in RecordIds : record[r] = t

\* Mutant: a job whose task has not started yet is overlooked.
HasStartedJob(t) == \E j \in JobIds : jobTarget[j] = t /\ status[j] = "downloading"

HasActiveJob(t) == \E j \in JobIds : jobTarget[j] = t /\ status[j] \in Active

Befalls(t, m) == mishaps' = [mishaps EXCEPT ![t] = @ \union {m}]

\* The id the next download_jobs row gets: those rows are never deleted.
IsNextJob(j) ==
  /\ status[j] = "absent"
  /\ \A i \in JobIds : i < j => status[i] # "absent"

\* The id SQLite gives the next downloaded_models row: one more than the largest
\* id in the table, so the id of a deleted last row is given out again.
IsNextRecord(r) ==
  /\ \A q \in RecordIds : q >= r => record[q] = None
  /\ \A q \in RecordIds : q + 1 = r => record[q] # None

-----------------------------------------------------------------------------
\* POST /models/{id}/download: start_download and _reject_duplicate.

\* Mutant: the record query is left out.
CheckRecordsUnasked(c, t) ==
  /\ request[c].pc = "idle"
  /\ request' = [request EXCEPT ![c] = [pc |-> "checked", target |-> t]]
  /\ UNCHANGED <<jobVars, record, worker, diskVars, deletion, mishaps>>

\* The first query of _reject_duplicate found no record (otherwise the answer
\* is 409 already_downloaded and nothing has happened).
CheckRecords(c, t) ==
  /\ request[c].pc = "idle"
  /\ ~ HasRecord(t)
  /\ request' = [request EXCEPT ![c] = [pc |-> "checked", target |-> t]]
  /\ UNCHANGED <<jobVars, record, worker, diskVars, deletion, mishaps>>

\* Is another POST of t past its queries, and its job not in the table yet?
AnotherIsCleared(c, t) ==
  \E b \in Requests : b # c /\ request[b].pc = "cleared" /\ request[b].target = t

\* The POST goes on to the Hub call.
PassJobs(c) ==
  LET t == request[c].target IN
  /\ request' = [request EXCEPT ![c].pc = "cleared"]
  /\ IF AnotherIsCleared(c, t) THEN Befalls(t, "overlap") ELSE UNCHANGED mishaps

\* Mutant: the job query is left out.
CheckJobsUnasked(c) ==
  /\ request[c].pc = "checked"
  /\ PassJobs(c)
  /\ UNCHANGED <<jobVars, record, worker, diskVars, deletion>>

\* The second query: 409 download_in_progress, or on to the Hub call.
CheckJobs(c) ==
  /\ request[c].pc = "checked"
  /\ IF HasActiveJob(request[c].target)
     THEN request' = [request EXCEPT ![c] = NoRequest] /\ UNCHANGED mishaps
     ELSE PassJobs(c)
  /\ UNCHANGED <<jobVars, record, worker, diskVars, deletion>>

\* The Hub call failed, or the Hub has no such file or no snapshot files.
HubRefuses(c) ==
  /\ request[c].pc = "cleared"
  /\ request' = [request EXCEPT ![c] = NoRequest]
  /\ UNCHANGED <<jobVars, record, worker, diskVars, deletion, mishaps>>

\* _create_job commits the row and the response schedules the background task.
CreateJob(c) ==
  /\ request[c].pc = "cleared"
  /\ \E j \in JobIds :
       /\ IsNextJob(j)
       /\ status' = [status EXCEPT ![j] = "pending"]
       /\ jobTarget' = [jobTarget EXCEPT ![j] = request[c].target]
       /\ worker' = [worker EXCEPT ![j] = [NoWorker EXCEPT !.pc = "queued"]]
  /\ request' = [request EXCEPT ![c] = NoRequest]
  /\ UNCHANGED <<record, diskVars, deletion, mishaps>>

-----------------------------------------------------------------------------
\* The background task: run_download and run_snapshot_download.

Advance(j, pc) == worker' = [worker EXCEPT ![j].pc = pc]

\* Parts ps of t are removed from the disk (unlink, rmtree) while the tasks are
\* ws: a task that has such a file open goes on writing to an inode no path
\* leads to.
Detached(t, ps, ws) ==
  [i \in JobIds |-> IF jobTarget[i] = t /\ ws[i].file = "linked" /\ ws[i].next \in ps
                    THEN [ws[i] EXCEPT !.file = "unlinked"] ELSE ws[i]]

StartJob(j) ==
  /\ worker[j].pc = "queued"
  /\ status' = [status EXCEPT ![j] = "downloading"]
  /\ Advance(j, "dest")
  /\ UNCHANGED <<jobTarget, record, diskVars, request, deletion, mishaps>>

\* _safe_dest and mkdir: a snapshot creates its own directory, a GGUF only the
\* directory the file goes into.
MakeDest(j) ==
  /\ worker[j].pc = "dest"
  /\ Advance(j, "stream")
  /\ onDisk' = onDisk \union ({jobTarget[j]} \intersect Snapshots)
  /\ UNCHANGED <<jobVars, record, parts, request, deletion, mishaps>>

MakeDestFails(j) ==
  /\ worker[j].pc = "dest"
  /\ Advance(j, "failing")
  /\ UNCHANGED <<jobVars, record, diskVars, request, deletion, mishaps>>

\* The response is there, with a content-length or without.  open("wb") creates
\* the path, or truncates what is there.  A GGUF is opened once, a snapshot opens
\* each of its files in turn.
OpenFile(j) ==
  LET t == jobTarget[j] IN
  /\ worker[j].pc = "stream" /\ worker[j].file = "closed"
  /\ \E declared \in BOOLEAN :
       /\ worker' = [worker EXCEPT ![j] = [@ EXCEPT !.file = "linked", !.declared = declared]]
       /\ IF declared THEN UNCHANGED mishaps ELSE Befalls(t, "undeclared")
  /\ onDisk' = onDisk \union {t}
  /\ parts' = [parts EXCEPT ![t] = IF t \in Snapshots THEN @ \ {worker[j].next} ELSE {}]
  /\ UNCHANGED <<jobVars, record, request, deletion>>

\* A task w of t once the body it was reading has ended and its file is closed: on
\* to the next file of a snapshot, or out of the loop.
AfterFile(t, w) ==
  [pc |-> CASE t \notin Snapshots -> "stored"
            [] t \in Snapshots /\ w.next = NumParts -> "sized"
            [] OTHER -> "stream",
   next |-> w.next + 1, file |-> "closed", declared |-> TRUE]

\* A task w of a GGUF that has got another block.
NextBlock(w) == [w EXCEPT !.next = w.next + 1]

\* The next part has arrived in full; the last part of a file ends its stream.
WritePart(j) ==
  LET t == jobTarget[j] IN
  /\ worker[j].pc = "stream" /\ worker[j].file # "closed"
  /\ parts' = [parts EXCEPT ![t] = IF worker[j].file = "linked"
                                   THEN @ \union {worker[j].next} ELSE @]
  /\ worker' = [worker EXCEPT ![j] = IF t \in Snapshots \/ @.next = NumParts
                                     THEN AfterFile(t, @) ELSE NextBlock(@)]
  /\ UNCHANGED <<jobVars, record, onDisk, request, deletion, mishaps>>

\* Mutant: what was written is never compared with the content-length.
StreamEndsUnchecked(j) ==
  /\ worker[j].pc = "stream" /\ worker[j].file # "closed"
  /\ worker' = [worker EXCEPT ![j] = AfterFile(jobTarget[j], @)]
  /\ UNCHANGED <<jobVars, record, diskVars, request, deletion, mishaps>>

\* The body ends before the file has arrived, which raises nothing by itself, and
\* there is no content-length to compare with: the file passes for complete.
StreamEndsShort(j) ==
  /\ worker[j].pc = "stream" /\ worker[j].file # "closed"
  /\ ~ worker[j].declared
  /\ worker' = [worker EXCEPT ![j] = AfterFile(jobTarget[j], @)]
  /\ UNCHANGED <<jobVars, record, diskVars, request, deletion, mishaps>>

\* A task that goes to its except branch, the file closed.
Failed(w) == [pc |-> "cleanup", next |-> w.next, file |-> "closed", declared |-> TRUE]

\* Mutant: the job is shown as failed before its files are cleaned up.
StreamFailsTooSoon(j) ==
  /\ worker[j].pc = "stream"
  /\ status' = [status EXCEPT ![j] = "failed"]
  /\ worker' = [worker EXCEPT ![j] = Failed(@)]
  /\ UNCHANGED <<jobTarget, record, diskVars, request, deletion, mishaps>>

\* httpx.HTTPError, OSError, or a stream shorter than it declared.
StreamFails(j) ==
  /\ worker[j].pc = "stream"
  /\ worker' = [worker EXCEPT ![j] = Failed(@)]
  /\ UNCHANGED <<jobVars, record, diskVars, request, deletion, mishaps>>

\* The except branch removes the file, or the whole snapshot directory.
CleanUp(j) ==
  LET t == jobTarget[j] IN
  /\ worker[j].pc = "cleanup"
  /\ onDisk' = onDisk \ {t}
  /\ parts' = [parts EXCEPT ![t] = {}]
  /\ worker' = Detached(t, Parts, [worker EXCEPT ![j].pc = "failing"])
  /\ UNCHANGED <<jobVars, record, request, deletion, mishaps>>

\* rmtree(ignore_errors=True) goes on over what it cannot remove, so some of the
\* snapshot stays and the job fails all the same ...
CleanUpLeavesFiles(j) ==
  LET t == jobTarget[j] IN
  /\ worker[j].pc = "cleanup" /\ t \in Snapshots
  /\ \E gone \in SUBSET Parts :
       /\ parts' = [parts EXCEPT ![t] = @ \ gone]
       /\ worker' = Detached(t, gone, [worker EXCEPT ![j].pc = "failing"])
  /\ UNCHANGED <<jobVars, record, onDisk, request, deletion, mishaps>>

\* ... but unlink of a GGUF that is there may raise (a permission, a file in use):
\* the exception ends the task, and the job row keeps the status "downloading".
CleanUpRaises(j) ==
  LET t == jobTarget[j] IN
  /\ worker[j].pc = "cleanup" /\ t \notin Snapshots /\ t \in onDisk
  /\ worker' = [worker EXCEPT ![j] = NoWorker]
  /\ Befalls(t, "stuckFile")
  /\ UNCHANGED <<jobVars, record, diskVars, request, deletion>>

\* Mutant: the failure is set on the row but not committed.
FailJobUncommitted(j) ==
  /\ worker[j].pc = "failing"
  /\ worker' = [worker EXCEPT ![j] = NoWorker]
  /\ UNCHANGED <<jobVars, record, diskVars, request, deletion, mishaps>>

FailJob(j) ==
  /\ worker[j].pc = "failing"
  /\ status' = [status EXCEPT ![j] = "failed"]
  /\ worker' = [worker EXCEPT ![j] = NoWorker]
  /\ UNCHANGED <<jobTarget, record, diskVars, request, deletion, mishaps>>

\* run_download calls dest_path.stat() outside its try: when the path is gone the
\* exception ends the task and the job row keeps the status "downloading".
StatFile(j) ==
  /\ worker[j].pc = "stored"
  /\ worker' = [worker EXCEPT ![j] = IF jobTarget[j] \in onDisk
                                     THEN [@ EXCEPT !.pc = "sized"] ELSE NoWorker]
  /\ UNCHANGED <<jobVars, record, diskVars, request, deletion, mishaps>>

\* _complete_job commits twice: first the record ...
InsertRecord(j) ==
  /\ worker[j].pc = "sized"
  /\ \E r \in RecordIds :
       /\ IsNextRecord(r)
       /\ record' = [record EXCEPT ![r] = jobTarget[j]]
  /\ Advance(j, "recorded")
  /\ UNCHANGED <<jobVars, diskVars, request, deletion, mishaps>>

\* Mutant: the job may be completed ahead of its record.
CompleteJobFirst(j) ==
  /\ worker[j].pc \in {"sized", "recorded"}
  /\ status' = [status EXCEPT ![j] = "completed"]
  /\ worker' = [worker EXCEPT ![j] = NoWorker]
  /\ UNCHANGED <<jobTarget, record, diskVars, request, deletion, mishaps>>

\* ... then the job.
CompleteJob(j) ==
  LET t == jobTarget[j] IN
  /\ worker[j].pc = "recorded"
  /\ status' = [status EXCEPT ![j] = "completed"]
  /\ worker' = [worker EXCEPT ![j] = NoWorker]
  /\ IF \E c \in Requests : request[c].pc = "checked" /\ request[c].target = t
     THEN Befalls(t, "lateFinish") ELSE UNCHANGED mishaps
  /\ UNCHANGED <<jobTarget, record, diskVars, request, deletion>>

-----------------------------------------------------------------------------
\* DELETE /models/downloaded/{id}: delete_downloaded.  (evict_path, which runs
\* between GetRecord and FindPath, is ModelCache.tla's.)

\* session.get found the row (otherwise 404); its path is kept in memory.
GetRecord(d, r) ==
  /\ deletion[d].pc = "idle"
  /\ record[r] # None
  /\ deletion' = [deletion EXCEPT ![d] = [pc |-> "got", id |-> r, target |-> record[r]]]
  /\ mishaps' = [mishaps EXCEPT ![record[r]] =
                   IF \E e \in Deletes : deletion[e].target = record[r]
                   THEN @ \union {"doubleDelete"} ELSE @]
  /\ UNCHANGED <<jobVars, record, worker, diskVars, request>>

\* path.is_dir() / path.exists()
FindPath(d) ==
  /\ deletion[d].pc = "got"
  /\ deletion' = [deletion EXCEPT ![d].pc =
                    IF deletion[d].target \in onDisk THEN "found" ELSE "gone"]
  /\ UNCHANGED <<jobVars, record, worker, diskVars, request, mishaps>>

\* rmtree removes the files of a snapshot one after the other.
RemovePart(d, p) ==
  LET t == deletion[d].target IN
  /\ deletion[d].pc = "found"
  /\ t \in Snapshots
  /\ parts' = [parts EXCEPT ![t] = @ \ {p}]
  /\ worker' = Detached(t, {p}, worker)
  /\ UNCHANGED <<jobVars, record, onDisk, request, deletion, mishaps>>

\* The path itself goes.  unlink() raises if somebody else removed the file since
\* path.exists(): the request answers 500 and the row stays.
RemovePath(d) ==
  LET t == deletion[d].target IN
  /\ deletion[d].pc = "found"
  /\ IF t \in onDisk \/ t \in Snapshots
     THEN /\ deletion' = [deletion EXCEPT ![d].pc = "gone"]
          /\ onDisk' = onDisk \ {t}
          /\ parts' = [parts EXCEPT ![t] = {}]
          /\ worker' = Detached(t, Parts, worker)
     ELSE /\ deletion' = [deletion EXCEPT ![d] = NoDeletion]
          /\ UNCHANGED <<diskVars, worker>>
  /\ UNCHANGED <<jobVars, record, request, mishaps>>

\* Mutant: the rows are deleted by what they stand for and not by id.
DeleteRowsOfTarget(d) ==
  /\ deletion[d].pc = "gone"
  /\ record' = [r \in RecordIds |-> IF record[r] = deletion[d].target THEN None ELSE record[r]]
  /\ deletion' = [deletion EXCEPT ![d] = NoDeletion]
  /\ UNCHANGED <<jobVars, worker, diskVars, request, mishaps>>

\* session.delete + commit: DELETE ... WHERE id = ?, whatever the row holds now.
DeleteRow(d) ==
  LET r == deletion[d].id IN
  /\ deletion[d].pc = "gone"
  /\ record' = [record EXCEPT ![r] = None]
  /\ deletion' = [deletion EXCEPT ![d] = NoDeletion]
  /\ mishaps' = [t \in Targets |-> IF t = record[r] /\ t # deletion[d].target
                                   THEN mishaps[t] \union {"strayDelete"} ELSE mishaps[t]]
  /\ UNCHANGED <<jobVars, worker, diskVars, request>>

-----------------------------------------------------------------------------
\* Mutant: start-up leaves the jobs of the previous process as they were.
RestartKeepsJobs ==
  /\ worker' = [j \in JobIds |-> NoWorker]
  /\ request' = [c \in Requests |-> NoRequest]
  /\ deletion' = [d \in Deletes |-> NoDeletion]
  /\ mishaps' = [t \in Targets |->
                   IF \E d \in Deletes : deletion[d].target = t /\ deletion[d].pc \in {"found", "gone"}
                   THEN mishaps[t] \union {"cutDelete"} ELSE mishaps[t]]
  /\ UNCHANGED <<jobVars, record, diskVars>>

\* The process dies at any point and starts again: every thread is lost, the
\* database and the disk stay, and fail_interrupted_jobs runs before the first
\* request is served.
Restart ==
  /\ status' = [j \in JobIds |-> IF status[j] \in Active THEN "failed" ELSE status[j]]
  /\ worker' = [j \in JobIds |-> NoWorker]
  /\ request' = [c \in Requests |-> NoRequest]
  /\ deletion' = [d \in Deletes |-> NoDeletion]
  /\ mishaps' = [t \in Targets |->
                   IF \E d \in Deletes : deletion[d].target = t /\ deletion[d].pc \in {"found", "gone"}
                   THEN mishaps[t] \union {"cutDelete"} ELSE mishaps[t]]
  /\ UNCHANGED <<jobTarget, record, diskVars>>

RequestStep(c) ==
  \/ \E t \in Targets : CheckRecords(c, t)
  \/ CheckJobs(c) \/ HubRefuses(c) \/ CreateJob(c)

\* The steps of a task that wait for the network or the disk ...
StreamStep(j) ==
  \/ MakeDest(j) \/ MakeDestFails(j) \/ OpenFile(j)
  \/ WritePart(j) \/ StreamEndsShort(j) \/ StreamFails(j)

\* ... and those that only need its thread to be scheduled.
SettleStep(j) ==
  \/ StatFile(j) \/ InsertRecord(j) \/ CompleteJob(j)
  \/ CleanUp(j) \/ CleanUpLeavesFiles(j) \/ CleanUpRaises(j) \/ FailJob(j)

WorkerStep(j) == StartJob(j) \/ StreamStep(j) \/ SettleStep(j)

DeleteStep(d) ==
  \/ \E r \in RecordIds : GetRecord(d, r)
  \/ FindPath(d) \/ RemovePath(d) \/ DeleteRow(d)
  \/ \E p \in Parts : RemovePart(d, p)

Next ==
  \/ \E c \in Requests : RequestStep(c)
  \/ \E j \in JobIds : WorkerStep(j)
  \/ \E d \in Deletes : DeleteStep(d)
  \/ Restart

Spec == Init /\ [][Next]_vars

\* Only the steps that need no answer from the network are taken to happen: the
\* streams have no timeout (httpx timeout=None), so a transfer may hang for ever.
FairSpec == Spec /\ \A j \in JobIds : WF_vars(SettleStep(j))

-----------------------------------------------------------------------------
(***************************************************************************)
(* Properties.                                                             *)
(***************************************************************************)

PostsApart(t)   == mishaps[t] \intersect {"overlap", "lateFinish"} = {}
DeletesApart(t) == mishaps[t] \intersect {"doubleDelete", "strayDelete"} = {}
Undisturbed(t)  == PostsApart(t) /\ DeletesApart(t)

\* The two queries of _reject_duplicate keep one copy of a target: one record, one
\* unfinished job, and no record next to a job that has still to publish its own --
\* as long as no two POSTs of it were both past the queries with no job inserted,
\* and no job of it was completed between the two queries of a POST.
OneCopy ==
  \A t \in Targets : PostsApart(t) =>
    /\ \A r, q \in RecordIds : record[r] = t /\ record[q] = t => r = q
    /\ \A i, j \in JobIds :
         /\ jobTarget[i] = t /\ status[i] \in Active
         /\ jobTarget[j] = t /\ status[j] \in Active
         => i = j
    /\ HasRecord(t) =>
         \A j \in JobIds : jobTarget[j] = t /\ status[j] \in Active => worker[j].pc = "recorded"

\* A record stands for a path that exists -- across failed transfers, leftovers of
\* a crash that are overwritten, and restarts -- with every part in place if every
\* response declared its length, unless a DELETE is just taking the files away or
\* a restart cut one short.
RecordedFileWhole ==
  \A t \in Targets : Undisturbed(t) /\ "cutDelete" \notin mishaps[t] /\ HasRecord(t) =>
    \/ t \in onDisk /\ ("undeclared" \notin mishaps[t] => parts[t] = Parts)
    \/ \E d \in Deletes : deletion[d].target = t /\ deletion[d].pc \in {"found", "gone"}

\* A job shown as pending or downloading has a task working on it: none is left
\* behind by a task that ended without settling it, nor by a restart -- unless the
\* file of a failed download could not be removed.
ActiveJobRuns ==
  \A j \in JobIds : status[j] \in Active =>
    \/ worker[j].pc # "none"
    \/ ~ Undisturbed(jobTarget[j]) \/ "stuckFile" \in mishaps[jobTarget[j]]

\* A row of downloaded_models disappears only through a DELETE of the very target
\* it stands for, although ids are given out again -- provided no two DELETEs of
\* that DELETE's target have overlapped, nor has its own row been taken so.
RowsLeaveByTheirOwnDelete ==
  [][\A r \in RecordIds : record[r] # None /\ record'[r] # record[r] =>
       \E d \in Deletes :
         /\ deletion[d].pc = "gone" /\ deletion[d].id = r
         /\ deletion[d].target = record[r] \/ ~ DeletesApart(deletion[d].target)]_vars

\* Once the transfer is over the job settles, without any help of the network.
SettlesAfterStream ==
  \A j \in JobIds :
    worker[j].pc \in {"stored", "sized", "recorded", "cleanup", "failing"} ~>
      \/ status[j] \in {"completed", "failed"}
      \/ \E t \in Targets : t = jobTarget[j] /\ (~ Undisturbed(t) \/ "stuckFile" \in mishaps[t])

\* The inductive invariant behind the safety properties above.

\* A job row (its status st and target t) and its task w agree on how far the job is.
RowMatches(st, t, w) ==
  /\ st = "absent" <=> t = None
  /\ st = "pending" => w.pc = "queued"
  /\ w.pc = "queued" => st = "pending"
  /\ w.pc \notin {"none", "queued"} => st = "downloading"
  /\ w.pc \in {"queued", "dest"} => w.next = 1
  /\ w.pc = "stream" => w.next \in Parts
  /\ w.pc # "stream" => w.file = "closed"

TaskMatchesRow == \A j \in JobIds : RowMatches(status[j], jobTarget[j], worker[j])

\* A thread that is in the middle of a request knows its target.
ThreadsHaveTargets ==
  /\ \A c \in Requests : request[c].pc # "idle" => request[c].target \in Targets
  /\ \A d \in Deletes :
       /\ deletion[d].pc # "idle" => deletion[d].id \in RecordIds
       /\ deletion[d].pc = "idle" <=> deletion[d].target = None

\* A DELETE works on a row that still is what it read, and it works alone.
DeleteOwnsRow ==
  \A d \in Deletes : deletion[d].pc # "idle" /\ DeletesApart(deletion[d].target) =>
    /\ record[deletion[d].id] = deletion[d].target
    /\ \A e \in Deletes : deletion[e].target = deletion[d].target => e = d

\* What path.exists() saw is still there when the path is removed.
FoundPathStays ==
  \A d \in Deletes : deletion[d].pc = "found" /\ Undisturbed(deletion[d].target) =>
    deletion[d].target \in onDisk

\* What the queries of a POST have found still holds when it goes on: a record it
\* has missed belongs to a job it is about to see, and once it has passed there is
\* no copy, nor another POST about to make one.
QueriesHold ==
  \A c \in Requests :
    LET t == request[c].target IN
    request[c].pc # "idle" /\ PostsApart(t) =>
      /\ request[c].pc = "checked" /\ HasRecord(t) =>
           \E j \in JobIds : jobTarget[j] = t /\ worker[j].pc = "recorded"
      /\ request[c].pc = "cleared" =>
           ~ HasRecord(t) /\ ~ HasActiveJob(t) /\ ~ AnotherIsCleared(c, t)

\* Nobody takes the path of t away from under its task w: what it wrote is there.
PathIntact(t, w) ==
  /\ w.pc = "stream" =>
       /\ "undeclared" \notin mishaps[t] =>
            /\ w.file # "closed" => w.declared
            /\ \A p \in Parts : p < w.next => p \in parts[t]
       /\ w.next > 1 \/ w.file # "closed" => t \in onDisk
       /\ w.file # "unlinked"
       /\ w.file = "closed" /\ t \notin Snapshots => w.next = 1
  /\ w.pc \in {"stored", "sized"} =>
       t \in onDisk /\ ("undeclared" \notin mishaps[t] => parts[t] = Parts)

TaskOwnsPath ==
  \A j \in JobIds : status[j] \in Active /\ Undisturbed(jobTarget[j]) =>
    PathIntact(jobTarget[j], worker[j])

SafetyInv ==
  /\ OneCopy /\ RecordedFileWhole /\ ActiveJobRuns
  /\ TaskMatchesRow /\ ThreadsHaveTargets /\ QueriesHold /\ DeleteOwnsRow
  /\ FoundPathStays /\ TaskOwnsPath

\* What _reject_duplicate is there for: never two records for one target.
NoSecondRecord ==
  \A r, q \in RecordIds : record[r] # None /\ record[r] = record[q] => r = q

\* The job table as JobLifecycle sees it: a job whose record is committed and
\* whose row is not yet "completed" is published.
Phase ==
  [j \in JobIds |-> IF status[j] = "downloading" /\ worker[j].pc = "recorded"
                    THEN "published" ELSE status[j]]

Lifecycle == INSTANCE JobLifecycle WITH Jobs <- JobIds, phase <- Phase

LifecycleSpec == Lifecycle!Spec
=============================================================================
