--------------------------- MODULE DownloadsProofs ---------------------------
(***************************************************************************)
(* Proofs about Downloads, for any number of targets, threads, jobs and    *)
(* parts.                                                                  *)
(***************************************************************************)
EXTENDS Downloads, TLAPS

(***************************************************************************)
(* Type correctness.                                                       *)
(***************************************************************************)

\* The initial state has the declared types.
LEMMA InitType == Init => TypeOK
  BY DownloadsAssumption
  DEF Init, TypeOK, JobIds, RecordIds, Parts, Active, Mishaps, WorkerPCs, Task,
      NoWorker, NoRequest, NoDeletion

\* A task stays a task when its program counter or its file moves on.
LEMMA TaskEdits ==
  /\ NoWorker \in Task
  /\ \A w \in Task, pc \in WorkerPCs : [w EXCEPT !.pc = pc] \in Task
  /\ \A w \in Task, f \in {"closed", "linked", "unlinked"} : [w EXCEPT !.file = f] \in Task
  /\ {"none", "queued", "dest", "stream", "stored", "sized", "recorded", "cleanup",
      "failing"} \subseteq WorkerPCs
<1>1. NoWorker \in Task
  BY DownloadsAssumption DEF NoWorker, Task, WorkerPCs
<1>2. \A w \in Task, pc \in WorkerPCs : [w EXCEPT !.pc = pc] \in Task
  BY DEF Task
<1>3. \A w \in Task, f \in {"closed", "linked", "unlinked"} : [w EXCEPT !.file = f] \in Task
  BY DEF Task
<1> QED BY <1>1, <1>2, <1>3 DEF WorkerPCs

\* So it does when its file is opened, gets another block, or is closed.
LEMMA StreamEdits ==
  /\ \A w \in Task, b \in BOOLEAN : [w EXCEPT !.file = "linked", !.declared = b] \in Task
  /\ \A w \in Task : \A t : w.next \in Parts => AfterFile(t, w) \in Task
  /\ \A w \in Task : w.next \in Parts => NextBlock(w) \in Task
  /\ \A w \in Task : Failed(w) \in Task
<1>1. \A w \in Task, b \in BOOLEAN : [w EXCEPT !.file = "linked", !.declared = b] \in Task
  BY DEF Task
<1>2. \A w \in Task : w.next \in Parts => w.next + 1 \in 1..(NumParts + 1)
  BY DownloadsAssumption DEF Parts
<1>3. ASSUME NEW w \in Task, NEW t, w.next \in Parts PROVE AfterFile(t, w) \in Task
  BY <1>2, <1>3 DEF AfterFile, Task, WorkerPCs
<1>4. \A w \in Task : w.next \in Parts => NextBlock(w) \in Task
  BY <1>2 DEF Task, NextBlock
<1>5. \A w \in Task : Failed(w) \in Task
  BY DEF Failed, Task, WorkerPCs
<1> QED BY <1>1, <1>3, <1>4, <1>5

\* A mishap leaves the ghost well typed, and forgets none.
LEMMA BefallsType ==
  ASSUME mishaps \in [Targets -> SUBSET Mishaps], NEW t, NEW m \in Mishaps, Befalls(t, m)
  PROVE  /\ mishaps' \in [Targets -> SUBSET Mishaps]
         /\ \A u \in Targets : mishaps[u] \subseteq mishaps'[u]
         /\ t \in Targets => m \in mishaps'[t]
  BY DEF Befalls

\* Removing a file from under the tasks keeps them well typed.
LEMMA DetachedType ==
  ASSUME NEW t, NEW ps, NEW ws \in [JobIds -> Task]
  PROVE  Detached(t, ps, ws) \in [JobIds -> Task]
  BY TaskEdits DEF Detached

\* Every step of a POST thread keeps the types.
LEMMA RequestType ==
  ASSUME TypeOK, NEW c \in Requests, RequestStep(c)
  PROVE  TypeOK'
<1> USE DEF TypeOK, jobVars, diskVars
<1>1. ASSUME NEW t \in Targets, CheckRecords(c, t) PROVE TypeOK'
  BY <1>1 DEF CheckRecords
<1>2. CASE CheckJobs(c)
  <2>1. mishaps' \in [Targets -> SUBSET Mishaps]
    BY <1>2, BefallsType DEF CheckJobs, PassJobs, Mishaps
  <2>2. \/ request' = [request EXCEPT ![c] = NoRequest]
        \/ request' = [request EXCEPT ![c].pc = "cleared"]
    BY <1>2 DEF CheckJobs, PassJobs
  <2> QED BY <1>2, <2>1, <2>2 DEF CheckJobs, NoRequest
<1>3. CASE HubRefuses(c)
  BY <1>3 DEF HubRefuses, NoRequest
<1>4. CASE CreateJob(c)
  <2>1. /\ status' \in [JobIds -> {"absent", "completed", "failed"} \union Active]
        /\ jobTarget' \in [JobIds -> Targets \union {None}]
        /\ worker' \in [JobIds -> Task]
    BY <1>4, TaskEdits DEF CreateJob, Active
  <2> QED BY <1>4, <2>1 DEF CreateJob, NoRequest
<1> QED BY <1>1, <1>2, <1>3, <1>4 DEF RequestStep

\* Every step of a background task keeps the types.
LEMMA WorkerType ==
  ASSUME TypeOK, TaskMatchesRow, NEW j \in JobIds, WorkerStep(j)
  PROVE  TypeOK'
<1> USE TaskEdits DEF TypeOK, jobVars, diskVars
<1>1. CASE StartJob(j)
  BY <1>1 DEF StartJob, Advance, Active
<1>2. CASE MakeDest(j)
  BY <1>2, DownloadsAssumption DEF MakeDest, Advance
<1>3. CASE MakeDestFails(j)
  BY <1>3 DEF MakeDestFails, Advance
<1>target. worker[j].pc # "none" => jobTarget[j] \in Targets
  BY DEF TaskMatchesRow, RowMatches
<1>next. worker[j].pc = "stream" => worker[j].next \in Parts
  BY DEF TaskMatchesRow, RowMatches
<1>4. CASE OpenFile(j)
  <2>1. PICK b \in BOOLEAN :
          /\ worker' = [worker EXCEPT ![j] = [@ EXCEPT !.file = "linked", !.declared = b]]
          /\ mishaps' = mishaps \/ Befalls(jobTarget[j], "undeclared")
    BY <1>4, Zenon DEF OpenFile
  <2>2. mishaps' \in [Targets -> SUBSET Mishaps]
    BY <2>1, BefallsType DEF Mishaps
  <2>3. worker' \in [JobIds -> Task]
    BY <2>1, StreamEdits
  <2>4. jobTarget[j] \in Targets
    BY <1>4, <1>target DEF OpenFile
  <2>5. /\ onDisk' \in SUBSET Targets
        /\ parts' \in [Targets -> SUBSET Parts]
    BY <1>4, <2>4 DEF OpenFile
  <2> QED BY <1>4, <2>2, <2>3, <2>5 DEF OpenFile
<1>5. CASE WritePart(j)
  <2>1. worker' \in [JobIds -> Task]
    <3>1. worker[j] \in Task /\ worker[j].next \in Parts
      BY <1>5, <1>next DEF WritePart
    <3>2. \E w \in Task : worker' = [worker EXCEPT ![j] = w]
      <4>1. \/ worker' = [worker EXCEPT ![j] = AfterFile(jobTarget[j], worker[j])]
            \/ worker' = [worker EXCEPT ![j] = NextBlock(worker[j])]
        BY <1>5 DEF WritePart
      <4> QED BY <3>1, <4>1, StreamEdits
    <3> QED BY <3>2
  <2>2. parts' \in [Targets -> SUBSET Parts]
    BY <1>5, <1>next DEF WritePart
  <2> QED BY <1>5, <2>1, <2>2 DEF WritePart
<1>6. CASE StreamFails(j)
  <2>1. worker' \in [JobIds -> Task]
    BY <1>6, StreamEdits DEF StreamFails
  <2> QED BY <1>6, <2>1 DEF StreamFails
<1>12. CASE StreamEndsShort(j)
  <2>1. worker' \in [JobIds -> Task]
    BY <1>12, <1>next, StreamEdits DEF StreamEndsShort
  <2> QED BY <1>12, <2>1 DEF StreamEndsShort
<1>13. CASE CleanUpLeavesFiles(j)
  <2>1. [worker EXCEPT ![j].pc = "failing"] \in [JobIds -> Task]
    OBVIOUS
  <2>2. worker' \in [JobIds -> Task]
    <3>1. PICK gone \in SUBSET Parts :
            worker' = Detached(jobTarget[j], gone, [worker EXCEPT ![j].pc = "failing"])
      BY <1>13 DEF CleanUpLeavesFiles
    <3> QED BY <3>1, <2>1, DetachedType
  <2>3. parts' \in [Targets -> SUBSET Parts]
    <3>1. PICK gone \in SUBSET Parts : parts' = [parts EXCEPT ![jobTarget[j]] = @ \ gone]
      BY <1>13 DEF CleanUpLeavesFiles
    <3> QED BY <3>1
  <2> QED BY <1>13, <2>2, <2>3 DEF CleanUpLeavesFiles
<1>14. CASE CleanUpRaises(j)
  <2>1. mishaps' \in [Targets -> SUBSET Mishaps]
    BY <1>14, BefallsType DEF CleanUpRaises, Mishaps
  <2> QED BY <1>14, <2>1 DEF CleanUpRaises
<1>7. CASE StatFile(j)
  BY <1>7 DEF StatFile
<1>8. CASE InsertRecord(j)
  BY <1>8 DEF InsertRecord, Advance
<1>9. CASE CompleteJob(j)
  <2>1. mishaps' \in [Targets -> SUBSET Mishaps]
    BY <1>9, BefallsType DEF CompleteJob, Mishaps
  <2> QED BY <1>9, <2>1 DEF CompleteJob
<1>10. CASE CleanUp(j)
  BY <1>10, DetachedType DEF CleanUp
<1>11. CASE FailJob(j)
  BY <1>11 DEF FailJob
<1> QED BY <1>1, <1>2, <1>3, <1>4, <1>5, <1>6, <1>7, <1>8, <1>9, <1>10, <1>11, <1>12, <1>13,
           <1>14
        DEF WorkerStep, StreamStep, SettleStep

\* Every step of a DELETE thread keeps the types.
LEMMA DeleteType ==
  ASSUME TypeOK, NEW d \in Deletes, DeleteStep(d)
  PROVE  TypeOK'
<1> USE DEF TypeOK, jobVars, diskVars
<1>1. ASSUME NEW r \in RecordIds, GetRecord(d, r) PROVE TypeOK'
  BY <1>1 DEF GetRecord, Mishaps
<1>2. CASE FindPath(d)
  BY <1>2 DEF FindPath
<1>3. ASSUME NEW p \in Parts, RemovePart(d, p) PROVE TypeOK'
  BY <1>3, DetachedType DEF RemovePart
<1>4. CASE RemovePath(d)
  <2>1. CASE deletion[d].target \in onDisk \/ deletion[d].target \in Snapshots
    <3>1. Detached(deletion[d].target, Parts, worker) \in [JobIds -> Task]
      BY DetachedType
    <3>2. /\ deletion' = [deletion EXCEPT ![d].pc = "gone"]
          /\ onDisk' = onDisk \ {deletion[d].target}
          /\ parts' = [parts EXCEPT ![deletion[d].target] = {}]
          /\ worker' = Detached(deletion[d].target, Parts, worker)
          /\ UNCHANGED <<jobVars, record, request, mishaps>>
      BY <1>4, <2>1, Zenon DEF RemovePath
    <3> QED BY <3>1, <3>2
  <2>2. CASE ~ (deletion[d].target \in onDisk \/ deletion[d].target \in Snapshots)
    BY <1>4, <2>2 DEF RemovePath, NoDeletion
  <2> QED BY <2>1, <2>2
<1>5. CASE DeleteRow(d)
  BY <1>5 DEF DeleteRow, NoDeletion, Mishaps
<1> QED BY <1>1, <1>2, <1>3, <1>4, <1>5 DEF DeleteStep

\* A restart keeps the types.
LEMMA RestartType ==
  ASSUME TypeOK, Restart
  PROVE  TypeOK'
<1> USE DEF TypeOK, jobVars, diskVars
<1>1. /\ status' \in [JobIds -> {"absent", "completed", "failed"} \union Active]
      /\ worker' \in [JobIds -> Task]
  BY TaskEdits DEF Restart
<1>2. /\ request' \in [Requests -> [pc : {"idle", "checked", "cleared"},
                                   target : Targets \union {None}]]
      /\ deletion' \in [Deletes -> [pc : {"idle", "got", "found", "gone"},
                                   id : RecordIds \union {0},
                                   target : Targets \union {None}]]
  BY DEF Restart, NoRequest, NoDeletion
<1>3. mishaps' \in [Targets -> SUBSET Mishaps]
  BY DEF Restart, Mishaps
<1> QED BY <1>1, <1>2, <1>3 DEF Restart

-----------------------------------------------------------------------------
(***************************************************************************)
(* The parts of the inductive invariant.                                   *)
(***************************************************************************)

\* The fields of a task, and of a task one field of which has changed.
LEMMA TaskFields ==
  \A w \in Task :
    /\ w.pc \in WorkerPCs
    /\ w.next \in 1..(NumParts + 1)
    /\ w.file \in {"closed", "linked", "unlinked"}
    /\ \A pc \in WorkerPCs : /\ [w EXCEPT !.pc = pc].pc = pc
                             /\ [w EXCEPT !.pc = pc].next = w.next
                             /\ [w EXCEPT !.pc = pc].file = w.file
    /\ \A f \in {"closed", "linked", "unlinked"} : /\ [w EXCEPT !.file = f].pc = w.pc
                                                   /\ [w EXCEPT !.file = f].next = w.next
                                                   /\ [w EXCEPT !.file = f].file = f
  BY DEF Task

\* The fields of a task whose file has been opened, or has got another block.
LEMMA OpenTask ==
  ASSUME NEW w \in Task
  PROVE  /\ \A b \in BOOLEAN : /\ [w EXCEPT !.file = "linked", !.declared = b].pc = w.pc
                               /\ [w EXCEPT !.file = "linked", !.declared = b].next = w.next
                               /\ [w EXCEPT !.file = "linked", !.declared = b].file = "linked"
                               /\ [w EXCEPT !.file = "linked", !.declared = b].declared = b
         /\ NextBlock(w).pc = w.pc
         /\ NextBlock(w).next = w.next + 1
         /\ NextBlock(w).file = w.file
         /\ NextBlock(w).declared = w.declared
  BY DEF Task, NextBlock

\* What closing a file leaves of a task.
LEMMA ClosedTask ==
  \A w, t : /\ Failed(w).pc = "cleanup" /\ Failed(w).file = "closed"
            /\ AfterFile(t, w).pc \in {"stream", "sized", "stored"}
            /\ AfterFile(t, w).pc = "stream" <=> t \in Snapshots /\ w.next # NumParts
            /\ AfterFile(t, w).next = w.next + 1
            /\ AfterFile(t, w).file = "closed" /\ AfterFile(t, w).declared = TRUE
  BY DEF Failed, AfterFile

\* Changing one row and its task keeps the others in agreement.
LEMMA RowUpdate ==
  ASSUME TypeOK, TaskMatchesRow, NEW j \in JobIds, NEW st, NEW w,
         status' = [status EXCEPT ![j] = st], jobTarget' = jobTarget,
         worker' = [worker EXCEPT ![j] = w],
         RowMatches(st, jobTarget[j], w)
  PROVE  TaskMatchesRow'
  BY DEF TypeOK, TaskMatchesRow, RowMatches

\* What changing the task of one job does to the tasks of all.
LEMMA TaskUpdate ==
  ASSUME TypeOK, TaskMatchesRow, NEW j \in JobIds, NEW w,
         UNCHANGED jobVars, worker' = [worker EXCEPT ![j] = w],
         RowMatches(status[j], jobTarget[j], w)
  PROVE  TaskMatchesRow'
  BY DEF TypeOK, TaskMatchesRow, RowMatches, jobVars

\* So does taking a file away from under the tasks.
LEMMA DetachedRow ==
  ASSUME NEW t, NEW ps, NEW ws \in [JobIds -> Task],
         \A i \in JobIds : RowMatches(status[i], jobTarget[i], ws[i])
  PROVE  \A i \in JobIds : RowMatches(status[i], jobTarget[i], Detached(t, ps, ws)[i])
<1> SUFFICES ASSUME NEW i \in JobIds
             PROVE  RowMatches(status[i], jobTarget[i], Detached(t, ps, ws)[i])
  OBVIOUS
<1>1. CASE Detached(t, ps, ws)[i] = ws[i]
  BY <1>1
<1>2. CASE /\ Detached(t, ps, ws)[i] = [ws[i] EXCEPT !.file = "unlinked"]
           /\ ws[i].file = "linked"
  BY <1>2, TaskFields DEF RowMatches
<1> QED BY <1>1, <1>2 DEF Detached

\* A job row and its task stay in agreement.
LEMMA TaskMatchesRowStep ==
  ASSUME TypeOK, TaskMatchesRow, ThreadsHaveTargets, Next
  PROVE  TaskMatchesRow'
<1> DEFINE Rows == <<status, jobTarget, worker>>
<1>same. ASSUME UNCHANGED Rows PROVE TaskMatchesRow'
  BY <1>same DEF TaskMatchesRow, RowMatches
<1> USE TaskFields, TaskEdits
<1>types. /\ worker \in [JobIds -> Task]
          /\ \A i \in JobIds : /\ RowMatches(status[i], jobTarget[i], worker[i])
                               /\ worker[i] \in Task
  BY DEF TypeOK, TaskMatchesRow
<1>1. ASSUME NEW c \in Requests, RequestStep(c) PROVE TaskMatchesRow'
  <2>1. CASE CreateJob(c)
    <3>1. PICK j \in JobIds :
            /\ IsNextJob(j)
            /\ status' = [status EXCEPT ![j] = "pending"]
            /\ jobTarget' = [jobTarget EXCEPT ![j] = request[c].target]
            /\ worker' = [worker EXCEPT ![j] = [NoWorker EXCEPT !.pc = "queued"]]
      BY <2>1 DEF CreateJob
    <3>2. request[c].target # None
      BY <2>1, DownloadsAssumption DEF CreateJob, ThreadsHaveTargets
    <3>3. RowMatches("pending", request[c].target, [NoWorker EXCEPT !.pc = "queued"])
      BY <3>2 DEF RowMatches, NoWorker
    <3> QED BY <3>1, <3>3, <1>types DEF TypeOK, TaskMatchesRow
  <2>2. CASE ~ CreateJob(c)
    BY <1>1, <2>2, <1>same DEF RequestStep, CheckRecords, CheckJobs, PassJobs, HubRefuses, jobVars
  <2> QED BY <2>1, <2>2
<1>2. ASSUME NEW j \in JobIds, WorkerStep(j) PROVE TaskMatchesRow'
  <2> DEFINE w == worker[j]
  <2>row. RowMatches(status[j], jobTarget[j], w) /\ w \in Task
    BY <1>types
  <2>first. 1 \in Parts
    BY DownloadsAssumption DEF Parts
  <2>after. w.pc = "stream" => RowMatches(status[j], jobTarget[j], AfterFile(jobTarget[j], w))
    <3>1. w.pc = "stream" /\ w.next # NumParts => w.next + 1 \in Parts
      BY <2>row, DownloadsAssumption DEF RowMatches, Parts
    <3> QED BY <3>1, <2>row, ClosedTask DEF RowMatches
  <2>1. CASE StartJob(j)
    <3>1. RowMatches("downloading", jobTarget[j], [w EXCEPT !.pc = "dest"])
      BY <2>1, <2>row DEF StartJob, RowMatches
    <3> QED BY <2>1, <3>1, RowUpdate DEF StartJob, Advance
  <2>2. CASE MakeDest(j)
    <3>1. w.pc = "dest" /\ UNCHANGED jobVars /\ worker' = [worker EXCEPT ![j].pc = "stream"]
      BY <2>2, Zenon DEF MakeDest, Advance
    <3>2. RowMatches(status[j], jobTarget[j], [w EXCEPT !.pc = "stream"])
      BY <3>1, <2>row, <2>first DEF RowMatches
    <3> QED BY <3>1, <3>2, TaskUpdate
  <2>3. CASE MakeDestFails(j)
    <3>1. RowMatches(status[j], jobTarget[j], [w EXCEPT !.pc = "failing"])
      BY <2>3, <2>row DEF MakeDestFails, RowMatches
    <3> QED BY <2>3, <3>1, TaskUpdate DEF MakeDestFails, Advance
  <2>4. CASE OpenFile(j)
    <3>1. PICK b \in BOOLEAN :
            worker' = [worker EXCEPT ![j] = [worker[j] EXCEPT !.file = "linked", !.declared = b]]
      BY <2>4 DEF OpenFile
    <3>2. w.pc = "stream" /\ UNCHANGED jobVars
      BY <2>4 DEF OpenFile
    <3>3. RowMatches(status[j], jobTarget[j], [w EXCEPT !.file = "linked", !.declared = b])
      BY <3>2, <2>row, OpenTask DEF RowMatches
    <3> QED BY <3>1, <3>2, <3>3, TaskUpdate
  <2>5. CASE WritePart(j)
    <3>1. w.pc = "stream" /\ w.next \in Parts /\ UNCHANGED jobVars
      BY <2>5, <2>row DEF WritePart, RowMatches
    <3>2. CASE worker' = [worker EXCEPT ![j] = AfterFile(jobTarget[j], w)]
      BY <3>1, <3>2, <2>after, TaskUpdate
    <3>3. CASE /\ worker' = [worker EXCEPT ![j] = NextBlock(w)]
               /\ w.next # NumParts
      <4>1. w.next + 1 \in Parts
        BY <3>1, <3>3, DownloadsAssumption DEF Parts
      <4>2. RowMatches(status[j], jobTarget[j], NextBlock(w))
        BY <3>1, <4>1, <2>row, OpenTask DEF RowMatches
      <4> QED BY <3>1, <3>3, <4>2, TaskUpdate
    <3> QED BY <2>5, <3>2, <3>3 DEF WritePart
  <2>6. CASE StreamFails(j)
    <3>1. w.pc = "stream" /\ UNCHANGED jobVars
      BY <2>6 DEF StreamFails
    <3>2. RowMatches(status[j], jobTarget[j], Failed(w))
      BY <3>1, <2>row, ClosedTask DEF RowMatches
    <3> QED BY <2>6, <3>1, <3>2, TaskUpdate DEF StreamFails
  <2>12. CASE StreamEndsShort(j)
    <3>1. w.pc = "stream" /\ UNCHANGED jobVars
      BY <2>12 DEF StreamEndsShort
    <3> QED BY <2>12, <3>1, <2>after, TaskUpdate DEF StreamEndsShort
  <2>13. CASE CleanUpLeavesFiles(j)
    <3> DEFINE ws == [worker EXCEPT ![j].pc = "failing"]
    <3>1. RowMatches(status[j], jobTarget[j], [w EXCEPT !.pc = "failing"])
      BY <2>13, <2>row DEF CleanUpLeavesFiles, RowMatches
    <3>2. \A i \in JobIds : RowMatches(status[i], jobTarget[i], ws[i])
      BY <3>1, <1>types
    <3>3. ws \in [JobIds -> Task]
      BY <1>types
    <3>4. PICK gone \in SUBSET Parts : worker' = Detached(jobTarget[j], gone, ws)
      BY <2>13 DEF CleanUpLeavesFiles
    <3> HIDE DEF ws
    <3>5. \A i \in JobIds :
            RowMatches(status[i], jobTarget[i], Detached(jobTarget[j], gone, ws)[i])
      BY <3>2, <3>3, DetachedRow
    <3> QED BY <2>13, <3>4, <3>5 DEF CleanUpLeavesFiles, jobVars, TaskMatchesRow, RowMatches
  <2>14. CASE CleanUpRaises(j)
    <3>1. RowMatches(status[j], jobTarget[j], NoWorker)
      BY <2>14, <2>row DEF CleanUpRaises, RowMatches, NoWorker
    <3> QED BY <2>14, <3>1, TaskUpdate DEF CleanUpRaises, jobVars
  <2>7. CASE StatFile(j)
    <3>1. RowMatches(status[j], jobTarget[j], [w EXCEPT !.pc = "sized"])
      BY <2>7, <2>row DEF StatFile, RowMatches
    <3>2. RowMatches(status[j], jobTarget[j], NoWorker)
      BY <2>7, <2>row DEF StatFile, RowMatches, NoWorker
    <3> QED BY <2>7, <3>1, <3>2, TaskUpdate DEF StatFile, jobVars
  <2>8. CASE InsertRecord(j)
    <3>1. RowMatches(status[j], jobTarget[j], [w EXCEPT !.pc = "recorded"])
      BY <2>8, <2>row DEF InsertRecord, RowMatches
    <3> QED BY <2>8, <3>1, TaskUpdate DEF InsertRecord, Advance, jobVars
  <2>9. CASE CompleteJob(j)
    <3>1. RowMatches("completed", jobTarget[j], NoWorker)
      BY <2>9, <2>row DEF CompleteJob, RowMatches, NoWorker
    <3> QED BY <2>9, <3>1, RowUpdate DEF CompleteJob
  <2>10. CASE CleanUp(j)
    <3> DEFINE ws == [worker EXCEPT ![j].pc = "failing"]
    <3>1. RowMatches(status[j], jobTarget[j], [w EXCEPT !.pc = "failing"])
      BY <2>10, <2>row DEF CleanUp, RowMatches
    <3>2. \A i \in JobIds : RowMatches(status[i], jobTarget[i], ws[i])
      BY <3>1, <1>types
    <3>3. ws \in [JobIds -> Task]
      BY <1>types
    <3> HIDE DEF ws
    <3>4. \A i \in JobIds :
            RowMatches(status[i], jobTarget[i], Detached(jobTarget[j], Parts, ws)[i])
      BY <3>2, <3>3, DetachedRow
    <3> QED BY <2>10, <3>4 DEF CleanUp, ws, jobVars, TaskMatchesRow, RowMatches
  <2>11. CASE FailJob(j)
    <3>1. RowMatches("failed", jobTarget[j], NoWorker)
      BY <2>11, <2>row DEF FailJob, RowMatches, NoWorker
    <3> QED BY <2>11, <3>1, RowUpdate DEF FailJob
  <2> QED BY <1>2, <2>1, <2>2, <2>3, <2>4, <2>5, <2>6, <2>7, <2>8, <2>9, <2>10, <2>11, <2>12,
             <2>13, <2>14
          DEF WorkerStep, StreamStep, SettleStep
<1>3. ASSUME NEW d \in Deletes, DeleteStep(d) PROVE TaskMatchesRow'
  <2>1. CASE UNCHANGED Rows
    BY <2>1, <1>same
  <2>2. ASSUME NEW ps, NEW t, worker' = Detached(t, ps, worker), UNCHANGED jobVars
        PROVE  TaskMatchesRow'
    <3>1. \A i \in JobIds : RowMatches(status[i], jobTarget[i], Detached(t, ps, worker)[i])
      BY <1>types, DetachedRow
    <3> QED BY <2>2, <3>1 DEF jobVars, TaskMatchesRow, RowMatches
  <2>3. CASE (\E r \in RecordIds : GetRecord(d, r)) \/ FindPath(d) \/ DeleteRow(d)
    BY <2>1, <2>3 DEF GetRecord, FindPath, DeleteRow, jobVars
  <2>4. ASSUME NEW p \in Parts, RemovePart(d, p) PROVE TaskMatchesRow'
    BY <2>2, <2>4, Zenon DEF RemovePart
  <2>5. CASE RemovePath(d)
    <3>1. UNCHANGED jobVars
      BY <2>5 DEF RemovePath
    <3>2. worker' = Detached(deletion[d].target, Parts, worker) \/ worker' = worker
      BY <2>5, Zenon DEF RemovePath
    <3>3. CASE worker' = worker
      BY <2>1, <3>1, <3>3 DEF jobVars
    <3> QED BY <2>2, <3>1, <3>2, <3>3
  <2> QED BY <1>3, <2>3, <2>4, <2>5 DEF DeleteStep
<1>4. ASSUME Restart PROVE TaskMatchesRow'
  <2>1. \A i \in JobIds : RowMatches(status'[i], jobTarget[i], NoWorker)
    BY <1>4, <1>types DEF Restart, RowMatches, NoWorker, Active
  <2> QED BY <1>4, <2>1 DEF Restart, TaskMatchesRow, RowMatches
<1> QED BY <1>1, <1>2, <1>3, <1>4 DEF Next

\* Every step leaves the threads that are at work with a target.
LEMMA ThreadsHaveTargetsStep ==
  ASSUME TypeOK, ThreadsHaveTargets, Next
  PROVE  ThreadsHaveTargets'
<1> USE DownloadsAssumption DEF TypeOK, ThreadsHaveTargets
<1>1. ASSUME NEW c \in Requests, NEW t \in Targets, CheckRecords(c, t)
      PROVE ThreadsHaveTargets'
  BY <1>1 DEF CheckRecords
<1>2. ASSUME NEW c \in Requests, CheckJobs(c) \/ HubRefuses(c) \/ CreateJob(c)
      PROVE ThreadsHaveTargets'
  <2>1. \/ request' = [request EXCEPT ![c] = NoRequest]
        \/ request' = [request EXCEPT ![c].pc = "cleared"] /\ request[c].pc # "idle"
    BY <1>2 DEF CheckJobs, PassJobs, HubRefuses, CreateJob
  <2>2. UNCHANGED deletion
    BY <1>2 DEF CheckJobs, HubRefuses, CreateJob
  <2> QED BY <2>1, <2>2 DEF NoRequest
<1>3. ASSUME NEW j \in JobIds, WorkerStep(j) PROVE ThreadsHaveTargets'
  <2>1. UNCHANGED <<request, deletion>>
    BY <1>3 DEF WorkerStep, StreamStep, SettleStep, StartJob, MakeDest, MakeDestFails, OpenFile,
                WritePart, StreamEndsShort, StreamFails, StatFile, InsertRecord, CompleteJob,
                CleanUp, CleanUpLeavesFiles, CleanUpRaises, FailJob
  <2> QED BY <2>1
<1>4. ASSUME NEW d \in Deletes, NEW r \in RecordIds, GetRecord(d, r)
      PROVE ThreadsHaveTargets'
  BY <1>4 DEF GetRecord
<1>5. ASSUME NEW d \in Deletes, FindPath(d) PROVE ThreadsHaveTargets'
  BY <1>5 DEF FindPath
<1>6. ASSUME NEW d \in Deletes, NEW p \in Parts, RemovePart(d, p) PROVE ThreadsHaveTargets'
  BY <1>6 DEF RemovePart
<1>7. ASSUME NEW d \in Deletes, RemovePath(d) PROVE ThreadsHaveTargets'
  <2>1. /\ UNCHANGED request
        /\ \/ deletion' = [deletion EXCEPT ![d].pc = "gone"]
           \/ deletion' = [deletion EXCEPT ![d] = NoDeletion]
        /\ deletion[d].pc = "found"
    BY <1>7, Zenon DEF RemovePath
  <2> QED BY <2>1 DEF NoDeletion
<1>8. ASSUME NEW d \in Deletes, DeleteRow(d) PROVE ThreadsHaveTargets'
  BY <1>8 DEF DeleteRow, NoDeletion
<1>9. ASSUME Restart PROVE ThreadsHaveTargets'
  BY <1>9 DEF Restart, NoRequest, NoDeletion
<1> QED BY <1>1, <1>2, <1>3, <1>4, <1>5, <1>6, <1>7, <1>8, <1>9
        DEF Next, RequestStep, DeleteStep

\* A mishap is never forgotten.
LEMMA MishapsGrow ==
  ASSUME TypeOK, Next, NEW t \in Targets
  PROVE  mishaps[t] \subseteq mishaps'[t]
<1> USE DEF TypeOK
<1>befalls. ASSUME NEW u, NEW m \in Mishaps, Befalls(u, m) PROVE mishaps[t] \subseteq mishaps'[t]
  BY <1>befalls, BefallsType
<1>1. ASSUME NEW c \in Requests, RequestStep(c) PROVE mishaps[t] \subseteq mishaps'[t]
  <2>1. UNCHANGED mishaps \/ \E u, m : m \in Mishaps /\ Befalls(u, m)
    BY <1>1 DEF RequestStep, CheckRecords, CheckJobs, PassJobs, HubRefuses, CreateJob, Mishaps
  <2> QED BY <2>1, <1>befalls
<1>2. ASSUME NEW j \in JobIds, WorkerStep(j) PROVE mishaps[t] \subseteq mishaps'[t]
  <2>1. CASE OpenFile(j) \/ CompleteJob(j) \/ CleanUpRaises(j)
    <3>1. UNCHANGED mishaps \/ \E u, m : m \in Mishaps /\ Befalls(u, m)
      BY <2>1 DEF OpenFile, CompleteJob, CleanUpRaises, Mishaps
    <3> QED BY <3>1, <1>befalls
  <2>2. CASE ~ (OpenFile(j) \/ CompleteJob(j) \/ CleanUpRaises(j))
    BY <1>2, <2>2 DEF WorkerStep, StreamStep, SettleStep, StartJob, MakeDest, MakeDestFails,
                WritePart, StreamEndsShort, StreamFails, StatFile, InsertRecord, CleanUp,
                CleanUpLeavesFiles, FailJob
  <2> QED BY <2>1, <2>2
<1>3. ASSUME NEW d \in Deletes, DeleteStep(d) PROVE mishaps[t] \subseteq mishaps'[t]
  <2>1. ASSUME NEW r \in RecordIds, GetRecord(d, r) PROVE mishaps[t] \subseteq mishaps'[t]
    BY <2>1 DEF GetRecord
  <2>2. CASE DeleteRow(d)
    BY <2>2 DEF DeleteRow
  <2>3. CASE FindPath(d) \/ (\E p \in Parts : RemovePart(d, p)) \/ RemovePath(d)
    BY <2>3 DEF FindPath, RemovePart, RemovePath
  <2> QED BY <1>3, <2>1, <2>2, <2>3 DEF DeleteStep
<1>4. CASE Restart
  BY <1>4 DEF Restart
<1> QED BY <1>1, <1>2, <1>3, <1>4 DEF Next

\* What is undisturbed after a step was so before it.
LEMMA CalmBefore ==
  ASSUME TypeOK, Next, NEW t \in Targets
  PROVE  /\ PostsApart(t)' => PostsApart(t)
         /\ DeletesApart(t)' => DeletesApart(t)
         /\ Undisturbed(t)' => Undisturbed(t)
  BY MishapsGrow DEF PostsApart, DeletesApart, Undisturbed

\* The row a DELETE works on stays the one it has read.
LEMMA DeleteOwnsRowStep ==
  ASSUME TypeOK, ThreadsHaveTargets, DeleteOwnsRow, Next
  PROVE  DeleteOwnsRow'
<1> USE CalmBefore, DownloadsAssumption DEF TypeOK
<1>1. ASSUME NEW c \in Requests, RequestStep(c) PROVE DeleteOwnsRow'
  <2>1. UNCHANGED <<record, deletion>>
    BY <1>1 DEF RequestStep, CheckRecords, CheckJobs, HubRefuses, CreateJob
  <2> QED BY <2>1 DEF DeleteOwnsRow, ThreadsHaveTargets
<1>2. ASSUME NEW j \in JobIds, WorkerStep(j) PROVE DeleteOwnsRow'
  <2>1. UNCHANGED deletion
    BY <1>2 DEF WorkerStep, StreamStep, SettleStep, StartJob, MakeDest, MakeDestFails, OpenFile,
                WritePart, StreamEndsShort, StreamFails, StatFile, InsertRecord, CompleteJob,
                CleanUp, CleanUpLeavesFiles, CleanUpRaises, FailJob
  <2>2. \A r \in RecordIds : record[r] # None => record'[r] = record[r]
    <3>1. CASE InsertRecord(j)
      <4>1. PICK r \in RecordIds : /\ \A q \in RecordIds : q >= r => record[q] = None
                                   /\ record' = [record EXCEPT ![r] = jobTarget[j]]
        BY <3>1 DEF InsertRecord, IsNextRecord
      <4>2. record[r] = None
        BY <4>1 DEF RecordIds
      <4> QED BY <4>1, <4>2
    <3>2. CASE ~ InsertRecord(j)
      BY <1>2, <3>2 DEF WorkerStep, StreamStep, SettleStep, StartJob, MakeDest, MakeDestFails,
                        OpenFile, WritePart, StreamEndsShort, StreamFails, StatFile, CompleteJob,
                        CleanUp, CleanUpLeavesFiles, CleanUpRaises, FailJob
    <3> QED BY <3>1, <3>2
  <2> QED BY <2>1, <2>2 DEF DeleteOwnsRow, ThreadsHaveTargets
<1>3. ASSUME NEW d \in Deletes, NEW r \in RecordIds, GetRecord(d, r) PROVE DeleteOwnsRow'
  <2>1. /\ record[r] \in Targets /\ UNCHANGED record
        /\ deletion' = [deletion EXCEPT ![d] = [pc |-> "got", id |-> r, target |-> record[r]]]
        /\ DeletesApart(record[r])' => \A e \in Deletes : deletion[e].target # record[r]
    BY <1>3 DEF GetRecord, DeletesApart, Befalls
  <2> SUFFICES ASSUME NEW e \in Deletes, deletion'[e].pc # "idle",
                      DeletesApart(deletion[e].target)'
               PROVE  /\ record'[deletion'[e].id] = deletion'[e].target
                      /\ \A f \in Deletes : deletion'[f].target = deletion'[e].target => f = e
    BY DEF DeleteOwnsRow
  <2>2. CASE e = d
    BY <2>1, <2>2
  <2>3. CASE e # d
    <3>1. deletion'[e] = deletion[e] /\ deletion[e].target \in Targets
      BY <2>1, <2>3 DEF ThreadsHaveTargets
    <3>2. DeletesApart(deletion[e].target)
      BY <3>1
    <3> QED BY <2>1, <2>3, <3>1, <3>2 DEF DeleteOwnsRow
  <2> QED BY <2>2, <2>3
<1>4. ASSUME NEW d \in Deletes, FindPath(d) PROVE DeleteOwnsRow'
  BY <1>4 DEF FindPath, DeleteOwnsRow, ThreadsHaveTargets
<1>5. ASSUME NEW d \in Deletes, NEW p \in Parts, RemovePart(d, p) PROVE DeleteOwnsRow'
  BY <1>5 DEF RemovePart, DeleteOwnsRow, DeletesApart
<1>6. ASSUME NEW d \in Deletes, RemovePath(d) PROVE DeleteOwnsRow'
  <2>1. /\ UNCHANGED <<record, mishaps>>
        /\ \/ deletion' = [deletion EXCEPT ![d].pc = "gone"]
           \/ deletion' = [deletion EXCEPT ![d] = NoDeletion]
        /\ deletion[d].pc = "found"
    BY <1>6, Zenon DEF RemovePath
  <2> QED BY <2>1 DEF NoDeletion, DeleteOwnsRow, ThreadsHaveTargets, DeletesApart
<1>7. ASSUME NEW d \in Deletes, DeleteRow(d) PROVE DeleteOwnsRow'
  <2>1. /\ record' = [record EXCEPT ![deletion[d].id] = None]
        /\ deletion' = [deletion EXCEPT ![d] = NoDeletion]
        /\ \A t \in Targets : t = record[deletion[d].id] /\ t # deletion[d].target
                              => "strayDelete" \in mishaps'[t]
    BY <1>7 DEF DeleteRow
  <2> SUFFICES ASSUME NEW e \in Deletes, deletion'[e].pc # "idle",
                      DeletesApart(deletion[e].target)', e # d
               PROVE  /\ record'[deletion'[e].id] = deletion'[e].target
                      /\ \A f \in Deletes : deletion'[f].target = deletion'[e].target => f = e
    BY <2>1 DEF DeleteOwnsRow, NoDeletion
  <2>2. deletion'[e] = deletion[e] /\ deletion[e].target \in Targets
    BY <2>1 DEF ThreadsHaveTargets
  <2>3. /\ DeletesApart(deletion[e].target)
        /\ "strayDelete" \notin mishaps'[deletion[e].target]
    BY <2>2 DEF DeletesApart
  <2>4. /\ record[deletion[e].id] = deletion[e].target
        /\ \A f \in Deletes : deletion[f].target = deletion[e].target => f = e
    BY <2>2, <2>3 DEF DeleteOwnsRow
  <2>5. deletion[e].id # deletion[d].id
    BY <2>1, <2>2, <2>3, <2>4
  <2> QED BY <2>1, <2>2, <2>4, <2>5 DEF NoDeletion, ThreadsHaveTargets
<1>8. ASSUME Restart PROVE DeleteOwnsRow'
  BY <1>8 DEF Restart, NoDeletion, DeleteOwnsRow
<1> QED BY <1>1, <1>2, <1>3, <1>4, <1>5, <1>6, <1>7, <1>8 DEF Next, DeleteStep

\* The threads that may touch a path: a task of that target, or a DELETE of it.
LEMMA WhoTouchesPath ==
  ASSUME TypeOK, Next, NEW t \in Targets
  PROVE  \/ (t \in onDisk' <=> t \in onDisk) /\ parts'[t] = parts[t]
         \/ \E j \in JobIds : jobTarget[j] = t /\ worker[j].pc \in {"dest", "stream", "cleanup"}
         \/ \E d \in Deletes : /\ deletion[d].target = t /\ deletion[d].pc = "found"
                               /\ (t \in onDisk' <=> t \in onDisk) \/ deletion'[d].pc # "found"
<1> DEFINE Goal == \/ (t \in onDisk' <=> t \in onDisk) /\ parts'[t] = parts[t]
                   \/ \E j \in JobIds : /\ jobTarget[j] = t
                                         /\ worker[j].pc \in {"dest", "stream", "cleanup"}
                   \/ \E d \in Deletes : /\ deletion[d].target = t /\ deletion[d].pc = "found"
                                         /\ (t \in onDisk' <=> t \in onDisk) \/ deletion'[d].pc # "found"
<1> SUFFICES Goal
  OBVIOUS
<1>1. CASE UNCHANGED diskVars
  BY <1>1 DEF diskVars
<1>2. ASSUME NEW c \in Requests, RequestStep(c) PROVE Goal
  BY <1>1, <1>2 DEF RequestStep, CheckRecords, CheckJobs, HubRefuses, CreateJob
<1>3. ASSUME NEW j \in JobIds, WorkerStep(j) PROVE Goal
  <2>1. \/ UNCHANGED diskVars
        \/ MakeDest(j) \/ OpenFile(j) \/ WritePart(j) \/ CleanUp(j) \/ CleanUpLeavesFiles(j)
    BY <1>3 DEF WorkerStep, StreamStep, SettleStep, StartJob, MakeDestFails, StreamEndsShort,
                StreamFails, StatFile, InsertRecord, CompleteJob, CleanUpRaises, FailJob
  <2>2. CASE jobTarget[j] = t
    BY <1>1, <2>1, <2>2 DEF MakeDest, OpenFile, WritePart, CleanUp, CleanUpLeavesFiles
  <2>3. CASE jobTarget[j] # t
    <3>1. CASE MakeDest(j)
      BY <2>3, <3>1, Zenon DEF MakeDest, TypeOK
    <3>2. CASE OpenFile(j) \/ WritePart(j) \/ CleanUp(j)
      BY <2>3, <3>2 DEF OpenFile, WritePart, CleanUp, TypeOK
    <3>3. CASE CleanUpLeavesFiles(j)
      BY <2>3, <3>3 DEF CleanUpLeavesFiles, TypeOK
    <3> QED BY <1>1, <2>1, <3>1, <3>2, <3>3
  <2> QED BY <2>2, <2>3
<1>4. ASSUME NEW d \in Deletes, DeleteStep(d) PROVE Goal
  <2>1. \/ UNCHANGED diskVars
        \/ RemovePath(d)
        \/ \E p \in Parts : RemovePart(d, p)
    BY <1>4 DEF DeleteStep, GetRecord, FindPath, DeleteRow
  <2>2. CASE deletion[d].target = t
    <3>1. CASE RemovePath(d)
      <4>1. deletion[d].pc = "found"
        BY <3>1 DEF RemovePath
      <4>2. \/ deletion' = [deletion EXCEPT ![d].pc = "gone"]
            \/ deletion' = [deletion EXCEPT ![d] = NoDeletion]
        BY <3>1, Zenon DEF RemovePath
      <4>3. deletion'[d].pc # "found"
        BY <4>2 DEF TypeOK, NoDeletion
      <4> QED BY <2>2, <4>1, <4>3
    <3>2. ASSUME NEW p \in Parts, RemovePart(d, p) PROVE Goal
      BY <2>2, <3>2 DEF RemovePart
    <3> QED BY <1>1, <2>1, <3>1, <3>2
  <2>3. CASE deletion[d].target # t
    BY <1>1, <2>1, <2>3 DEF RemovePath, RemovePart, TypeOK, diskVars
  <2> QED BY <2>2, <2>3
<1>5. CASE Restart
  BY <1>1, <1>5 DEF Restart
<1> QED BY <1>2, <1>3, <1>4, <1>5 DEF Next

\* A recorded target is none of its tasks' business any more.
LEMMA RecordShields ==
  ASSUME TypeOK, TaskMatchesRow, OneCopy, NEW t \in Targets, PostsApart(t), HasRecord(t),
         NEW j \in JobIds, jobTarget[j] = t
  PROVE  worker[j].pc \in {"none", "recorded"}
  BY DEF OneCopy, TaskMatchesRow, RowMatches, Active

\* A DELETE that is under way has its record still in the table.
LEMMA DeletionHasRecord ==
  ASSUME TypeOK, ThreadsHaveTargets, DeleteOwnsRow, NEW d \in Deletes, deletion[d].pc # "idle",
         DeletesApart(deletion[d].target)
  PROVE  HasRecord(deletion[d].target) /\ deletion[d].target \in Targets
  BY DEF TypeOK, ThreadsHaveTargets, DeleteOwnsRow, HasRecord

\* The path a DELETE has found stays until that DELETE removes it.
LEMMA FoundPathStaysStep ==
  ASSUME TypeOK, TaskMatchesRow, ThreadsHaveTargets, OneCopy, DeleteOwnsRow, FoundPathStays, Next
  PROVE  FoundPathStays'
<1> SUFFICES ASSUME NEW d \in Deletes, NEW t, t = deletion'[d].target,
                    deletion'[d].pc = "found", Undisturbed(t)'
             PROVE  t \in onDisk'
  BY DEF FoundPathStays, Undisturbed, PostsApart, DeletesApart
<1>1. \/ deletion'[d] = deletion[d]
      \/ FindPath(d)
  <2>1. ASSUME NEW e \in Deletes, DeleteStep(e) PROVE deletion'[d] = deletion[d] \/ FindPath(d)
    <3>1. CASE RemovePath(e)
      <4>1. \/ deletion' = [deletion EXCEPT ![e].pc = "gone"]
            \/ deletion' = [deletion EXCEPT ![e] = NoDeletion]
        BY <3>1, Zenon DEF RemovePath
      <4> QED BY <4>1 DEF TypeOK, NoDeletion
    <3>2. ASSUME NEW r \in RecordIds, GetRecord(e, r) PROVE deletion'[d] = deletion[d]
      BY <3>2 DEF GetRecord, TypeOK
    <3>3. CASE DeleteRow(e)
      BY <3>3 DEF DeleteRow, NoDeletion, TypeOK
    <3>4. CASE FindPath(e)
      BY <3>4 DEF FindPath, TypeOK
    <3>5. ASSUME NEW p \in Parts, RemovePart(e, p) PROVE deletion'[d] = deletion[d]
      BY <3>5 DEF RemovePart
    <3> QED BY <2>1, <3>1, <3>2, <3>3, <3>4, <3>5 DEF DeleteStep
  <2>2. ASSUME NEW c \in Requests, RequestStep(c) PROVE deletion'[d] = deletion[d]
    BY <2>2 DEF RequestStep, CheckRecords, CheckJobs, HubRefuses, CreateJob
  <2>3. ASSUME NEW j \in JobIds, WorkerStep(j) PROVE deletion'[d] = deletion[d]
    BY <2>3 DEF WorkerStep, StreamStep, SettleStep, StartJob, MakeDest, MakeDestFails, OpenFile,
                WritePart, StreamEndsShort, StreamFails, StatFile, InsertRecord, CompleteJob,
                CleanUp, CleanUpLeavesFiles, CleanUpRaises, FailJob
  <2>4. ~ Restart
    BY DEF Restart, NoDeletion
  <2> QED BY <2>1, <2>2, <2>3, <2>4 DEF Next
<1>2. CASE FindPath(d)
  <2>1. /\ deletion' = [deletion EXCEPT ![d].pc =
                           IF deletion[d].target \in onDisk THEN "found" ELSE "gone"]
        /\ onDisk' = onDisk
    BY <1>2, Zenon DEF FindPath, diskVars
  <2>2. deletion'[d].target = deletion[d].target
    BY <2>1 DEF TypeOK
  <2>3. CASE ~ deletion[d].target \in onDisk
    BY <2>1, <2>3 DEF TypeOK
  <2> QED BY <2>1, <2>2, <2>3
<1>3. CASE deletion'[d] = deletion[d]
  <2>1. t \in Targets /\ deletion[d].pc # "idle" /\ t = deletion[d].target
    BY <1>3 DEF ThreadsHaveTargets, TypeOK
  <2>2. Undisturbed(t) /\ PostsApart(t) /\ DeletesApart(t)
    BY <2>1, CalmBefore DEF Undisturbed
  <2>3. HasRecord(t)
    BY <2>1, <2>2, DeletionHasRecord
  <2>4. t \in onDisk
    BY <1>3, <2>1, <2>2 DEF FoundPathStays
  <2>5. ~ \E j \in JobIds : jobTarget[j] = t /\ worker[j].pc \in {"dest", "stream", "cleanup"}
    BY <2>1, <2>2, <2>3, RecordShields
  <2>6. \A e \in Deletes : deletion[e].target = t => e = d
    BY <2>1, <2>2 DEF DeleteOwnsRow
  <2>7. (t \in onDisk' <=> t \in onDisk)
    <3>1. \/ (t \in onDisk' <=> t \in onDisk) /\ parts'[t] = parts[t]
          \/ \E j \in JobIds : jobTarget[j] = t /\ worker[j].pc \in {"dest", "stream", "cleanup"}
          \/ \E e \in Deletes : /\ deletion[e].target = t /\ deletion[e].pc = "found"
                                /\ (t \in onDisk' <=> t \in onDisk) \/ deletion'[e].pc # "found"
      BY <2>1, WhoTouchesPath
    <3>2. CASE \E j \in JobIds : jobTarget[j] = t /\ worker[j].pc \in {"dest", "stream", "cleanup"}
      BY <2>5, <3>2
    <3>3. CASE \E e \in Deletes : /\ deletion[e].target = t /\ deletion[e].pc = "found"
                                  /\ (t \in onDisk' <=> t \in onDisk) \/ deletion'[e].pc # "found"
      <4>1. PICK e \in Deletes : /\ deletion[e].target = t
                                 /\ (t \in onDisk' <=> t \in onDisk) \/ deletion'[e].pc # "found"
        BY <3>3
      <4>2. e = d
        BY <2>6, <4>1
      <4> QED BY <4>1, <4>2
    <3> QED BY <3>1, <3>2, <3>3
  <2> QED BY <2>4, <2>7
<1> QED BY <1>1, <1>2, <1>3

-----------------------------------------------------------------------------
\* The insertion of a record is the only step that adds a row to downloaded_models.
LEMMA RecordBefore ==
  ASSUME TypeOK, Next, NEW r \in RecordIds, NEW t \in Targets, record'[r] = t
  PROVE  \/ record[r] = t
         \/ \E j \in JobIds : /\ InsertRecord(j) /\ jobTarget[j] = t
                              /\ record' = [record EXCEPT ![r] = t]
<1> USE DownloadsAssumption DEF TypeOK
<1>1. ASSUME UNCHANGED record PROVE record[r] = t
  BY <1>1
<1>2. ASSUME NEW c \in Requests, RequestStep(c) PROVE record[r] = t
  BY <1>2 DEF RequestStep, CheckRecords, CheckJobs, HubRefuses, CreateJob
<1>3. ASSUME NEW j \in JobIds, WorkerStep(j), ~ InsertRecord(j) PROVE record[r] = t
  BY <1>3 DEF WorkerStep, StreamStep, SettleStep, StartJob, MakeDest, MakeDestFails, OpenFile,
              WritePart, StreamEndsShort, StreamFails, StatFile, CompleteJob,
              CleanUp, CleanUpLeavesFiles, CleanUpRaises, FailJob
<1>4. ASSUME NEW j \in JobIds, InsertRecord(j), record[r] # t
      PROVE  jobTarget[j] = t /\ record' = [record EXCEPT ![r] = t]
  <2>1. PICK q \in RecordIds : record' = [record EXCEPT ![q] = jobTarget[j]]
    BY <1>4 DEF InsertRecord
  <2>2. q = r
    BY <1>4, <2>1
  <2> QED BY <2>1, <2>2
<1>5. ASSUME NEW d \in Deletes, DeleteStep(d) PROVE record[r] = t
  <2>1. CASE DeleteRow(d)
    BY <2>1 DEF DeleteRow
  <2>2. CASE ~ DeleteRow(d)
    <3>1. UNCHANGED record
      BY <1>5, <2>2 DEF DeleteStep, GetRecord, FindPath, RemovePart, RemovePath
    <3> QED BY <3>1
  <2> QED BY <2>1, <2>2
<1>6. CASE Restart
  BY <1>6 DEF Restart
<1> QED BY <1>2, <1>3, <1>4, <1>5, <1>6 DEF Next

\* A step of one task changes another task at most by taking its file away.
LEMMA OtherTasks ==
  ASSUME TypeOK, NEW j \in JobIds, WorkerStep(j), NEW i \in JobIds, i # j
  PROVE  worker'[i] = worker[i] \/ worker'[i] = [worker[i] EXCEPT !.file = "unlinked"]
<1>1. CASE CleanUp(j)
  BY <1>1 DEF CleanUp, Detached, TypeOK
<1>2. CASE CleanUpLeavesFiles(j)
  BY <1>2 DEF CleanUpLeavesFiles, Detached, TypeOK
<1>3. CASE ~ CleanUp(j) /\ ~ CleanUpLeavesFiles(j)
  <2>1. \E w : worker' = [worker EXCEPT ![j] = w]
    <3>1. CASE OpenFile(j)
      BY <3>1 DEF OpenFile
    <3>2. CASE WritePart(j)
      BY <3>2 DEF WritePart
    <3>3. CASE MakeDest(j)
      BY <3>3, Zenon DEF MakeDest, Advance
    <3>4. CASE ~ OpenFile(j) /\ ~ WritePart(j) /\ ~ MakeDest(j)
      BY <1>3, <3>4 DEF WorkerStep, StreamStep, SettleStep, StartJob, MakeDestFails,
         StreamEndsShort, StreamFails, StatFile, InsertRecord, CompleteJob,
         CleanUpRaises, FailJob,
         Advance
    <3> QED BY <3>1, <3>2, <3>3, <3>4
  <2> QED BY <2>1 DEF TypeOK
<1> QED BY <1>1, <1>2, <1>3

\* The creation of a job is the only step that makes a job active, and the target
\* has no other copy then if what its POST has found still holds.
LEMMA JobBefore ==
  ASSUME TypeOK, TaskMatchesRow, ThreadsHaveTargets, QueriesHold, Next,
         NEW i \in JobIds, NEW t \in Targets,
         jobTarget'[i] = t, status'[i] \in Active, PostsApart(t)'
  PROVE  \/ /\ jobTarget[i] = t /\ status[i] \in Active
            /\ worker[i].pc = "recorded" => worker'[i].pc = "recorded"
         \/ /\ \E b \in Requests : CreateJob(b) /\ request[b].target = t
            /\ ~ HasRecord(t) /\ ~ HasActiveJob(t)
            /\ UNCHANGED <<record, deletion>>
            /\ worker'[i] = [NoWorker EXCEPT !.pc = "queued"]
            /\ \A k \in JobIds : k # i => status'[k] = status[k] /\ jobTarget'[k] = jobTarget[k]
<1> DEFINE Old == /\ jobTarget[i] = t /\ status[i] \in Active
                  /\ worker[i].pc = "recorded" => worker'[i].pc = "recorded"
<1> USE DownloadsAssumption DEF TypeOK
<1>1. ASSUME NEW c \in Requests, RequestStep(c), ~ CreateJob(c) PROVE Old
  BY <1>1 DEF RequestStep, CheckRecords, CheckJobs, PassJobs, HubRefuses, jobVars
<1>2. ASSUME NEW c \in Requests, CreateJob(c), ~ Old
      PROVE  /\ request[c].target = t
             /\ ~ HasRecord(t) /\ ~ HasActiveJob(t)
             /\ UNCHANGED <<record, deletion>>
             /\ worker'[i] = [NoWorker EXCEPT !.pc = "queued"]
             /\ \A k \in JobIds : k # i => status'[k] = status[k] /\ jobTarget'[k] = jobTarget[k]
  <2>1. PICK j \in JobIds :
          /\ status' = [status EXCEPT ![j] = "pending"]
          /\ jobTarget' = [jobTarget EXCEPT ![j] = request[c].target]
          /\ worker' = [worker EXCEPT ![j] = [NoWorker EXCEPT !.pc = "queued"]]
    BY <1>2 DEF CreateJob
  <2>2. j = i
    BY <1>2, <2>1
  <2>3. request[c].target = t
    BY <2>1, <2>2
  <2>4. ~ HasRecord(t) /\ ~ HasActiveJob(t)
    <3>1. PostsApart(t)
      BY CalmBefore
    <3> QED BY <1>2, <2>3, <3>1 DEF CreateJob, QueriesHold
  <2> QED BY <1>2, <2>1, <2>2, <2>3, <2>4 DEF CreateJob
<1>3. ASSUME NEW j \in JobIds, WorkerStep(j) PROVE Old
  <2> USE TaskFields, TaskEdits
  <2>types. \A k \in JobIds : worker[k] \in Task
    OBVIOUS
  <2>1. jobTarget' = jobTarget
    BY <1>3 DEF WorkerStep, StreamStep, SettleStep, StartJob, MakeDest, MakeDestFails, OpenFile,
                WritePart, StreamEndsShort, StreamFails, StatFile, InsertRecord, CompleteJob,
                CleanUp, CleanUpLeavesFiles, CleanUpRaises, FailJob, jobVars
  <2>2. CASE CleanUp(j)
    <3>1. worker'[i].pc = "recorded" \/ worker[i].pc # "recorded"
      BY <2>2 DEF CleanUp, Detached
    <3> QED BY <2>1, <2>2, <3>1 DEF CleanUp, jobVars
  <2>6. CASE CleanUpLeavesFiles(j)
    <3>1. worker'[i].pc = "recorded" \/ worker[i].pc # "recorded"
      BY <2>6 DEF CleanUpLeavesFiles, Detached
    <3> QED BY <2>1, <2>6, <3>1 DEF CleanUpLeavesFiles, jobVars
  <2>7. CASE CleanUpRaises(j)
    BY <2>1, <2>7 DEF CleanUpRaises, jobVars
  <2>3. CASE StartJob(j)
    <3>1. worker[j].pc = "queued" /\ status[j] \in Active
      BY <2>3 DEF StartJob, TaskMatchesRow, RowMatches, Active
    <3>2. \A k \in JobIds : k # j => status'[k] = status[k] /\ worker'[k] = worker[k]
      BY <2>3 DEF StartJob, Advance
    <3> QED BY <2>1, <3>1, <3>2
  <2>4. CASE FailJob(j) \/ CompleteJob(j)
    BY <2>1, <2>4 DEF FailJob, CompleteJob, Active
  <2>5. CASE MakeDest(j) \/ MakeDestFails(j) \/ OpenFile(j) \/ WritePart(j) \/ StreamEndsShort(j)
             \/ StreamFails(j) \/ StatFile(j) \/ InsertRecord(j)
    <3>1. UNCHANGED jobVars
      BY <2>5 DEF MakeDest, MakeDestFails, OpenFile, WritePart, StreamEndsShort, StreamFails,
                  StatFile, InsertRecord
    <3>2. worker[i].pc = "recorded" => worker'[i] = worker[i]
      <4>1. worker[j].pc # "recorded"
        BY <2>5 DEF MakeDest, MakeDestFails, OpenFile, WritePart, StreamEndsShort, StreamFails,
                    StatFile, InsertRecord
      <4>2. CASE OpenFile(j)
        BY <4>1, <4>2 DEF OpenFile
      <4>3. CASE ~ OpenFile(j)
        BY <2>5, <4>1, <4>3 DEF MakeDest, MakeDestFails, WritePart, StreamEndsShort, StreamFails,
                    StatFile, InsertRecord, Advance
      <4> QED BY <4>2, <4>3
    <3> QED BY <3>1, <3>2 DEF jobVars
  <2> QED BY <1>3, <2>2, <2>3, <2>4, <2>5, <2>6, <2>7 DEF WorkerStep, StreamStep, SettleStep
<1>4. ASSUME NEW d \in Deletes, DeleteStep(d) PROVE Old
  <2>1. UNCHANGED jobVars
    BY <1>4 DEF DeleteStep, GetRecord, FindPath, RemovePart, RemovePath, DeleteRow
  <2>2. worker' = worker \/ \E ps, u : worker' = Detached(u, ps, worker)
    <3>1. CASE RemovePath(d)
      BY <3>1, Zenon DEF RemovePath
    <3> QED BY <1>4, <3>1 DEF DeleteStep, GetRecord, FindPath, RemovePart, DeleteRow
  <2>3. worker'[i].pc = worker[i].pc
    <3>1. CASE worker' = worker
      BY <3>1
    <3>2. ASSUME NEW ps, NEW u, worker' = Detached(u, ps, worker)
          PROVE  worker'[i].pc = worker[i].pc
      <4>1. worker[i] \in Task
        OBVIOUS
      <4>2. worker'[i] = worker[i] \/ worker'[i] = [worker[i] EXCEPT !.file = "unlinked"]
        BY <3>2 DEF Detached
      <4> QED BY <4>1, <4>2 DEF Task
    <3> QED BY <2>2, <3>1, <3>2
  <2> QED BY <2>1, <2>3 DEF jobVars
<1>5. ~ Restart
  BY DEF Restart, Active
<1> QED BY <1>1, <1>2, <1>3, <1>4, <1>5 DEF Next

\* A job that is recorded stays so until its task completes it.
LEMMA RecordedStays ==
  ASSUME TypeOK, TaskMatchesRow, Next, NEW i \in JobIds, worker[i].pc = "recorded"
  PROVE  \/ worker'[i].pc = "recorded" /\ jobTarget'[i] = jobTarget[i]
         \/ CompleteJob(i)
         \/ Restart
<1> DEFINE Goal == worker'[i].pc = "recorded" /\ jobTarget'[i] = jobTarget[i]
<1> USE DEF TypeOK
<1>1. ASSUME worker'[i] = worker[i] \/ worker'[i] = [worker[i] EXCEPT !.file = "unlinked"],
             jobTarget' = jobTarget
      PROVE  Goal
  BY <1>1 DEF Task
<1>2. ASSUME NEW c \in Requests, RequestStep(c) PROVE Goal
  <2>1. CASE CreateJob(c)
    <3>1. PICK j \in JobIds :
            /\ status[j] = "absent"
            /\ jobTarget' = [jobTarget EXCEPT ![j] = request[c].target]
            /\ worker' = [worker EXCEPT ![j] = [NoWorker EXCEPT !.pc = "queued"]]
      BY <2>1 DEF CreateJob, IsNextJob
    <3>2. j # i
      BY <3>1 DEF TaskMatchesRow, RowMatches
    <3> QED BY <3>1, <3>2
  <2>2. CASE ~ CreateJob(c)
    BY <1>1, <1>2, <2>2 DEF RequestStep, CheckRecords, CheckJobs, HubRefuses, jobVars
  <2> QED BY <2>1, <2>2
<1>3. ASSUME NEW j \in JobIds, WorkerStep(j), ~ CompleteJob(i) PROVE Goal
  <2>1. jobTarget' = jobTarget
    BY <1>3 DEF WorkerStep, StreamStep, SettleStep, StartJob, MakeDest, MakeDestFails, OpenFile,
                WritePart, StreamEndsShort, StreamFails, StatFile, InsertRecord, CompleteJob,
                CleanUp, CleanUpLeavesFiles, CleanUpRaises, FailJob, jobVars
  <2>2. j # i
    BY <1>3 DEF WorkerStep, StreamStep, SettleStep, StartJob, MakeDest, MakeDestFails, OpenFile,
                WritePart, StreamEndsShort, StreamFails, StatFile, InsertRecord,
                CleanUp, CleanUpLeavesFiles, CleanUpRaises, FailJob
  <2>3. worker'[i] = worker[i] \/ worker'[i] = [worker[i] EXCEPT !.file = "unlinked"]
    BY <1>3, <2>2, OtherTasks
  <2> QED BY <1>1, <2>1, <2>3
<1>4. ASSUME NEW d \in Deletes, DeleteStep(d) PROVE Goal
  <2>1. UNCHANGED jobTarget
    BY <1>4 DEF DeleteStep, GetRecord, FindPath, RemovePart, RemovePath, DeleteRow, jobVars
  <2>2. worker' = worker \/ \E ps, u : worker' = Detached(u, ps, worker)
    <3>1. CASE RemovePath(d)
      BY <3>1, Zenon DEF RemovePath
    <3> QED BY <1>4, <3>1 DEF DeleteStep, GetRecord, FindPath, RemovePart, DeleteRow
  <2> QED BY <1>1, <2>1, <2>2 DEF Detached
<1> QED BY <1>2, <1>3, <1>4 DEF Next

\* How a POST that is under way after a step has come to where it is.
LEMMA RequestBefore ==
  ASSUME TypeOK, Next, NEW c \in Requests, request'[c].pc # "idle"
  PROVE  \/ request'[c] = request[c]
         \/ \E u \in Targets : CheckRecords(c, u)
         \/ CheckJobs(c) /\ ~ HasActiveJob(request[c].target)
<1> USE DEF TypeOK
<1>1. ASSUME NEW b \in Requests, RequestStep(b), b # c PROVE request'[c] = request[c]
  <2>1. \E x : request' = [request EXCEPT ![b] = x]
    BY <1>1 DEF RequestStep, CheckRecords, CheckJobs, PassJobs, HubRefuses, CreateJob
  <2> QED BY <1>1, <2>1
<1>2. ASSUME RequestStep(c), ~ \E u \in Targets : CheckRecords(c, u)
      PROVE  CheckJobs(c) /\ ~ HasActiveJob(request[c].target)
  BY <1>2 DEF RequestStep, CheckJobs, HubRefuses, CreateJob, NoRequest
<1>3. ASSUME NEW j \in JobIds, WorkerStep(j) PROVE request'[c] = request[c]
  BY <1>3 DEF WorkerStep, StreamStep, SettleStep, StartJob, MakeDest, MakeDestFails, OpenFile,
              WritePart, StreamEndsShort, StreamFails, StatFile, InsertRecord, CompleteJob,
              CleanUp, CleanUpLeavesFiles, CleanUpRaises, FailJob
<1>4. ASSUME NEW d \in Deletes, DeleteStep(d) PROVE request'[c] = request[c]
  BY <1>4 DEF DeleteStep, GetRecord, FindPath, RemovePart, RemovePath, DeleteRow
<1>5. ~ Restart
  BY DEF Restart, NoRequest
<1> QED BY <1>1, <1>2, <1>3, <1>4, <1>5 DEF Next

\* A POST that goes past the job query meets no other POST that has.
LEMMA PassApart ==
  ASSUME TypeOK, NEW c \in Requests, CheckJobs(c), ~ HasActiveJob(request[c].target),
         NEW t \in Targets, request[c].target = t, PostsApart(t)'
  PROVE  /\ ~ AnotherIsCleared(c, t)
         /\ request' = [request EXCEPT ![c].pc = "cleared"]
         /\ UNCHANGED <<record, status, jobTarget, worker>>
<1>1. ASSUME AnotherIsCleared(c, t) PROVE FALSE
  <2>1. Befalls(t, "overlap")
    BY <1>1 DEF CheckJobs, PassJobs
  <2>2. "overlap" \in mishaps'[t]
    BY <2>1, BefallsType DEF TypeOK, Mishaps
  <2> QED BY <2>2 DEF PostsApart
<1> QED BY <1>1 DEF CheckJobs, PassJobs, jobVars

\* What the queries of a POST have found holds after every step.
LEMMA QueriesHoldStep ==
  ASSUME TypeOK, TypeOK', TaskMatchesRow, TaskMatchesRow', ThreadsHaveTargets, QueriesHold, OneCopy,
         Next
  PROVE  QueriesHold'
<1> SUFFICES ASSUME NEW c \in Requests, NEW t, t = request'[c].target,
                    request'[c].pc # "idle", PostsApart(t)'
             PROVE  /\ request'[c].pc = "checked" /\ HasRecord(t)' =>
                         \E j \in JobIds : jobTarget'[j] = t /\ worker'[j].pc = "recorded"
                    /\ request'[c].pc = "cleared" =>
                         /\ ~ HasRecord(t)' /\ ~ HasActiveJob(t)'
                         /\ ~ \E b \in Requests : /\ b # c /\ request'[b].pc = "cleared"
                                                   /\ request'[b].target = t
  BY DEF QueriesHold, PostsApart, HasRecord, HasActiveJob, AnotherIsCleared
<1>jobs. \A j \in JobIds : worker[j].pc \in {"sized", "recorded"} => status[j] \in Active
  BY DEF TaskMatchesRow, RowMatches, Active
<1>1. ASSUME NEW u \in Targets, CheckRecords(c, u)
      PROVE  request'[c].pc = "checked" /\ ~ HasRecord(t)'
  <2>1. request'[c] = [pc |-> "checked", target |-> u]
    BY <1>1 DEF CheckRecords, TypeOK
  <2> QED BY <1>1, <2>1 DEF CheckRecords, HasRecord
<1>2. ASSUME CheckJobs(c), ~ HasActiveJob(request[c].target)
      PROVE  /\ request'[c].pc = "cleared"
             /\ ~ HasRecord(t)' /\ ~ HasActiveJob(t)'
             /\ ~ \E b \in Requests : /\ b # c /\ request'[b].pc = "cleared"
                                       /\ request'[b].target = t
  <2>1. request[c].pc = "checked" /\ request[c].target \in Targets
    BY <1>2 DEF CheckJobs, ThreadsHaveTargets
  <2>2. request'[c].target = request[c].target
    BY <1>2 DEF CheckJobs, PassJobs, TypeOK
  <2>3. /\ ~ AnotherIsCleared(c, t)
        /\ request' = [request EXCEPT ![c].pc = "cleared"]
        /\ UNCHANGED <<record, status, jobTarget, worker>>
    BY <1>2, <2>1, <2>2, PassApart
  <2>4. ~ HasRecord(t)
    <3>1. PostsApart(t)
      BY <2>1, <2>2, CalmBefore
    <3>2. HasRecord(t) => \E j \in JobIds : jobTarget[j] = t /\ worker[j].pc = "recorded"
      BY <2>1, <2>2, <3>1 DEF QueriesHold
    <3> QED BY <1>2, <2>2, <3>2, <1>jobs DEF HasActiveJob
  <2>5. \A b \in Requests : b # c => request'[b] = request[b]
    BY <2>3 DEF TypeOK
  <2> QED BY <1>2, <2>2, <2>3, <2>4, <2>5 DEF TypeOK, HasRecord, HasActiveJob, AnotherIsCleared
<1>3. CASE request'[c] = request[c]
  <2>1. request[c].pc # "idle" /\ request[c].target = t /\ t \in Targets
    BY <1>3 DEF ThreadsHaveTargets
  <2>2. PostsApart(t)
    BY <2>1, CalmBefore
  <2>3. ASSUME request[c].pc = "checked", NEW r \in RecordIds, record'[r] = t
        PROVE  \E j \in JobIds : jobTarget'[j] = t /\ worker'[j].pc = "recorded"
    <3>1. CASE record[r] = t
      <4>1. PICK j \in JobIds : jobTarget[j] = t /\ worker[j].pc = "recorded"
        BY <2>1, <2>2, <2>3, <3>1 DEF QueriesHold, HasRecord
      <4>2. ~ Restart
        BY DEF Restart, NoRequest
      <4>3. ASSUME CompleteJob(j) PROVE FALSE
        <5>1. Befalls(t, "lateFinish")
          BY <2>1, <2>3, <4>1, <4>3 DEF CompleteJob
        <5>2. "lateFinish" \in mishaps'[t]
          BY <2>1, <5>1, BefallsType DEF TypeOK, Mishaps
        <5> QED BY <5>2 DEF PostsApart
      <4> QED BY <4>1, <4>2, <4>3, RecordedStays
    <3>2. ASSUME NEW j \in JobIds, InsertRecord(j), jobTarget[j] = t
          PROVE  jobTarget'[j] = t /\ worker'[j].pc = "recorded"
      BY <3>2, TaskFields, TaskEdits DEF InsertRecord, Advance, TypeOK, jobVars
    <3> QED BY <2>1, <2>3, <3>1, <3>2, RecordBefore
  <2>4. ASSUME request[c].pc = "cleared"
        PROVE  /\ ~ HasRecord(t)' /\ ~ HasActiveJob(t)'
               /\ ~ \E b \in Requests : /\ b # c /\ request'[b].pc = "cleared"
                                         /\ request'[b].target = t
    <3>1. ~ HasRecord(t) /\ ~ HasActiveJob(t) /\ ~ AnotherIsCleared(c, t)
      BY <2>1, <2>2, <2>4 DEF QueriesHold
    <3>2. ASSUME NEW r \in RecordIds, record'[r] = t PROVE FALSE
      <4>1. PICK j \in JobIds : InsertRecord(j) /\ jobTarget[j] = t
        BY <2>1, <3>1, <3>2, RecordBefore DEF HasRecord
      <4>2. status[j] \in Active
        BY <4>1, <1>jobs DEF InsertRecord
      <4> QED BY <3>1, <4>1, <4>2 DEF HasActiveJob
    <3>3. ASSUME NEW j \in JobIds, jobTarget'[j] = t, status'[j] \in Active PROVE FALSE
      <4>1. PICK b \in Requests : CreateJob(b) /\ request[b].target = t
        BY <2>1, <3>1, <3>3, JobBefore DEF HasActiveJob
      <4>2. b # c
        BY <4>1, <1>3, <2>1 DEF CreateJob, NoRequest, TypeOK
      <4> QED BY <3>1, <4>1, <4>2 DEF CreateJob, AnotherIsCleared
    <3>4. ASSUME NEW b \in Requests, b # c, request'[b].pc = "cleared", request'[b].target = t
          PROVE  FALSE
      <4>1. request'[b] # request[b]
        BY <3>1, <3>4 DEF AnotherIsCleared
      <4>2. ~ \E u \in Targets : CheckRecords(b, u)
        BY <3>4 DEF CheckRecords, TypeOK
      <4>3. CheckJobs(b) /\ ~ HasActiveJob(request[b].target)
        BY <3>4, <4>1, <4>2, RequestBefore
      <4>4. request[b].target = t
        BY <3>4, <4>3 DEF CheckJobs, PassJobs, TypeOK
      <4>5. ~ AnotherIsCleared(b, t)
        BY <2>1, <4>3, <4>4, PassApart
      <4> QED BY <2>1, <2>4, <3>4, <4>5 DEF AnotherIsCleared
    <3> QED BY <3>2, <3>3, <3>4 DEF HasRecord, HasActiveJob
  <2> QED BY <1>3, <2>3, <2>4 DEF HasRecord
<1> QED BY <1>1, <1>2, <1>3, RequestBefore

\* Every step keeps at most one copy of a target.
LEMMA OneCopyStep ==
  ASSUME TypeOK, TaskMatchesRow, ThreadsHaveTargets, QueriesHold, OneCopy, Next
  PROVE  OneCopy'
<1> SUFFICES ASSUME NEW t \in Targets, PostsApart(t)'
             PROVE  /\ \A r, q \in RecordIds : record'[r] = t /\ record'[q] = t => r = q
                    /\ \A i, j \in JobIds :
                         /\ jobTarget'[i] = t /\ status'[i] \in Active
                         /\ jobTarget'[j] = t /\ status'[j] \in Active
                         => i = j
                    /\ HasRecord(t)' =>
                         \A j \in JobIds : jobTarget'[j] = t /\ status'[j] \in Active
                                           => worker'[j].pc = "recorded"
  BY DEF OneCopy, PostsApart, HasRecord
<1>clean. PostsApart(t)
  BY CalmBefore
<1>sized. ASSUME NEW j \in JobIds, InsertRecord(j), jobTarget[j] = t
          PROVE  /\ ~ HasRecord(t) /\ status[j] \in Active
                 /\ worker'[j].pc = "recorded" /\ UNCHANGED <<status, jobTarget>>
  <2>1. worker[j].pc = "sized" /\ status[j] \in Active
    BY <1>sized DEF InsertRecord, TaskMatchesRow, RowMatches, Active
  <2>2. worker'[j].pc = "recorded" /\ UNCHANGED <<status, jobTarget>>
    BY <1>sized, TaskFields, TaskEdits DEF InsertRecord, Advance, TypeOK, jobVars
  <2> QED BY <1>sized, <1>clean, <2>1, <2>2 DEF OneCopy
<1>1. ASSUME NEW r \in RecordIds, NEW q \in RecordIds, record'[r] = t, record'[q] = t
      PROVE  r = q
  <2>1. CASE record[r] = t /\ record[q] = t
    BY <2>1, <1>clean DEF OneCopy
  <2>2. ASSUME NEW x \in RecordIds, NEW y \in RecordIds, record'[x] = t, record'[y] = t,
               record[x] # t
        PROVE  x = y
    <3>1. PICK j \in JobIds : /\ InsertRecord(j) /\ jobTarget[j] = t
                              /\ record' = [record EXCEPT ![x] = t]
      BY <2>2, RecordBefore
    <3>2. record[y] # t
      BY <3>1, <1>sized DEF HasRecord
    <3> QED BY <2>2, <3>1, <3>2 DEF TypeOK
  <2> QED BY <1>1, <2>1, <2>2
<1>2. ASSUME NEW i \in JobIds, NEW j \in JobIds,
             jobTarget'[i] = t, status'[i] \in Active,
             jobTarget'[j] = t, status'[j] \in Active
      PROVE  i = j
  <2>1. CASE jobTarget[i] = t /\ status[i] \in Active /\ jobTarget[j] = t /\ status[j] \in Active
    BY <2>1, <1>clean DEF OneCopy
  <2>2. ASSUME NEW x \in JobIds, NEW y \in JobIds, jobTarget'[x] = t, status'[x] \in Active,
               jobTarget'[y] = t, status'[y] \in Active,
               ~ (jobTarget[x] = t /\ status[x] \in Active)
        PROVE  x = y
    <3>1. /\ ~ HasActiveJob(t)
          /\ \A k \in JobIds : k # x => status'[k] = status[k] /\ jobTarget'[k] = jobTarget[k]
      BY <2>2, JobBefore
    <3> QED BY <2>2, <3>1 DEF HasActiveJob
  <2> QED BY <1>2, <2>1, <2>2
<1>3. ASSUME NEW r \in RecordIds, record'[r] = t,
             NEW j \in JobIds, jobTarget'[j] = t, status'[j] \in Active
      PROVE  worker'[j].pc = "recorded"
  <2>1. CASE record[r] = t
    <3>1. HasRecord(t)
      BY <2>1 DEF HasRecord
    <3>2. /\ jobTarget[j] = t /\ status[j] \in Active
          /\ worker[j].pc = "recorded" => worker'[j].pc = "recorded"
      BY <1>3, <3>1, JobBefore
    <3> QED BY <3>1, <3>2, <1>clean DEF OneCopy
  <2>2. CASE record[r] # t
    <3>1. PICK i \in JobIds : InsertRecord(i) /\ jobTarget[i] = t
      BY <1>3, <2>2, RecordBefore
    <3>2. i = j
      BY <1>3, <3>1, <1>sized, <1>2
    <3> QED BY <3>1, <3>2, <1>sized
  <2> QED BY <2>1, <2>2
<1> QED BY <1>1, <1>2, <1>3 DEF HasRecord

\* A step of another target's task, or of a DELETE of another target, changes
\* neither a task of t nor the path of t.
LEMMA OtherTargets ==
  ASSUME TypeOK, NEW t \in Targets, NEW i \in JobIds, jobTarget[i] = t,
         \/ \E j \in JobIds : WorkerStep(j) /\ jobTarget[j] # t
         \/ \E d \in Deletes : DeleteStep(d) /\ deletion[d].target # t
  PROVE  /\ worker'[i] = worker[i]
         /\ (t \in onDisk' <=> t \in onDisk) /\ parts'[t] = parts[t]
<1> DEFINE Goal == /\ worker'[i] = worker[i]
                   /\ (t \in onDisk' <=> t \in onDisk) /\ parts'[t] = parts[t]
<1> USE DEF TypeOK, jobVars, diskVars
<1>1. ASSUME NEW j \in JobIds, WorkerStep(j), jobTarget[j] # t PROVE Goal
  <2>1. CASE StartJob(j) \/ MakeDestFails(j) \/ StreamEndsShort(j) \/ StreamFails(j) \/ StatFile(j)
             \/ InsertRecord(j) \/ CompleteJob(j) \/ CleanUpRaises(j) \/ FailJob(j)
    <3>1. UNCHANGED diskVars
      BY <2>1 DEF StartJob, MakeDestFails, StreamEndsShort, StreamFails, StatFile, InsertRecord,
                  CompleteJob, CleanUpRaises, FailJob
    <3>2. \E w : worker' = [worker EXCEPT ![j] = w]
      BY <2>1 DEF StartJob, MakeDestFails, StreamEndsShort, StreamFails, StatFile, InsertRecord,
                  CompleteJob, CleanUpRaises, FailJob, Advance
    <3> QED BY <1>1, <3>1, <3>2
  <2>2. CASE MakeDest(j)
    <3>1. onDisk' = onDisk \union ({jobTarget[j]} \intersect Snapshots) /\ UNCHANGED parts
      BY <2>2, Zenon DEF MakeDest
    <3>2. \E w : worker' = [worker EXCEPT ![j] = w]
      BY <2>2, Zenon DEF MakeDest, Advance
    <3> QED BY <1>1, <3>1, <3>2
  <2>3. CASE OpenFile(j) \/ WritePart(j)
    <3>1. \E w : worker' = [worker EXCEPT ![j] = w]
      BY <2>3 DEF OpenFile, WritePart
    <3>2. (t \in onDisk' <=> t \in onDisk) /\ parts'[t] = parts[t]
      BY <1>1, <2>3 DEF OpenFile, WritePart
    <3> QED BY <1>1, <3>1, <3>2
  <2>4. CASE CleanUp(j)
    BY <1>1, <2>4 DEF CleanUp, Detached
  <2>5. CASE CleanUpLeavesFiles(j)
    BY <1>1, <2>5 DEF CleanUpLeavesFiles, Detached
  <2> QED BY <1>1, <2>1, <2>2, <2>3, <2>4, <2>5 DEF WorkerStep, StreamStep, SettleStep
<1>2. ASSUME NEW d \in Deletes, DeleteStep(d), deletion[d].target # t PROVE Goal
  <2>1. CASE RemovePath(d)
    <3>1. \/ UNCHANGED <<diskVars, worker>>
          \/ /\ onDisk' = onDisk \ {deletion[d].target}
             /\ parts' = [parts EXCEPT ![deletion[d].target] = {}]
             /\ worker' = Detached(deletion[d].target, Parts, worker)
      BY <2>1, Zenon DEF RemovePath
    <3> QED BY <1>2, <3>1 DEF Detached
  <2>2. ASSUME NEW p \in Parts, RemovePart(d, p) PROVE Goal
    BY <1>2, <2>2 DEF RemovePart, Detached
  <2>3. CASE UNCHANGED <<diskVars, worker>>
    BY <2>3
  <2> QED BY <1>2, <2>1, <2>2, <2>3 DEF DeleteStep, GetRecord, FindPath, DeleteRow
<1> QED BY <1>1, <1>2

\* What a task does to its own path.
LEMMA OwnStepKeepsPath ==
  ASSUME TypeOK, TaskMatchesRow, NEW i \in JobIds, WorkerStep(i),
         NEW t \in Targets, jobTarget[i] = t, mishaps[t] \subseteq mishaps'[t],
         PathIntact(t, worker[i]), NEW w, w = worker'[i]
  PROVE  PathIntact(t, w)'
<1> USE DEF TypeOK
<1>task. /\ worker[i] \in Task
         /\ RowMatches(status[i], t, worker[i])
  BY DEF TaskMatchesRow
<1>quiet. ASSUME w.pc \notin {"stream", "stored", "sized"} PROVE PathIntact(t, w)'
  BY <1>quiet DEF PathIntact
<1>1. CASE StartJob(i) \/ MakeDestFails(i) \/ CompleteJob(i) \/ FailJob(i) \/ InsertRecord(i)
           \/ StreamFails(i) \/ CleanUpRaises(i)
  <2>1. \/ \E pc \in {"dest", "failing", "recorded"} : w = [worker[i] EXCEPT !.pc = pc]
        \/ w = NoWorker
        \/ w = Failed(worker[i])
    BY <1>1 DEF StartJob, MakeDestFails, CompleteJob, FailJob, InsertRecord, StreamFails,
                CleanUpRaises, Advance
  <2>2. ASSUME NEW pc \in {"dest", "failing", "recorded"}, w = [worker[i] EXCEPT !.pc = pc]
        PROVE  w.pc \in {"dest", "failing", "recorded"}
    BY <2>2, <1>task DEF Task
  <2>3. w.pc \notin {"stream", "stored", "sized"}
    BY <2>1, <2>2, ClosedTask DEF NoWorker
  <2> QED BY <2>3, <1>quiet
<1>2. CASE MakeDest(i)
  <2>1. worker[i].pc = "dest" /\ w = [worker[i] EXCEPT !.pc = "stream"]
    BY <1>2, Zenon DEF MakeDest, Advance
  <2>2. w.pc = "stream" /\ w.next = 1 /\ w.file = "closed"
    BY <2>1, <1>task DEF RowMatches, Task
  <2> QED BY <2>2 DEF PathIntact, Parts
<1>3. CASE OpenFile(i)
  <2>1. PICK b \in BOOLEAN :
          /\ worker' = [worker EXCEPT ![i] = [worker[i] EXCEPT !.file = "linked", !.declared = b]]
          /\ b \/ Befalls(t, "undeclared")
    BY <1>3 DEF OpenFile
  <2>2. /\ worker[i].pc = "stream" /\ worker[i].file = "closed"
        /\ onDisk' = onDisk \union {t}
        /\ parts' = [parts EXCEPT ![t] = IF t \in Snapshots THEN @ \ {worker[i].next} ELSE {}]
    BY <1>3, Zenon DEF OpenFile
  <2>3. w.pc = "stream" /\ w.next = worker[i].next /\ w.file = "linked" /\ w.declared = b
    <3>1. w = [worker[i] EXCEPT !.file = "linked", !.declared = b]
      BY <2>1
    <3> QED BY <2>2, <3>1, <1>task, OpenTask
  <2>4. ASSUME "undeclared" \notin mishaps'[t]
        PROVE  w.declared /\ \A p \in Parts : p < w.next => p \in parts'[t]
    <3>1. w.declared
      BY <2>1, <2>3, <2>4, BefallsType DEF Mishaps
    <3>2. CASE t \in Snapshots
      <4>1. parts'[t] = parts[t] \ {worker[i].next}
        BY <2>2, <3>2
      <4>2. \A p \in Parts : p < worker[i].next => p \in parts[t] /\ p # worker[i].next
        BY <2>2, <2>4, <1>task DEF PathIntact, Parts, Task
      <4> QED BY <2>3, <3>1, <4>1, <4>2
    <3>3. CASE t \notin Snapshots
      <4>1. w.next = 1
        BY <2>2, <2>3, <3>3 DEF PathIntact
      <4> QED BY <3>1, <4>1 DEF Parts
    <3> QED BY <3>2, <3>3
  <2> QED BY <2>2, <2>3, <2>4 DEF PathIntact
<1>4. CASE WritePart(i)
  <2>1. /\ worker[i].pc = "stream" /\ worker[i].file = "linked" /\ worker[i].next \in Parts
        /\ t \in onDisk /\ UNCHANGED <<mishaps, onDisk>>
    BY <1>4, <1>task, TaskFields DEF WritePart, PathIntact, RowMatches
  <2>2. parts'[t] = parts[t] \union {worker[i].next}
    BY <1>4, <2>1 DEF WritePart
  <2>3. \/ w = AfterFile(t, worker[i]) /\ (t \in Snapshots \/ worker[i].next = NumParts)
        \/ w = NextBlock(worker[i]) /\ t \notin Snapshots /\ worker[i].next # NumParts
    BY <1>4 DEF WritePart
  <2>4. ASSUME "undeclared" \notin mishaps'[t]
        PROVE  /\ w.next = worker[i].next + 1 /\ w.declared
               /\ \A p \in Parts : p < w.next => p \in parts'[t]
    <3>1. w.next = worker[i].next + 1 /\ w.declared
      BY <2>1, <2>3, <2>4, <1>task, ClosedTask, OpenTask DEF PathIntact
    <3>2. \A n, p \in Parts : p < n + 1 => p < n \/ p = n
      BY DownloadsAssumption DEF Parts
    <3>3. \A p \in Parts : p < worker[i].next => p \in parts[t]
      BY <2>1, <2>4 DEF PathIntact
    <3> QED BY <2>1, <2>2, <3>1, <3>2, <3>3
  <2>5. ASSUME "undeclared" \notin mishaps'[t], worker[i].next = NumParts
        PROVE  parts'[t] = Parts
    <3>1. parts'[t] \subseteq Parts
      BY <2>1, <2>2
    <3>2. \A p \in Parts : p < w.next
      BY <2>1, <2>4, <2>5, DownloadsAssumption DEF Parts
    <3> QED BY <2>4, <2>5, <3>1, <3>2
  <2>6. CASE w = AfterFile(t, worker[i]) /\ (t \in Snapshots \/ worker[i].next = NumParts)
    <3>1. /\ w.pc \in {"stream", "sized", "stored"} /\ w.file = "closed"
          /\ w.pc = "stream" <=> t \in Snapshots /\ worker[i].next # NumParts
      BY <2>6, ClosedTask
    <3> QED BY <2>1, <2>4, <2>5, <2>6, <3>1 DEF PathIntact
  <2>7. CASE w = NextBlock(worker[i]) /\ t \notin Snapshots /\ worker[i].next # NumParts
    <3>1. w.pc = "stream" /\ w.file = "linked"
      BY <2>1, <2>7, <1>task, OpenTask
    <3> QED BY <2>1, <2>4, <3>1 DEF PathIntact
  <2> QED BY <2>3, <2>6, <2>7
<1>5. CASE StreamEndsShort(i)
  <2>1. /\ worker[i].pc = "stream" /\ worker[i].file # "closed" /\ ~ worker[i].declared
        /\ UNCHANGED <<mishaps, onDisk, parts>> /\ w = AfterFile(t, worker[i])
    BY <1>5 DEF StreamEndsShort, diskVars
  <2>2. "undeclared" \in mishaps'[t] /\ t \in onDisk'
    BY <2>1 DEF PathIntact
  <2>3. /\ w.pc \in {"stream", "sized", "stored"} /\ w.file = "closed"
        /\ w.pc = "stream" => t \in Snapshots
    BY <2>1, ClosedTask
  <2> QED BY <2>2, <2>3 DEF PathIntact
<1>6. CASE StatFile(i)
  <2>1. /\ worker[i].pc = "stored" /\ UNCHANGED <<onDisk, parts, mishaps>>
        /\ w = [worker[i] EXCEPT !.pc = "sized"] \/ w = NoWorker
    BY <1>6 DEF StatFile, diskVars
  <2>2. w.pc \in {"sized", "none"}
    BY <2>1, <1>task DEF Task, NoWorker
  <2> QED BY <2>1, <2>2 DEF PathIntact
<1>7. CASE CleanUp(i) \/ CleanUpLeavesFiles(i)
  <2> DEFINE ws == [worker EXCEPT ![i].pc = "failing"]
  <2>1. ws[i].pc = "failing" /\ ws[i] \in Task
    BY <1>task, TaskFields, TaskEdits
  <2> HIDE DEF ws
  <2>2. w = ws[i] \/ w = [ws[i] EXCEPT !.file = "unlinked"]
    BY <1>7 DEF CleanUp, CleanUpLeavesFiles, Detached, ws
  <2>3. w.pc = "failing"
    BY <2>1, <2>2 DEF Task
  <2> QED BY <2>3, <1>quiet
<1> QED BY <1>1, <1>2, <1>3, <1>4, <1>5, <1>6, <1>7 DEF WorkerStep, StreamStep, SettleStep

\* Every step leaves in place what a task has written.
LEMMA TaskOwnsPathStep ==
  ASSUME TypeOK, TypeOK', TaskMatchesRow, TaskMatchesRow', ThreadsHaveTargets, QueriesHold,
         OneCopy, DeleteOwnsRow, TaskOwnsPath, Next
  PROVE  TaskOwnsPath'
<1> SUFFICES ASSUME NEW i \in JobIds, status'[i] \in Active, NEW t, t = jobTarget'[i],
                    Undisturbed(t)', NEW w, w = worker'[i]
             PROVE  PathIntact(t, w)'
  BY DEF TaskOwnsPath, PathIntact, Undisturbed, PostsApart, DeletesApart
<1>t. t \in Targets
  BY DEF TypeOK, TaskMatchesRow, RowMatches, Active
<1>clean. /\ Undisturbed(t) /\ PostsApart(t) /\ DeletesApart(t) /\ PostsApart(t)'
          /\ mishaps[t] \subseteq mishaps'[t]
  BY <1>t, CalmBefore, MishapsGrow DEF Undisturbed
<1>quiet. ASSUME w.pc \notin {"stream", "stored", "sized"} PROVE PathIntact(t, w)'
  BY <1>quiet DEF PathIntact
<1>1. CASE worker'[i] = [NoWorker EXCEPT !.pc = "queued"]
  BY <1>1, <1>quiet, TaskFields, TaskEdits DEF NoWorker
<1>2. CASE jobTarget[i] = t /\ status[i] \in Active
  <2>1. PathIntact(t, worker[i])
    BY <1>2, <1>clean DEF TaskOwnsPath
  <2>same. ASSUME worker'[i] = worker[i], (t \in onDisk' <=> t \in onDisk) /\ parts'[t] = parts[t]
           PROVE  PathIntact(t, w)'
    BY <2>same, <2>1, <1>clean DEF PathIntact
  <2>2. ASSUME NEW c \in Requests, RequestStep(c) PROVE PathIntact(t, w)'
    <3>1. UNCHANGED <<onDisk, parts>>
      BY <2>2 DEF RequestStep, CheckRecords, CheckJobs, HubRefuses, CreateJob, diskVars
    <3>2. worker'[i] = worker[i] \/ worker'[i] = [NoWorker EXCEPT !.pc = "queued"]
      BY <2>2 DEF RequestStep, CheckRecords, CheckJobs, HubRefuses, CreateJob, TypeOK
    <3> QED BY <2>same, <3>1, <3>2, <1>1
  <2>3. ASSUME NEW j \in JobIds, WorkerStep(j) PROVE PathIntact(t, w)'
    <3>1. CASE j = i
      BY <2>1, <2>3, <3>1, <1>t, <1>2, <1>clean, OwnStepKeepsPath
    <3>2. CASE j # i /\ jobTarget[j] = t
      <4>1. status[j] \in Active
        <5>1. worker[j].pc # "none"
          BY <2>3 DEF WorkerStep, StreamStep, SettleStep, StartJob, MakeDest, MakeDestFails,
             OpenFile, WritePart, StreamEndsShort, StreamFails, StatFile, InsertRecord, CompleteJob,
             CleanUp, CleanUpLeavesFiles, CleanUpRaises, FailJob
        <5> QED BY <5>1 DEF TaskMatchesRow, RowMatches, Active
      <4> QED BY <3>2, <4>1, <1>t, <1>2, <1>clean DEF OneCopy
    <3>3. CASE jobTarget[j] # t
      BY <2>3, <3>3, <1>t, <1>2, <2>same, OtherTargets
    <3> QED BY <3>1, <3>2, <3>3
  <2>4. ASSUME NEW d \in Deletes, DeleteStep(d) PROVE PathIntact(t, w)'
    <3>1. CASE deletion[d].target # t
      BY <2>4, <3>1, <1>t, <1>2, <2>same, OtherTargets
    <3>2. CASE UNCHANGED <<worker, onDisk, parts>>
      BY <3>2, <2>same
    <3>3. CASE deletion[d].target = t /\ deletion[d].pc = "found"
      <4>1. HasRecord(t)
        BY <3>3, <1>clean, DeletionHasRecord
      <4>2. worker[i].pc \in {"none", "recorded"}
        BY <4>1, <1>t, <1>clean, <1>2, RecordShields
      <4>3. worker' = worker \/ \E ps, u : worker' = Detached(u, ps, worker)
        <5>1. CASE RemovePath(d)
          BY <5>1, Zenon DEF RemovePath
        <5> QED BY <2>4, <5>1 DEF DeleteStep, GetRecord, FindPath, RemovePart, DeleteRow
      <4>4. w = worker[i] \/ w = [worker[i] EXCEPT !.file = "unlinked"]
        BY <4>3 DEF Detached
      <4>5. w.pc = worker[i].pc
        BY <4>4 DEF TypeOK, Task
      <4> QED BY <4>2, <4>5, <1>quiet
    <3> QED BY <2>4, <3>1, <3>2, <3>3
            DEF DeleteStep, GetRecord, FindPath, RemovePart, RemovePath, DeleteRow, diskVars
  <2>5. ~ Restart
    BY DEF Restart, Active
  <2> QED BY <2>2, <2>3, <2>4, <2>5 DEF Next
<1> QED BY <1>1, <1>2, <1>t, <1>clean, JobBefore

\* A DELETE that has begun to take files away goes on until the record is gone.
LEMMA DeletionProceeds ==
  ASSUME TypeOK, TaskMatchesRow, ThreadsHaveTargets, OneCopy, DeleteOwnsRow, FoundPathStays, Next,
         NEW d \in Deletes, NEW t \in Targets, deletion[d].target = t,
         deletion[d].pc \in {"found", "gone"}, Undisturbed(t)', "cutDelete" \notin mishaps'[t],
         HasRecord(t)'
  PROVE  deletion'[d].target = t /\ deletion'[d].pc \in {"found", "gone"}
<1> DEFINE Goal == deletion'[d].target = t /\ deletion'[d].pc \in {"found", "gone"}
<1>clean. Undisturbed(t) /\ PostsApart(t) /\ DeletesApart(t)
  BY CalmBefore DEF Undisturbed
<1>1. ASSUME deletion'[d] = deletion[d] PROVE Goal
  BY <1>1
<1>2. ASSUME NEW c \in Requests, RequestStep(c) PROVE Goal
  BY <1>1, <1>2 DEF RequestStep, CheckRecords, CheckJobs, HubRefuses, CreateJob
<1>3. ASSUME NEW j \in JobIds, WorkerStep(j) PROVE Goal
  BY <1>1, <1>3 DEF WorkerStep, StreamStep, SettleStep, StartJob, MakeDest, MakeDestFails, OpenFile,
              WritePart, StreamEndsShort, StreamFails, StatFile, InsertRecord, CompleteJob,
              CleanUp, CleanUpLeavesFiles, CleanUpRaises, FailJob
<1>4. ASSUME NEW e \in Deletes, DeleteStep(e) PROVE Goal
  <2>1. CASE e # d
    <3>1. \E x : deletion' = [deletion EXCEPT ![e] = x]
      <4>1. CASE RemovePath(e)
        <5>1. \/ deletion' = [deletion EXCEPT ![e].pc = "gone"]
              \/ deletion' = [deletion EXCEPT ![e] = NoDeletion]
          BY <4>1, Zenon DEF RemovePath
        <5> QED BY <5>1
      <4>2. ASSUME NEW p \in Parts, RemovePart(e, p) PROVE \E x : deletion' = [deletion EXCEPT ![e] = x]
        <5>1. deletion' = [deletion EXCEPT ![e] = deletion[e]]
          BY <4>2 DEF RemovePart, TypeOK
        <5> QED BY <5>1
      <4>3. CASE FindPath(e) \/ DeleteRow(e) \/ \E r \in RecordIds : GetRecord(e, r)
        BY <4>3 DEF FindPath, DeleteRow, GetRecord
      <4> QED BY <1>4, <4>1, <4>2, <4>3 DEF DeleteStep
    <3> QED BY <2>1, <3>1, <1>1 DEF TypeOK
  <2>2. CASE e = d
    <3>1. CASE RemovePath(d)
      <4>1. t \in onDisk
        BY <3>1, <1>clean DEF RemovePath, FoundPathStays
      <4>2. deletion' = [deletion EXCEPT ![d].pc = "gone"]
        BY <3>1, <4>1, Zenon DEF RemovePath
      <4> QED BY <4>2 DEF TypeOK
    <3>2. CASE DeleteRow(d)
      <4>1. record[deletion[d].id] = t /\ deletion[d].id \in RecordIds
        BY <1>clean DEF DeleteOwnsRow, ThreadsHaveTargets
      <4>2. record' = [record EXCEPT ![deletion[d].id] = None]
        BY <3>2 DEF DeleteRow
      <4>3. PICK r \in RecordIds : record'[r] = t
        BY DEF HasRecord
      <4>4. record[r] = t /\ r # deletion[d].id
        BY <4>1, <4>2, <4>3, DownloadsAssumption DEF TypeOK
      <4> QED BY <4>1, <4>4, <1>clean DEF OneCopy
    <3>3. ASSUME NEW p \in Parts, RemovePart(d, p) PROVE Goal
      BY <1>1, <3>3 DEF RemovePart
    <3>4. ~ FindPath(d) /\ ~ \E r \in RecordIds : GetRecord(d, r)
      BY DEF FindPath, GetRecord
    <3> QED BY <1>4, <2>2, <3>1, <3>2, <3>3, <3>4 DEF DeleteStep
  <2> QED BY <2>1, <2>2
<1>5. ~ Restart
  <2>1. SUFFICES ASSUME Restart PROVE "cutDelete" \in mishaps'[t]
    OBVIOUS
  <2>2. mishaps'[t] = IF \E e \in Deletes : deletion[e].target = t /\ deletion[e].pc \in {"found", "gone"}
                      THEN mishaps[t] \union {"cutDelete"} ELSE mishaps[t]
    BY <2>1 DEF Restart
  <2> QED BY <2>2
<1> QED BY <1>2, <1>3, <1>4, <1>5 DEF Next

\* Every step keeps the files of a recorded target whole.
LEMMA RecordedFileWholeStep ==
  ASSUME TypeOK, TaskMatchesRow, ThreadsHaveTargets, OneCopy, DeleteOwnsRow, FoundPathStays,
         TaskOwnsPath, RecordedFileWhole, Next
  PROVE  RecordedFileWhole'
<1> SUFFICES ASSUME NEW t \in Targets, Undisturbed(t)', "cutDelete" \notin mishaps'[t],
                    HasRecord(t)'
             PROVE  \/ t \in onDisk' /\ ("undeclared" \notin mishaps'[t] => parts'[t] = Parts)
                    \/ \E d \in Deletes : deletion'[d].target = t /\ deletion'[d].pc \in {"found", "gone"}
  BY DEF RecordedFileWhole, Undisturbed, PostsApart, DeletesApart, HasRecord
<1>clean. /\ Undisturbed(t) /\ PostsApart(t) /\ DeletesApart(t)
          /\ mishaps[t] \subseteq mishaps'[t]
  BY CalmBefore, MishapsGrow DEF Undisturbed
<1>1. PICK r \in RecordIds : record'[r] = t
  BY DEF HasRecord
<1>2. CASE record[r] # t
  <2>1. PICK j \in JobIds : InsertRecord(j) /\ jobTarget[j] = t
    BY <1>1, <1>2, RecordBefore
  <2>2. worker[j].pc = "sized" /\ UNCHANGED <<onDisk, parts>>
    BY <2>1 DEF InsertRecord, diskVars
  <2>3. status[j] \in Active
    BY <2>2 DEF TaskMatchesRow, RowMatches, Active
  <2> QED BY <2>1, <2>2, <2>3, <1>clean DEF TaskOwnsPath, PathIntact
<1>3. CASE record[r] = t
  <2>1. HasRecord(t)
    BY <1>3 DEF HasRecord
  <2>2. ~ \E j \in JobIds : jobTarget[j] = t /\ worker[j].pc \in {"dest", "stream", "cleanup"}
    BY <2>1, <1>clean, RecordShields
  <2>3. ASSUME NEW d \in Deletes, deletion[d].target = t, deletion[d].pc \in {"found", "gone"}
        PROVE  deletion'[d].target = t /\ deletion'[d].pc \in {"found", "gone"}
    BY <2>3, DeletionProceeds
  <2>4. CASE (t \in onDisk' <=> t \in onDisk) /\ parts'[t] = parts[t]
    BY <2>1, <2>3, <2>4, <1>clean DEF RecordedFileWhole
  <2>5. CASE \E d \in Deletes : deletion[d].target = t /\ deletion[d].pc = "found"
    BY <2>3, <2>5
  <2> QED BY <2>2, <2>4, <2>5, WhoTouchesPath
<1> QED BY <1>2, <1>3

\* Every step leaves an active job with its task.
LEMMA ActiveJobRunsStep ==
  ASSUME TypeOK, TypeOK', TaskMatchesRow, TaskMatchesRow', ThreadsHaveTargets, QueriesHold,
         TaskOwnsPath, ActiveJobRuns, Next
  PROVE  ActiveJobRuns'
<1> SUFFICES ASSUME NEW i \in JobIds, status'[i] \in Active, NEW t, t = jobTarget'[i],
                    Undisturbed(t)', "stuckFile" \notin mishaps'[t]
             PROVE  worker'[i].pc # "none"
  BY DEF ActiveJobRuns, Undisturbed, PostsApart, DeletesApart
<1>t. t \in Targets
  BY DEF TypeOK, TaskMatchesRow, RowMatches, Active
<1>clean. Undisturbed(t) /\ PostsApart(t)' /\ mishaps[t] \subseteq mishaps'[t]
  BY <1>t, CalmBefore, MishapsGrow DEF Undisturbed
<1>1. CASE worker'[i] = [NoWorker EXCEPT !.pc = "queued"]
  BY <1>1, TaskFields, TaskEdits DEF NoWorker
<1>2. CASE jobTarget[i] = t /\ status[i] \in Active
  <2>1. worker[i].pc # "none" /\ worker[i] \in Task
    BY <1>2, <1>clean DEF ActiveJobRuns, TypeOK
  <2>2. ASSUME worker'[i] = worker[i] \/ worker'[i] = [worker[i] EXCEPT !.file = "unlinked"]
        PROVE  worker'[i].pc # "none"
    BY <2>1, <2>2 DEF Task
  <2>3. ASSUME NEW c \in Requests, RequestStep(c) PROVE worker'[i].pc # "none"
    <3>1. worker'[i] = worker[i] \/ worker'[i] = [NoWorker EXCEPT !.pc = "queued"]
      BY <2>3 DEF RequestStep, CheckRecords, CheckJobs, HubRefuses, CreateJob, TypeOK
    <3> QED BY <1>1, <2>2, <3>1
  <2>4. ASSUME NEW j \in JobIds, WorkerStep(j) PROVE worker'[i].pc # "none"
    <3>1. CASE j # i
      <4>1. worker'[i] = worker[i] \/ worker'[i] = [worker[i] EXCEPT !.file = "unlinked"]
        BY <2>4, <3>1, OtherTasks
      <4> QED BY <2>2, <4>1
    <3>2. CASE j = i
      <4>1. CASE StatFile(i)
        <5>1. t \in onDisk
          BY <4>1, <1>2, <1>clean DEF StatFile, TaskOwnsPath, PathIntact
        <5>2. worker'[i] = [worker[i] EXCEPT !.pc = "sized"]
          BY <4>1, <5>1, <1>2 DEF StatFile, TypeOK
        <5> QED BY <5>2, <2>1 DEF Task
      <4>2. CASE FailJob(i) \/ CompleteJob(i)
        BY <4>2 DEF FailJob, CompleteJob, Active, TypeOK
      <4>3. CASE WritePart(i) \/ StreamEndsShort(i)
        <5>1. \/ worker'[i] = AfterFile(jobTarget[i], worker[i])
              \/ worker'[i] = NextBlock(worker[i])
          BY <4>3 DEF WritePart, StreamEndsShort, TypeOK
        <5>2. NextBlock(worker[i]).pc = worker[i].pc
          BY <2>1, OpenTask
        <5> QED BY <2>1, <5>1, <5>2, ClosedTask
      <4>4. CASE OpenFile(i)
        <5>1. PICK b \in BOOLEAN :
                worker'[i] = [worker[i] EXCEPT !.file = "linked", !.declared = b]
          BY <4>4 DEF OpenFile, TypeOK
        <5> QED BY <5>1, <2>1, OpenTask
      <4>5. CASE StartJob(i) \/ MakeDest(i) \/ MakeDestFails(i) \/ InsertRecord(i)
        <5>1. PICK pc \in {"dest", "stream", "failing", "recorded"} :
                worker' = [worker EXCEPT ![i].pc = pc]
          BY <4>5, Zenon DEF StartJob, MakeDest, MakeDestFails, InsertRecord, Advance
        <5>2. worker'[i] = [worker[i] EXCEPT !.pc = pc]
          BY <5>1 DEF TypeOK
        <5> QED BY <5>2, <2>1 DEF Task
      <4>6. CASE StreamFails(i)
        <5>1. worker'[i] = Failed(worker[i])
          BY <4>6 DEF StreamFails, TypeOK
        <5> QED BY <5>1, ClosedTask
      <4>7. CASE CleanUp(i) \/ CleanUpLeavesFiles(i)
        <5> DEFINE ws == [worker EXCEPT ![i].pc = "failing"]
        <5>1. ws[i].pc = "failing" /\ ws[i] \in Task
          BY <2>1, TaskFields, TaskEdits DEF TypeOK
        <5> HIDE DEF ws
        <5>2. worker'[i] = ws[i] \/ worker'[i] = [ws[i] EXCEPT !.file = "unlinked"]
          BY <4>7 DEF CleanUp, CleanUpLeavesFiles, Detached, ws
        <5> QED BY <5>1, <5>2 DEF Task
      <4>8. ASSUME CleanUpRaises(i) PROVE FALSE
        <5>1. Befalls(t, "stuckFile")
          BY <4>8, <1>2 DEF CleanUpRaises
        <5>2. "stuckFile" \in mishaps'[t]
          BY <5>1, <1>t, BefallsType DEF TypeOK, Mishaps
        <5> QED BY <5>2
      <4> QED BY <2>4, <3>2, <4>1, <4>2, <4>3, <4>4, <4>5, <4>6, <4>7, <4>8
              DEF WorkerStep, StreamStep, SettleStep
    <3> QED BY <3>1, <3>2
  <2>5. ASSUME NEW d \in Deletes, DeleteStep(d) PROVE worker'[i].pc # "none"
    <3>1. worker' = worker \/ \E ps, u : worker' = Detached(u, ps, worker)
      <4>1. CASE RemovePath(d)
        BY <4>1, Zenon DEF RemovePath
      <4> QED BY <2>5, <4>1 DEF DeleteStep, GetRecord, FindPath, RemovePart, DeleteRow
    <3> QED BY <2>2, <3>1 DEF Detached
  <2>6. ~ Restart
    BY DEF Restart, Active
  <2> QED BY <2>3, <2>4, <2>5, <2>6 DEF Next
<1> QED BY <1>1, <1>2, <1>t, <1>clean, JobBefore

-----------------------------------------------------------------------------
(***************************************************************************)
(* The theorems.                                                           *)
(***************************************************************************)

\* The inductive invariant holds initially.
LEMMA InitSafe == Init => SafetyInv
<1> SUFFICES ASSUME Init PROVE SafetyInv
  OBVIOUS
<1> USE DownloadsAssumption DEF Init
<1>1. OneCopy /\ RecordedFileWhole
  BY DEF OneCopy, RecordedFileWhole, HasRecord, Active
<1>2. ActiveJobRuns /\ TaskOwnsPath
  BY DEF ActiveJobRuns, TaskOwnsPath, Active
<1>3. TaskMatchesRow
  BY DEF TaskMatchesRow, RowMatches, NoWorker
<1>4. ThreadsHaveTargets /\ QueriesHold /\ DeleteOwnsRow /\ FoundPathStays
  BY DEF ThreadsHaveTargets, QueriesHold, DeleteOwnsRow, FoundPathStays, NoRequest, NoDeletion
<1> QED BY <1>1, <1>2, <1>3, <1>4 DEF SafetyInv

\* Every step keeps the inductive invariant.
LEMMA StepSafe ==
  ASSUME TypeOK, SafetyInv, [Next]_vars
  PROVE  TypeOK' /\ SafetyInv'
<1>1. CASE UNCHANGED vars
  <2> USE <1>1 DEF vars, SafetyInv
  <2>1. TypeOK'
    BY DEF TypeOK
  <2>2. OneCopy' /\ RecordedFileWhole'
    BY DEF OneCopy, RecordedFileWhole, HasRecord, Undisturbed, PostsApart, DeletesApart
  <2>3. ActiveJobRuns' /\ TaskOwnsPath'
    BY DEF ActiveJobRuns, TaskOwnsPath, PathIntact, Undisturbed, PostsApart, DeletesApart
  <2>4. TaskMatchesRow' /\ ThreadsHaveTargets'
    BY DEF TaskMatchesRow, RowMatches, ThreadsHaveTargets
  <2>5. DeleteOwnsRow' /\ FoundPathStays'
    BY DEF DeleteOwnsRow, FoundPathStays, Undisturbed, PostsApart, DeletesApart
  <2>6. QueriesHold'
    BY DEF QueriesHold, PostsApart, HasRecord, HasActiveJob, AnotherIsCleared
  <2> QED BY <2>1, <2>2, <2>3, <2>4, <2>5, <2>6
<1>2. CASE Next
  <2> USE <1>2 DEF SafetyInv
  <2>1. TypeOK'
    BY RequestType, WorkerType, DeleteType, RestartType DEF Next
  <2>2. TaskMatchesRow'
    BY TaskMatchesRowStep
  <2>3. ThreadsHaveTargets' /\ DeleteOwnsRow'
    BY ThreadsHaveTargetsStep, DeleteOwnsRowStep
  <2>4. OneCopy' /\ FoundPathStays'
    BY OneCopyStep, FoundPathStaysStep
  <2>5. TaskOwnsPath' /\ ActiveJobRuns'
    BY <2>1, <2>2, TaskOwnsPathStep, ActiveJobRunsStep
  <2>6. RecordedFileWhole'
    BY RecordedFileWholeStep
  <2>7. QueriesHold'
    BY <2>1, <2>2, QueriesHoldStep
  <2> QED BY <2>1, <2>2, <2>3, <2>4, <2>5, <2>6, <2>7
<1> QED BY <1>1, <1>2

\* Every value stays in its range: statuses, targets, ids and the part a task is
\* at (a task never runs past the last part).
THEOREM TypeCorrect == Spec => []TypeOK
<1>1. Init => TypeOK /\ SafetyInv
  BY InitType, InitSafe
<1>2. (TypeOK /\ SafetyInv) /\ [Next]_vars => (TypeOK /\ SafetyInv)'
  BY StepSafe
<1> QED BY <1>1, <1>2, PTL DEF Spec

\* The inductive invariant: the queries of _reject_duplicate keep one copy of every
\* target, recorded files are whole, no job is orphaned -- each unless what it names
\* has befallen the target -- and rows, tasks, threads and paths agree.
THEOREM Safe == Spec => []SafetyInv
<1>1. Init => TypeOK /\ SafetyInv
  BY InitType, InitSafe
<1>2. (TypeOK /\ SafetyInv) /\ [Next]_vars => (TypeOK /\ SafetyInv)'
  BY StepSafe
<1> QED BY <1>1, <1>2, PTL DEF Spec

\* _reject_duplicate keeps a target at one record or one unfinished job, never two of
\* either nor one of each, however many POSTs of it there are, as long as no two of
\* them are past the queries at once and no job of it ends between a POST's queries.
THEOREM OneCopySafe == Spec => []OneCopy
<1>1. SafetyInv => OneCopy
  BY DEF SafetyInv
<1> QED BY <1>1, Safe, PTL

\* A record in downloaded_models stands for a path on disk, whatever transfers failed
\* and wherever the server was restarted, and for a complete one if every response
\* of that target had a content-length.
THEOREM RecordedFileWholeSafe == Spec => []RecordedFileWhole
<1>1. SafetyInv => RecordedFileWhole
  BY DEF SafetyInv
<1> QED BY <1>1, Safe, PTL

\* No job stays pending or downloading without a task that works on it, unless the
\* file of a failed download could not be removed.
THEOREM ActiveJobRunsSafe == Spec => []ActiveJobRuns
<1>1. SafetyInv => ActiveJobRuns
  BY DEF SafetyInv
<1> QED BY <1>1, Safe, PTL

\* A row of downloaded_models goes only by a DELETE of the target it stands for,
\* although SQLite gives its id out again.
THEOREM RowsLeave == Spec => RowsLeaveByTheirOwnDelete
<1> DEFINE Own == \A r \in RecordIds : record[r] # None /\ record'[r] # record[r] =>
                    \E d \in Deletes :
                      /\ deletion[d].pc = "gone" /\ deletion[d].id = r
                      /\ deletion[d].target = record[r] \/ ~ DeletesApart(deletion[d].target)
<1>1. TypeOK /\ SafetyInv /\ [Next]_vars => [Own]_vars
  <2> SUFFICES ASSUME TypeOK, SafetyInv, Next, NEW r \in RecordIds,
                      record[r] # None, record'[r] # record[r]
               PROVE  \E d \in Deletes :
                        /\ deletion[d].pc = "gone" /\ deletion[d].id = r
                        /\ deletion[d].target = record[r] \/ ~ DeletesApart(deletion[d].target)
    BY DEF vars
  <2>1. ASSUME NEW c \in Requests, RequestStep(c) PROVE FALSE
    BY <2>1 DEF RequestStep, CheckRecords, CheckJobs, HubRefuses, CreateJob
  <2>2. ASSUME NEW j \in JobIds, WorkerStep(j) PROVE FALSE
    <3>1. CASE InsertRecord(j)
      <4>1. PICK q \in RecordIds : /\ \A x \in RecordIds : x >= q => record[x] = None
                                   /\ record' = [record EXCEPT ![q] = jobTarget[j]]
        BY <3>1 DEF InsertRecord, IsNextRecord
      <4>2. record[q] = None
        BY <4>1 DEF RecordIds
      <4> QED BY <4>1, <4>2 DEF TypeOK
    <3>2. CASE ~ InsertRecord(j)
      BY <2>2, <3>2 DEF WorkerStep, StreamStep, SettleStep, StartJob, MakeDest, MakeDestFails,
                        OpenFile, WritePart, StreamEndsShort, StreamFails, StatFile, CompleteJob,
                        CleanUp, CleanUpLeavesFiles, CleanUpRaises, FailJob
    <3> QED BY <3>1, <3>2
  <2>3. ASSUME NEW d \in Deletes, DeleteStep(d)
        PROVE  /\ deletion[d].pc = "gone" /\ deletion[d].id = r
               /\ deletion[d].target = record[r] \/ ~ DeletesApart(deletion[d].target)
    <3>1. DeleteRow(d)
      BY <2>3 DEF DeleteStep, GetRecord, FindPath, RemovePart, RemovePath
    <3>2. deletion[d].pc = "gone" /\ record' = [record EXCEPT ![deletion[d].id] = None]
      BY <3>1 DEF DeleteRow
    <3>3. deletion[d].id = r
      BY <3>2 DEF TypeOK
    <3> QED BY <3>2, <3>3 DEF SafetyInv, DeleteOwnsRow
  <2>4. ~ Restart
    BY DEF Restart
  <2> QED BY <2>1, <2>2, <2>3, <2>4 DEF Next
<1> QED BY <1>1, TypeCorrect, Safe, PTL DEF Spec, RowsLeaveByTheirOwnDelete

-----------------------------------------------------------------------------
(***************************************************************************)
(* Downloads implements JobLifecycle.                                      *)
(***************************************************************************)

\* A step that leaves the rows alone, and the tasks outside "recorded", is not seen.
LEMMA UnseenStep ==
  ASSUME UNCHANGED status,
         \A i \in JobIds : worker'[i].pc = "recorded" <=> worker[i].pc = "recorded"
  PROVE  Phase' = Phase
  BY DEF Phase

\* A step that is seen moves one job.
LEMMA SeenStep ==
  ASSUME TypeOK, TypeOK', NEW j \in JobIds, NEW from, NEW to,
         Phase[j] = from, Phase'[j] = to,
         \A i \in JobIds : i # j => status'[i] = status[i] /\ worker'[i] = worker[i]
  PROVE  Lifecycle!Move(j, from, to)
<1>1. \A i \in JobIds : i # j => Phase'[i] = Phase[i]
  BY DEF Phase
<1>2. Phase' = [Phase EXCEPT ![j] = to]
  BY <1>1 DEF Phase
<1> QED BY <1>2 DEF Lifecycle!Move

\* Every step is a step of JobLifecycle, or leaves the phases as they are.
LEMMA LifecycleStep ==
  ASSUME TypeOK, TypeOK', TaskMatchesRow, TaskMatchesRow', [Next]_vars
  PROVE  Lifecycle!Next \/ Phase' = Phase
<1> USE DEF TypeOK
<1>rows. \A i \in JobIds : /\ RowMatches(status[i], jobTarget[i], worker[i])
                           /\ RowMatches(status[i], jobTarget[i], worker[i])'
                           /\ worker[i] \in Task
  BY DEF TaskMatchesRow, RowMatches
<1>detach. ASSUME NEW ps, NEW t, worker' = Detached(t, ps, worker), UNCHANGED status
           PROVE  Phase' = Phase
  <2>1. \A i \in JobIds : worker'[i] = worker[i] \/ worker'[i] = [worker[i] EXCEPT !.file = "unlinked"]
    BY <1>detach DEF Detached
  <2>2. ASSUME NEW i \in JobIds PROVE worker'[i].pc = worker[i].pc
    <3>1. worker[i] \in Task
      BY <1>rows
    <3> QED BY <2>1, <3>1, TaskFields DEF Task
  <2> QED BY <1>detach, <2>2, UnseenStep
<1>1. CASE UNCHANGED <<status, worker>>
  BY <1>1 DEF Phase
<1>2. ASSUME NEW c \in Requests, RequestStep(c) PROVE Lifecycle!Next \/ Phase' = Phase
  <2>1. CASE CreateJob(c)
    <3>1. PICK j \in JobIds :
            /\ status[j] = "absent"
            /\ status' = [status EXCEPT ![j] = "pending"]
            /\ worker' = [worker EXCEPT ![j] = [NoWorker EXCEPT !.pc = "queued"]]
      BY <2>1 DEF CreateJob, IsNextJob
    <3>2. Phase[j] = "absent" /\ Phase'[j] = "pending"
      BY <3>1 DEF Phase
    <3>3. Lifecycle!Move(j, "absent", "pending")
      BY <3>1, <3>2, SeenStep
    <3> QED BY <3>3 DEF Lifecycle!Next, Lifecycle!Enqueue
  <2>2. CASE ~ CreateJob(c)
    BY <1>1, <1>2, <2>2 DEF RequestStep, CheckRecords, CheckJobs, HubRefuses, jobVars
  <2> QED BY <2>1, <2>2
<1>3. ASSUME NEW j \in JobIds, WorkerStep(j) PROVE Lifecycle!Next \/ Phase' = Phase
  <2>1. CASE StartJob(j)
    <3>1. /\ status[j] = "pending" /\ status' = [status EXCEPT ![j] = "downloading"]
          /\ worker' = [worker EXCEPT ![j].pc = "dest"]
      BY <2>1, <1>rows DEF StartJob, Advance, RowMatches
    <3>2. worker'[j].pc = "dest"
      BY <3>1, <1>rows DEF Task
    <3>3. Phase[j] = "pending" /\ Phase'[j] = "downloading"
      BY <3>1, <3>2 DEF Phase
    <3>4. Lifecycle!Move(j, "pending", "downloading")
      BY <3>1, <3>3, SeenStep
    <3> QED BY <3>4 DEF Lifecycle!Next, Lifecycle!Start
  <2>2. CASE InsertRecord(j)
    <3>1. /\ worker[j].pc = "sized" /\ status[j] = "downloading" /\ UNCHANGED status
          /\ worker' = [worker EXCEPT ![j].pc = "recorded"]
      BY <2>2, <1>rows DEF InsertRecord, Advance, RowMatches, jobVars
    <3>2. worker'[j].pc = "recorded"
      BY <3>1, <1>rows DEF Task
    <3>3. Phase[j] = "downloading" /\ Phase'[j] = "published"
      BY <3>1, <3>2 DEF Phase
    <3>4. Lifecycle!Move(j, "downloading", "published")
      BY <3>1, <3>3, SeenStep
    <3> QED BY <3>4 DEF Lifecycle!Next, Lifecycle!Publish
  <2>3. CASE CompleteJob(j)
    <3>1. /\ worker[j].pc = "recorded" /\ status[j] = "downloading"
          /\ status' = [status EXCEPT ![j] = "completed"]
          /\ worker' = [worker EXCEPT ![j] = NoWorker]
      BY <2>3, <1>rows DEF CompleteJob, RowMatches
    <3>2. Phase[j] = "published" /\ Phase'[j] = "completed"
      BY <3>1 DEF Phase
    <3>3. Lifecycle!Move(j, "published", "completed")
      BY <3>1, <3>2, SeenStep
    <3> QED BY <3>3 DEF Lifecycle!Next, Lifecycle!Complete
  <2>4. CASE FailJob(j)
    <3>1. /\ worker[j].pc = "failing" /\ status[j] = "downloading"
          /\ status' = [status EXCEPT ![j] = "failed"]
          /\ worker' = [worker EXCEPT ![j] = NoWorker]
      BY <2>4, <1>rows DEF FailJob, RowMatches
    <3>2. Phase[j] = "downloading" /\ Phase'[j] = "failed"
      BY <3>1 DEF Phase
    <3>3. Lifecycle!Move(j, "downloading", "failed")
      BY <3>1, <3>2, SeenStep
    <3> QED BY <3>3 DEF Lifecycle!Next, Lifecycle!Fail
  <2>5. CASE StreamStep(j) \/ StatFile(j) \/ CleanUp(j) \/ CleanUpLeavesFiles(j)
             \/ CleanUpRaises(j)
    <3>1. UNCHANGED status
      BY <2>5 DEF StreamStep, MakeDest, MakeDestFails, OpenFile, WritePart, StreamEndsShort,
                  StreamFails, StatFile, CleanUp, CleanUpLeavesFiles, CleanUpRaises, jobVars
    <3>2. worker[j].pc \in {"dest", "stream", "stored", "cleanup"}
      BY <2>5 DEF StreamStep, MakeDest, MakeDestFails, OpenFile, WritePart, StreamEndsShort,
                  StreamFails, StatFile, CleanUp, CleanUpLeavesFiles, CleanUpRaises
    <3>3. worker'[j].pc # "recorded"
      <4>1. CASE MakeDest(j) \/ MakeDestFails(j)
        <5>1. PICK pc \in {"stream", "failing"} : worker' = [worker EXCEPT ![j].pc = pc]
          BY <4>1, Zenon DEF MakeDest, MakeDestFails, Advance
        <5> QED BY <5>1, <1>rows DEF Task
      <4>2. CASE OpenFile(j)
        <5>1. PICK b \in BOOLEAN :
                worker'[j] = [worker[j] EXCEPT !.file = "linked", !.declared = b]
          BY <4>2 DEF OpenFile
        <5>2. worker'[j].pc = worker[j].pc
          BY <5>1, <1>rows, OpenTask
        <5> QED BY <3>2, <5>2
      <4>3. CASE WritePart(j) \/ StreamEndsShort(j)
        <5>1. \/ worker'[j] = AfterFile(jobTarget[j], worker[j])
              \/ worker'[j] = NextBlock(worker[j])
          BY <4>3 DEF WritePart, StreamEndsShort
        <5>2. NextBlock(worker[j]).pc = worker[j].pc
          BY <1>rows, OpenTask
        <5> QED BY <3>2, <5>1, <5>2, ClosedTask
      <4>4. CASE StreamFails(j)
        BY <4>4, ClosedTask DEF StreamFails
      <4>5. CASE StatFile(j) \/ CleanUpRaises(j)
        <5>1. \/ worker' = [worker EXCEPT ![j].pc = "sized"]
              \/ worker' = [worker EXCEPT ![j] = NoWorker]
          BY <4>5 DEF StatFile, CleanUpRaises
        <5> QED BY <5>1, <1>rows DEF Task, NoWorker
      <4>6. CASE CleanUp(j) \/ CleanUpLeavesFiles(j)
        <5> DEFINE ws == [worker EXCEPT ![j].pc = "failing"]
        <5>1. ws[j] \in Task /\ ws[j].pc = "failing"
          BY <1>rows, TaskEdits, TaskFields
        <5> HIDE DEF ws
        <5>2. worker'[j] = ws[j] \/ worker'[j] = [ws[j] EXCEPT !.file = "unlinked"]
          BY <4>6 DEF CleanUp, CleanUpLeavesFiles, Detached, ws
        <5> QED BY <5>1, <5>2 DEF Task
      <4> QED BY <2>5, <4>1, <4>2, <4>3, <4>4, <4>5, <4>6 DEF StreamStep
    <3>4. ASSUME NEW i \in JobIds, i # j PROVE worker'[i].pc = worker[i].pc
      <4>1. worker'[i] = worker[i] \/ worker'[i] = [worker[i] EXCEPT !.file = "unlinked"]
        BY <1>3, <3>4, OtherTasks
      <4> QED BY <4>1, <1>rows DEF Task
    <3>5. Phase' = Phase
      BY <3>1, <3>2, <3>3, <3>4, UnseenStep
    <3> QED BY <3>5
  <2> QED BY <1>3, <2>1, <2>2, <2>3, <2>4, <2>5 DEF WorkerStep, SettleStep
<1>4. ASSUME NEW d \in Deletes, DeleteStep(d) PROVE Phase' = Phase
  <2>1. UNCHANGED status
    BY <1>4 DEF DeleteStep, GetRecord, FindPath, RemovePart, RemovePath, DeleteRow, jobVars
  <2>2. worker' = worker \/ \E ps, u : worker' = Detached(u, ps, worker)
    <3>1. CASE RemovePath(d)
      BY <3>1, Zenon DEF RemovePath
    <3> QED BY <1>4, <3>1 DEF DeleteStep, GetRecord, FindPath, RemovePart, DeleteRow
  <2> QED BY <2>1, <2>2, <1>1, <1>detach DEF Phase
<1>5. CASE Restart
  <2>1. /\ status' = [j \in JobIds |-> IF status[j] \in Active THEN "failed" ELSE status[j]]
        /\ worker' = [j \in JobIds |-> NoWorker]
    BY <1>5 DEF Restart
  <2>2. \A j \in JobIds : Phase'[j] = IF Phase[j] \in Lifecycle!Active THEN "failed" ELSE Phase[j]
    BY <2>1 DEF Phase, NoWorker, Active, Lifecycle!Active
  <2>3. Phase' = [j \in JobIds |-> IF Phase[j] \in Lifecycle!Active THEN "failed" ELSE Phase[j]]
    BY <2>2 DEF Phase
  <2> QED BY <2>3 DEF Lifecycle!Next, Lifecycle!Interrupt
<1> QED BY <1>1, <1>2, <1>3, <1>4, <1>5 DEF Next, vars

\* The job table is a faithful implementation of the job life cycle: a job is
\* completed only after its record, a finished job never changes, and a restart
\* ends what was running.
THEOREM ImplementsLifecycle == Spec => LifecycleSpec
<1>1. Init => Lifecycle!Init
  BY DEF Init, Lifecycle!Init, Phase
<1>2. TypeOK /\ TypeOK' /\ SafetyInv /\ SafetyInv' /\ [Next]_vars => [Lifecycle!Next]_Phase
  BY LifecycleStep DEF SafetyInv
<1> QED BY <1>1, <1>2, TypeCorrect, Safe, PTL DEF Spec, LifecycleSpec, Lifecycle!Spec
=============================================================================
