----------------------------- MODULE DownloadPages -----------------------------
(***************************************************************************)
(* What the Library and the model page show of the downloads: the rows on  *)
(* disk, the jobs under way and failed, the one control of each way to run *)
(* a model, and the link to the Playground (LibraryPage, ModelPage,        *)
(* WaysToRunIt, DownloadingCard, modelHelpers).                            *)
(*                                                                         *)
(* A download option of a model page is the set of the jobs that were made *)
(* for its file or snapshot, and their records.                            *)
(***************************************************************************)
EXTENDS DownloadEvents

JobsShown(statuses) == {j \in JobIds : shown[j] # None /\ shown[j].status \in statuses}

ActiveJobs == JobsShown({"pending", "downloading"})

Library == [onDisk |-> list.data, jobs |-> ActiveJobs, failed |-> JobsShown({"failed"}),
            nothing |-> list.data = {} /\ ActiveJobs = {}]

OnDisk(option) == option \intersect list.data # {}
ActiveJob(option) == option \intersect ActiveJobs # {}

\* On disk, or else downloading, or else a button to download.
OptionRow(option) ==
  CASE OnDisk(option) -> "chat"
    [] ~OnDisk(option) /\ ActiveJob(option) -> "downloading"
    [] OTHER -> "download"

\* The model page keeps to the jobs and records of its own repository.
RepoJobs(repo, statuses) == JobsShown(statuses) \intersect repo

\* Each option has a row of its own: here there is one.
WaysToRunIt(repo) == [failed |-> RepoJobs(repo, {"failed"}), row |-> OptionRow(repo)]

\* A card of the jobs, while there are any.
DownloadingCard(jobs) == [rendered |-> jobs # {}, rows |-> jobs]

ModelPage(repo) == [ways |-> WaysToRunIt(repo),
                    aside |-> DownloadingCard(RepoJobs(repo, {"pending", "downloading"}))]

\* A GGUF on disk, or else a snapshot, or else the API.
PlaygroundLink(repo, snapshots) ==
  LET local == repo \intersect list.data
  IN CASE local \ snapshots # {} -> "gguf"
       [] local # {} /\ local \subseteq snapshots -> "transformers"
       [] OTHER -> "api"

-----------------------------------------------------------------------------
\* Every event is read, no answer of a DELETE is on its way, the last fetch is done.
Quiet ==
  /\ stream = "open" /\ wire = <<>> /\ Changed = {} /\ deletes = {}
  /\ list.fetch = "idle" /\ ~list.missed

\* The pages agree with the server as soon as nothing is on its way, for the jobs the
\* stream follows and whatever was retried, deleted or cut off before: an option with a
\* record can be chatted with and not be downloaded, a job is shown as long as it runs, and
\* a failure or a deletion brings the download button back.  (A job whose record is
\* committed and whose status is not may be listed either way, and a model whose DELETE
\* was done and its answer lost stays listed until the list is fetched for another reason.)
PagesTellTheTruth ==
  /\ TypeOK
  /\ Quiet => \A repo \in SUBSET {j \in JobIds : /\ sent[j] # None /\ phase[j] # "published"
                                               /\ j \notin list.unheard} :
       LET running == {j \in repo : phase[j] \in Table!Active} IN
       /\ ModelPage(repo) =
            [ways  |-> [failed |-> {j \in repo : phase[j] = "failed"},
                        row    |-> IF repo \intersect records # {} THEN "chat"
                                   ELSE IF running # {} THEN "downloading" ELSE "download"],
             aside |-> [rendered |-> running # {}, rows |-> running]]
       /\ \A snapshots \in SUBSET repo :
            PlaygroundLink(repo, snapshots) = "api" <=> repo \intersect records = {}
       /\ Library.nothing => repo \intersect records = {} /\ running = {}
=============================================================================
