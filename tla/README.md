# Formal models of model-workbench

model-workbench is a single-user tool that finds models on the Hugging Face Hub, downloads
them, chats with them and evaluates them: a FastAPI backend over one SQLite file and a
React client. Most endpoints are plain functions that FastAPI runs in a thread pool, the
streaming answers are async generators in the event loop, downloads are background tasks
in the same pool, and all of them share the database, the `models/` directory and the
models loaded in memory. None of this is covered by a lock, except the two caches of
loaded models. In the client every page keeps its own state next to a cache of the server's
answers (TanStack Query), which arrive late and in any order, and three streams are read by
loops that outlive the page that started them.

This directory holds TLA+ models of those parts, the TLC configurations that check them and
TLAPS proofs of the main results.

## 1. Inventory

### Server

| Component | Source (`src/backend/app`) | State it keeps | Operations | Modelled in |
|---|---|---|---|---|
| Download manager | `downloads/router.py`, `downloads/service.py`, `db.py`, `main.py` | tables `download_jobs` and `downloaded_models`, the files under `models/` | POST download, DELETE, one background task per job, the start-up pass | `Downloads`, `JobLifecycle` |
| Progress stream | `downloads/events.py` | `sent` and `newest_at_connect` of a connection | poll, deliver, drop | `DownloadEvents` |
| Loaded-model caches, model resolution | `inference/model_cache.py`, `inference/registry.py`, the `_get_llama` / `_get_model` step of the local backends, DELETE | one path, model and lock per backend | get_or_load, evict, resolve and stamp a record | `ModelCache` |
| Chat sessions | `chat/router.py`, `models/chat.py`, `metrics.py` | tables `chat_sessions`, `chat_messages`, `response_metrics` | create, chat, file the reply, delete | `ChatSessions` |
| Eval runs | `evals/router.py`, `service.py`, `report.py`, `judge.py`, `assertions.py` | tables `eval_runs`, `eval_results` | start, run a case, judge, review, report | `EvalRuns`, `RunLifecycle` |
| Test-case store | `dataset/store.py` | one JSON file per case | create, update, delete | `DatasetEditor` |
| Feasibility | `discovery/feasibility.py` | none | estimate of a model's memory | `Radar` |
| Tool loop, structured output | `inference/tool_loop.py`, `structured_output.py`, `hf_api_backend.py` | the conversation of one request | turns, tool calls, retries | not modelled |
| Tool registry | `tools/__init__.py` | the table of tools | load, reload, look up | not modelled |
| Configuration | `api_config/router.py`, `config.py` | `.env`, the settings | set the API key | not modelled |
| Hub client | `discovery/hf_client.py`, `discovery/router.py` | none | queries of the Hub | not modelled; its answers are constants |
| GGUF header, context report | `gguf_header.py`, `context.py` | a cache of headers | pure computations | not modelled |

### Client

| Component | Source (`src/frontend/src`) | State it keeps | Operations | Modelled in |
|---|---|---|---|---|
| Download hook and the pages that use it | `api/hooks.ts`, `pages/library`, `pages/model` | the job map, the list of models | read an event, reconnect, refetch, delete, the control of each way to run a model | `DownloadEvents`, `DownloadPages` |
| Reader of event streams | `api/sse.ts` | a text buffer | read a chunk, frame events | `SseStream`, `Arrays` |
| Playground: conversation | `useChatStream.ts`, `chatReducer.ts`, `Composer.tsx`, `Transcript.tsx` | transcript, streaming flag, abort controller | send, read a chunk, stop, reset, leave | `Playground` |
| Playground: model bar | `PlaygroundPage.tsx`, `modelOptions.ts`, `ModelBar.tsx` | backend, model, the URL that prefills them | switch, choose, correct while rendering | `ModelPicker` |
| Dataset page | `DatasetPage.tsx`, `CaseEditor.tsx` | location and draft, list, the mounted editor | open, new, duplicate, save, delete, their answers | `DatasetEditor` |
| Test-case form | `testCaseForm.ts`, `CaseEditor.tsx`, `AssertionsEditor.tsx` | the form | every field and button, conversion both ways | `CaseForm`, `FormEditor`, `Arrays` |
| Evals page: run followed | `activeRun.ts`, `queries.ts`, `EvalsPage.tsx` | the cache entry `activeEvalRun`, the report | start, read an event, break, open and leave the page | `EvalClient` |
| Evals page: tables | `aggregateReport.ts`, `EvalHistoryCard.tsx` | none | the matrix and the history | `EvalMatrix`, `Arrays` |
| Review page | `pages/review` | two polled queries, filter, case, verdicts under way | poll, last fetch, save, next case | `EvalReview` |
| Radar page | `RadarPage.tsx`, `gauge.ts` | order, filter, lists and reports | sort, filter, answers, chips and bars | `Radar` |
| Shell, shared components, styles, generated schema | the rest | rendering | - | not modelled |

How they interact:

- A POST inserts a job and starts a background task; the task writes the file, then the
  record, then the status of the job. The progress stream learns of it by polling the job
  table, the client refetches its list of models when it reads "completed".
- A chat names a model. The registry finds its record, stamps it and takes the path from it;
  the cache of the backend loads that path, in a worker thread and under its lock, after it
  has dropped what it held.
- A DELETE looks into both caches, then removes the files, then the record, without a
  lock over the three.
- A chat with a session stores the prompt before the stream and the reply after it. A DELETE
  of the session may come at any time. The Playground sends no session: it keeps its
  transcript itself and sends the finished turns again with each message.
- An evaluation run lives as long as its POST: its generator stores a result and then the
  counter of the run, case by case, while the dataset may be edited, other runs go on, a page
  polls the run and its results apart, and a reviewer sets verdicts. The report is
  computed from the stored results. The loop that reads the POST's stream in the browser
  outlives the Evals page and writes one cache entry, which the page shows when it is open.
- The dataset page takes the list of cases from the cache and the case that is open from the
  URL; a save is answered after the page has perhaps moved on, and then moves it.
- A restart loses every thread, stream and loaded model. The database and the disk stay, and
  `fail_interrupted_jobs` settles the jobs and runs it cut off.

The hard behaviours are therefore, on the server, interleavings of threads between two
statements (check-then-act in POST, DELETE, `_store_message`), crashes between two commits,
files that are half written, dropped streams, failed loads, and ids that SQLite gives out
again because no table has AUTOINCREMENT; and in the client, answers that are out of date
when they arrive, streams that go on after the user has gone elsewhere, and state that is
derived while rendering from two sources that change separately. `PROJECT.json` lists them at
the lines where they bite.

What makes the modelled components correct:

- downloads: one copy per target, a whole file behind every record whose length was declared, no
  job without its task,
  rows removed by their own DELETE, jobs that follow the life cycle their observers rely on;
- the stream and its pages: what the client shows only moves forward, a job is followed to
  its end, and the pages offer what the server has as soon as nothing is on its way;
- the caches: the model that was asked for, one model in memory at a time, no model of a
  file that has gone, no lock left behind;
- sessions: a transcript in the order it was written, only whole replies, a DELETE that takes
  its own messages and all of them;
- evaluation runs: no run left running without its generator, results that follow its cases,
  a report that counts every case once, by its latest result;
- the review page: all the results of a run that has ended, the verdicts that were saved, and
  a panel, a form and a list that speak of the same case;
- the Playground: text of one stream never lands in another turn, only whole turns are sent
  again, what is chosen is of the list that is shown;
- the dataset page: a case is written from its own form, a saved case reads back as it was
  entered, and the list catches up;
- the Evals page: the entry follows its run, a finished run is in the report, each report row
  is in one cell of the matrix;
- the Radar: a row shows the report of its own model, bar and chip agree;
- the reader: the events sent are the events handed on, however the bytes were cut.

## 2. Modules

### Server

**`JobLifecycle`** is the abstract specification of a download job: absent, pending,
downloading, published (its record is committed), completed or failed. A finished job never
changes, "completed" comes only after "published", and a restart fails whatever is active.

**`Downloads`** is the download manager. A *target* is the triple (repo_id, kind, filename):
it fixes the path on disk and both queries of `_reject_duplicate`. A path holds a set of
*parts*: the blocks of a GGUF file or the files of a snapshot. Each SELECT, each COMMIT and
each file-system call is a step of its own, so a POST is `CheckRecords`, `CheckJobs`,
`CreateJob` (or `HubRefuses`), a DELETE is `GetRecord`, `FindPath`, `RemovePart`* and
`RemovePath`, `DeleteRow`, and a task is `StartJob`, `MakeDest`, `OpenFile`, `WritePart`*,
`StatFile`, `InsertRecord`, `CompleteJob`, with `MakeDestFails`, `StreamFails`, `CleanUp` and
`FailJob` as its ways out. A response may come without a content-length; its body may then end
short and pass for complete (`StreamEndsShort`), as both length checks need a declared length.
Of a clean-up, `rmtree` may leave files (`CleanUpLeavesFiles`) and `unlink` may raise, which ends
the task with its job still "downloading" (`CleanUpRaises`). `Restart` may come between any two
steps. The variable `mishaps` is a ghost that no guard reads. It records what has befallen a
target, in terms of which threads met and what the network or the disk did, never of whether a
property still holds:

| Mishap | What happened |
|---|---|
| `overlap` | a POST passed its job query while another one, which had passed, was waiting for the Hub |
| `lateFinish` | a task completed its job while a POST was between its two queries |
| `doubleDelete` | a DELETE read a record another DELETE was working on |
| `strayDelete` | a DELETE removed the row of another target, whose id had been given out again |
| `cutDelete` | a restart hit a DELETE between its file and its row |
| `undeclared` | a response without a content-length was opened |
| `stuckFile` | the file of a failed download could not be removed |

The code does not exclude these, and each property names those it needs to be absent. `OneCopy`
needs only the first two to be, so it rests on both queries of `_reject_duplicate`: without
either of them it is violated.

**`DownloadEvents`** puts the progress stream, the client hook and the client's list of models
on top of the abstract job table (`INSTANCE JobLifecycle`), which is sound as `Downloads`
implements it. `Poll` is one round of the loop in `job_events`, `Deliver` one event read by
`useDownloadJobs`, `Drop` and `Connect` a lost and a renewed stream; a DELETE of a record and
the fetches of the list are actions too. The answer of a DELETE may be lost, on the way or with
the server's process (`AnswerLost`, `Restart`). Only a success invalidates the list, so the
model stays listed; the history `list.unheard` holds those models until the next fetch.
A refetch asked for while a fetch is under way drops the answer on its way and asks again,
except for the very first fetch, which TanStack Query keeps as long as it has no data; the
history `list.missed` remembers that, and a fetch that failed. The review page, the dataset page and the report of the Evals page fetch the same way
(`AskAgain`, `Invalidate`, `InvalidateReport`).
**`DownloadPages`** adds what the library and the model page render of it, as operators: the
rows on disk, the jobs under way and failed, the one control of each way to run a model.

**`ModelCache`** is one `LoadedModelCache` per local backend, the chats that use them and the
DELETEs that evict. A chat is `FindRecord`, `MarkUsed`, then `Hit`, or `Miss`, `Dropped` and
`Load` or `LoadFails`, then `EndChat`. A DELETE is `GetRecord`, `Evict` and `EvictDone` per
cache, `RemoveFiles`, `DeleteRow`. What happens under a lock is one step, except that loading
a model and `on_evict` take a while. Every load makes a model with a number of its own, and
`source` remembers what it was read from, so the properties can compare a cached model
with the file that is on disk now. The ghost `late` holds the models no DELETE will
unload: read when the DELETE had already looked at the cache, or left without a record by the
DELETE of another model.

**`ChatSessions`** is the session endpoints and the end of a chat stream. The pool threads
interleave between any two statements; what a stream does at its end runs in the event loop
and is not interleaved with the end of another stream. The ghosts `spoiled` and `overlap`
mark sessions that had two turns at once, that inherited something of a deleted session
with the same id, or two of whose DELETEs overlapped. Two overlapping turns of one session
may store the same sequence (`chat/router.py:169`; nothing makes it unique,
`models/chat.py:24`), so `ReadsInOrder` speaks of the sessions without overlap. Sequence
numbers have no bound: a turn that has counted may store behind a DELETE, so a session may hold
a number larger than its messages.

**`RunLifecycle`** is the abstract specification of an evaluation run: it stores its results
one at a time while it is running, is completed only with all of them, and then never changes.

**`EvalRuns`** is the generator of a run (`NextCase`, `StoreResult`, `CountResult`, `EndRun`),
the ways a case can end it (`Escape`: an exception, a cancelled or closed generator), the
start-up pass, verdicts, the dataset that is edited meanwhile, and the report as an operator
over the stored results. The cases of a run are a set, which the loop takes in the order of
their ids (`First` of what is `left`). The result of a case and the counter of the run are two commits with
no await between them, so only a crash (or a reader in the thread pool) comes between. What
the model, the assertions and the judge make of a case is abstracted to whether it passed.

### Server and client together

**`EvalReview`** extends `EvalRuns` by the review page. Each of its two queries is asked for,
read by the server and taken by the page in three steps, so answers are out of date when they
arrive. `TakeStatus` contains the effect of `useEvalRunResults` that fetches once more.
Saves of verdicts are under way together and end in any order. The filter and the case in the
URL choose only what is rendered: they are parameters, and `PageInv` quantifies over all of
them. A list of results is a function on the ids of its rows, which are in the order they were
stored; `joined` remembers that the last fetch asked for was given an answer read before.

**`EvalClient`** puts the browser's side of a run on top of `RunLifecycle`, which `EvalRuns`
implements: per call of `startEvalRun` the loop that reads its stream, the one cache entry all
loops write, the page that comes and goes, and the report with its fetches, which may fail
(`ReportFails`). A run that fails with an exception that has no message sends a last event
without `error`; the history field `wordless` of a call remembers that.

**`DatasetEditor`** is the dataset page and the store together: the files, each of the three
requests in the two steps of `store.py` (look for the file, then write it), the list and its
fetches, the location with its draft, and the editor, mounted by its key. Rendering is part of
every action, since it decides whether the editor is kept or replaced. A list that was never
loaded may fail to load, and then there is no editor until it is asked for again.

**`Radar`** is the Radar page over `feasibility.py`. Memory is in hundredths of a gigabyte,
the coordinates of the bar in sixtieths of that, so everything is an integer. The rows are a
set, each with its place in the list, and so are the pieces of a bar, each drawn where it
starts.

### Client

**`Playground`** is the conversation. Each send has a reader of its own that goes on after
Stop, New chat or the page being left; the deltas carry the number of the send they were
generated for. `Abort` is seen by a reader only when it has handed on what it had read. The
history a message is sent with is made of the pairs of turns at the positions that are kept, in
order (`HistoryOf`).
**`ModelPicker`** is the model bar, with the adjustment `PlaygroundPage` makes while rendering
as part of every action. Its options are functions on the places their records have in the
server's answer, so the first that matches is the one in the smallest place. **`Arrays`** has
what the pages do with arrays, as operators that can be reasoned about: a sort gives each
element the place that counts those not behind it, a filter keeps a set of positions, a
`reduce` is the last of its partial sums. **`CaseForm`** has the conversions of
`testCaseForm.ts` and **`FormEditor`** the controls that edit a form. **`EvalMatrix`** has the
tables of the report as operators, a group being a set of positions of the report, and reaches
every bounded report row by row. **`SseStream`** has the bodies of a stream as sequences of
symbols, each in the place of its event, line and column, and the reader that gets them in
pieces cut anywhere, between the two bytes of a line end too. Normalising a read and picking
the data of an event out of it keep positions, as a filter does.

### Proofs, runs and mutants

The modules `*Proofs` hold the proofs of section 5: **`DownloadsProofs`**,
**`ModelCacheProofs`**, **`ChatSessionsProofs`**, **`EvalReviewProofs`** (eval runs, then the
review page over them), **`DownloadEventsProofs`** (stream and pages), **`PagesProofs`** (dataset
page, the run that is followed, and the Radar page), **`PlaygroundProofs`** (model bar and
conversation) and **`ArrayProofs`** (the arrays themselves, the test-case form, the report's
matrix and the reader of event streams). Each specification they speak of is stated in its component's module (`Spec`,
`ReviewSpec`, `DataSpec`, `ClientSpec`, `RadarSpec`, `PickSpec`, `PlaySpec`, `FormSpec`,
`MatrixSpec`, `SseSpec`). **`MCDownloads`** has the bound on mishaps, **`MCChatSessions`** and
**`MCServer`** the symmetry sets TLC uses, **`MCEvalReview`** keeps the dataset as it is
when the run starts (an action constraint; the edits are the `server` run's business).
**`MCServer`** (the caches and the eval runs) and **`MCClient`** (the client's parts) are one
specification each for parts that share no state: the variable `part` is chosen at the start and
only that part moves, so the states of the run are the sum and not the product of theirs. Definitions under a comment that begins with "Mutant" are variants of the definition
below them with a plausible bug. No specification uses them; replacing the definition by its
mutant breaks the property named in `PROJECT.json`, which shows that the property depends on
that code.

## 3. Runs

| Run | What it checks | Bounds |
|---|---|---|
| `downloads` | `OneCopy`, `RecordedFileWhole`, `ActiveJobRuns`, `SafetyInv`, `RowsLeaveByTheirOwnDelete`, `LifecycleSpec` (refinement), `SettlesAfterStream` (liveness) | a GGUF and a snapshot of 2 parts, 2 POSTs, 2 DELETEs, 2 jobs, 2 overlaps of threads or 1 fault of network or disk |
| `downloads_race` | `NoSecondRecord` is violated | one target, 2 POSTs |
| `server` | the caches' `NoMixUp`, `RoomBeforeLoading`, `FreshUnlessLate`, `CacheInv`, `EveryModelIsDropped`; the eval runs' `RunningIsDriven`, `ResultsFollowCases`, `ReportCountsOnce`, `ReportMovesWithLatest`, `ImplementsRunLifecycle` (refinement) | 2 GGUF files and a snapshot, 2 chats, 2 DELETEs, 2 downloads, 2 loads; 2 runs, 2 cases, 2 categories, 1 model, 1 verdict at a time |
| `deleted_model` | `DeletedModelUnloaded` is violated | 1 file, 1 chat, 1 DELETE |
| `download_events` | `PagesTellTheTruth`, `SentReachesClient`, `CompletedIsListed`, `ShownMovesForward`, `FollowedToTheEnd` (liveness) | 2 jobs, 1 step of progress, 2 events in flight, 1 DELETE |
| `events_gap` | `ShownJobsSettle` is violated | 1 job |
| `chat_sessions` | `ReadsInOrder`, `RepliesAreWhole`, `DeleteIsExact` | 2 turns, 2 DELETEs, 2 session ids, 4 message ids |
| `chat_orphan` | `MessagesHaveASession` is violated | 1 turn, 1 DELETE |
| `eval_review` | `PageInv`, `EndedPageIsComplete`, `VerdictsAreShown` | 1 run, 2 cases, 2 verdicts under way, 1 page |
| `review_next` | `NextIgnoresTheFilter` is violated | 1 run of 2 cases, one passed and one failed |
| `client` | the Playground's `PlayInv`, `HistoryIsWhole`, `SelectionFollowsTheList`; the dataset's `SavedCasesSurviveReopening`, `DataInv`, `ListCatchesUp`; the Evals page's `ClientInv`, `FinishedRunIsReported`, `MatrixAddsUp`; `FramesAreWhole`; `RowsTellTheirModel` | 2 sends of 2 deltas and a tool call; 2 repositories and 2 quants; forms with up to 4 fields filled; 2 cases and 2 requests; 2 runs; bodies of 2 events of 2 lines; 2 models at four sizes; reports of 3 rows |
| `dataset_remount` | `DraftReachesEditor` is violated | 2 cases, 2 requests |

Each property is stated where it is defined, with the code it is about. A component's type
invariant is a conjunct of its main invariant (`SafetyInv`, `CacheInv`, `ReadsInOrder`,
`RunningIsDriven`, `PageInv`, ...). The largest runs, on two workers: `client` 3.2 million
distinct states in about three minutes, `server` 1.4 million in two and a half.

Why the bounds are enough to be interesting. Every race in this code is between two requests,
so two threads of each kind are there wherever they matter. Two targets of different kinds
let an id be given out again to another target, and let the two backends be told apart; two
GGUF paths displace each other in one cache. Two parts make a half-written file possible. Two
jobs allow a retry after a failure and a duplicate. A behaviour of `downloads` goes on until
threads have overlapped twice on a target, or the network or the disk has failed once
(`FewMishaps`, a state constraint); with more than that, next to nothing is claimed of it. In the caches, two loads allow one model to
replace another, and two downloads allow a path to be downloaded again after its DELETE. Two
session ids and four message ids hold two whole turns, and let ids be reused. Two
runs of two cases store their results in every order, and two categories let a case move
between them; models only divide the report and never meet in it, so there is one. In the
client, two sends let the end of one stream meet the next; two models and two quants give a
list that shrinks and a selection it no longer holds; a case and its copy are enough for
new, duplicate and rename, and two requests for answers in the wrong order; two runs meet in
one cache entry; a field of the form is kept or lost whatever the others hold, but for the
pairs that are converted together, so forms with four fields filled cover them; three report
rows meet in one cell or spread over several. Where section 5 has a proof the bounds do not
matter: the theorem holds for all values.

Threads of one kind are interchangeable, and the symmetry sets say so. The runs with liveness
properties use no symmetry. `CHECK_DEADLOCK FALSE` is set where the bounds can be used up with
nothing left to do: the caches and the client parts.

The six violations are places where the code does something else than its documentation
says. The findings in `PROJECT.json` quote the lines:

1. Two POSTs of one file both pass `_reject_duplicate`, since the job is inserted only after
   the call to the Hub; two records of one model result, which the registry then rejects.
2. A chat loads a model between the eviction and the end of its DELETE; it stays in memory.
3. A job that ends while the client reconnects is not sent on the new stream; the client
   shows it as downloading until the page is reloaded.
4. A message may be stored for a session that has just been deleted, and the next session
   created gets its id and the message with it.
5. Duplicate pressed while a new case is open does not show the copy: the editor's key stays
   the same, and it reads its form only when it is mounted.
6. "Next unreviewed" on the review page looks at the list the filter leaves, where the comment
   of `nextUnreviewedCaseId` says it wraps around all results, independent of any filter.

Other behaviour a reader should know of. The models contain it, except where noted, and the
properties are stated so that it does not break them:

- A download whose response declares no length and whose connection drops is completed and
  recorded as it is (`service.py:70`, `:149`): `RecordedFileWhole` claims the path, and its
  parts only where the length was declared.
- When the `unlink` of a failed GGUF download raises (`service.py:73`), or the file has gone when
  `stat()` is called (`:84`), the task ends and its job stays "downloading" until the next start,
  and its target cannot be downloaded until then.
- A POST whose record query comes before, and whose job query after, the end of a job for the
  same target starts a second copy.
- A DELETE that was done and whose answer is lost leaves the model listed until something else
  has the list fetched (`LibraryPage.tsx:49-52`).
- A report fetch that fails leaves the old matrix below the error (`EvalsPage.tsx:35-36`), next
  to a strip that says finished. A run that fails with an exception that has no message is shown
  as finished (`evals/router.py:94`, `:104`).
- The comment in `transformers_backend.py:61` says that the dropped model's tensors "are
  unreferenced by now". In `LoadedModelCache._drop` the local variable `model` still refers to
  them while `on_evict` runs (`model_cache.py:54-59`), so the accelerator's cache is emptied
  before the model is collected. `ModelCache` has that variable (`dropping`); what a device does
  with its memory is outside the models.
- `_mark_used` may return the path of another record (`registry.py:171`), and `NoMixUp` only
  says that what is loaded is of the path that was returned.
- A stop or a dropped connection between the last chunk and the end of a chat stream marks a
  whole turn as stopped or failed, and it is then left out of the history.
- A save or delete that is answered late moves the dataset page away from the case that was
  opened meanwhile, with its edits; a case reopened before the list was fetched again shows its
  old content; the editor of the first case of an empty dataset is unmounted when the empty
  state goes; two POSTs of one id both write the file (`dataset/store.py:94`).
- Two evaluation runs can share the one cache entry, and an error of one is merged into the
  other's. A report fetch that was under way when the page opened may miss the run that ends
  meanwhile. When the stream drops, the report is not fetched.
- The verdict form reopened before the results are fetched again shows the old verdict.
- A failed job stays on the library page after a retry has succeeded.
- An option exactly at a threshold may have no stretch of its colour in the Radar's bar.

## 4. Fairness

`Downloads!FairSpec` assumes weak fairness of the steps of a task after its transfer
(`SettleStep`): they need nothing but the thread to be scheduled. There is none on the steps
of the transfer itself, since the HTTP client is created with `timeout=None` and a stream may
hang for ever, and none on requests. `DownloadEvents!FairSpec` assumes that the client
reconnects (a timer of `RECONNECT_MS`), reads, and refetches, and that the polling loop goes
round. Nothing is assumed of the downloads, of drops or of restarts. The other
modules state safety only: their "catches up" properties (`ListCatchesUp`,
`FinishedRunIsReported`, `EndedPageIsComplete`) say what holds once no fetch is under way.

## 5. Proofs

Every inductive invariant was first checked by TLC, then proved for every value of the
constants under the named assumptions:

| Assumption | What it says |
|---|---|
| `DownloadsAssumption`, `ModelCacheAssumption`, `ChatSessionsAssumption`, `DownloadEventsAssumption`, `EvalRunsAssumption`, `EvalReviewAssumption` | the bounds are numbers (positive where one thing is needed), and `None` (`Nothing` in `ModelCache`) is none of the values it stands apart from |
| `NoneIsNoRow` | no row of the job table is `None` |
| `DatasetAssumption` | there is a case id, none is blank or taken for something else, and "none" is no request |
| `ClientAssumption`, `PlaygroundAssumption` | runs, calls and sends are numbered from 1, as the code numbers them |
| `RadarAssumption` | the machine has memory, the Hub's lists are of its models, sizes are numbers |
| `PickerAssumption` | the lists of the server hold records of repositories and of the local backends |
| `FormAssumption` | the mark of a text that is absent is not a text |
| `EvalMatrixAssumption` | the names in a report and its averages are numbers; a row counts at least one case, and no more passed than cases |
| `SseAssumption` | the bounds are numbers, and the marks of the format are none of the payloads |

Each action has a lemma of its own, with one step per conjunct it may disturb. What each
inductive invariant adds to the properties, and why they need it:

**`DownloadsProofs`**: `SafetyInv` with `TypeOK`. One copy per target depends on what the
queries of a POST have found still being so when it goes on (`QueriesHold`): a record it has
missed is of a job it is about to see, and once it has passed there is no record, no active job
and no other POST about to insert one. That a file stays whole behind its record depends on
nobody else writing to the path, hence on the absence of a second task (`TaskMatchesRow`,
`TaskOwnsPath`), on every response of the target having declared its length, and on a DELETE
working on the row it has read (`ThreadsHaveTargets`, `DeleteOwnsRow`, `FoundPathStays`). Theorems: `TypeCorrect`, `Safe`,
`OneCopySafe`, `RecordedFileWholeSafe`, `ActiveJobRunsSafe`, `RowsLeave` (an action property)
and `ImplementsLifecycle`, the refinement: the initial state maps to the initial state of
`JobLifecycle` and every step to a step or a stutter under `Phase`.

**`ModelCacheProofs`**: `CacheInv` with `TypeOK`. The properties need to know what each thread
carries (`ThreadsKnow`), that a cache is empty while a thread is at work in it
(`EmptyWhileAtWork`), that a load makes a model nobody has (`LoadedSoFar`), and, for
`FreshUnlessLate`, that a model a DELETE has looked for is not in the cache unless it is a late
one (`EvictedIsGone`). Theorems: `CacheTypeCorrect`, `CacheInvariant`, `NeverMixedUp`,
`LoadsHaveRoom`, `CachedModelsFresh`, `LocksAreReleased` and `ModelsAreDropped` (an action
property).

**`ChatSessionsProofs`**: `ChatInv`. A filed reply is whole because a turn reaches "replying"
only when it is (`TurnInv`), and it stays the only one as a turn stores its reply last
(`MessageInv`). `ReadsInOrder` needs that the number a turn has counted is still the last one of
its session when it stores (`SessionInv`), which no other turn and no DELETE has disturbed;
`DeleteIsExact` needs that what a DELETE has listed is still there (`DeletionInv`). The largest
number of a finite set is found by well-founded induction on the sets of larger ones. Theorems:
`ChatTypeCorrect`, `ChatSafe`, `SessionsReadInOrder`, `FiledRepliesAreWhole`, `DeletesAreExact`.

**`EvalReviewProofs`**, first for the runs: `RunsInv`. The results of a run and the cases left make up the cases it
has read, all taken before all left (`GenInv`), and the counter is behind the table by at most
one (`CountInv`). Theorems: `RunsTypeCorrect`, `RunsSafe` and, from this,
`RunningRunsAreDriven`, `ResultsAreOfTheCases`, the refinement of `RunLifecycle`
(`ImplementsLifecycle`), `ReportMoves` (an action property: the report of a model changes only
with a result or verdict of the latest result of a case) and `ReportCounts`: the rows of a model
count each case it evaluated once, since the latest results of the cases are divided by the row
they fall in, and the sizes of the parts add up to the size of the whole.

Then for the page: `ReviewInv`, which is `RunsInv` and, for any state of the page, what it
may hold: true statuses (`StatusInv`), parts of the results table (`RowsInv`), and, about the
last fetch, that it brings every result once the run was seen to end (`CompleteInv`), and every
verdict once no answer to a save is outstanding (`FreshInv`). Theorems: `ReviewSafe`,
`EndedPagesAreComplete`, `StoredVerdictsAreShown`, and `PageAgrees`, for every filter and every
case in the URL.

**`DownloadEventsProofs`**: `EventsInv`. What is shown of a job, what is on the wire of it and its
row come in this order (`ShownInv`, `WireInv`), and of what a connection takes for sent the last
is on the wire or shown (`StreamInv`). A model shown as completed is in the list, or in the
answer that is on its way (`CompletedInv`); a record that has gone from under the list has a
DELETE that will have the list fetched again, or one whose answer was lost (`GoneInv`). Theorems: `EventsTypeCorrect`,
`EventsSafe`, `SentRowsReachClient`, `CompletedAreListed`, `ShownNeverGoesBack` (an action
property) and `PagesAreRight`.

**`PagesProofs`**: `DatasetInv` says what the location, its draft, the editor and the requests
may be (the save an editor waits for is of its own case), and that list or answer are what is
on disk unless a request has written since (`CatchUpOK`). Theorems: `DatasetSafe`,
`EditedIsOpen`, `ListIsOnDisk`. `FollowInv` says that an event of a run was true when it was sent
and its last one still is: a "done" is of a run that completed, or of one that failed without a
message (`EventOK`, `TrueEnd`), that the entry is of the run its call follows and is
written "streaming" only by a loop that reads (`EntryOK`), and what the report counts
(`ReportOK`). Theorems: `FollowSafe`, `StripIsTrue`, `FinishedIsReported`. `RadarInv` says
that the report of a model that is listed is there, has failed or is awaited; with it a row is
right by what the operators make of a report: the pieces of a bar are one stretch (`PiecesAre`)
that begins in the colour of the smallest option, whose verdict is the best (`BestIsSmallest`).
Theorems: `RadarSafe`, `RowsAreTrue`.

**`PlaygroundProofs`**: `PickerInv` says that what is selected is an option of the backend
whenever its list has loaded, and with it every step makes the selection follow. Theorems:
`PickerSafe`, `SelectionFollows` (an action property). `ConversationInv` relates each turn to
the reader of its send (`Fits`): a live turn holds the deltas the server has generated, but for
those that are still on the wire, after the tool calls and before the last chunk (`Ahead`). So
when "done" is read nothing else is on its way and the turn is the whole reply. As no turn is
live when a message is sent, each kept pair is whole (`HistoryIs`). That the kept positions can be
listed in order is proved from a smallest set that could not be (`AscendingIs`). Theorems:
`ConversationSafe`, `HistorySafe`.

**`ArrayProofs`** first shows what the operators of `Arrays` compute. The places of a sorted
array map its elements one to one into 1..n, and so onto it (`InOrderIs`, `SortedIs`): each
element is there once, and none before one that is not behind it. What is kept of an array is
then known by the set of positions (`KeptIs`, `KeptWhole`). A total is the last of a sequence of
partial sums, and two such sequences that start alike and add alike agree everywhere, since
there is no first place where they differ; so totals exist, add up over parts, are linear and
not negative (`SumExists`, `TotalSplits`, `TotalIsLinear`, `TotalIsPositive`). For the form,
the invariant is its type, and with it a saved form opens as one that saves to the same case:
what was trimmed, filtered or left out is left alone the second time
(`SavedMessagesTwice`, `ReopenedAssertionIs`, `ReopenedIs`). Theorems: `FormEditorTypeCorrect`,
`SavedFormsSurviveReopening`. For the matrix, `MatrixInv` says that the report is sorted and has
one row for a key. A group is then the set of positions of its key, the groups divide the
report, the cells of a row are in one-to-one correspondence with the rows behind it
(`CellsAreFilled`), shares and means are bounded because totals are linear (`SharesBound`,
`MeanIs`), and what is counted in the rows of the matrix is what is counted in the report
(`SumsAreKept`). Theorems: `ReportIsSorted`, `MatrixIsTheReport`.

The reader's invariant `SseInv` speaks of the whole text of the body, of which a symbol is known
by its position: r symbols are read and k events framed, `body` is the rest of the text, and
`buffer` is what is kept of it at the positions that are read, belong to a later event than the
k-th, and are no "\r" - but for one at the very end of what is read, whose "\n" has not come.
Since what is kept of something kept is again kept of the text (`KeptOfKept`), and two kept
parts one after the other are kept together (`KeptJoins`), cutting and joining become statements
about sets of positions, and no induction over the text is needed. A read adds its positions
and normalising takes out the "\r" that has got its "\n" (`ReadIs`). Two "\n" next to each other
in the buffer are an empty line of the text, and the first of them ends the first event that is
not framed, all of which has been read (`BreakIsGap`, `GapIsBreak`, `NextIs`); at the end of the
body at most one event is left, the one without its empty line (`LastIs`). What these lemmas ask
of a text (`IsBody`) is proved of every body the server writes from the order of its places
(`EncodedIsLaidOut`, `LayoutIsBody`). Theorems: `ReaderSafe`, `FramesSafe`.

Model-checked only: `SettlesAfterStream` and `FollowedToTheEnd`, liveness under fairness, which
needs ENABLED. Every other property of the passing runs is proved.

## 6. What the models leave out

Not modelled, and why:

- The tool loop and structured output: sequential inside one request and bounded by
  `MAX_TOOL_TURNS`; what it sends is the server's side of `Playground`. The tool registry is
  filled again in place while a chat may look a tool up; the tools are HTTP calls or pure.
- `.env` is rewritten by one endpoint that reads and writes it in one function.
- The GGUF header scan is a byte-level parser; the context report is arithmetic on token
  counts; the Hub client only asks and passes on.
- The shell, shared components, formatting and styles have no state machine, and the schema is
  generated.

On the server:

- SQLite is taken to run each statement and each commit atomically; "database is locked"
  errors are not modelled. Counts of bytes are abstracted in `Downloads`; `DownloadEvents`
  has a small percentage instead.
- In a DELETE, `shutil.rmtree` of a snapshot removes one part after the other and succeeds in the
  end; in a clean-up it may leave any of them. The unlink of a GGUF is one step. A DELETE in `ModelCache` removes its files in one step, and downloads
  complete in one: files that are half written are the business of `Downloads`.
- Targets have disjoint paths. A repository whose GGUF files lie inside its own snapshot
  directory would break this.
- `evict_path` is modelled in `ModelCache`; `Downloads` has no caches.
- The branches `if job is None` (job rows are never deleted) and `if not files` (checked before
  the task starts) cannot be reached and are left out.
- A client that disconnects ends its chat before or after a load: a thread that loads is not
  interrupted. Two chats may stream from one model object at once
  (`llama_cpp_backend.py:300`), and what llama.cpp then does is outside the source.
- `_mark_used` reads the path again by id after its commit, as in the code. That the row may
  by then belong to another model is modelled, and no property claims otherwise. Which record a
  model id with several candidates resolves to is not modelled.
- Read-only endpoints, heartbeats of the streams (they carry no state), the numbers of a
  metric row and the texts of errors are left out. A second client of the progress stream
  shares nothing with the first but the table.
- In `EvalRuns`, closing the backends at the end of a run is taken to succeed; if it raised,
  the run would stay "running" until the next start. An answer and its assertions are
  one outcome, the averages and reliability shares of a report row are left out (`EvalMatrix`
  takes any), and `created_at` is taken to follow the ids.
- A stream whose generator never starts (the client went away first) stores nothing, and is
  not modelled apart.
- The list of cases is read in one step; `load_cases` can fail when a file is rewritten or
  removed under it. All cases are of one category.

In the client:

- `DownloadPages`: one page is mounted (the job map is lost with it), the list is read in one
  step. Between the answer to a POST and the first event the download button is enabled again;
  the server's 409 protects it. `PagesTellTheTruth` excludes jobs that ended during a reconnect
  (the finding above) and models whose DELETE was done without an answer (`list.unheard`), and
  allows either control between the record's commit and the job's.
- `EndedPageIsComplete` speaks of a page that has seen its run running. A page that reads the
  results before the last case and the status after it never fetches them again by itself
  (`wasRunning` is false until a status says "running"); the fetch a browser adds when the
  window gets the focus, which hides this, is not modelled.
- `EvalReview`: the prompt of a case, notes and the other panels are left out; two identical
  PATCHes under way are one. Two saves of one row may overtake each other: `VerdictsAreShown`
  says that the page then shows what the server stored, which may be the older verdict.
- `EvalClient`: the fields of the run form. `FinishedRunIsReported` excludes a page whose last
  request for the report was given an answer the server had read before (`report.joined`), and
  one whose last request failed, which shows an error.
- `ModelPicker`: that the model sent is of the backend it is sent to is claimed of the local
  backends only. The HF API takes any text, and a switch to it leaves the id as it is.
- `DatasetEditor`: going back in the browser's history, leaving the page, and a case whose id is
  "new", which cannot be opened.
- `Radar`: the machine's memory is known, a filter is the set of models its text matches, a
  report may be asked for again at any time, wording is left out.
- `SseStream`: decoding of UTF-8 over chunk boundaries (the browser's `TextDecoder`); aborts are
  in `Playground`.

## 7. Plan

Written: all modules of section 2. To come: the registry's resolution of a model id against the
list of ids the client is given, and the tool loop with the reload of its registry.
