------------------------------ MODULE ModelCache ------------------------------
(***************************************************************************)
(* The one-model caches of the local backends, the registry that binds a   *)
(* chat to a downloaded file, and the DELETE that takes a file away under  *)
(* them (inference/model_cache.py, inference/registry.py, the _get_llama / *)
(* _get_model step of the two local backends, downloads/router.py).        *)
(*                                                                         *)
(* A chat resolves its model in a thread of the pool and loads it in       *)
(* another one (to_thread), deletes run in the pool too: they interleave   *)
(* freely outside the lock of a cache.  What happens while a lock is held  *)
(* is one step, except that loading and dropping a model take a while.  A  *)
(* thread that loads is not interrupted, so a client that disconnects ends *)
(* its chat before or after the load (EndChat).                            *)
(***************************************************************************)
EXTENDS Naturals, FiniteSets

CONSTANTS
  Paths,        \* local_path of a model file or snapshot directory
  Snapshots,    \* the paths that are snapshot directories
  Chats,        \* threads running a chat, an eval case or a judge
  Deletes,      \* threads serving DELETE /models/downloaded/{id}
  MaxRecords,   \* bound: ids of downloaded_models rows
  MaxDownloads, \* bound: how many downloads complete
  MaxLoads,     \* bound: how often a model is loaded into memory
  Nothing       \* no path, model or thread: Python's None

ASSUME ModelCacheAssumption ==
  /\ Snapshots \subseteq Paths
  /\ Nothing \notin Paths \union Chats \union Deletes
  /\ Chats \intersect Deletes = {}
  /\ MaxRecords \in Nat \ {0} /\ MaxDownloads \in Nat \ {0} /\ MaxLoads \in Nat \ {0}

Backends == {"gguf", "transformers"}    \* one LoadedModelCache each
BackendOf(p) == IF p \in Snapshots THEN "transformers" ELSE "gguf"

RecordIds == 1..MaxRecords
Loads     == 1..MaxLoads    \* every loading makes a model object of its own; 0 is no model
Downloads == 0..MaxDownloads \* the completed downloads, numbered; 0: no file

VARIABLES
  record,     \* downloaded_models: the local_path of each row, or Nothing
  downloads,  \* how many downloads have completed
  disk,       \* disk[p]: the download whose file is at path p
  loads,      \* how many models have been loaded so far
  source,     \* source[n]: the path model n was read from, and the download
  late,       \* ghost: the models no DELETE will unload: read when the DELETE had already
              \* looked for them, or bereft of their record by the DELETE of another model
  path,       \* LoadedModelCache._path of each backend
  model,      \* LoadedModelCache._model of each backend
  dropping,   \* the local variable `model` of _drop: on_evict is running on it
  lock,       \* LoadedModelCache._lock: the thread that holds it
  chat,       \* the chat threads
  deletion    \* the DELETE threads

diskVars  == <<record, downloads, disk>>
loadVars  == <<loads, source, late>>
cacheVars == <<path, model, dropping, lock>>
modelVars == <<diskVars, loadVars, cacheVars, chat, deletion>>

Chat == [pc : {"idle", "found", "resolved", "dropping", "loading", "streaming"},
         row : RecordIds \union {0}, path : Paths \union {Nothing}, model : Loads \union {0}]

Deletion == [pc : {"idle", "evicting", "dropping", "removed"},
             row : RecordIds \union {0}, path : Paths \union {Nothing},
             left : SUBSET Backends]

CacheTypeOK ==
  /\ record \in [RecordIds -> Paths \union {Nothing}]
  /\ downloads \in Downloads /\ disk \in [Paths -> Downloads]
  /\ loads \in 0..MaxLoads
  /\ source \in [Loads -> [path : Paths \union {Nothing}, file : Downloads]]
  /\ late \in SUBSET Loads
  /\ path \in [Backends -> Paths \union {Nothing}]
  /\ model \in [Backends -> Loads \union {0}] /\ dropping \in [Backends -> Loads \union {0}]
  /\ lock \in [Backends -> Chats \union Deletes \union {Nothing}]
  /\ chat \in [Chats -> Chat]
  /\ deletion \in [Deletes -> Deletion]
  /\ \A c \in Chats : chat[c].pc \notin {"idle", "found"} => chat[c].path \in Paths

NoChat     == [pc |-> "idle", row |-> 0, path |-> Nothing, model |-> 0]
NoDeletion == [pc |-> "idle", row |-> 0, path |-> Nothing, left |-> {}]

CacheInit ==
  /\ record = [r \in RecordIds |-> Nothing]
  /\ downloads = 0 /\ disk = [p \in Paths |-> 0]
  /\ loads = 0 /\ source = [n \in Loads |-> [path |-> Nothing, file |-> 0]] /\ late = {}
  /\ path = [b \in Backends |-> Nothing]
  /\ model = [b \in Backends |-> 0] /\ dropping = [b \in Backends |-> 0]
  /\ lock = [b \in Backends |-> Nothing]
  /\ chat = [c \in Chats |-> NoChat]
  /\ deletion = [d \in Deletes |-> NoDeletion]

-----------------------------------------------------------------------------
\* A download completes (Downloads.tla): the file is whole and its record, with
\* the id SQLite gives it, is committed.  A path that has a record is refused.
Publish(p) ==
  /\ \A r \in RecordIds : record[r] # p
  /\ downloads < MaxDownloads
  /\ downloads' = downloads + 1
  /\ disk' = [disk EXCEPT ![p] = downloads + 1]
  /\ \E r \in RecordIds :
       /\ \A q \in RecordIds : q >= r => record[q] = Nothing
       /\ \A q \in RecordIds : q + 1 = r => record[q] # Nothing
       /\ record' = [record EXCEPT ![r] = p]
  /\ UNCHANGED <<loadVars, cacheVars, chat, deletion>>

-----------------------------------------------------------------------------
\* The registry: get_backend resolves the model a chat names.

\* The query of _resolve_gguf_path or _resolve_snapshot_dir found the row.
FindRecord(c, r) ==
  /\ chat[c].pc = "idle" /\ record[r] # Nothing
  /\ chat' = [chat EXCEPT ![c] = [NoChat EXCEPT !.pc = "found", !.row = r]]
  /\ UNCHANGED <<diskVars, loadVars, cacheVars, deletion>>

\* _mark_used updates the row in a session of its own.  The commit expires the
\* object, so local_path is read again by id: it is the path the row has now.
\* With no such row the update fails and so does the request.
MarkUsed(c) ==
  LET p == record[chat[c].row] IN
  /\ chat[c].pc = "found"
  /\ chat' = [chat EXCEPT ![c] = IF p = Nothing THEN NoChat
                                 ELSE [@ EXCEPT !.pc = "resolved", !.path = p]]
  /\ UNCHANGED <<diskVars, loadVars, cacheVars, deletion>>

-----------------------------------------------------------------------------
\* LoadedModelCache.

\* Mutant: the path outlives the model.
ForgetModelOnly(b) ==
  /\ model' = [model EXCEPT ![b] = 0]
  /\ dropping' = [dropping EXCEPT ![b] = model[b]]
  /\ UNCHANGED path

\* _drop forgets the model, then runs on_evict while its own variable and every
\* stream in flight still refer to it.
Forget(b) ==
  /\ path' = [path EXCEPT ![b] = Nothing]
  /\ model' = [model EXCEPT ![b] = 0]
  /\ dropping' = [dropping EXCEPT ![b] = model[b]]

\* get_or_load takes the lock and finds the path loaded.
Hit(c) ==
  LET b == BackendOf(chat[c].path) IN
  /\ chat[c].pc = "resolved" /\ lock[b] = Nothing
  /\ path[b] = chat[c].path
  /\ chat' = [chat EXCEPT ![c] = [@ EXCEPT !.pc = "streaming", !.model = model[b]]]
  /\ UNCHANGED <<diskVars, loadVars, cacheVars, deletion>>

\* Mutant: the new model is loaded first and takes the place of the old one.
MissKeepsModel(c) ==
  LET b == BackendOf(chat[c].path) IN
  /\ chat[c].pc = "resolved" /\ lock[b] = Nothing
  /\ path[b] # chat[c].path
  /\ lock' = [lock EXCEPT ![b] = c]
  /\ chat' = [chat EXCEPT ![c].pc = "loading"]
  /\ UNCHANGED <<diskVars, loadVars, path, model, dropping, deletion>>

\* Mutant: the lock is not taken, as if a load were a quick assignment.
MissUnlocked(c) ==
  LET b == BackendOf(chat[c].path) IN
  /\ chat[c].pc = "resolved"
  /\ path[b] # chat[c].path
  /\ Forget(b)
  /\ chat' = [chat EXCEPT ![c].pc = IF model[b] = 0 THEN "loading" ELSE "dropping"]
  /\ UNCHANGED <<diskVars, loadVars, lock, deletion>>

\* Another path or none: whatever is loaded is dropped before the load.
Miss(c) ==
  LET b == BackendOf(chat[c].path) IN
  /\ chat[c].pc = "resolved" /\ lock[b] = Nothing
  /\ path[b] # chat[c].path
  /\ lock' = [lock EXCEPT ![b] = c]
  /\ Forget(b)
  /\ chat' = [chat EXCEPT ![c].pc = IF model[b] = 0 THEN "loading" ELSE "dropping"]
  /\ UNCHANGED <<diskVars, loadVars, deletion>>

\* on_evict has returned.
Dropped(c) ==
  /\ chat[c].pc = "dropping"
  /\ dropping' = [dropping EXCEPT ![BackendOf(chat[c].path)] = 0]
  /\ chat' = [chat EXCEPT ![c].pc = "loading"]
  /\ UNCHANGED <<diskVars, loadVars, path, model, lock, deletion>>

\* A DELETE of p that has been past its look at the cache of p.
Evicted(p) ==
  \E d \in Deletes : /\ deletion[d].path = p /\ deletion[d].pc # "idle"
                     /\ BackendOf(p) \notin deletion[d].left

Load(c) ==
  LET p == chat[c].path
      b == BackendOf(p)
      n == loads + 1
  IN
  /\ chat[c].pc = "loading"
  /\ disk[p] # 0 /\ n \in Loads
  /\ loads' = n
  /\ source' = [source EXCEPT ![n] = [path |-> p, file |-> disk[p]]]
  /\ late' = IF Evicted(p) \/ \A r \in RecordIds : record[r] # p THEN late \union {n} ELSE late
  /\ path' = [path EXCEPT ![b] = p] /\ model' = [model EXCEPT ![b] = n]
  /\ lock' = [lock EXCEPT ![b] = Nothing]
  /\ chat' = [chat EXCEPT ![c] = [@ EXCEPT !.pc = "streaming", !.model = n]]
  /\ UNCHANGED <<diskVars, dropping, deletion>>

\* Mutant: the path is stored ahead of the model it stands for.
LoadFailsWithPathSet(c) ==
  /\ chat[c].pc = "loading"
  /\ path' = [path EXCEPT ![BackendOf(chat[c].path)] = chat[c].path]
  /\ lock' = [lock EXCEPT ![BackendOf(chat[c].path)] = Nothing]
  /\ chat' = [chat EXCEPT ![c] = NoChat]
  /\ UNCHANGED <<diskVars, loadVars, model, dropping, deletion>>

\* The file is gone, unreadable or too big: the lock is released by the with
\* statement and the chat ends with an error chunk.
LoadFails(c) ==
  /\ chat[c].pc = "loading"
  /\ lock' = [lock EXCEPT ![BackendOf(chat[c].path)] = Nothing]
  /\ chat' = [chat EXCEPT ![c] = NoChat]
  /\ UNCHANGED <<diskVars, loadVars, path, model, dropping, deletion>>

\* The stream is over or the client has gone.
EndChat(c) ==
  /\ chat[c].pc \in {"resolved", "streaming"}
  /\ chat' = [chat EXCEPT ![c] = NoChat]
  /\ UNCHANGED <<diskVars, loadVars, cacheVars, deletion>>

-----------------------------------------------------------------------------
\* delete_downloaded: evict_path, then the files, then the row.

GetRecord(d, r) ==
  /\ deletion[d].pc = "idle" /\ record[r] # Nothing
  /\ deletion' = [deletion EXCEPT ![d] =
                    [pc |-> "evicting", row |-> r, path |-> record[r], left |-> Backends]]
  /\ UNCHANGED <<diskVars, loadVars, cacheVars, chat>>

\* evict(path) of one cache, which drops the model only if it is this path's.
Evict(d, b) ==
  /\ deletion[d].pc = "evicting" /\ b \in deletion[d].left /\ lock[b] = Nothing
  /\ IF path[b] = deletion[d].path
     THEN /\ Forget(b)
          /\ lock' = [lock EXCEPT ![b] = d]
          /\ deletion' = [deletion EXCEPT ![d].pc = "dropping"]
     ELSE /\ deletion' = [deletion EXCEPT ![d].left = @ \ {b}]
          /\ UNCHANGED cacheVars
  /\ UNCHANGED <<diskVars, loadVars, chat>>

EvictDone(d, b) ==
  /\ deletion[d].pc = "dropping" /\ lock[b] = d
  /\ dropping' = [dropping EXCEPT ![b] = 0]
  /\ lock' = [lock EXCEPT ![b] = Nothing]
  /\ deletion' = [deletion EXCEPT ![d] = [@ EXCEPT !.pc = "evicting",
                                                !.left = deletion[d].left \ {b}]]
  /\ UNCHANGED <<diskVars, loadVars, path, model, chat>>

\* Mutant: the files go as soon as one cache has been looked at.
RemoveFilesEarly(d) ==
  /\ deletion[d].pc = "evicting" /\ deletion[d].left # Backends
  /\ disk' = [disk EXCEPT ![deletion[d].path] = 0]
  /\ deletion' = [deletion EXCEPT ![d].pc = "removed"]
  /\ UNCHANGED <<record, downloads, loadVars, cacheVars, chat>>

RemoveFiles(d) ==
  /\ deletion[d].pc = "evicting" /\ deletion[d].left = {}
  /\ disk' = [disk EXCEPT ![deletion[d].path] = 0]
  /\ deletion' = [deletion EXCEPT ![d].pc = "removed"]
  /\ UNCHANGED <<record, downloads, loadVars, cacheVars, chat>>

\* The row goes by its id, whatever model it stands for by now.
DeleteRow(d) ==
  LET r == deletion[d].row IN
  /\ deletion[d].pc = "removed"
  /\ record' = [record EXCEPT ![r] = Nothing]
  /\ late' = late \union {n \in Loads : source[n].path = record[r] /\ record[r] # deletion[d].path}
  /\ deletion' = [deletion EXCEPT ![d] = NoDeletion]
  /\ UNCHANGED <<downloads, disk, loads, source, cacheVars, chat>>

ChatStep(c) ==
  \/ \E r \in RecordIds : FindRecord(c, r)
  \/ MarkUsed(c) \/ Hit(c) \/ Miss(c) \/ Dropped(c) \/ Load(c) \/ LoadFails(c) \/ EndChat(c)

DeleteStep(d) ==
  \/ \E r \in RecordIds : GetRecord(d, r)
  \/ \E b \in Backends : Evict(d, b) \/ EvictDone(d, b)
  \/ RemoveFiles(d) \/ DeleteRow(d)

CacheNext ==
  \/ \E p \in Paths : Publish(p)
  \/ \E c \in Chats : ChatStep(c)
  \/ \E d \in Deletes : DeleteStep(d)

CacheSpec == CacheInit /\ [][CacheNext]_modelVars

-----------------------------------------------------------------------------
(***************************************************************************)
(* Properties.                                                             *)
(***************************************************************************)

\* The model a cache holds, and the model a chat was given, was read from the path
\* that was asked for -- also when loads fail and threads switch models.
NoMixUp ==
  /\ \A b \in Backends : path[b] # Nothing =>
       model[b] # 0 /\ source[model[b]].path = path[b] /\ BackendOf(path[b]) = b
  /\ \A c \in Chats : chat[c].pc = "streaming" =>
       chat[c].model # 0 /\ source[chat[c].model].path = chat[c].path

\* A model is loaded only when the memory of its backend holds no other one, but
\* for those that chats are still streaming from.
RoomBeforeLoading ==
  \A c \in Chats : chat[c].pc = "loading" =>
    LET b == BackendOf(chat[c].path) IN model[b] = 0 /\ dropping[b] = 0

\* A cached model is the file that is at its path now: it never survives the
\* removal or replacement of the file, unless it was read when a DELETE of the
\* path had already looked at the cache, or has lost its record to another DELETE.
FreshUnlessLate ==
  \A b \in Backends : model[b] # 0 /\ model[b] \notin late =>
    source[model[b]] = [path |-> path[b], file |-> disk[path[b]]]

\* Every model that leaves a cache is handed to on_evict, one at a time: none is
\* replaced or lost by two threads at work on one cache.
EveryModelIsDropped ==
  [][\A b \in Backends :
       /\ model[b] # 0 /\ model'[b] # model[b] => dropping'[b] = model[b]
       /\ dropping[b] # 0 /\ dropping'[b] # dropping[b] => dropping'[b] = 0]_modelVars

\* The lock of a cache is taken exactly as long as one thread is dropping or
\* loading a model in it: no failed load leaves it behind.
AtWork(t, b) ==
  \/ t \in Chats /\ chat[t].pc \in {"dropping", "loading"} /\ BackendOf(chat[t].path) = b
  \/ t \in Deletes /\ deletion[t].pc = "dropping" /\ BackendOf(deletion[t].path) = b

LockIsTheWorkers ==
  \A b \in Backends, t \in Chats \union Deletes : lock[b] = t <=> AtWork(t, b)

\* The inductive invariant behind the properties above.

\* A thread in the middle of a request knows its row and its path, and a DELETE has
\* looked at both caches before it removes files.
ThreadsKnow ==
  /\ \A c \in Chats : chat[c].pc = "found" => chat[c].row \in RecordIds
  /\ \A d \in Deletes : deletion[d].pc # "idle" =>
       deletion[d].row \in RecordIds /\ deletion[d].path \in Paths
  /\ \A d \in Deletes : deletion[d].pc = "removed" => deletion[d].left = {}

\* While a thread is at work in a cache there is no model in it, and on_evict runs
\* only while a thread is at work.
EmptyWhileAtWork ==
  \A b \in Backends :
    /\ lock[b] # Nothing => path[b] = Nothing /\ model[b] = 0
    /\ dropping[b] # 0 => lock[b] # Nothing
    /\ path[b] = Nothing => model[b] = 0

\* Models are numbered in the order in which they were loaded.
LoadedSoFar ==
  /\ \A b \in Backends : model[b] <= loads
  /\ \A c \in Chats : chat[c].model <= loads

\* What a DELETE has looked for is not in the cache, except for late arrivals.
EvictedIsGone ==
  \A b \in Backends : path[b] # Nothing /\ model[b] \notin late =>
    ~ Evicted(path[b]) /\ \E r \in RecordIds : record[r] = path[b]

CacheInv ==
  /\ NoMixUp /\ RoomBeforeLoading /\ FreshUnlessLate /\ LockIsTheWorkers
  /\ ThreadsKnow /\ EmptyWhileAtWork /\ LoadedSoFar /\ EvictedIsGone

\* What the documents say of a DELETE: the deleted model is unloaded.
DeletedModelUnloaded ==
  \A b \in Backends : path[b] # Nothing =>
    \/ \E r \in RecordIds : record[r] = path[b]
    \/ \E d \in Deletes : deletion[d].path = path[b]
=============================================================================
