--------------------------- MODULE ModelCacheProofs ---------------------------
(***************************************************************************)
(* Proofs about ModelCache: its types, the inductive invariant CacheInv    *)
(* with the safety properties it contains, and that every model dropped    *)
(* from a cache is handed to on_evict.                                     *)
(***************************************************************************)
EXTENDS ModelCache, TLAPS

\* The two backends differ, and every path has one of them.
LEMMA BackendTypes == \A p : BackendOf(p) \in Backends
  BY DEF BackendOf, Backends

\* The initial state has the declared types.
LEMMA InitType == CacheInit => CacheTypeOK
  BY ModelCacheAssumption DEF CacheInit, CacheTypeOK, NoChat, NoDeletion, RecordIds, Loads, Downloads, Backends,
     Chat, Deletion

-----------------------------------------------------------------------------
(***************************************************************************)
(* What each step does to the thread that takes it.                        *)
(***************************************************************************)

\* The chat threads after a step of c, which is at pc now, with path p and model n.
ChatNow(c, pc, p, n) ==
  /\ chat' \in [Chats -> Chat]
  /\ \A e \in Chats : e # c => chat'[e] = chat[e]
  /\ chat'[c].pc = pc /\ chat'[c].path = p /\ chat'[c].model = n

\* Writing the record w of a chat.
LEMMA ChatWrite ==
  ASSUME CacheTypeOK, NEW c \in Chats, NEW w \in Chat, chat' = [chat EXCEPT ![c] = w]
  PROVE  ChatNow(c, w.pc, w.path, w.model) /\ chat'[c] = w
  BY DEF CacheTypeOK, ChatNow

\* The record of a chat that has ended.
LEMMA NoChatFields == NoChat \in Chat /\ NoChat.pc = "idle" /\ NoChat.path = Nothing /\ NoChat.model = 0
  BY DEF NoChat, Chat

\* The query of the registry.
LEMMA FindRecordMoves ==
  ASSUME CacheTypeOK, NEW c \in Chats, NEW r \in RecordIds, FindRecord(c, r)
  PROVE  ChatNow(c, "found", Nothing, 0) /\ chat'[c].row \in RecordIds
<1> DEFINE v == [NoChat EXCEPT !.pc = "found", !.row = r]
<1>1. chat[c] \in Chat
  BY DEF CacheTypeOK
<1>2. v \in Chat /\ v.pc = "found" /\ v.row = r /\ v.path = Nothing /\ v.model = 0
  BY <1>1 DEF Chat, NoChat
<1>3. chat' = [chat EXCEPT ![c] = v]
  BY DEF FindRecord
<1> HIDE DEF v
<1> QED BY <1>2, <1>3, ChatWrite

\* Stamping the record: the chat has a path now, or has ended.
LEMMA MarkUsedMoves ==
  ASSUME CacheTypeOK, ThreadsKnow, NEW c \in Chats, MarkUsed(c)
  PROVE  \/ ChatNow(c, "idle", Nothing, 0)
         \/ \E p \in Paths : ChatNow(c, "resolved", p, chat[c].model)
<1> DEFINE p == record[chat[c].row]
           v == [chat[c] EXCEPT !.pc = "resolved", !.path = p]
<1>1. chat[c] \in Chat /\ p \in Paths \union {Nothing}
  BY DEF CacheTypeOK, ThreadsKnow, MarkUsed
<1>2. CASE p = Nothing
  <2>1. chat' = [chat EXCEPT ![c] = NoChat]
    BY <1>2 DEF MarkUsed
  <2> QED BY <2>1, ChatWrite, NoChatFields
<1>3. CASE p # Nothing
  <2>1. chat' = [chat EXCEPT ![c] = v]
    BY <1>3 DEF MarkUsed
  <2>2. p \in Paths
    BY <1>1, <1>3
  <2>3. v \in Chat /\ v.pc = "resolved" /\ v.path = p /\ v.model = chat[c].model
    BY <1>1, <2>2 DEF Chat
  <2>4. ChatNow(c, v.pc, v.path, v.model)
    BY <2>1, <2>3, ChatWrite
  <2> QED BY <2>2, <2>3, <2>4
<1> QED BY <1>2, <1>3

\* Finding the model in the cache.
LEMMA HitMoves ==
  ASSUME CacheTypeOK, NEW c \in Chats, Hit(c)
  PROVE  ChatNow(c, "streaming", chat[c].path, model[BackendOf(chat[c].path)])
<1> DEFINE n == model[BackendOf(chat[c].path)]
           v == [chat[c] EXCEPT !.pc = "streaming", !.model = n]
<1>1. chat[c] \in Chat /\ n \in Loads \union {0}
  BY BackendTypes DEF CacheTypeOK
<1>2. v \in Chat /\ v.pc = "streaming" /\ v.path = chat[c].path /\ v.model = n
  BY <1>1 DEF Chat
<1>3. chat' = [chat EXCEPT ![c] = v]
  BY DEF Hit
<1> HIDE DEF v
<1> QED BY <1>2, <1>3, ChatWrite

\* Missing it.
LEMMA MissMoves ==
  ASSUME CacheTypeOK, NEW c \in Chats, Miss(c)
  PROVE  ChatNow(c, IF model[BackendOf(chat[c].path)] = 0 THEN "loading" ELSE "dropping",
                 chat[c].path, chat[c].model)
<1> DEFINE q == IF model[BackendOf(chat[c].path)] = 0 THEN "loading" ELSE "dropping"
           v == [chat[c] EXCEPT !.pc = q]
<1>1. chat[c] \in Chat /\ q \in {"dropping", "loading"}
  BY DEF CacheTypeOK
<1>2. chat' = [chat EXCEPT ![c] = v]
  BY DEF Miss
<1> HIDE DEF q
<1>3. v \in Chat /\ v.pc = q /\ v.path = chat[c].path /\ v.model = chat[c].model
  BY <1>1 DEF Chat
<1> HIDE DEF v
<1>4. ChatNow(c, q, chat[c].path, chat[c].model)
  BY <1>2, <1>3, ChatWrite
<1> QED BY <1>4 DEF q

\* The old model has been dropped.
LEMMA DroppedMoves ==
  ASSUME CacheTypeOK, NEW c \in Chats, Dropped(c)
  PROVE  ChatNow(c, "loading", chat[c].path, chat[c].model)
<1> DEFINE v == [chat[c] EXCEPT !.pc = "loading"]
<1>1. chat[c] \in Chat
  BY DEF CacheTypeOK
<1>2. v \in Chat /\ v.pc = "loading" /\ v.path = chat[c].path /\ v.model = chat[c].model
  BY <1>1 DEF Chat, NoChat
<1>3. chat' = [chat EXCEPT ![c] = v]
  BY DEF Dropped
<1> HIDE DEF v
<1> QED BY <1>2, <1>3, ChatWrite

\* The new model has been loaded.
LEMMA LoadMoves ==
  ASSUME CacheTypeOK, NEW c \in Chats, Load(c)
  PROVE  ChatNow(c, "streaming", chat[c].path, loads + 1)
<1> DEFINE v == [chat[c] EXCEPT !.pc = "streaming", !.model = loads + 1]
<1>1. chat[c] \in Chat /\ loads + 1 \in Loads
  BY DEF CacheTypeOK, Load
<1>2. v \in Chat /\ v.pc = "streaming" /\ v.path = chat[c].path /\ v.model = loads + 1
  BY <1>1 DEF Chat
<1>3. chat' = [chat EXCEPT ![c] = v]
  BY DEF Load
<1> HIDE DEF v
<1> QED BY <1>2, <1>3, ChatWrite

\* The load failed, or the chat is over.
LEMMA EndMoves ==
  ASSUME CacheTypeOK, NEW c \in Chats, LoadFails(c) \/ EndChat(c)
  PROVE  ChatNow(c, "idle", Nothing, 0)
<1>1. chat' = [chat EXCEPT ![c] = NoChat]
  BY DEF LoadFails, EndChat
<1> QED BY <1>1, ChatWrite, NoChatFields

\* The DELETE threads after a step of d, which is at pc now, with path p and caches
\* bs left to look at.
DeletionNow(d, pc, p, bs) ==
  /\ deletion' \in [Deletes -> Deletion]
  /\ \A e \in Deletes : e # d => deletion'[e] = deletion[e]
  /\ deletion'[d].pc = pc /\ deletion'[d].path = p /\ deletion'[d].left = bs

\* Writing the record w of a DELETE.
LEMMA DeletionWrite ==
  ASSUME CacheTypeOK, NEW d \in Deletes, NEW w \in Deletion, deletion' = [deletion EXCEPT ![d] = w]
  PROVE  DeletionNow(d, w.pc, w.path, w.left) /\ deletion'[d] = w
  BY DEF CacheTypeOK, DeletionNow

\* A DELETE starts.
LEMMA GetRecordMoves ==
  ASSUME CacheTypeOK, NEW d \in Deletes, NEW r \in RecordIds, GetRecord(d, r)
  PROVE  /\ DeletionNow(d, "evicting", record[r], Backends)
         /\ deletion'[d].row = r /\ record[r] \in Paths
<1> DEFINE v == [pc |-> "evicting", row |-> r, path |-> record[r], left |-> Backends]
<1>1. record[r] \in Paths
  BY DEF CacheTypeOK, GetRecord
<1>2. v \in Deletion /\ v.pc = "evicting" /\ v.row = r /\ v.path = record[r] /\ v.left = Backends
  BY <1>1 DEF Deletion
<1>3. deletion' = [deletion EXCEPT ![d] = v]
  BY DEF GetRecord
<1> HIDE DEF v
<1> QED BY <1>1, <1>2, <1>3, DeletionWrite

\* It looks at one cache: the model of its path is forgotten, any other one stays.
LEMMA EvictMoves ==
  ASSUME CacheTypeOK, NEW d \in Deletes, NEW b \in Backends, Evict(d, b)
  PROVE  /\ deletion'[d].row = deletion[d].row
         /\ \/ /\ path[b] = deletion[d].path
               /\ DeletionNow(d, "dropping", deletion[d].path, deletion[d].left)
               /\ Forget(b) /\ lock' = [lock EXCEPT ![b] = d]
            \/ /\ path[b] # deletion[d].path
               /\ DeletionNow(d, "evicting", deletion[d].path, deletion[d].left \ {b})
               /\ UNCHANGED cacheVars
<1>1. deletion[d] \in Deletion /\ deletion[d].pc = "evicting"
  BY DEF CacheTypeOK, Evict
<1>2. CASE path[b] = deletion[d].path
  <2> DEFINE v == [deletion[d] EXCEPT !.pc = "dropping"]
  <2>1. deletion' = [deletion EXCEPT ![d] = v] /\ Forget(b) /\ lock' = [lock EXCEPT ![b] = d]
    BY <1>2, Zenon DEF Evict
  <2>2. v \in Deletion /\ v.pc = "dropping" /\ v.path = deletion[d].path
          /\ v.left = deletion[d].left /\ v.row = deletion[d].row
    BY <1>1 DEF Deletion
  <2> HIDE DEF v
  <2> QED BY <1>2, <2>1, <2>2, DeletionWrite
<1>3. CASE path[b] # deletion[d].path
  <2> DEFINE v == [deletion[d] EXCEPT !.left = @ \ {b}]
  <2>1. deletion' = [deletion EXCEPT ![d] = v] /\ UNCHANGED cacheVars
    BY <1>3, Zenon DEF Evict
  <2>2. v \in Deletion /\ v.pc = "evicting" /\ v.path = deletion[d].path
          /\ v.left = deletion[d].left \ {b} /\ v.row = deletion[d].row
    BY <1>1 DEF Deletion
  <2> HIDE DEF v
  <2> QED BY <1>3, <2>1, <2>2, DeletionWrite
<1> QED BY <1>2, <1>3

\* on_evict is over.
LEMMA EvictDoneMoves ==
  ASSUME CacheTypeOK, NEW d \in Deletes, NEW b \in Backends, EvictDone(d, b)
  PROVE  /\ DeletionNow(d, "evicting", deletion[d].path, deletion[d].left \ {b})
         /\ deletion'[d].row = deletion[d].row
<1> DEFINE v == [deletion[d] EXCEPT !.pc = "evicting", !.left = deletion[d].left \ {b}]
<1>1. deletion[d] \in Deletion
  BY DEF CacheTypeOK
<1>2. v \in Deletion /\ v.pc = "evicting" /\ v.path = deletion[d].path
        /\ v.left = deletion[d].left \ {b} /\ v.row = deletion[d].row
  BY <1>1 DEF Deletion
<1>3. deletion' = [deletion EXCEPT ![d] = v]
  BY DEF EvictDone
<1> HIDE DEF v
<1> QED BY <1>2, <1>3, DeletionWrite

\* The files have been removed.
LEMMA RemoveFilesMoves ==
  ASSUME CacheTypeOK, NEW d \in Deletes, RemoveFiles(d)
  PROVE  /\ DeletionNow(d, "removed", deletion[d].path, {})
         /\ deletion'[d].row = deletion[d].row
<1> DEFINE v == [deletion[d] EXCEPT !.pc = "removed"]
<1>1. deletion[d] \in Deletion /\ deletion[d].left = {}
  BY DEF CacheTypeOK, RemoveFiles
<1>2. v \in Deletion /\ v.pc = "removed" /\ v.path = deletion[d].path
        /\ v.left = {} /\ v.row = deletion[d].row
  BY <1>1 DEF Deletion
<1>3. deletion' = [deletion EXCEPT ![d] = v]
  BY DEF RemoveFiles
<1> HIDE DEF v
<1> QED BY <1>2, <1>3, DeletionWrite

\* The row has been deleted.
LEMMA DeleteRowMoves ==
  ASSUME CacheTypeOK, NEW d \in Deletes, DeleteRow(d)
  PROVE  DeletionNow(d, "idle", Nothing, {})
<1>1. NoDeletion \in Deletion /\ NoDeletion.pc = "idle" /\ NoDeletion.path = Nothing
        /\ NoDeletion.left = {}
  BY DEF Deletion, NoDeletion
<1>2. deletion' = [deletion EXCEPT ![d] = NoDeletion]
  BY DEF DeleteRow
<1> QED BY <1>1, <1>2, DeletionWrite

-----------------------------------------------------------------------------
(***************************************************************************)
(* Types.                                                                  *)
(***************************************************************************)

\* Every step of a chat keeps the types.
LEMMA ChatType ==
  ASSUME CacheTypeOK, ThreadsKnow, NEW c \in Chats, ChatStep(c)
  PROVE  CacheTypeOK'
<1> USE BackendTypes DEF CacheTypeOK, diskVars, loadVars, cacheVars
<1>1. ASSUME NEW r \in RecordIds, FindRecord(c, r) PROVE CacheTypeOK'
  BY <1>1, FindRecordMoves DEF FindRecord, ChatNow
<1>2. CASE MarkUsed(c)
  BY <1>2, MarkUsedMoves DEF MarkUsed, ChatNow
<1>3. CASE Hit(c)
  BY <1>3, HitMoves DEF Hit, ChatNow
<1>4. CASE Miss(c)
  BY <1>4, MissMoves DEF Miss, Forget, ChatNow
<1>5. CASE Dropped(c)
  BY <1>5, DroppedMoves DEF Dropped, ChatNow
<1>6. CASE Load(c)
  <2>1. /\ chat' \in [Chats -> Chat] /\ chat[c].path \in Paths
        /\ \A e \in Chats : chat'[e].pc \notin {"idle", "found"} => chat'[e].path \in Paths
    BY <1>6, LoadMoves DEF Load, ChatNow
  <2>2. loads + 1 \in Loads /\ loads' = loads + 1 /\ loads' \in 0..MaxLoads
    BY <1>6, ModelCacheAssumption DEF Load, Loads
  <2>3. source' \in [Loads -> [path : Paths \union {Nothing}, file : Downloads]]
    <3>1. [path |-> chat[c].path, file |-> disk[chat[c].path]]
            \in [path : Paths \union {Nothing}, file : Downloads]
      BY <2>1
    <3> QED BY <1>6, <2>2, <3>1 DEF Load
  <2>4. late' \in SUBSET Loads
    BY <1>6, <2>2, Zenon DEF Load
  <2>5. /\ path' \in [Backends -> Paths \union {Nothing}]
        /\ model' \in [Backends -> Loads \union {0}]
        /\ lock' \in [Backends -> Chats \union Deletes \union {Nothing}]
    BY <1>6, <2>1, <2>2 DEF Load
  <2>6. UNCHANGED <<record, downloads, disk, dropping, deletion>>
    BY <1>6 DEF Load
  <2> QED BY <2>1, <2>2, <2>3, <2>4, <2>5, <2>6
<1>7. CASE LoadFails(c)
  BY <1>7, EndMoves DEF LoadFails, ChatNow
<1>8. CASE EndChat(c)
  BY <1>8, EndMoves DEF EndChat, ChatNow
<1> QED BY <1>1, <1>2, <1>3, <1>4, <1>5, <1>6, <1>7, <1>8 DEF ChatStep

\* Every step of a DELETE keeps the types.
LEMMA DeleteType ==
  ASSUME CacheTypeOK, ThreadsKnow, NEW d \in Deletes, DeleteStep(d)
  PROVE  CacheTypeOK'
<1> USE DEF CacheTypeOK, diskVars, loadVars, cacheVars, DeletionNow
<1>1. ASSUME NEW r \in RecordIds, GetRecord(d, r) PROVE CacheTypeOK'
  BY <1>1, GetRecordMoves DEF GetRecord
<1>2. ASSUME NEW b \in Backends, Evict(d, b) PROVE CacheTypeOK'
  <2>1. UNCHANGED <<diskVars, loadVars, chat>>
    BY <1>2 DEF Evict
  <2>2. CASE Forget(b) /\ lock' = [lock EXCEPT ![b] = d]
    BY <1>2, <2>1, <2>2, EvictMoves DEF Forget
  <2>3. CASE UNCHANGED cacheVars
    BY <1>2, <2>1, <2>3, EvictMoves
  <2> QED BY <1>2, <2>2, <2>3, EvictMoves
<1>3. ASSUME NEW b \in Backends, EvictDone(d, b) PROVE CacheTypeOK'
  BY <1>3, EvictDoneMoves DEF EvictDone
<1>4. CASE RemoveFiles(d)
  <2>1. 0 \in Downloads
    BY ModelCacheAssumption DEF Downloads
  <2>2. disk' \in [Paths -> Downloads] /\ UNCHANGED <<record, downloads, loadVars, cacheVars, chat>>
    BY <1>4, <2>1 DEF RemoveFiles
  <2> QED BY <1>4, <2>2, RemoveFilesMoves
<1>5. CASE DeleteRow(d)
  BY <1>5, DeleteRowMoves DEF DeleteRow
<1> QED BY <1>1, <1>2, <1>3, <1>4, <1>5 DEF DeleteStep

\* Every step keeps the types.
LEMMA StepType ==
  ASSUME CacheTypeOK, ThreadsKnow, CacheNext
  PROVE  CacheTypeOK'
<1>1. ASSUME NEW p \in Paths, Publish(p) PROVE CacheTypeOK'
  BY <1>1, ModelCacheAssumption DEF Publish, CacheTypeOK, loadVars, cacheVars, Downloads
<1> QED BY <1>1, ChatType, DeleteType DEF CacheNext

-----------------------------------------------------------------------------
(***************************************************************************)
(* The locks.                                                              *)
(***************************************************************************)

\* The initial state satisfies the invariant.
LEMMA InitInv == CacheInit => CacheInv
  BY ModelCacheAssumption DEF CacheInit, CacheInv, NoMixUp, RoomBeforeLoading, FreshUnlessLate,
     LockIsTheWorkers, AtWork, ThreadsKnow, EmptyWhileAtWork, LoadedSoFar, EvictedIsGone,
     NoChat, NoDeletion, RecordIds, Loads

\* No thread is called Nothing, and a chat is no DELETE.
LEMMA ThreadsDiffer ==
  /\ \A t \in Chats \union Deletes : t # Nothing
  /\ \A c \in Chats : c \notin Deletes
  BY ModelCacheAssumption

\* A thread at work in a cache holds its lock, and no other thread is at work there.
LEMMA HoldsTheLock ==
  ASSUME LockIsTheWorkers, NEW t \in Chats \union Deletes, NEW b \in Backends, AtWork(t, b)
  PROVE  lock[b] = t /\ lock[b] # Nothing
  BY ThreadsDiffer DEF LockIsTheWorkers

\* A chat that drops or loads holds the lock of the cache of its model.
LEMMA ChatHolds ==
  ASSUME LockIsTheWorkers, NEW c \in Chats, chat[c].pc \in {"dropping", "loading"}
  PROVE  lock[BackendOf(chat[c].path)] = c /\ c # Nothing
<1>1. AtWork(c, BackendOf(chat[c].path))
  BY DEF AtWork
<1> QED BY <1>1, HoldsTheLock, BackendTypes

\* Taking the lock of b to work there.
LEMMA LockTaken ==
  ASSUME CacheTypeOK, LockIsTheWorkers, NEW t \in Chats \union Deletes, NEW b \in Backends,
         lock[b] = Nothing, lock' = [lock EXCEPT ![b] = t],
         \A x \in Backends : ~ AtWork(t, x),
         \A x \in Backends : AtWork(t, x)' <=> x = b,
         \A u \in Chats \union Deletes, x \in Backends : u # t => (AtWork(u, x)' <=> AtWork(u, x))
  PROVE  LockIsTheWorkers'
<1> SUFFICES ASSUME NEW x \in Backends, NEW u \in Chats \union Deletes
             PROVE  lock'[x] = u <=> AtWork(u, x)'
  BY Zenon DEF LockIsTheWorkers
<1>1. lock[x] = u <=> AtWork(u, x)
  BY DEF LockIsTheWorkers
<1>2. lock'[x] = IF x = b THEN t ELSE lock[x]
  BY DEF CacheTypeOK
<1>3. u # Nothing
  BY ThreadsDiffer
<1> QED BY <1>1, <1>2, <1>3

\* Releasing it.
LEMMA LockReleased ==
  ASSUME CacheTypeOK, LockIsTheWorkers, NEW t \in Chats \union Deletes, NEW b \in Backends,
         lock[b] = t, lock' = [lock EXCEPT ![b] = Nothing],
         \A x \in Backends : AtWork(t, x) <=> x = b,
         \A x \in Backends : ~ AtWork(t, x)',
         \A u \in Chats \union Deletes, x \in Backends : u # t => (AtWork(u, x)' <=> AtWork(u, x))
  PROVE  LockIsTheWorkers'
<1> SUFFICES ASSUME NEW x \in Backends, NEW u \in Chats \union Deletes
             PROVE  lock'[x] = u <=> AtWork(u, x)'
  BY Zenon DEF LockIsTheWorkers
<1>1. lock[x] = u <=> AtWork(u, x)
  BY DEF LockIsTheWorkers
<1>2. lock'[x] = IF x = b THEN Nothing ELSE lock[x]
  BY DEF CacheTypeOK
<1>3. u # Nothing
  BY ThreadsDiffer
<1> QED BY <1>1, <1>2, <1>3

\* Leaving it alone.
LEMMA LockKept ==
  ASSUME LockIsTheWorkers, lock' = lock,
         \A u \in Chats \union Deletes, x \in Backends : AtWork(u, x)' <=> AtWork(u, x)
  PROVE  LockIsTheWorkers'
  BY DEF LockIsTheWorkers

-----------------------------------------------------------------------------
(***************************************************************************)
(* Each step keeps the invariant.                                          *)
(***************************************************************************)

\* The conjuncts of the invariant, one by one.
LEMMA Conjuncts ==
  CacheInv <=> /\ NoMixUp /\ RoomBeforeLoading /\ FreshUnlessLate /\ LockIsTheWorkers
               /\ ThreadsKnow /\ EmptyWhileAtWork /\ LoadedSoFar /\ EvictedIsGone
  BY DEF CacheInv

\* What a cached model has besides its path: EmptyWhileAtWork and EvictedIsGone.
LEMMA CachedModel ==
  ASSUME CacheTypeOK, CacheInv, NEW b \in Backends, model[b] # 0
  PROVE  /\ path[b] \in Paths /\ path[b] # Nothing /\ model[b] \in Loads /\ model[b] <= loads
         /\ source[model[b]].path = path[b] /\ BackendOf(path[b]) = b /\ lock[b] = Nothing
         /\ model[b] \notin late =>
              ~ Evicted(path[b]) /\ \E r \in RecordIds : record[r] = path[b]
<1>1. path[b] # Nothing /\ lock[b] = Nothing /\ model[b] <= loads
  BY DEF CacheInv, EmptyWhileAtWork, LoadedSoFar
<1>2. path[b] \in Paths /\ model[b] \in Loads
  BY <1>1 DEF CacheTypeOK
<1>3. source[model[b]].path = path[b] /\ BackendOf(path[b]) = b
  BY <1>1 DEF CacheInv, NoMixUp
<1>4. model[b] \notin late => ~ Evicted(path[b]) /\ \E r \in RecordIds : record[r] = path[b]
  BY <1>1 DEF CacheInv, EvictedIsGone
<1> QED BY <1>1, <1>2, <1>3, <1>4

\* A download completes: its path had no record, so no model of it is in a cache
\* unless it is a late one.
LEMMA PublishInv ==
  ASSUME CacheTypeOK, CacheInv, NEW p \in Paths, Publish(p)
  PROVE  CacheInv'
<1>1. UNCHANGED <<loads, source, late, path, model, dropping, lock, chat, deletion>>
  BY DEF Publish, loadVars, cacheVars
<1>2. /\ \A r \in RecordIds : record[r] # p
      /\ \A q \in Paths : q # p => disk'[q] = disk[q]
      /\ \A r \in RecordIds : record[r] # Nothing => record'[r] = record[r]
  <2>1. PICK r \in RecordIds : /\ \A q \in RecordIds : q >= r => record[q] = Nothing
                              /\ record' = [record EXCEPT ![r] = p]
    BY DEF Publish
  <2>2. record[r] = Nothing
    BY <2>1 DEF RecordIds
  <2>3. \A q \in RecordIds : record[q] # Nothing => record'[q] = record[q]
    BY <2>1, <2>2 DEF CacheTypeOK
  <2> QED BY <2>3 DEF Publish, CacheTypeOK
<1>3. NoMixUp' /\ RoomBeforeLoading' /\ LockIsTheWorkers' /\ ThreadsKnow' /\ EmptyWhileAtWork' /\ LoadedSoFar'
  BY <1>1 DEF CacheInv, NoMixUp, RoomBeforeLoading, LockIsTheWorkers, AtWork, ThreadsKnow,
     EmptyWhileAtWork, LoadedSoFar
<1>4. FreshUnlessLate'
  <2> SUFFICES ASSUME NEW b \in Backends, model[b] # 0, model[b] \notin late
               PROVE  source[model[b]] = [path |-> path[b], file |-> disk'[path[b]]]
    BY <1>1 DEF FreshUnlessLate
  <2>1. path[b] # p /\ path[b] \in Paths
    BY <1>2, CachedModel
  <2> QED BY <1>2, <2>1 DEF CacheInv, FreshUnlessLate
<1>5. EvictedIsGone'
  <2> SUFFICES ASSUME NEW b \in Backends, path[b] # Nothing, model[b] \notin late
               PROVE  ~ Evicted(path[b])' /\ \E r \in RecordIds : record'[r] = path[b]
    BY <1>1 DEF EvictedIsGone, Evicted
  <2>1. ~ Evicted(path[b]) /\ \E r \in RecordIds : record[r] = path[b]
    BY DEF CacheInv, EvictedIsGone
  <2> QED BY <1>1, <1>2, <2>1 DEF Evicted
<1> QED BY <1>3, <1>4, <1>5 DEF CacheInv

\* A chat that moves without touching a cache: it was not at work and is not now.
LEMMA QuietChat ==
  ASSUME CacheTypeOK, CacheInv, NEW c \in Chats, NEW pc, NEW p, NEW n, ChatNow(c, pc, p, n),
         chat[c].pc \notin {"dropping", "loading"}, pc \notin {"dropping", "loading"},
         pc = "found" => chat'[c].row \in RecordIds,
         pc = "streaming" => n # 0 /\ source[n].path = p,
         n <= loads, UNCHANGED <<diskVars, loadVars, cacheVars, deletion>>
  PROVE  CacheInv'
<1>1. /\ UNCHANGED <<record, disk, loads, source, late, path, model, dropping, lock, deletion>>
      /\ chat'[c].pc = pc /\ chat'[c].path = p /\ chat'[c].model = n
      /\ \A e \in Chats : e # c => chat'[e] = chat[e]
  BY DEF diskVars, loadVars, cacheVars, ChatNow
<1>2. NoMixUp'
  BY <1>1 DEF CacheInv, NoMixUp
<1>3. RoomBeforeLoading'
  BY <1>1 DEF CacheInv, RoomBeforeLoading
<1>4. LockIsTheWorkers'
  <2>1. \A u \in Chats \union Deletes, x \in Backends : AtWork(u, x)' <=> AtWork(u, x)
    BY <1>1, ThreadsDiffer DEF AtWork
  <2> QED BY <1>1, <2>1, LockKept DEF CacheInv
<1>5. ThreadsKnow'
  BY <1>1 DEF CacheInv, ThreadsKnow
<1>6. FreshUnlessLate' /\ EmptyWhileAtWork' /\ EvictedIsGone'
  BY <1>1 DEF CacheInv, FreshUnlessLate, EmptyWhileAtWork, EvictedIsGone, Evicted
<1>7. LoadedSoFar'
  BY <1>1 DEF CacheInv, LoadedSoFar
<1> QED BY <1>2, <1>3, <1>4, <1>5, <1>6, <1>7 DEF CacheInv

\* The steps of the registry, a hit, and the end of a chat.
LEMMA FindRecordInv ==
  ASSUME CacheTypeOK, CacheInv, NEW c \in Chats, NEW r \in RecordIds, FindRecord(c, r)
  PROVE  CacheInv'
<1>1. chat[c].pc = "idle" /\ UNCHANGED <<diskVars, loadVars, cacheVars, deletion>>
  BY DEF FindRecord
<1>2. 0 <= loads
  BY DEF CacheTypeOK
<1> QED BY <1>1, <1>2, FindRecordMoves, QuietChat

\* Stamping the record.
LEMMA MarkUsedInv ==
  ASSUME CacheTypeOK, CacheInv, NEW c \in Chats, MarkUsed(c)
  PROVE  CacheInv'
<1>1. chat[c].pc = "found" /\ UNCHANGED <<diskVars, loadVars, cacheVars, deletion>>
  BY DEF MarkUsed
<1>2. 0 <= loads /\ chat[c].model <= loads /\ ThreadsKnow
  BY DEF CacheTypeOK, CacheInv, LoadedSoFar
<1>3. CASE ChatNow(c, "idle", Nothing, 0)
  BY <1>1, <1>2, <1>3, QuietChat
<1>4. ASSUME NEW p \in Paths, ChatNow(c, "resolved", p, chat[c].model) PROVE CacheInv'
  BY <1>1, <1>2, <1>4, QuietChat
<1> QED BY <1>2, <1>3, <1>4, MarkUsedMoves

\* Finding the model in the cache.
LEMMA HitInv ==
  ASSUME CacheTypeOK, CacheInv, NEW c \in Chats, Hit(c)
  PROVE  CacheInv'
<1> DEFINE b == BackendOf(chat[c].path)
<1>1. /\ chat[c].pc = "resolved" /\ path[b] = chat[c].path
      /\ UNCHANGED <<diskVars, loadVars, cacheVars, deletion>>
  BY DEF Hit
<1>2. b \in Backends /\ path[b] # Nothing
  BY <1>1, BackendTypes, ModelCacheAssumption DEF CacheTypeOK
<1>3. model[b] # 0 /\ source[model[b]].path = chat[c].path /\ model[b] <= loads
  BY <1>1, <1>2 DEF CacheInv, NoMixUp, LoadedSoFar
<1>4. ChatNow(c, "streaming", chat[c].path, model[b])
  BY HitMoves
<1> HIDE DEF b
<1> QED BY <1>1, <1>3, <1>4, QuietChat

\* The stream is over or the client has gone.
LEMMA EndChatInv ==
  ASSUME CacheTypeOK, CacheInv, NEW c \in Chats, EndChat(c)
  PROVE  CacheInv'
<1>1. chat[c].pc \in {"resolved", "streaming"} /\ UNCHANGED <<diskVars, loadVars, cacheVars, deletion>>
  BY DEF EndChat
<1>2. 0 <= loads
  BY DEF CacheTypeOK
<1> QED BY <1>1, <1>2, EndMoves, QuietChat

\* What forgetting the model of b, whose lock was free, leaves of the invariant,
\* whoever takes the lock.
LEMMA ForgetKeeps ==
  ASSUME CacheTypeOK, CacheInv, NEW b \in Backends, lock[b] = Nothing, Forget(b),
         UNCHANGED <<record, disk, loads, source, late>>,
         \A q \in Paths : Evicted(q)' => Evicted(q)
  PROVE  /\ path'[b] = Nothing /\ model'[b] = 0 /\ dropping'[b] = model[b]
         /\ \A x \in Backends : x # b => /\ path'[x] = path[x] /\ model'[x] = model[x]
                                         /\ dropping'[x] = dropping[x]
         /\ FreshUnlessLate' /\ EvictedIsGone'
         /\ \A x \in Backends : path'[x] # Nothing =>
              model'[x] # 0 /\ source'[model'[x]].path = path'[x] /\ BackendOf(path'[x]) = x
         /\ \A x \in Backends : model'[x] <= loads'
<1>1. /\ path'[b] = Nothing /\ model'[b] = 0 /\ dropping'[b] = model[b]
      /\ \A x \in Backends : x # b => /\ path'[x] = path[x] /\ model'[x] = model[x]
                                      /\ dropping'[x] = dropping[x]
  BY DEF Forget, CacheTypeOK
<1>2. FreshUnlessLate'
  BY <1>1 DEF CacheInv, FreshUnlessLate
<1>3. EvictedIsGone'
  <2> SUFFICES ASSUME NEW x \in Backends, NEW q, q = path'[x], q # Nothing, model'[x] \notin late
               PROVE  ~ Evicted(q)' /\ \E r \in RecordIds : record[r] = q
    BY DEF EvictedIsGone, Evicted
  <2>1. x # b /\ path[x] = q /\ model[x] \notin late /\ q \in Paths
    BY <1>1 DEF CacheTypeOK
  <2> QED BY <2>1 DEF CacheInv, EvictedIsGone
<1>4. \A x \in Backends : path'[x] # Nothing =>
        model'[x] # 0 /\ source'[model'[x]].path = path'[x] /\ BackendOf(path'[x]) = x
  BY <1>1 DEF CacheInv, NoMixUp
<1>5. \A x \in Backends : model'[x] <= loads'
  BY <1>1 DEF CacheInv, LoadedSoFar, CacheTypeOK
<1> QED BY <1>1, <1>2, <1>3, <1>4, <1>5

\* A miss takes the lock and empties the cache.
LEMMA MissInv ==
  ASSUME CacheTypeOK, CacheInv, NEW c \in Chats, Miss(c)
  PROVE  CacheInv'
<1> DEFINE b == BackendOf(chat[c].path)
           q == IF model[b] = 0 THEN "loading" ELSE "dropping"
<1>1. /\ chat[c].pc = "resolved" /\ lock[b] = Nothing /\ lock' = [lock EXCEPT ![b] = c] /\ Forget(b)
      /\ UNCHANGED <<record, disk, loads, source, late, deletion>>
  BY DEF Miss, diskVars, loadVars
<1>2. b \in Backends
  BY BackendTypes
<1>3. /\ chat'[c].pc = q /\ chat'[c].path = chat[c].path /\ chat'[c].model = chat[c].model
      /\ \A e \in Chats : e # c => chat'[e] = chat[e]
  BY MissMoves DEF ChatNow
<1>4. q \in {"loading", "dropping"} /\ (q = "loading" => model[b] = 0)
  OBVIOUS
<1>b. BackendOf(chat'[c].path) = b
  BY <1>3
<1> HIDE DEF b, q
<1>5. \A p \in Paths : Evicted(p)' <=> Evicted(p)
  BY <1>1 DEF Evicted
<1>6. /\ path'[b] = Nothing /\ model'[b] = 0 /\ dropping'[b] = model[b]
      /\ \A x \in Backends : x # b => /\ path'[x] = path[x] /\ model'[x] = model[x]
                                      /\ dropping'[x] = dropping[x]
      /\ FreshUnlessLate' /\ EvictedIsGone'
      /\ \A x \in Backends : path'[x] # Nothing =>
           model'[x] # 0 /\ source'[model'[x]].path = path'[x] /\ BackendOf(path'[x]) = x
      /\ \A x \in Backends : model'[x] <= loads'
  BY <1>1, <1>2, <1>5, ForgetKeeps
<1>7. NoMixUp'
  BY <1>1, <1>3, <1>4, <1>6 DEF CacheInv, NoMixUp
<1>8. RoomBeforeLoading'
  <2> SUFFICES ASSUME NEW e \in Chats, chat'[e].pc = "loading"
               PROVE  model'[BackendOf(chat'[e].path)] = 0 /\ dropping'[BackendOf(chat'[e].path)] = 0
    BY DEF RoomBeforeLoading
  <2>1. CASE e = c
    BY <1>3, <1>4, <1>6, <1>b, <2>1
  <2>2. CASE e # c
    <3>1. chat'[e] = chat[e] /\ BackendOf(chat[e].path) # b
      BY <1>1, <1>3, <2>2, ChatHolds DEF CacheInv
    <3> QED BY <1>6, <3>1, BackendTypes DEF CacheInv, RoomBeforeLoading
  <2> QED BY <2>1, <2>2
<1>9. LockIsTheWorkers'
  <2>1. \A x \in Backends : ~ AtWork(c, x)
    BY <1>1, ThreadsDiffer DEF AtWork
  <2>2. \A x \in Backends : AtWork(c, x)' <=> x = b
    BY <1>3, <1>4, <1>b, ThreadsDiffer DEF AtWork
  <2>3. \A u \in Chats \union Deletes, x \in Backends : u # c => (AtWork(u, x)' <=> AtWork(u, x))
    BY <1>1, <1>3 DEF AtWork
  <2> QED BY <1>1, <1>2, <2>1, <2>2, <2>3, LockTaken DEF CacheInv
<1>10. ThreadsKnow'
  BY <1>1, <1>3, <1>4 DEF CacheInv, ThreadsKnow
<1>11. EmptyWhileAtWork'
  <2>1. lock'[b] = c /\ c # Nothing /\ \A x \in Backends : x # b => lock'[x] = lock[x]
    BY <1>1, <1>2, ThreadsDiffer DEF CacheTypeOK
  <2> QED BY <1>6, <2>1 DEF CacheInv, EmptyWhileAtWork
<1>12. LoadedSoFar'
  BY <1>1, <1>3, <1>6 DEF CacheInv, LoadedSoFar
<1> QED BY <1>6, <1>7, <1>8, <1>9, <1>10, <1>11, <1>12 DEF CacheInv

\* on_evict returns and the load begins, in an empty cache.
LEMMA DroppedInv ==
  ASSUME CacheTypeOK, CacheInv, NEW c \in Chats, Dropped(c)
  PROVE  CacheInv'
<1> DEFINE b == BackendOf(chat[c].path)
<1>1. /\ chat[c].pc = "dropping" /\ dropping' = [dropping EXCEPT ![b] = 0]
      /\ UNCHANGED <<record, disk, loads, source, late, path, model, lock, deletion>>
  BY DEF Dropped, diskVars, loadVars
<1>2. /\ chat'[c].pc = "loading" /\ chat'[c].path = chat[c].path /\ chat'[c].model = chat[c].model
      /\ \A e \in Chats : e # c => chat'[e] = chat[e]
  BY DroppedMoves DEF ChatNow
<1>3. lock[b] # Nothing /\ b \in Backends
  BY <1>1, ChatHolds, BackendTypes DEF CacheInv
<1>b. BackendOf(chat'[c].path) = b
  BY <1>2
<1> HIDE DEF b
<1>4. dropping'[b] = 0 /\ model[b] = 0 /\ \A x \in Backends : dropping'[x] \in {0, dropping[x]}
  BY <1>1, <1>3 DEF CacheTypeOK, CacheInv, EmptyWhileAtWork
<1>5. NoMixUp' /\ ThreadsKnow' /\ LoadedSoFar'
  BY <1>1, <1>2 DEF CacheInv, NoMixUp, ThreadsKnow, LoadedSoFar
<1>6. RoomBeforeLoading'
  <2> SUFFICES ASSUME NEW e \in Chats, chat'[e].pc = "loading"
               PROVE  model[BackendOf(chat'[e].path)] = 0 /\ dropping'[BackendOf(chat'[e].path)] = 0
    BY <1>1 DEF RoomBeforeLoading
  <2> QED BY <1>2, <1>4, <1>b, BackendTypes DEF CacheInv, RoomBeforeLoading
<1>7. LockIsTheWorkers'
  <2>1. \A u \in Chats \union Deletes, x \in Backends : AtWork(u, x)' <=> AtWork(u, x)
    BY <1>1, <1>2, ThreadsDiffer DEF AtWork
  <2> QED BY <1>1, <2>1, LockKept DEF CacheInv
<1>8. FreshUnlessLate' /\ EvictedIsGone'
  BY <1>1 DEF CacheInv, FreshUnlessLate, EvictedIsGone, Evicted
<1>9. EmptyWhileAtWork'
  BY <1>1, <1>4 DEF CacheInv, EmptyWhileAtWork
<1> QED BY <1>5, <1>6, <1>7, <1>8, <1>9 DEF CacheInv

\* The model is loaded: it is numbered above every other, and it is a late one if a
\* DELETE of its path has looked at the cache already or its record is gone.
LEMMA LoadInv ==
  ASSUME CacheTypeOK, CacheInv, NEW c \in Chats, Load(c)
  PROVE  CacheInv'
<1> DEFINE p == chat[c].path
           b == BackendOf(p)
           n == loads + 1
<1>1. /\ chat[c].pc = "loading" /\ loads' = n /\ n \in Loads
      /\ source' = [source EXCEPT ![n] = [path |-> p, file |-> disk[p]]]
      /\ late' = IF Evicted(p) \/ \A r \in RecordIds : record[r] # p THEN late \union {n} ELSE late
      /\ path' = [path EXCEPT ![b] = p] /\ model' = [model EXCEPT ![b] = n]
      /\ lock' = [lock EXCEPT ![b] = Nothing]
      /\ UNCHANGED <<record, downloads, disk, dropping, deletion>>
  BY DEF Load, diskVars
<1>2. /\ chat'[c].pc = "streaming" /\ chat'[c].path = p /\ chat'[c].model = n
      /\ \A e \in Chats : e # c => chat'[e] = chat[e]
  BY LoadMoves DEF ChatNow
<1>3. /\ b \in Backends /\ p \in Paths /\ lock[b] = c /\ model[b] = 0 /\ dropping[b] = 0
      /\ c # Nothing /\ p # Nothing /\ BackendOf(p) = b /\ BackendOf(chat'[c].path) = b
  BY <1>1, <1>2, BackendTypes, ChatHolds, ModelCacheAssumption DEF CacheInv, RoomBeforeLoading, CacheTypeOK
<1>4. /\ n # 0 /\ n > loads /\ loads \in Nat /\ n \in Nat
      /\ \A m \in Nat : m <= loads => m # n /\ m <= n
  BY DEF CacheTypeOK
<1> HIDE DEF b, p, n
<1>5. /\ source'[n].path = p /\ source'[n] = [path |-> p, file |-> disk[p]]
      /\ \A m \in Loads : m # n => source'[m] = source[m]
      /\ late \subseteq late'
      /\ n \notin late' => ~ Evicted(p) /\ \E r \in RecordIds : record[r] = p
  <2>1. source'[n] = [path |-> p, file |-> disk[p]] /\ \A m \in Loads : m # n => source'[m] = source[m]
    BY <1>1 DEF CacheTypeOK
  <2>2. late \subseteq late' /\ (n \notin late' => ~ Evicted(p) /\ \E r \in RecordIds : record[r] = p)
    BY <1>1
  <2> QED BY <2>1, <2>2
<1>6. /\ path'[b] = p /\ model'[b] = n /\ lock'[b] = Nothing
      /\ \A x \in Backends : x # b => path'[x] = path[x] /\ model'[x] = model[x] /\ lock'[x] = lock[x]
  BY <1>1, <1>3 DEF CacheTypeOK
<1>7. \A x \in Backends : model[x] \in Nat /\ model[x] <= loads /\ model[x] # n
                          /\ (model[x] # 0 => model[x] \in Loads)
  BY <1>4 DEF CacheInv, LoadedSoFar, CacheTypeOK, Loads
<1>8. \A e \in Chats : chat[e].model \in Nat /\ chat[e].model <= loads /\ chat[e].model # n
                       /\ (chat[e].model # 0 => chat[e].model \in Loads)
  <2> SUFFICES ASSUME NEW e \in Chats
               PROVE  chat[e].model \in Nat /\ chat[e].model <= loads /\ chat[e].model # n
                      /\ (chat[e].model # 0 => chat[e].model \in Loads)
    OBVIOUS
  <2>1. chat[e].model \in Loads \union {0}
    BY DEF CacheTypeOK, Chat
  <2> QED BY <1>4, <2>1 DEF CacheInv, LoadedSoFar, Loads
<1>9. NoMixUp'
  <2>1. ASSUME NEW x \in Backends, path'[x] # Nothing
        PROVE  model'[x] # 0 /\ source'[model'[x]].path = path'[x] /\ BackendOf(path'[x]) = x
    <3>1. CASE x = b
      BY <1>3, <1>4, <1>5, <1>6, <3>1
    <3>2. CASE x # b
      <4>1. model[x] # 0 /\ source[model[x]].path = path[x] /\ BackendOf(path[x]) = x
        BY <1>6, <2>1, <3>2 DEF CacheInv, NoMixUp
      <4>2. path'[x] = path[x] /\ model'[x] = model[x] /\ source'[model[x]] = source[model[x]]
        BY <1>5, <1>6, <1>7, <3>2, <4>1
      <4> QED BY <4>1, <4>2
    <3> QED BY <3>1, <3>2
  <2>2. ASSUME NEW e \in Chats, chat'[e].pc = "streaming"
        PROVE  chat'[e].model # 0 /\ source'[chat'[e].model].path = chat'[e].path
    <3>1. CASE e = c
      BY <1>2, <1>4, <1>5, <3>1
    <3>2. CASE e # c
      <4>1. chat'[e] = chat[e] /\ chat[e].model # 0 /\ source[chat[e].model].path = chat[e].path
        BY <1>2, <2>2, <3>2 DEF CacheInv, NoMixUp
      <4>2. source'[chat[e].model] = source[chat[e].model]
        BY <1>5, <1>8, <4>1
      <4> QED BY <4>1, <4>2
    <3> QED BY <3>1, <3>2
  <2> QED BY <2>1, <2>2 DEF NoMixUp
<1>10. RoomBeforeLoading'
  <2> SUFFICES ASSUME NEW e \in Chats, chat'[e].pc = "loading"
               PROVE  model'[BackendOf(chat'[e].path)] = 0 /\ dropping'[BackendOf(chat'[e].path)] = 0
    BY DEF RoomBeforeLoading
  <2>1. e # c /\ chat'[e] = chat[e]
    BY <1>2
  <2>2. BackendOf(chat[e].path) # b
    BY <1>3, <2>1, ChatHolds DEF CacheInv
  <2> QED BY <1>1, <1>6, <2>1, <2>2, BackendTypes DEF CacheInv, RoomBeforeLoading
<1>11. FreshUnlessLate'
  <2> SUFFICES ASSUME NEW x \in Backends, model'[x] # 0, model'[x] \notin late'
               PROVE  source'[model'[x]] = [path |-> path'[x], file |-> disk[path'[x]]]
    BY <1>1 DEF FreshUnlessLate
  <2>1. CASE x = b
    BY <1>5, <1>6, <2>1
  <2>2. CASE x # b
    <3>1. path'[x] = path[x] /\ model'[x] = model[x] /\ model[x] \notin late /\ model[x] # 0
      BY <1>5, <1>6, <2>2
    <3>2. source'[model[x]] = source[model[x]]
      BY <1>5, <1>7, <3>1
    <3> QED BY <3>1, <3>2 DEF CacheInv, FreshUnlessLate
  <2> QED BY <2>1, <2>2
<1>12. LockIsTheWorkers'
  <2>1. \A x \in Backends : AtWork(c, x) <=> x = b
    BY <1>1, ThreadsDiffer DEF AtWork, b, p
  <2>2. \A x \in Backends : ~ AtWork(c, x)'
    BY <1>2, ThreadsDiffer DEF AtWork
  <2>3. \A u \in Chats \union Deletes, x \in Backends : u # c => (AtWork(u, x)' <=> AtWork(u, x))
    BY <1>1, <1>2 DEF AtWork
  <2> QED BY <1>1, <1>3, <2>1, <2>2, <2>3, LockReleased DEF CacheInv
<1>13. ThreadsKnow'
  BY <1>1, <1>2 DEF CacheInv, ThreadsKnow
<1>14. EmptyWhileAtWork'
  BY <1>1, <1>3, <1>6 DEF CacheInv, EmptyWhileAtWork
<1>15. LoadedSoFar'
  <2>1. n <= n
    BY <1>4
  <2> QED BY <1>1, <1>2, <1>4, <1>6, <1>7, <1>8, <2>1 DEF LoadedSoFar
<1>16. EvictedIsGone'
  <2> SUFFICES ASSUME NEW x \in Backends, NEW q, q = path'[x], q # Nothing, model'[x] \notin late'
               PROVE  ~ Evicted(q)' /\ \E r \in RecordIds : record[r] = q
    BY <1>1 DEF EvictedIsGone, Evicted
  <2>1. Evicted(q)' <=> Evicted(q)
    BY <1>1 DEF Evicted
  <2>2. CASE x = b
    BY <1>5, <1>6, <2>1, <2>2
  <2>3. CASE x # b
    <3>1. path[x] = q /\ model[x] \notin late
      BY <1>5, <1>6, <2>3
    <3> QED BY <2>1, <3>1 DEF CacheInv, EvictedIsGone
  <2> QED BY <2>2, <2>3
<1> QED BY <1>9, <1>10, <1>11, <1>12, <1>13, <1>14, <1>15, <1>16 DEF CacheInv

\* The load fails: the lock is released and the cache stays empty.
LEMMA LoadFailsInv ==
  ASSUME CacheTypeOK, CacheInv, NEW c \in Chats, LoadFails(c)
  PROVE  CacheInv'
<1> DEFINE b == BackendOf(chat[c].path)
<1>1. /\ chat[c].pc = "loading" /\ lock' = [lock EXCEPT ![b] = Nothing]
      /\ UNCHANGED <<record, disk, loads, source, late, path, model, dropping, deletion>>
  BY DEF LoadFails, diskVars, loadVars
<1>2. /\ chat'[c].pc = "idle" /\ chat'[c].model = 0
      /\ \A e \in Chats : e # c => chat'[e] = chat[e]
  BY EndMoves DEF ChatNow
<1>3. b \in Backends /\ lock[b] = c /\ dropping[b] = 0
  BY <1>1, BackendTypes, ChatHolds DEF CacheInv, RoomBeforeLoading
<1>4. \A x \in Backends : AtWork(c, x) <=> x = b
  BY <1>1, ThreadsDiffer DEF AtWork
<1> HIDE DEF b
<1>5. NoMixUp' /\ RoomBeforeLoading' /\ ThreadsKnow'
  BY <1>1, <1>2 DEF CacheInv, NoMixUp, RoomBeforeLoading, ThreadsKnow
<1>6. FreshUnlessLate' /\ EvictedIsGone'
  BY <1>1 DEF CacheInv, FreshUnlessLate, EvictedIsGone, Evicted
<1>7. LockIsTheWorkers'
  <2>1. \A x \in Backends : ~ AtWork(c, x)'
    BY <1>2, ThreadsDiffer DEF AtWork
  <2>2. \A u \in Chats \union Deletes, x \in Backends : u # c => (AtWork(u, x)' <=> AtWork(u, x))
    BY <1>1, <1>2 DEF AtWork
  <2> QED BY <1>1, <1>3, <1>4, <2>1, <2>2, LockReleased DEF CacheInv
<1>8. EmptyWhileAtWork'
  BY <1>1, <1>3 DEF CacheInv, EmptyWhileAtWork, CacheTypeOK
<1>9. LoadedSoFar'
  <2>1. 0 <= loads
    BY DEF CacheTypeOK
  <2> QED BY <1>1, <1>2, <2>1 DEF CacheInv, LoadedSoFar
<1> QED BY <1>5, <1>6, <1>7, <1>8, <1>9 DEF CacheInv

\* A DELETE that moves on without dropping a model, having looked at no cache that
\* still holds a model of its path.
LEMMA QuietDelete ==
  ASSUME CacheTypeOK, CacheInv, NEW d \in Deletes, NEW pc, NEW p, NEW bs, DeletionNow(d, pc, p, bs),
         deletion[d].pc # "dropping", pc # "dropping",
         pc # "idle" => deletion'[d].row \in RecordIds /\ p \in Paths,
         pc = "removed" => bs = {},
         \A x \in Backends : pc # "idle" /\ path[x] = p /\ x \notin bs => model[x] \in late \/ Evicted(p),
         UNCHANGED <<record, loads, source, late, path, model, dropping, lock, chat>>
  PROVE  /\ NoMixUp' /\ RoomBeforeLoading' /\ LockIsTheWorkers' /\ ThreadsKnow'
         /\ EmptyWhileAtWork' /\ LoadedSoFar' /\ EvictedIsGone'
<1>1. /\ deletion'[d].pc = pc /\ deletion'[d].path = p /\ deletion'[d].left = bs
      /\ \A e \in Deletes : e # d => deletion'[e] = deletion[e]
  BY DEF DeletionNow
<1>2. NoMixUp' /\ RoomBeforeLoading' /\ EmptyWhileAtWork' /\ LoadedSoFar'
  BY DEF CacheInv, NoMixUp, RoomBeforeLoading, EmptyWhileAtWork, LoadedSoFar
<1>3. LockIsTheWorkers'
  <2>1. \A u \in Chats \union Deletes, x \in Backends : AtWork(u, x)' <=> AtWork(u, x)
    BY <1>1, ThreadsDiffer DEF AtWork
  <2> QED BY <2>1, LockKept DEF CacheInv
<1>4. ThreadsKnow'
  BY <1>1 DEF CacheInv, ThreadsKnow
<1>5. EvictedIsGone'
  <2> SUFFICES ASSUME NEW x \in Backends, NEW q, q = path[x], q # Nothing, model[x] \notin late
               PROVE  ~ Evicted(q)' /\ \E r \in RecordIds : record[r] = q
    BY DEF EvictedIsGone, Evicted
  <2>1. ~ Evicted(q) /\ (\E r \in RecordIds : record[r] = q) /\ BackendOf(q) = x
    BY DEF CacheInv, EvictedIsGone, NoMixUp
  <2>2. ASSUME Evicted(q)' PROVE FALSE
    <3>1. PICK e \in Deletes : /\ deletion'[e].path = q /\ deletion'[e].pc # "idle"
                              /\ x \notin deletion'[e].left
      BY <2>1, <2>2 DEF Evicted
    <3>2. CASE e = d
      BY <1>1, <2>1, <3>1, <3>2
    <3>3. CASE e # d
      BY <1>1, <2>1, <3>1, <3>3 DEF Evicted
    <3> QED BY <3>2, <3>3
  <2> QED BY <2>1, <2>2
<1> QED BY <1>2, <1>3, <1>4, <1>5

\* A DELETE starts, both caches still to be looked at.
LEMMA GetRecordInv ==
  ASSUME CacheTypeOK, CacheInv, NEW d \in Deletes, NEW r \in RecordIds, GetRecord(d, r)
  PROVE  CacheInv'
<1>1. deletion[d].pc = "idle" /\ UNCHANGED <<diskVars, loadVars, cacheVars, chat>>
  BY DEF GetRecord
<1>2. UNCHANGED <<record, disk, loads, source, late, path, model, dropping, lock, chat>>
  BY <1>1 DEF diskVars, loadVars, cacheVars
<1>3. /\ NoMixUp' /\ RoomBeforeLoading' /\ LockIsTheWorkers' /\ ThreadsKnow'
      /\ EmptyWhileAtWork' /\ LoadedSoFar' /\ EvictedIsGone'
  BY <1>1, <1>2, GetRecordMoves, QuietDelete
<1>4. FreshUnlessLate'
  BY <1>2 DEF CacheInv, FreshUnlessLate
<1> QED BY <1>3, <1>4 DEF CacheInv

\* It finds its model in a cache and drops it, or leaves the cache alone.
LEMMA EvictInv ==
  ASSUME CacheTypeOK, CacheInv, NEW d \in Deletes, NEW b \in Backends, Evict(d, b)
  PROVE  CacheInv'
<1>1. /\ deletion[d].pc = "evicting" /\ b \in deletion[d].left /\ lock[b] = Nothing
      /\ UNCHANGED <<record, disk, loads, source, late, chat>>
  BY DEF Evict, diskVars, loadVars
<1>2. deletion[d].row \in RecordIds /\ deletion[d].path \in Paths /\ deletion[d].path # Nothing
  BY <1>1, ModelCacheAssumption DEF CacheInv, ThreadsKnow
<1>3. CASE /\ path[b] = deletion[d].path
           /\ DeletionNow(d, "dropping", deletion[d].path, deletion[d].left)
           /\ Forget(b) /\ lock' = [lock EXCEPT ![b] = d]
           /\ deletion'[d].row = deletion[d].row
  <2>1. /\ deletion'[d].pc = "dropping" /\ deletion'[d].path = deletion[d].path
        /\ deletion'[d].left = deletion[d].left
        /\ \A e \in Deletes : e # d => deletion'[e] = deletion[e]
    BY <1>3 DEF DeletionNow
  <2>2. \A q \in Paths : Evicted(q)' => Evicted(q)
    BY <1>1, <2>1 DEF Evicted
  <2>3. BackendOf(deletion[d].path) = b
    BY <1>2, <1>3 DEF CacheInv, NoMixUp
  <2>4. /\ path'[b] = Nothing /\ model'[b] = 0 /\ dropping'[b] = model[b]
        /\ \A x \in Backends : x # b => /\ path'[x] = path[x] /\ model'[x] = model[x]
                                        /\ dropping'[x] = dropping[x]
        /\ FreshUnlessLate' /\ EvictedIsGone'
        /\ \A x \in Backends : path'[x] # Nothing =>
             model'[x] # 0 /\ source'[model'[x]].path = path'[x] /\ BackendOf(path'[x]) = x
        /\ \A x \in Backends : model'[x] <= loads'
    BY <1>1, <1>3, <2>2, ForgetKeeps
  <2>5. NoMixUp'
    BY <1>1, <2>4 DEF CacheInv, NoMixUp
  <2>6. RoomBeforeLoading'
    <3> SUFFICES ASSUME NEW e \in Chats, chat[e].pc = "loading"
                 PROVE  model'[BackendOf(chat[e].path)] = 0 /\ dropping'[BackendOf(chat[e].path)] = 0
      BY <1>1 DEF RoomBeforeLoading
    <3>1. BackendOf(chat[e].path) # b
      BY <1>1, ChatHolds DEF CacheInv
    <3> QED BY <2>4, <3>1, BackendTypes DEF CacheInv, RoomBeforeLoading
  <2>7. LockIsTheWorkers'
    <3>1. \A x \in Backends : ~ AtWork(d, x)
      BY <1>1, ThreadsDiffer DEF AtWork
    <3>2. \A x \in Backends : AtWork(d, x)' <=> x = b
      BY <2>1, <2>3, ThreadsDiffer DEF AtWork
    <3>3. \A u \in Chats \union Deletes, x \in Backends : u # d => (AtWork(u, x)' <=> AtWork(u, x))
      BY <1>1, <2>1 DEF AtWork
    <3> QED BY <1>1, <1>3, <3>1, <3>2, <3>3, LockTaken DEF CacheInv
  <2>8. ThreadsKnow'
    BY <1>1, <1>2, <1>3, <2>1 DEF CacheInv, ThreadsKnow
  <2>9. EmptyWhileAtWork'
    <3>1. lock'[b] = d /\ d # Nothing /\ \A x \in Backends : x # b => lock'[x] = lock[x]
      BY <1>3, ThreadsDiffer DEF CacheTypeOK
    <3> QED BY <2>4, <3>1 DEF CacheInv, EmptyWhileAtWork
  <2>10. LoadedSoFar'
    BY <1>1, <2>4 DEF CacheInv, LoadedSoFar
  <2> QED BY <2>4, <2>5, <2>6, <2>7, <2>8, <2>9, <2>10 DEF CacheInv
<1>4. CASE /\ path[b] # deletion[d].path
           /\ DeletionNow(d, "evicting", deletion[d].path, deletion[d].left \ {b})
           /\ UNCHANGED cacheVars
           /\ deletion'[d].row = deletion[d].row
  <2> DEFINE p == deletion[d].path
  <2>1. UNCHANGED <<path, model, dropping, lock>>
    BY <1>4 DEF cacheVars
  <2>2. ASSUME NEW x \in Backends, path[x] = p, x \notin deletion[d].left \ {b} PROVE Evicted(p)
    <3>1. BackendOf(p) = x
      BY <1>2, <2>2 DEF CacheInv, NoMixUp
    <3>2. x \notin deletion[d].left
      BY <1>4, <2>2
    <3> QED BY <1>1, <3>1, <3>2 DEF Evicted
  <2> HIDE DEF p
  <2>3. /\ NoMixUp' /\ RoomBeforeLoading' /\ LockIsTheWorkers' /\ ThreadsKnow'
        /\ EmptyWhileAtWork' /\ LoadedSoFar' /\ EvictedIsGone'
    BY <1>1, <1>2, <1>4, <2>1, <2>2, QuietDelete DEF p
  <2>4. FreshUnlessLate'
    BY <1>1, <2>1 DEF CacheInv, FreshUnlessLate
  <2> QED BY <2>3, <2>4 DEF CacheInv
<1> QED BY <1>3, <1>4, EvictMoves

\* on_evict returns and the DELETE releases the cache, which is empty.
LEMMA EvictDoneInv ==
  ASSUME CacheTypeOK, CacheInv, NEW d \in Deletes, NEW b \in Backends, EvictDone(d, b)
  PROVE  CacheInv'
<1>1. /\ deletion[d].pc = "dropping" /\ lock[b] = d
      /\ dropping' = [dropping EXCEPT ![b] = 0] /\ lock' = [lock EXCEPT ![b] = Nothing]
      /\ UNCHANGED <<record, disk, loads, source, late, path, model, chat>>
  BY DEF EvictDone, diskVars, loadVars
<1>2. /\ deletion'[d].pc = "evicting" /\ deletion'[d].path = deletion[d].path
      /\ deletion'[d].left = deletion[d].left \ {b} /\ deletion'[d].row = deletion[d].row
      /\ \A e \in Deletes : e # d => deletion'[e] = deletion[e]
  BY EvictDoneMoves DEF DeletionNow
<1>3. /\ dropping'[b] = 0 /\ lock'[b] = Nothing /\ path[b] = Nothing /\ model[b] = 0
      /\ \A x \in Backends : x # b => dropping'[x] = dropping[x] /\ lock'[x] = lock[x]
  BY <1>1, ThreadsDiffer DEF CacheTypeOK, CacheInv, EmptyWhileAtWork
<1>4. NoMixUp' /\ RoomBeforeLoading' /\ FreshUnlessLate' /\ LoadedSoFar'
  BY <1>1, <1>3, BackendTypes DEF CacheInv, NoMixUp, RoomBeforeLoading, FreshUnlessLate, LoadedSoFar
<1>5. ThreadsKnow'
  BY <1>1, <1>2 DEF CacheInv, ThreadsKnow
<1>6. LockIsTheWorkers'
  <2>1. AtWork(d, b)
    BY <1>1 DEF CacheInv, LockIsTheWorkers
  <2>2. \A x \in Backends : AtWork(d, x) <=> x = b
    BY <1>1, <2>1, ThreadsDiffer DEF AtWork
  <2>3. \A x \in Backends : ~ AtWork(d, x)'
    BY <1>2, ThreadsDiffer DEF AtWork
  <2>4. \A u \in Chats \union Deletes, x \in Backends : u # d => (AtWork(u, x)' <=> AtWork(u, x))
    BY <1>1, <1>2 DEF AtWork
  <2> QED BY <1>1, <2>2, <2>3, <2>4, LockReleased DEF CacheInv
<1>7. EmptyWhileAtWork'
  BY <1>1, <1>3 DEF CacheInv, EmptyWhileAtWork
<1>8. EvictedIsGone'
  <2> SUFFICES ASSUME NEW x \in Backends, NEW q, q = path[x], q # Nothing, model[x] \notin late
               PROVE  ~ Evicted(q)' /\ \E r \in RecordIds : record[r] = q
    BY <1>1 DEF EvictedIsGone, Evicted
  <2>1. ~ Evicted(q) /\ (\E r \in RecordIds : record[r] = q) /\ BackendOf(q) = x /\ x # b
    BY <1>3 DEF CacheInv, EvictedIsGone, NoMixUp
  <2>2. ASSUME Evicted(q)' PROVE FALSE
    <3>1. PICK e \in Deletes : /\ deletion'[e].path = q /\ deletion'[e].pc # "idle"
                              /\ x \notin deletion'[e].left
      BY <2>1, <2>2 DEF Evicted
    <3>2. deletion[e].path = q /\ deletion[e].pc # "idle" /\ x \notin deletion[e].left
      BY <1>1, <1>2, <2>1, <3>1
    <3> QED BY <2>1, <3>2 DEF Evicted
  <2> QED BY <2>1, <2>2
<1> QED BY <1>4, <1>5, <1>6, <1>7, <1>8 DEF CacheInv

\* The files go when both caches have been looked at: a cached model of the path is a
\* late one.
LEMMA RemoveFilesInv ==
  ASSUME CacheTypeOK, CacheInv, NEW d \in Deletes, RemoveFiles(d)
  PROVE  CacheInv'
<1> DEFINE p == deletion[d].path
<1>1. /\ deletion[d].pc = "evicting" /\ deletion[d].left = {} /\ disk' = [disk EXCEPT ![p] = 0]
      /\ UNCHANGED <<record, loads, source, late, path, model, dropping, lock, chat>>
  BY DEF RemoveFiles, loadVars, cacheVars
<1>2. deletion[d].row \in RecordIds /\ p \in Paths
  BY <1>1 DEF CacheInv, ThreadsKnow
<1>3. Evicted(p)
  BY <1>1 DEF Evicted
<1>4. DeletionNow(d, "removed", p, {}) /\ deletion'[d].row = deletion[d].row
  BY RemoveFilesMoves
<1> HIDE DEF p
<1>5. /\ NoMixUp' /\ RoomBeforeLoading' /\ LockIsTheWorkers' /\ ThreadsKnow'
      /\ EmptyWhileAtWork' /\ LoadedSoFar' /\ EvictedIsGone'
  BY <1>1, <1>2, <1>3, <1>4, QuietDelete
<1>6. FreshUnlessLate'
  <2> SUFFICES ASSUME NEW b \in Backends, model[b] # 0, model[b] \notin late
               PROVE  source[model[b]] = [path |-> path[b], file |-> disk'[path[b]]]
    BY <1>1 DEF FreshUnlessLate
  <2>1. path[b] # p /\ path[b] \in Paths
    BY <1>3, CachedModel
  <2>2. disk'[path[b]] = disk[path[b]]
    BY <1>1, <2>1 DEF CacheTypeOK
  <2> QED BY <2>2 DEF CacheInv, FreshUnlessLate
<1> QED BY <1>5, <1>6 DEF CacheInv

\* The row goes: a cached model that had it is a late one, now if not before.
LEMMA DeleteRowInv ==
  ASSUME CacheTypeOK, CacheInv, NEW d \in Deletes, DeleteRow(d)
  PROVE  CacheInv'
<1> DEFINE r == deletion[d].row
<1>1. /\ deletion[d].pc = "removed" /\ record' = [record EXCEPT ![r] = Nothing]
      /\ late' = late \union {n \in Loads : source[n].path = record[r] /\ record[r] # deletion[d].path}
      /\ UNCHANGED <<disk, loads, source, path, model, dropping, lock, chat>>
  BY DEF DeleteRow, cacheVars
<1>2. r \in RecordIds /\ deletion[d].left = {}
  BY <1>1 DEF CacheInv, ThreadsKnow
<1>3. /\ deletion'[d].pc = "idle"
      /\ \A e \in Deletes : e # d => deletion'[e] = deletion[e]
  BY DeleteRowMoves DEF DeletionNow
<1> HIDE DEF r
<1>4. NoMixUp' /\ RoomBeforeLoading' /\ EmptyWhileAtWork' /\ LoadedSoFar'
  BY <1>1 DEF CacheInv, NoMixUp, RoomBeforeLoading, EmptyWhileAtWork, LoadedSoFar
<1>5. FreshUnlessLate'
  BY <1>1 DEF CacheInv, FreshUnlessLate
<1>6. ThreadsKnow'
  BY <1>1, <1>3 DEF CacheInv, ThreadsKnow
<1>7. LockIsTheWorkers'
  <2>1. \A u \in Chats \union Deletes, x \in Backends : AtWork(u, x)' <=> AtWork(u, x)
    BY <1>1, <1>3, ThreadsDiffer DEF AtWork
  <2> QED BY <1>1, <2>1, LockKept DEF CacheInv
<1>8. EvictedIsGone'
  <2> SUFFICES ASSUME NEW x \in Backends, NEW q, q = path[x], q # Nothing, model[x] \notin late'
               PROVE  ~ Evicted(q)' /\ \E s \in RecordIds : record'[s] = q
    BY <1>1 DEF EvictedIsGone, Evicted
  <2>1. model[x] \notin late /\ model[x] # 0 /\ source[model[x]].path = q
    BY <1>1 DEF CacheInv, NoMixUp
  <2>2. model[x] \in Loads
    BY <2>1 DEF CacheTypeOK
  <2>3. ~ Evicted(q) /\ \E s \in RecordIds : record[s] = q
    BY <2>1 DEF CacheInv, EvictedIsGone
  <2>4. ~ Evicted(q)'
    <3>1. Evicted(q)' => Evicted(q)
      BY <1>3 DEF Evicted
    <3> QED BY <2>3, <3>1
  <2>5. record[r] # q
    <3>1. deletion[d].path # q
      BY <1>1, <1>2, <2>3 DEF Evicted
    <3> QED BY <1>1, <2>1, <2>2, <3>1
  <2>6. \E s \in RecordIds : record'[s] = q
    BY <1>1, <2>3, <2>5 DEF CacheTypeOK
  <2> QED BY <2>4, <2>6
<1> QED BY <1>4, <1>5, <1>6, <1>7, <1>8 DEF CacheInv

\* Every step keeps the types and the invariant.
LEMMA StepInv ==
  ASSUME CacheTypeOK, CacheInv, [CacheNext]_modelVars
  PROVE  CacheTypeOK' /\ CacheInv'
<1>1. CASE CacheNext
  <2>1. CacheTypeOK'
    BY <1>1, StepType DEF CacheInv
  <2>2. ASSUME NEW p \in Paths, Publish(p) PROVE CacheInv'
    BY <2>2, PublishInv
  <2>3. ASSUME NEW c \in Chats, ChatStep(c) PROVE CacheInv'
    BY <2>3, FindRecordInv, MarkUsedInv, HitInv, MissInv, DroppedInv, LoadInv, LoadFailsInv, EndChatInv
       DEF ChatStep
  <2>4. ASSUME NEW d \in Deletes, DeleteStep(d) PROVE CacheInv'
    BY <2>4, GetRecordInv, EvictInv, EvictDoneInv, RemoveFilesInv, DeleteRowInv DEF DeleteStep
  <2> QED BY <1>1, <2>1, <2>2, <2>3, <2>4 DEF CacheNext
<1>2. CASE UNCHANGED modelVars
  <2>1. UNCHANGED <<record, downloads, disk, loads, source, late, path, model, dropping, lock, chat, deletion>>
    BY <1>2 DEF modelVars, diskVars, loadVars, cacheVars
  <2>2. CacheTypeOK'
    BY <2>1 DEF CacheTypeOK
  <2>3. LockIsTheWorkers'
    BY <2>1 DEF CacheInv, LockIsTheWorkers, AtWork
  <2>4. NoMixUp' /\ RoomBeforeLoading' /\ FreshUnlessLate' /\ ThreadsKnow' /\ EmptyWhileAtWork'
          /\ LoadedSoFar' /\ EvictedIsGone'
    BY <2>1 DEF CacheInv, NoMixUp, RoomBeforeLoading, FreshUnlessLate, ThreadsKnow,
       EmptyWhileAtWork, LoadedSoFar, EvictedIsGone, Evicted
  <2> QED BY <2>2, <2>3, <2>4 DEF CacheInv
<1> QED BY <1>1, <1>2

-----------------------------------------------------------------------------
(***************************************************************************)
(* The theorems.                                                           *)
(***************************************************************************)

\* The types and the invariant hold in every reachable state.
THEOREM CacheSafe == CacheSpec => [](CacheTypeOK /\ CacheInv)
<1>1. CacheInit => CacheTypeOK /\ CacheInv
  BY InitType, InitInv
<1>2. CacheTypeOK /\ CacheInv /\ [CacheNext]_modelVars => CacheTypeOK' /\ CacheInv'
  BY StepInv
<1> QED BY <1>1, <1>2, PTL DEF CacheSpec

\* Every variable keeps its type: no cache ever holds something that is not a model.
THEOREM CacheTypeCorrect == CacheSpec => []CacheTypeOK
  BY CacheSafe, PTL

\* The inductive invariant holds for any number of chats, DELETEs, files and loads.
THEOREM CacheInvariant == CacheSpec => []CacheInv
  BY CacheSafe, PTL

\* A cache and a chat always have the model of the path they name.
THEOREM NeverMixedUp == CacheSpec => []NoMixUp
<1>1. CacheInv => NoMixUp
  BY DEF CacheInv
<1> QED BY <1>1, CacheSafe, PTL

\* A model is loaded only into an empty cache.
THEOREM LoadsHaveRoom == CacheSpec => []RoomBeforeLoading
<1>1. CacheInv => RoomBeforeLoading
  BY DEF CacheInv
<1> QED BY <1>1, CacheSafe, PTL

\* A cached model is the file now at its path, or one no DELETE was to unload.
THEOREM CachedModelsFresh == CacheSpec => []FreshUnlessLate
<1>1. CacheInv => FreshUnlessLate
  BY DEF CacheInv
<1> QED BY <1>1, CacheSafe, PTL

\* A lock is held exactly by the thread that drops or loads in its cache.
THEOREM LocksAreReleased == CacheSpec => []LockIsTheWorkers
<1>1. CacheInv => LockIsTheWorkers
  BY DEF CacheInv
<1> QED BY <1>1, CacheSafe, PTL

\* What b holds and what on_evict runs on, across a step.
HandedOver(b) ==
  /\ model[b] # 0 /\ model'[b] # model[b] => dropping'[b] = model[b]
  /\ dropping[b] # 0 /\ dropping'[b] # dropping[b] => dropping'[b] = 0

\* Forgetting a model while the lock is free hands it over.
LEMMA ForgetHandsOver ==
  ASSUME CacheTypeOK, CacheInv, NEW x \in Backends, lock[x] = Nothing, Forget(x), NEW b \in Backends
  PROVE  HandedOver(b)
  BY DEF Forget, HandedOver, CacheTypeOK, CacheInv, EmptyWhileAtWork

\* A cache whose model and dropping variable stay as they are hands nothing over.
LEMMA NothingHandedOver ==
  ASSUME UNCHANGED <<model, dropping>>, NEW b \in Backends
  PROVE  HandedOver(b)
  BY DEF HandedOver

\* Every model that leaves a cache is handed to on_evict, one at a time: a model is
\* loaded into an empty cache only, and forgotten only when on_evict runs on none.
THEOREM ModelsAreDropped == CacheSpec => EveryModelIsDropped
<1>1. ASSUME CacheTypeOK, CacheInv, CacheNext, NEW b \in Backends PROVE HandedOver(b)
  <2>1. ASSUME NEW p \in Paths, Publish(p) PROVE HandedOver(b)
    BY <2>1, NothingHandedOver DEF Publish, cacheVars
  <2>2. ASSUME NEW c \in Chats, ChatStep(c) PROVE HandedOver(b)
    <3>1. CASE (\E r \in RecordIds : FindRecord(c, r)) \/ MarkUsed(c) \/ Hit(c) \/ LoadFails(c) \/ EndChat(c)
      <4>1. UNCHANGED <<model, dropping>>
        BY <3>1 DEF FindRecord, MarkUsed, Hit, LoadFails, EndChat, cacheVars
      <4> QED BY <4>1, NothingHandedOver
    <3>2. CASE Miss(c)
      <4>1. lock[BackendOf(chat[c].path)] = Nothing /\ Forget(BackendOf(chat[c].path))
        BY <3>2 DEF Miss
      <4> QED BY <1>1, <4>1, BackendTypes, ForgetHandsOver
    <3>3. CASE Dropped(c)
      BY <3>3 DEF Dropped, HandedOver, CacheTypeOK
    <3>4. CASE Load(c)
      <4>1. chat[c].pc = "loading" /\ dropping' = dropping
            /\ model' = [model EXCEPT ![BackendOf(chat[c].path)] = loads + 1]
        BY <3>4 DEF Load
      <4>2. model[BackendOf(chat[c].path)] = 0
        BY <1>1, <4>1 DEF CacheInv, RoomBeforeLoading
      <4> QED BY <1>1, <4>1, <4>2 DEF HandedOver, CacheTypeOK
    <3> QED BY <2>2, <3>1, <3>2, <3>3, <3>4 DEF ChatStep
  <2>3. ASSUME NEW d \in Deletes, DeleteStep(d) PROVE HandedOver(b)
    <3>1. CASE (\E r \in RecordIds : GetRecord(d, r)) \/ RemoveFiles(d) \/ DeleteRow(d)
      <4>1. UNCHANGED <<model, dropping>>
        BY <3>1 DEF GetRecord, RemoveFiles, DeleteRow, cacheVars
      <4> QED BY <4>1, NothingHandedOver
    <3>2. ASSUME NEW x \in Backends, Evict(d, x) PROVE HandedOver(b)
      <4>1. lock[x] = Nothing
        BY <3>2 DEF Evict
      <4>2. Forget(x) \/ UNCHANGED <<model, dropping>>
        BY <1>1, <3>2, EvictMoves DEF cacheVars
      <4> QED BY <1>1, <4>1, <4>2, ForgetHandsOver, NothingHandedOver
    <3>3. ASSUME NEW x \in Backends, EvictDone(d, x) PROVE HandedOver(b)
      BY <3>3 DEF EvictDone, HandedOver, CacheTypeOK
    <3> QED BY <2>3, <3>1, <3>2, <3>3 DEF DeleteStep
  <2> QED BY <1>1, <2>1, <2>2, <2>3 DEF CacheNext
<1>2. CacheTypeOK /\ CacheInv /\ [CacheNext]_modelVars =>
        [\A b \in Backends :
           /\ model[b] # 0 /\ model'[b] # model[b] => dropping'[b] = model[b]
           /\ dropping[b] # 0 /\ dropping'[b] # dropping[b] => dropping'[b] = 0]_modelVars
  BY <1>1 DEF HandedOver
<1> QED BY <1>2, CacheSafe, PTL DEF CacheSpec, EveryModelIsDropped
=============================================================================
