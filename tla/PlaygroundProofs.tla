-------------------------- MODULE PlaygroundProofs --------------------------
(***************************************************************************)
(* Proofs about the Playground: the choice of a model (ModelPicker) and    *)
(* the conversation (Playground), for any lists, and for any number of     *)
(* sends, deltas and chunks.                                               *)
(***************************************************************************)
EXTENDS ModelPicker, Playground, FiniteSetTheorems, WellFoundedInduction, TLAPS

(***************************************************************************)
(* The choice of a model.                                                  *)
(***************************************************************************)

Record == [repo : Repos, quant : Quants \cup {NoQuant}, backend : BackendNames \ {"api"},
           loadable : BOOLEAN]
Records == Seq(Record)

\* The places of options are among those of their records, and each is of a repository.
OptionsOK(options) ==
  /\ DOMAIN options \subseteq Nat
  /\ \A i \in DOMAIN options : options[i].id.repo \in Repos

\* On a local backend with a loaded list the selection is an option, or empty without any.
Selected(b, l, id) ==
  LET ids == Ids(ModelOptionsFor(b, l.data))
  IN b # "api" /\ ~ l.pending => id \in ids \/ (ids = {} /\ id = NoModel)

PickerInv ==
  /\ url \in Urls /\ backend \in BackendNames
  /\ list = [pending |-> list.pending, data |-> list.data, error |-> list.error]
  /\ list.pending \in BOOLEAN /\ list.data \in Records
  /\ Selected(backend, list, modelId)

LEMMA OptionsAre ==
  ASSUME NEW b \in BackendNames, NEW records \in Records
  PROVE  OptionsOK(ModelOptionsFor(b, records))
<1>1. \A i \in DOMAIN records : i \in Nat /\ records[i].repo \in Repos
  <2>1. \A i \in DOMAIN records : i \in Nat /\ records[i] \in Record
    BY DEF Records
  <2> QED BY <2>1 DEF Record
<1>2. \A r : RecordModelId(records, r).repo = r.repo
  BY DEF RecordModelId, ModelId
<1>3. \A r : Option(records, r).id.repo = r.repo
  BY <1>2 DEF Option
<1>4. CASE b = "gguf"
  BY <1>1, <1>3, <1>4 DEF ModelOptionsFor, GgufModelOptions, OptionsOK
<1>5. CASE b = "transformers"
  BY <1>1, <1>3, <1>5 DEF ModelOptionsFor, TransformersModelOptions, OptionsOK
<1>6. CASE b = "api"
  BY <1>6 DEF ModelOptionsFor, OptionsOK
<1> QED BY <1>4, <1>5, <1>6 DEF BackendNames

\* A set of places that is not empty has a first one.
LEMMA FirstPlace ==
  ASSUME NEW S \in SUBSET Nat, S # {}
  PROVE  \E h \in S : \A g \in S : h <= g
<1>1. PICK h \in S : \A g \in S : ~ (<<g, h>> \in OpToRel(<, Nat))
  BY NatLessThanWellFounded, WFMin
<1>2. \A g \in S : ~ (g < h)
  BY <1>1 DEF OpToRel
<1> QED BY <1>2

\* A prefilled model is one of the options, of the repository the URL names when there is one.
LEMMA PrefilledIs ==
  ASSUME NEW options, OptionsOK(options), NEW model, NEW quant
  PROVE  LET picked == PickPrefilledModelId(options, model, quant)
         IN /\ DOMAIN options # {} => picked \in Ids(options)
            /\ DOMAIN options = {} => picked = NoModel
            /\ model # NoParam /\ (\E id \in Ids(options) : id.repo = model) =>
                 picked \in Ids(options) /\ picked.repo = model
<1> DEFINE exactHits == {i \in DOMAIN options : options[i].id = ModelId(model, quant)}
           repoHits  == {i \in DOMAIN options : options[i].id.repo = model}
           firstOf(hits) == {options[i].id : i \in {h \in hits : \A g \in hits : h <= g}}
           exact == firstOf(exactHits)
           sameRepo == firstOf(repoHits)
           anything == firstOf(DOMAIN options)
           picked == PickPrefilledModelId(options, model, quant)
<1>1. picked = CASE model # NoParam /\ exact # {}    -> CHOOSE id \in exact : TRUE
                 [] model # NoParam /\ exact = {} /\ sameRepo # {} -> CHOOSE id \in sameRepo : TRUE
                 [] (model = NoParam \/ exact \cup sameRepo = {}) /\ anything # {}
                      -> CHOOSE id \in anything : TRUE
                 [] OTHER -> NoModel
  BY DEF PickPrefilledModelId, Find
<1>2. \A hits \in SUBSET DOMAIN options :
        /\ hits # {} => firstOf(hits) # {}
        /\ \A id \in firstOf(hits) : \E i \in hits : id = options[i].id
  <2> SUFFICES ASSUME NEW hits \in SUBSET DOMAIN options
               PROVE  /\ hits # {} => firstOf(hits) # {}
                      /\ \A id \in firstOf(hits) : \E i \in hits : id = options[i].id
    OBVIOUS
  <2>1. hits \in SUBSET Nat
    BY DEF OptionsOK
  <2>2. hits # {} => \E h \in hits : \A g \in hits : h <= g
    BY <2>1, FirstPlace
  <2> QED BY <2>2
<1>3. /\ \A id \in exact : id \in Ids(options) /\ id = ModelId(model, quant)
      /\ \A id \in sameRepo : id \in Ids(options) /\ id.repo = model
      /\ \A id \in anything : id \in Ids(options)
  BY <1>2 DEF Ids
<1>4. /\ repoHits # {} => sameRepo # {}
      /\ DOMAIN options # {} => anything # {}
      /\ DOMAIN options = {} => exact = {} /\ sameRepo = {} /\ anything = {}
  <2>1. exactHits \in SUBSET DOMAIN options /\ repoHits \in SUBSET DOMAIN options
    OBVIOUS
  <2>2. DOMAIN options = {} => exactHits = {} /\ repoHits = {}
    OBVIOUS
  <2> HIDE DEF exactHits, repoHits, firstOf
  <2> QED BY <1>2, <2>1, <2>2
<1>5. ModelId(model, quant).repo = model
  BY DEF ModelId
<1>6. (\E id \in Ids(options) : id.repo = model) => repoHits # {}
  BY DEF Ids
<1> HIDE DEF exact, sameRepo, anything, repoHits, exactHits, picked
<1> QED BY <1>1, <1>3, <1>4, <1>5, <1>6 DEF picked


\* One adjustment is enough: what it gives is an option, or empty without any, and it gives
\* what the URL names when that is there.
LEMMA AdjustedIs ==
  ASSUME NEW b \in BackendNames, NEW l, l.data \in Records, NEW id
  PROVE  LET new == Adjusted(b, l, id)
             ids == Ids(ModelOptionsFor(b, l.data))
         IN /\ Selected(b, l, new)
            /\ id \in ids => new = id
            /\ Selected(b, l, id) => new = id
            /\ b # "api" /\ ~ l.pending /\ id \notin ids /\ b = url.backend /\ url.model # NoParam
               /\ (\E i \in ids : i.repo = url.model)
                 => new \in ids /\ new.repo = url.model
<1> DEFINE options == ModelOptionsFor(b, l.data)
           ids == Ids(options)
           model == IF b = url.backend THEN url.model ELSE NoParam
           quant == IF b = url.backend THEN url.quant ELSE NoParam
           picked == PickPrefilledModelId(options, model, quant)
           new == Adjusted(b, l, id)
<1>1. new = IF b # "api" /\ ~ l.pending /\ id \notin ids THEN picked ELSE id
  BY DEF Adjusted
<1>2. OptionsOK(options)
  BY OptionsAre
<1>3. /\ DOMAIN options # {} => picked \in ids
      /\ DOMAIN options = {} => picked = NoModel
      /\ model # NoParam /\ (\E i \in ids : i.repo = model) => picked \in ids /\ picked.repo = model
  BY <1>2, PrefilledIs
<1>4. (DOMAIN options = {}) <=> (ids = {})
  BY DEF Ids
<1> HIDE DEF picked, new
<1>5. Selected(b, l, new)
  BY <1>1, <1>3, <1>4 DEF Selected
<1>6. Selected(b, l, id) => new = id
  BY <1>1, <1>3, <1>4 DEF Selected
<1> HIDE DEF ids
<1> QED BY <1>1, <1>3, <1>5, <1>6 DEF ids, new

\* What a step makes of the selection: the promise of SelectionFollowsTheList.
Followed ==
  LET ids == Ids(ModelOptionsFor(backend', list'.data))
      named == {id \in ids : id.repo = url.model}
  IN backend' # "api" /\ ~list'.pending =>
       /\ modelId' \in ids \/ (ids = {} /\ modelId' = NoModel)
       /\ backend' = backend /\ modelId \in ids /\ list' # list => modelId' = modelId
       /\ modelId \notin ids /\ backend' = url.backend /\ named # {} => modelId' \in named
       /\ Adjusted(backend', list', modelId') = modelId'

\* A step that adjusts the selection to the list and the backend it leads to.
LEMMA AdjustingStep ==
  ASSUME PickerInv, NEW b \in BackendNames, NEW l,
         l = [pending |-> l.pending, data |-> l.data, error |-> l.error],
         l.pending \in BOOLEAN, l.data \in Records,
         backend' = b, list' = l, url' = url, modelId' = Adjusted(b, l, modelId)
  PROVE  PickerInv' /\ Followed
<1> DEFINE ids == Ids(ModelOptionsFor(b, l.data))
<1>1. /\ Selected(b, l, modelId') /\ (modelId \in ids => modelId' = modelId)
      /\ b # "api" /\ ~ l.pending /\ modelId \notin ids /\ b = url.backend /\ url.model # NoParam
         /\ (\E i \in ids : i.repo = url.model)
           => modelId' \in ids /\ modelId'.repo = url.model
  BY AdjustedIs
<1>2. Adjusted(b, l, modelId') = modelId'
  BY <1>1, AdjustedIs
<1>3. \A i \in ids : i.repo # NoParam
  <2>1. OptionsOK(ModelOptionsFor(b, l.data))
    BY OptionsAre
  <2> QED BY <2>1, PickerAssumption DEF OptionsOK, Ids
<1>4. Followed
  BY <1>1, <1>2, <1>3 DEF Followed, Selected
<1>5. PickerInv'
  BY <1>1 DEF PickerInv, Selected
<1> QED BY <1>4, <1>5

LEMMA PickerStep == PickerInv /\ [PickNext]_pickVars => PickerInv' /\ [Followed]_pickVars
<1> SUFFICES ASSUME PickerInv, PickNext PROVE PickerInv' /\ Followed
  BY DEF PickerInv, pickVars, Selected
<1>1. CASE ListArrives
  <2>1. PICK data \in Lists : list' = [pending |-> FALSE, data |-> data, error |-> FALSE]
    BY <1>1 DEF ListArrives
  <2>2. data \in Records
    BY PickerAssumption DEF Records, Record
  <2>3. /\ list'.pending = FALSE /\ list'.data = data
        /\ list' = [pending |-> list'.pending, data |-> list'.data, error |-> list'.error]
    BY <2>1
  <2> QED BY <1>1, <2>2, <2>3, AdjustingStep DEF ListArrives, PickerInv
<1>2. CASE ListFails
  <2>1. /\ list'.pending = FALSE /\ list'.data = list.data
        /\ list' = [pending |-> list'.pending, data |-> list'.data, error |-> list'.error]
    BY <1>2 DEF ListFails, PickerInv
  <2> QED BY <1>2, <2>1, AdjustingStep DEF ListFails, PickerInv
<1>3. ASSUME NEW b \in BackendNames, BackendChange(b) PROVE PickerInv' /\ Followed
  BY <1>3, AdjustingStep DEF BackendChange, PickerInv
<1>4. CASE BackendsArrive
  <2>1. UNCHANGED <<url, backend, modelId, list>> /\ Adjusted(backend, list, modelId) = modelId
    BY <1>4, AdjustedIs DEF BackendsArrive, PickerInv
  <2> QED BY <2>1, AdjustingStep DEF PickerInv
<1>5. ASSUME NEW id, ModelIdChange(id) PROVE PickerInv' /\ Followed
  <2>1. UNCHANGED <<url, backend, list>> /\ modelId' = id
    BY <1>5 DEF ModelIdChange
  <2>2. backend = "api" \/ id \in Ids(ModelOptionsFor(backend, list.data))
    BY <1>5 DEF ModelIdChange, Control
  <2>3. Adjusted(backend, list, id) = id
    BY <2>2, AdjustedIs DEF Adjusted, PickerInv
  <2>4. Selected(backend, list, id)
    BY <2>2 DEF Selected
  <2>5. PickerInv'
    BY <2>1, <2>4 DEF PickerInv, Selected
  <2>6. Followed
    BY <2>1, <2>2, <2>3, <2>4 DEF Followed, PickerInv, Selected
  <2> QED BY <2>5, <2>6
<1> QED BY <1>1, <1>2, <1>3, <1>4, <1>5 DEF PickNext


LEMMA PickerInit == PickInit => PickerInv
<1> SUFFICES ASSUME PickInit PROVE PickerInv
  OBVIOUS
<1>1. /\ list.pending = TRUE /\ list.data = <<>>
      /\ list = [pending |-> list.pending, data |-> list.data, error |-> list.error]
  BY DEF PickInit
<1>2. list.data \in Records
  BY <1>1 DEF Records
<1>3. backend \in BackendNames /\ url \in Urls
  BY DEF PickInit, Urls
<1> QED BY <1>1, <1>2, <1>3 DEF PickerInv, Selected

\* The selection is always an option of the backend it would be sent to, once the list of the
\* downloaded models has loaded (PlaygroundPage, modelOptions).
THEOREM PickerSafe == PickSpec => []PickerInv
<1>1. PickInit => PickerInv
  BY PickerInit
<1>2. PickerInv /\ [PickNext]_pickVars => PickerInv'
  BY PickerStep
<1> QED BY <1>1, <1>2, PTL DEF PickSpec

\* After every list, backend switch and choice the selection follows: a valid one stays, an
\* invalid one gives way to the model the URL names, and one adjustment is enough.
THEOREM SelectionFollows == PickSpec => SelectionFollowsTheList
<1> DEFINE P == SelectionFollowsTheList
<1>1. PickInit => PickerInv
  BY PickerInit
<1>2. PickerInv /\ [PickNext]_pickVars => PickerInv' /\ [Followed]_pickVars
  BY PickerStep
<1>3. P <=> [][Followed]_pickVars
  BY DEF SelectionFollowsTheList, Followed
<1> HIDE DEF P
<1>4. PickSpec => P
  BY <1>1, <1>2, <1>3, PTL DEF PickSpec
<1> QED BY <1>4 DEF P


-----------------------------------------------------------------------------
(***************************************************************************)
(* The conversation: the inductive invariant.                              *)
(***************************************************************************)

Turn == [id : Nat, role : {"user", "assistant"}, content : Seq(Sends), streaming : BOOLEAN,
         stopped : BOOLEAN, failed : BOOLEAN, calls : Nat, running : BOOLEAN, metrics : BOOLEAN,
         hadSchema : BOOLEAN]
Chunk == [kind : {"started", "finished", "delta", "done", "error"}, calls : Nat]
Reader == [phase : {"unsent", "requesting", "reading", "over"}, aborted : BOOLEAN,
           settled : BOOLEAN, wire : Seq(Chunk), stream : {"open", "done", "ended", "broken"},
           called : Nat, calling : BOOLEAN, said : Nat, complete : BOOLEAN]
Messages == [role : {"user", "assistant"}, content : Seq(Sends), of : Sends]

ChatTypes ==
  /\ turns \in Seq(Turn) /\ isStreaming \in BOOLEAN /\ controller \in Sends \cup {NoSend}
  /\ reader \in [Sends -> Reader] /\ request \in Seq(Messages)

\* The text of n deltas of send s.
Copies(s, n) == [i \in 1 .. n |-> s]

\* On the wire: a chunks of tool calls, then b deltas, and a last chunk when no more will come.
Ahead(r, a, b) ==
  /\ Len(r.wire) \in {a + b, a + b + 1}
  /\ \A n \in 1 .. a : r.wire[n].kind \in {"started", "finished"}
  /\ \A n \in a + 1 .. a + b : r.wire[n].kind = "delta"
  /\ Len(r.wire) = a + b + 1 =>
       /\ r.stream # "open" /\ r.wire[a + b + 1].kind \in {"done", "error"}
       /\ r.wire[a + b + 1].kind = "done" => r.complete

\* A reader's stream brings nothing before it is answered, and is open until it is complete.
ReaderOK(r) ==
  /\ Len(r.wire) <= MaxWire
  /\ r.phase \in {"unsent", "requesting"} =>
       r.wire = <<>> /\ r.said = 0 /\ ~ r.settled /\ r.stream = "open"
  /\ r.complete => r.phase = "over" \/ (r.phase = "reading" /\ r.stream # "open")

\* The turn t of send s, with the reader r: live as long as the reader may settle it; its text
\* and the deltas on the way are what the server has said; settled well, it is the whole reply.
Fits(t, r, s) ==
  /\ r.phase # "unsent"
  /\ t.streaming <=> r.phase \in {"requesting", "reading"} /\ ~ r.settled
  /\ t.running => t.streaming
  /\ r.settled => r.wire = <<>> /\ r.stream # "open"
  /\ t.streaming => \E a, b \in Nat : /\ b <= r.said /\ Ahead(r, a, b)
                                      /\ t.content = Copies(s, r.said - b)
  /\ ~ t.streaming /\ ~ t.failed /\ ~ t.stopped => r.complete /\ t.content = Copies(s, r.said)

\* Turns come in pairs, a user's and the answer to it.
PairOK(i) ==
  \E s \in Sends :
    IF i % 2 = 1 THEN /\ turns[i].role = "user" /\ turns[i].id = UserId(s)
                      /\ ~ turns[i].streaming /\ ~ turns[i].running
    ELSE /\ turns[i].role = "assistant" /\ turns[i].id = AssistantId(s)
         /\ turns[i - 1].id = UserId(s)

\* A reply in the request is whole, and follows the message it answers.
MessageOK(k) ==
  LET m == request[k] IN
  m.role = "assistant" =>
    /\ reader[m.of].complete /\ m.content = Copies(m.of, reader[m.of].said)
    /\ request[k - 1].of = m.of

ConversationInv ==
  /\ ChatTypes
  /\ \A s \in Sends : ReaderOK(reader[s])
  /\ \A s \in Sends : Active(s) <=> isStreaming /\ controller = s
  /\ Len(turns) % 2 = 0 /\ \A i \in 1 .. Len(turns) : PairOK(i)
  /\ \A i \in 1 .. Len(turns), s \in Sends :
       turns[i].id = AssistantId(s) => Fits(turns[i], reader[s], s)
  /\ \A k \in 1 .. Len(request) : MessageOK(k)

-----------------------------------------------------------------------------
(***************************************************************************)
(* The conversation: the operators.                                        *)
(***************************************************************************)

LEMMA SendsAre ==
  /\ Sends \subseteq Nat /\ NoSend \notin Sends
  /\ \A s \in Sends : UserId(s) \in Nat /\ AssistantId(s) \in Nat
  /\ \A s, r \in Sends : UserId(s) # AssistantId(r) /\ (AssistantId(s) = AssistantId(r) => s = r)
  /\ \A s \in Sends : (UserId(s) + 1) \div 2 = s /\ (AssistantId(s) + 1) \div 2 = s
<1>1. Cardinality(Sends) \in Nat
  BY PlaygroundAssumption, FS_CardinalityType
<1>2. \A n \in Nat : 0 \notin 1 .. n /\ 1 .. n \subseteq Nat
  OBVIOUS
<1>3. Sends \subseteq Nat /\ NoSend \notin Sends
  BY <1>1, <1>2, PlaygroundAssumption DEF NoSend
<1>4. \A s \in Nat : (2 * s - 1 + 1) \div 2 = s /\ (2 * s + 1) \div 2 = s
  OBVIOUS
<1>5. \A s, r \in Nat : 2 * s - 1 # 2 * r /\ (2 * s = 2 * r => s = r)
  OBVIOUS
<1>6. \A s \in Nat : s # 0 => 2 * s - 1 \in Nat /\ 2 * s \in Nat
  OBVIOUS
<1> QED BY <1>3, <1>4, <1>5, <1>6 DEF UserId, AssistantId, NoSend

\* A turn another turn has become, by the reducer: it keeps its place, its id and its role.
Becomes(t, u) == u \in Turn /\ u.id = t.id /\ u.role = t.role

\* The turns with the given id become what the reducer makes of them, the others stay.
Reduced(new, id) ==
  /\ new \in Seq(Turn) /\ Len(new) = Len(turns)
  /\ \A i \in 1 .. Len(turns) :
       IF turns[i].id = id THEN Becomes(turns[i], new[i]) ELSE new[i] = turns[i]

LEMMA ReducedBy ==
  ASSUME turns \in Seq(Turn), NEW id, NEW f \in [Turn -> Turn],
         \A t \in Turn : f[t].id = t.id /\ f[t].role = t.role,
         NEW new, new = [i \in DOMAIN turns |-> IF turns[i].id = id THEN f[turns[i]] ELSE turns[i]]
  PROVE  Reduced(new, id) /\ \A i \in 1 .. Len(turns) : turns[i].id = id => new[i] = f[turns[i]]
<1>1. DOMAIN turns = 1 .. Len(turns) /\ Len(turns) \in Nat
      /\ \A i \in 1 .. Len(turns) : turns[i] \in Turn
  OBVIOUS
<1>2. \A i \in 1 .. Len(turns) : new[i] = IF turns[i].id = id THEN f[turns[i]] ELSE turns[i]
  BY <1>1
<1>3. \A i \in 1 .. Len(turns) : new[i] \in Turn
  BY <1>1, <1>2
<1>4. new \in Seq(Turn) /\ Len(new) = Len(turns)
  BY <1>1, <1>3
<1> QED BY <1>1, <1>2, <1>3, <1>4 DEF Reduced, Becomes

\* What the reducer leaves in a turn that was t: its text, and the four flags that matter.
Holds(u, text, streaming, running, failed, stopped) ==
  /\ u.content = text /\ u.streaming = streaming /\ u.running = running
  /\ u.failed = failed /\ u.stopped = stopped

LEMMA DeltaIs ==
  ASSUME turns \in Seq(Turn), NEW id, NEW s \in Sends
  PROVE  /\ Reduced(Delta(id, s), id)
         /\ \A i \in 1 .. Len(turns) : turns[i].id = id =>
              Holds(Delta(id, s)[i], Append(turns[i].content, s), turns[i].streaming, turns[i].running, turns[i].failed, turns[i].stopped)
<1> DEFINE f == [t \in Turn |-> [t EXCEPT !.content = Append(@, s)]]
<1>1. ASSUME NEW t \in Turn
      PROVE  f[t] \in Turn /\ f[t].id = t.id /\ f[t].role = t.role
  <2>1. t.content \in Seq(Sends) /\ Append(t.content, s) \in Seq(Sends)
    BY DEF Turn
  <2>2. f[t] = [t EXCEPT !.content = Append(t.content, s)]
    BY DEF Turn
  <2> HIDE DEF f
  <2>3. f[t] \in Turn
    BY <2>1, <2>2 DEF Turn
  <2> QED BY <2>2, <2>3 DEF Turn
<1>2. ASSUME NEW t \in Turn
      PROVE  Holds(f[t], Append(t.content, s), t.streaming, t.running, t.failed, t.stopped)
  BY DEF Turn, Holds
<1>3. Delta(id, s) = [i \in DOMAIN turns |-> IF turns[i].id = id THEN f[turns[i]] ELSE turns[i]]
  <2>1. \A i \in DOMAIN turns : turns[i] \in Turn
    OBVIOUS
  <2> QED BY <2>1 DEF Delta, OnTurn
<1>4. f = [t \in Turn |-> f[t]]
  OBVIOUS
<1> HIDE DEF f
<1>5. f \in [Turn -> Turn] /\ \A t \in Turn : f[t].id = t.id /\ f[t].role = t.role
  <2>1. \A t \in Turn : f[t] \in Turn /\ f[t].id = t.id /\ f[t].role = t.role
    BY <1>1
  <2> QED BY <2>1, <1>4
<1>6. Reduced(Delta(id, s), id)
      /\ \A i \in 1 .. Len(turns) : turns[i].id = id => Delta(id, s)[i] = f[turns[i]]
  BY <1>3, <1>5, ReducedBy
<1>7. ASSUME NEW i \in 1 .. Len(turns), turns[i].id = id
      PROVE  Holds(Delta(id, s)[i], Append(turns[i].content, s), turns[i].streaming, turns[i].running, turns[i].failed, turns[i].stopped)
  <2>1. turns[i] \in Turn
    OBVIOUS
  <2>2. Delta(id, s)[i] = f[turns[i]]
    BY <1>6, <1>7
  <2> QED BY <1>2, <2>1, <2>2
<1> QED BY <1>6, <1>7

LEMMA ToolStartedIs ==
  ASSUME turns \in Seq(Turn), NEW id
  PROVE  /\ Reduced(ToolStarted(id), id)
         /\ \A i \in 1 .. Len(turns) : turns[i].id = id =>
              Holds(ToolStarted(id)[i], turns[i].content, turns[i].streaming, TRUE, turns[i].failed, turns[i].stopped)
<1> DEFINE f == [t \in Turn |-> [t EXCEPT !.running = TRUE]]
<1>1. ASSUME NEW t \in Turn
      PROVE  f[t] \in Turn /\ f[t].id = t.id /\ f[t].role = t.role
  BY DEF Turn
<1>2. ASSUME NEW t \in Turn
      PROVE  Holds(f[t], t.content, t.streaming, TRUE, t.failed, t.stopped)
  BY DEF Turn, Holds
<1>3. ToolStarted(id) = [i \in DOMAIN turns |-> IF turns[i].id = id THEN f[turns[i]] ELSE turns[i]]
  <2>1. \A i \in DOMAIN turns : turns[i] \in Turn
    OBVIOUS
  <2> QED BY <2>1 DEF ToolStarted, OnTurn
<1>4. f = [t \in Turn |-> f[t]]
  OBVIOUS
<1> HIDE DEF f
<1>5. f \in [Turn -> Turn] /\ \A t \in Turn : f[t].id = t.id /\ f[t].role = t.role
  <2>1. \A t \in Turn : f[t] \in Turn /\ f[t].id = t.id /\ f[t].role = t.role
    BY <1>1
  <2> QED BY <2>1, <1>4
<1>6. Reduced(ToolStarted(id), id)
      /\ \A i \in 1 .. Len(turns) : turns[i].id = id => ToolStarted(id)[i] = f[turns[i]]
  BY <1>3, <1>5, ReducedBy
<1>7. ASSUME NEW i \in 1 .. Len(turns), turns[i].id = id
      PROVE  Holds(ToolStarted(id)[i], turns[i].content, turns[i].streaming, TRUE, turns[i].failed, turns[i].stopped)
  <2>1. turns[i] \in Turn
    OBVIOUS
  <2>2. ToolStarted(id)[i] = f[turns[i]]
    BY <1>6, <1>7
  <2> QED BY <1>2, <2>1, <2>2
<1> QED BY <1>6, <1>7

LEMMA ToolFinishedIs ==
  ASSUME turns \in Seq(Turn), NEW id
  PROVE  /\ Reduced(ToolFinished(id), id)
         /\ \A i \in 1 .. Len(turns) : turns[i].id = id =>
              Holds(ToolFinished(id)[i], turns[i].content, turns[i].streaming, FALSE, turns[i].failed, turns[i].stopped)
<1> DEFINE f == [t \in Turn |-> [t EXCEPT !.running = FALSE, !.calls = @ + 1]]
<1>1. ASSUME NEW t \in Turn
      PROVE  f[t] \in Turn /\ f[t].id = t.id /\ f[t].role = t.role
  <2>1. t.calls + 1 \in Nat
    BY DEF Turn
  <2>2. f[t] = [t EXCEPT !.running = FALSE, !.calls = t.calls + 1]
    BY DEF Turn
  <2> HIDE DEF f
  <2>3. f[t] \in Turn
    BY <2>1, <2>2 DEF Turn
  <2> QED BY <2>2, <2>3 DEF Turn
<1>2. ASSUME NEW t \in Turn
      PROVE  Holds(f[t], t.content, t.streaming, FALSE, t.failed, t.stopped)
  BY DEF Turn, Holds
<1>3. ToolFinished(id) = [i \in DOMAIN turns |-> IF turns[i].id = id THEN f[turns[i]] ELSE turns[i]]
  <2>1. \A i \in DOMAIN turns : turns[i] \in Turn
    OBVIOUS
  <2> QED BY <2>1 DEF ToolFinished, OnTurn
<1>4. f = [t \in Turn |-> f[t]]
  OBVIOUS
<1> HIDE DEF f
<1>5. f \in [Turn -> Turn] /\ \A t \in Turn : f[t].id = t.id /\ f[t].role = t.role
  <2>1. \A t \in Turn : f[t] \in Turn /\ f[t].id = t.id /\ f[t].role = t.role
    BY <1>1
  <2> QED BY <2>1, <1>4
<1>6. Reduced(ToolFinished(id), id)
      /\ \A i \in 1 .. Len(turns) : turns[i].id = id => ToolFinished(id)[i] = f[turns[i]]
  BY <1>3, <1>5, ReducedBy
<1>7. ASSUME NEW i \in 1 .. Len(turns), turns[i].id = id
      PROVE  Holds(ToolFinished(id)[i], turns[i].content, turns[i].streaming, FALSE, turns[i].failed, turns[i].stopped)
  <2>1. turns[i] \in Turn
    OBVIOUS
  <2>2. ToolFinished(id)[i] = f[turns[i]]
    BY <1>6, <1>7
  <2> QED BY <1>2, <2>1, <2>2
<1> QED BY <1>6, <1>7

LEMMA DoneIs ==
  ASSUME turns \in Seq(Turn), NEW id, NEW n \in Nat
  PROVE  /\ Reduced(Done(id, n), id)
         /\ \A i \in 1 .. Len(turns) : turns[i].id = id =>
              Holds(Done(id, n)[i], turns[i].content, FALSE, FALSE, turns[i].failed, turns[i].stopped)
<1> DEFINE f == [t \in Turn |-> [t EXCEPT !.streaming = FALSE, !.running = FALSE, !.calls = n,
                                   !.metrics = TRUE]]
<1>1. ASSUME NEW t \in Turn
      PROVE  f[t] \in Turn /\ f[t].id = t.id /\ f[t].role = t.role
  BY DEF Turn
<1>2. ASSUME NEW t \in Turn
      PROVE  Holds(f[t], t.content, FALSE, FALSE, t.failed, t.stopped)
  BY DEF Turn, Holds
<1>3. Done(id, n) = [i \in DOMAIN turns |-> IF turns[i].id = id THEN f[turns[i]] ELSE turns[i]]
  <2>1. \A i \in DOMAIN turns : turns[i] \in Turn
    OBVIOUS
  <2> QED BY <2>1 DEF Done, OnTurn
<1>4. f = [t \in Turn |-> f[t]]
  OBVIOUS
<1> HIDE DEF f
<1>5. f \in [Turn -> Turn] /\ \A t \in Turn : f[t].id = t.id /\ f[t].role = t.role
  <2>1. \A t \in Turn : f[t] \in Turn /\ f[t].id = t.id /\ f[t].role = t.role
    BY <1>1
  <2> QED BY <2>1, <1>4
<1>6. Reduced(Done(id, n), id)
      /\ \A i \in 1 .. Len(turns) : turns[i].id = id => Done(id, n)[i] = f[turns[i]]
  BY <1>3, <1>5, ReducedBy
<1>7. ASSUME NEW i \in 1 .. Len(turns), turns[i].id = id
      PROVE  Holds(Done(id, n)[i], turns[i].content, FALSE, FALSE, turns[i].failed, turns[i].stopped)
  <2>1. turns[i] \in Turn
    OBVIOUS
  <2>2. Done(id, n)[i] = f[turns[i]]
    BY <1>6, <1>7
  <2> QED BY <1>2, <2>1, <2>2
<1> QED BY <1>6, <1>7

LEMMA FailedIs ==
  ASSUME turns \in Seq(Turn), NEW id
  PROVE  /\ Reduced(Failed(id), id)
         /\ \A i \in 1 .. Len(turns) : turns[i].id = id =>
              Holds(Failed(id)[i], turns[i].content, FALSE, FALSE, TRUE, turns[i].stopped)
<1> DEFINE f == [t \in Turn |-> [t EXCEPT !.streaming = FALSE, !.running = FALSE, !.failed = TRUE]]
<1>1. ASSUME NEW t \in Turn
      PROVE  f[t] \in Turn /\ f[t].id = t.id /\ f[t].role = t.role
  BY DEF Turn
<1>2. ASSUME NEW t \in Turn
      PROVE  Holds(f[t], t.content, FALSE, FALSE, TRUE, t.stopped)
  BY DEF Turn, Holds
<1>3. Failed(id) = [i \in DOMAIN turns |-> IF turns[i].id = id THEN f[turns[i]] ELSE turns[i]]
  <2>1. \A i \in DOMAIN turns : turns[i] \in Turn
    OBVIOUS
  <2> QED BY <2>1 DEF Failed, OnTurn
<1>4. f = [t \in Turn |-> f[t]]
  OBVIOUS
<1> HIDE DEF f
<1>5. f \in [Turn -> Turn] /\ \A t \in Turn : f[t].id = t.id /\ f[t].role = t.role
  <2>1. \A t \in Turn : f[t] \in Turn /\ f[t].id = t.id /\ f[t].role = t.role
    BY <1>1
  <2> QED BY <2>1, <1>4
<1>6. Reduced(Failed(id), id)
      /\ \A i \in 1 .. Len(turns) : turns[i].id = id => Failed(id)[i] = f[turns[i]]
  BY <1>3, <1>5, ReducedBy
<1>7. ASSUME NEW i \in 1 .. Len(turns), turns[i].id = id
      PROVE  Holds(Failed(id)[i], turns[i].content, FALSE, FALSE, TRUE, turns[i].stopped)
  <2>1. turns[i] \in Turn
    OBVIOUS
  <2>2. Failed(id)[i] = f[turns[i]]
    BY <1>6, <1>7
  <2> QED BY <1>2, <2>1, <2>2
<1> QED BY <1>6, <1>7

LEMMA StoppedIs ==
  ASSUME turns \in Seq(Turn), NEW id
  PROVE  /\ Reduced(Stopped(id), id)
         /\ \A i \in 1 .. Len(turns) : turns[i].id = id =>
              Holds(Stopped(id)[i], turns[i].content, FALSE, FALSE, turns[i].failed, TRUE)
<1> DEFINE f == [t \in Turn |-> [t EXCEPT !.streaming = FALSE, !.running = FALSE, !.stopped = TRUE]]
<1>1. ASSUME NEW t \in Turn
      PROVE  f[t] \in Turn /\ f[t].id = t.id /\ f[t].role = t.role
  BY DEF Turn
<1>2. ASSUME NEW t \in Turn
      PROVE  Holds(f[t], t.content, FALSE, FALSE, t.failed, TRUE)
  BY DEF Turn, Holds
<1>3. Stopped(id) = [i \in DOMAIN turns |-> IF turns[i].id = id THEN f[turns[i]] ELSE turns[i]]
  <2>1. \A i \in DOMAIN turns : turns[i] \in Turn
    OBVIOUS
  <2> QED BY <2>1 DEF Stopped, OnTurn
<1>4. f = [t \in Turn |-> f[t]]
  OBVIOUS
<1> HIDE DEF f
<1>5. f \in [Turn -> Turn] /\ \A t \in Turn : f[t].id = t.id /\ f[t].role = t.role
  <2>1. \A t \in Turn : f[t] \in Turn /\ f[t].id = t.id /\ f[t].role = t.role
    BY <1>1
  <2> QED BY <2>1, <1>4
<1>6. Reduced(Stopped(id), id)
      /\ \A i \in 1 .. Len(turns) : turns[i].id = id => Stopped(id)[i] = f[turns[i]]
  BY <1>3, <1>5, ReducedBy
<1>7. ASSUME NEW i \in 1 .. Len(turns), turns[i].id = id
      PROVE  Holds(Stopped(id)[i], turns[i].content, FALSE, FALSE, turns[i].failed, TRUE)
  <2>1. turns[i] \in Turn
    OBVIOUS
  <2>2. Stopped(id)[i] = f[turns[i]]
    BY <1>6, <1>7
  <2> QED BY <1>2, <2>1, <2>2
<1> QED BY <1>6, <1>7


LEMMA NothingReduced ==
  ASSUME turns \in Seq(Turn), NEW id
  PROVE  Reduced(turns, id)
<1>1. \A i \in 1 .. Len(turns) : turns[i] \in Turn
  OBVIOUS
<1> QED BY <1>1 DEF Reduced, Becomes

-----------------------------------------------------------------------------
(***************************************************************************)
(* The conversation: a step of one send's reader, or of its server.        *)
(***************************************************************************)

\* One reply at most is under way, the one that Stop reaches.
OneUnderWay == \A s \in Sends : Active(s) <=> isStreaming /\ controller = s

\* What is whole remains so: the reply of a send that has been generated to its end.
Kept(q, r) == r.complete => q.complete /\ q.said = r.said

LEMMA RequestStays ==
  ASSUME ConversationInv, UNCHANGED request, \A s \in Sends : Kept(reader'[s], reader[s])
  PROVE  \A k \in 1 .. Len(request') : MessageOK(k)'
<1> SUFFICES ASSUME NEW k \in 1 .. Len(request)
             PROVE  MessageOK(k)'
  OBVIOUS
<1>1. request[k] \in Messages /\ MessageOK(k)
  BY DEF ConversationInv, ChatTypes
<1>2. request[k].of \in Sends
  BY <1>1 DEF Messages
<1> QED BY <1>1, <1>2 DEF MessageOK, Kept

LEMMA PairsStay ==
  ASSUME ConversationInv, NEW s \in Sends, Reduced(turns', AssistantId(s))
  PROVE  Len(turns') % 2 = 0 /\ \A i \in 1 .. Len(turns') : PairOK(i)'
<1>1. Len(turns') = Len(turns) /\ Len(turns) % 2 = 0 /\ Len(turns) \in Nat
  BY DEF ConversationInv, ChatTypes, Reduced
<1>2. \A i \in 1 .. Len(turns) :
        /\ turns'[i].id = turns[i].id /\ turns'[i].role = turns[i].role
        /\ turns[i].id # AssistantId(s) => turns'[i] = turns[i]
  BY DEF Reduced, Becomes
<1>3. ASSUME NEW i \in 1 .. Len(turns) PROVE PairOK(i)'
  <2>1. PICK r \in Sends : IF i % 2 = 1 THEN /\ turns[i].role = "user" /\ turns[i].id = UserId(r)
                                             /\ ~ turns[i].streaming /\ ~ turns[i].running
                           ELSE /\ turns[i].role = "assistant" /\ turns[i].id = AssistantId(r)
                                /\ turns[i - 1].id = UserId(r)
    BY DEF ConversationInv, PairOK
  <2>2. CASE i % 2 = 1
    <3>1. UserId(r) # AssistantId(s)
      BY SendsAre
    <3> QED BY <2>1, <2>2, <3>1, <1>2 DEF PairOK
  <2>3. CASE i % 2 # 1
    <3>1. i - 1 \in 1 .. Len(turns)
      BY <2>3, <1>1
    <3> QED BY <2>1, <2>3, <3>1, <1>2 DEF PairOK
  <2> QED BY <2>2, <2>3
<1> QED BY <1>1, <1>3

\* The other sends' turns and readers stay, and this one's fit: then everything does.
LEMMA ReaderMoves ==
  ASSUME ConversationInv, NEW s \in Sends, UNCHANGED request,
         Reduced(turns', AssistantId(s)), isStreaming' \in BOOLEAN,
         controller' \in Sends \cup {NoSend},
         NEW q \in Reader, reader' = [reader EXCEPT ![s] = q], ReaderOK(q), Kept(q, reader[s]),
         OneUnderWay',
         \A i \in 1 .. Len(turns) : turns[i].id = AssistantId(s) => Fits(turns'[i], q, s)
  PROVE  ConversationInv'
<1>0. reader \in [Sends -> Reader] /\ turns \in Seq(Turn) /\ request \in Seq(Messages)
  BY DEF ConversationInv, ChatTypes
<1>1. reader'[s] = q /\ \A r \in Sends \ {s} : reader'[r] = reader[r]
  BY <1>0
<1>2. ChatTypes'
  BY <1>0 DEF ChatTypes, Reduced
<1>3. \A r \in Sends : ReaderOK(reader'[r])
  BY <1>1 DEF ConversationInv
<1>4. \A r \in Sends : Kept(reader'[r], reader[r])
  BY <1>1 DEF Kept
<1>5. ASSUME NEW i \in 1 .. Len(turns'), NEW r \in Sends, turns'[i].id = AssistantId(r)
      PROVE  Fits(turns'[i], reader'[r], r)
  <2>1. i \in 1 .. Len(turns) /\ turns[i].id = AssistantId(r)
    BY <1>5 DEF Reduced, Becomes
  <2>2. CASE r = s
    BY <2>1, <2>2, <1>1
  <2>3. CASE r # s
    <3>1. AssistantId(r) # AssistantId(s)
      BY <2>3, SendsAre
    <3>2. turns'[i] = turns[i]
      BY <2>1, <3>1 DEF Reduced
    <3>3. Fits(turns[i], reader[r], r)
      BY <2>1 DEF ConversationInv
    <3> QED BY <3>2, <3>3, <1>1, <2>3
  <2> QED BY <2>2, <2>3
<1>6. Len(turns') % 2 = 0 /\ \A i \in 1 .. Len(turns') : PairOK(i)'
  BY PairsStay
<1>7. \A k \in 1 .. Len(request') : MessageOK(k)'
  BY <1>4, RequestStays
<1> QED BY <1>2, <1>3, <1>5, <1>6, <1>7 DEF ConversationInv, OneUnderWay


LEMMA ReaderIs ==
  ASSUME ConversationInv, NEW s \in Sends
  PROVE  reader[s] \in Reader /\ ReaderOK(reader[s]) /\ reader[s].wire \in Seq(Chunk)
         /\ reader[s].said \in Nat /\ reader[s].called \in Nat
<1>1. reader[s] \in Reader /\ ReaderOK(reader[s])
  BY DEF ConversationInv, ChatTypes
<1> QED BY <1>1 DEF Reader

\* A reader that has the same on the wire, and no stream opened again, fits as before.
LEMMA FitsAsBefore ==
  ASSUME NEW t, NEW s, NEW r, NEW q, Fits(t, r, s), q.phase # "unsent",
         q.phase \in {"requesting", "reading"} <=> r.phase \in {"requesting", "reading"},
         q.settled = r.settled, q.wire = r.wire, q.said = r.said, q.complete = r.complete,
         r.stream # "open" => q.stream # "open"
  PROVE  Fits(t, q, s)
<1>1. ASSUME NEW a, NEW b, Ahead(r, a, b)
      PROVE  Ahead(q, a, b)
  BY <1>1 DEF Ahead
<1> QED BY <1>1 DEF Fits

\* A reader that goes on leaves the page as busy as it was.
LEMMA GoesOn ==
  ASSUME ConversationInv, NEW s \in Sends, UNCHANGED <<isStreaming, controller>>,
         NEW q \in Reader, reader' = [reader EXCEPT ![s] = q], Active(s),
         q.phase \in {"requesting", "reading"}
  PROVE  OneUnderWay'
<1>1. reader \in [Sends -> Reader]
  BY DEF ConversationInv, ChatTypes
<1>2. \A r \in Sends : Active(r)' <=> Active(r)
  BY <1>1 DEF Active
<1> QED BY <1>2 DEF OneUnderWay, ConversationInv

LEMMA OverIs ==
  ASSUME NEW r \in Reader
  PROVE  /\ Over(r) \in Reader /\ Over(r).phase = "over" /\ ~ Over(r).settled
         /\ Over(r).wire = <<>> /\ Over(r).said = r.said /\ Over(r).complete = r.complete
<1>1. <<>> \in Seq(Chunk) /\ 0 \in Nat
  OBVIOUS
<1> QED BY <1>1 DEF Over, Idle, Reader

\* The finally clause, once the reducer has settled the turn, or "done" had.
LEMMA FinallyStep ==
  ASSUME ConversationInv, NEW s \in Sends, Active(s), Finally(s), MaxWire \in Nat,
         \/ turns' = Failed(AssistantId(s)) \/ turns' = Stopped(AssistantId(s))
         \/ turns' = turns /\ reader[s].settled
  PROVE  ConversationInv'
<1> DEFINE q == Over(reader[s])
           id == AssistantId(s)
<1>1. turns \in Seq(Turn) /\ reader \in [Sends -> Reader] /\ reader[s] \in Reader
  BY DEF ConversationInv, ChatTypes
<1>2. /\ q \in Reader /\ q.phase = "over" /\ ~ q.settled
      /\ q.wire = <<>> /\ q.said = reader[s].said /\ q.complete = reader[s].complete
  BY <1>1, OverIs
<1>3. reader' = [reader EXCEPT ![s] = q] /\ isStreaming' = FALSE /\ controller' = NoSend
      /\ UNCHANGED request
  BY DEF Finally
<1> HIDE DEF q
<1>4. ReaderOK(q) /\ Kept(q, reader[s])
  BY <1>2 DEF ReaderOK, Kept
<1>5. OneUnderWay'
  <2>1. ASSUME NEW r \in Sends PROVE ~ Active(r)'
    <3>1. Active(r) => r = s
      BY DEF ConversationInv
    <3> QED BY <3>1, <1>1, <1>2, <1>3 DEF Active
  <2> QED BY <2>1, <1>3 DEF OneUnderWay
<1>6. Reduced(turns', id) /\ \A i \in 1 .. Len(turns) : turns[i].id = id => Fits(turns'[i], q, s)
  <2>1. CASE turns' = Failed(id)
    <3>1. Reduced(turns', id) /\ \A i \in 1 .. Len(turns) : turns[i].id = id =>
            Holds(turns'[i], turns[i].content, FALSE, FALSE, TRUE, turns[i].stopped)
      BY <1>1, <2>1, FailedIs
    <3> QED BY <3>1, <1>2 DEF Holds, Fits
  <2>2. CASE turns' = Stopped(id)
    <3>1. Reduced(turns', id) /\ \A i \in 1 .. Len(turns) : turns[i].id = id =>
            Holds(turns'[i], turns[i].content, FALSE, FALSE, turns[i].failed, TRUE)
      BY <1>1, <2>2, StoppedIs
    <3> QED BY <3>1, <1>2 DEF Holds, Fits
  <2>3. CASE turns' = turns /\ reader[s].settled
    <3>1. \A i \in 1 .. Len(turns) : turns[i].id = id => Fits(turns[i], reader[s], s)
      BY DEF ConversationInv
    <3>2. Reduced(turns', id)
      BY <1>1, <2>3, NothingReduced
    <3> QED BY <3>1, <3>2, <2>3, <1>2 DEF Fits
  <2> QED BY <2>1, <2>2, <2>3
<1> QED BY <1>2, <1>3, <1>4, <1>5, <1>6, ReaderMoves

LEMMA RespondedStep ==
  ASSUME ConversationInv, NEW s \in Sends, Responded(s)
  PROVE  ConversationInv'
<1> DEFINE q == [reader[s] EXCEPT !.phase = "reading"]
<1>1. turns \in Seq(Turn) /\ reader \in [Sends -> Reader] /\ reader[s] \in Reader
      /\ ReaderOK(reader[s])
  BY DEF ConversationInv, ChatTypes
<1>2. /\ q \in Reader /\ q.phase = "reading" /\ q.settled = reader[s].settled
      /\ q.wire = reader[s].wire /\ q.stream = reader[s].stream
      /\ q.said = reader[s].said /\ q.complete = reader[s].complete
  BY <1>1 DEF Reader
<1>3. reader' = [reader EXCEPT ![s] = q] /\ reader[s].phase = "requesting"
      /\ UNCHANGED <<turns, isStreaming, controller, request>>
  BY <1>1 DEF Responded
<1> HIDE DEF q
<1>4. ReaderOK(q) /\ Kept(q, reader[s])
  BY <1>1, <1>2, <1>3 DEF ReaderOK, Kept
<1>5. OneUnderWay'
  BY <1>2, <1>3, GoesOn DEF Active
<1>6. \A i \in 1 .. Len(turns) : turns[i].id = AssistantId(s) => Fits(turns'[i], q, s)
  <2>1. \A i \in 1 .. Len(turns) : turns[i].id = AssistantId(s) => Fits(turns[i], reader[s], s)
    BY DEF ConversationInv
  <2> QED BY <2>1, <1>2, <1>3, FitsAsBefore
<1>7. Reduced(turns', AssistantId(s))
  BY <1>1, <1>3, NothingReduced
<1>8. isStreaming' \in BOOLEAN /\ controller' \in Sends \cup {NoSend} /\ UNCHANGED request
  BY <1>3 DEF ConversationInv, ChatTypes
<1> QED BY <1>2, <1>3, <1>4, <1>5, <1>6, <1>7, <1>8, ReaderMoves


LEMMA ClosesStep ==
  ASSUME ConversationInv, NEW s \in Sends, ConnectionCloses(s)
  PROVE  ConversationInv'
<1>1. PICK how \in {"ended", "broken"} : reader' = [reader EXCEPT ![s].stream = how]
  BY DEF ConnectionCloses
<1> DEFINE q == [reader[s] EXCEPT !.stream = how]
<1>2. turns \in Seq(Turn) /\ reader \in [Sends -> Reader] /\ reader[s] \in Reader
      /\ ReaderOK(reader[s])
  BY DEF ConversationInv, ChatTypes
<1>3. /\ q \in Reader /\ q.phase = reader[s].phase /\ q.settled = reader[s].settled
      /\ q.wire = reader[s].wire /\ q.stream # "open"
      /\ q.said = reader[s].said /\ q.complete = reader[s].complete
  BY <1>2 DEF Reader
<1>4. reader' = [reader EXCEPT ![s] = q] /\ reader[s].phase = "reading"
      /\ UNCHANGED <<turns, isStreaming, controller, request>>
  BY <1>1, <1>2 DEF ConnectionCloses
<1> HIDE DEF q
<1>5. ReaderOK(q) /\ Kept(q, reader[s])
  BY <1>2, <1>3, <1>4 DEF ReaderOK, Kept
<1>6. OneUnderWay'
  BY <1>3, <1>4, GoesOn DEF Active
<1>7. \A i \in 1 .. Len(turns) : turns[i].id = AssistantId(s) => Fits(turns'[i], q, s)
  <2>1. \A i \in 1 .. Len(turns) : turns[i].id = AssistantId(s) => Fits(turns[i], reader[s], s)
    BY DEF ConversationInv
  <2> QED BY <2>1, <1>3, <1>4, FitsAsBefore
<1>8. Reduced(turns', AssistantId(s))
  BY <1>2, <1>4, NothingReduced
<1>9. isStreaming' \in BOOLEAN /\ controller' \in Sends \cup {NoSend} /\ UNCHANGED request
  BY <1>4 DEF ConversationInv, ChatTypes
<1> QED BY <1>3, <1>4, <1>5, <1>6, <1>7, <1>8, <1>9, ReaderMoves

\* On the wire: a chunks of tool calls, then b deltas, and no last chunk yet.
Under(r, a, b) ==
  /\ Len(r.wire) = a + b
  /\ \A n \in 1 .. a : r.wire[n].kind \in {"started", "finished"}
  /\ \A n \in a + 1 .. a + b : r.wire[n].kind = "delta"

\* A turn that fits a stream that is open is live, and no last chunk is on the way to it.
LEMMA OpenIs ==
  ASSUME NEW r \in Reader, NEW t, NEW s, Fits(t, r, s), r.phase = "reading", r.stream = "open"
  PROVE  /\ t.streaming /\ ~ r.settled
         /\ \E a, b \in Nat : b <= r.said /\ Under(r, a, b) /\ t.content = Copies(s, r.said - b)
<1>1. t.streaming /\ ~ r.settled
  BY DEF Fits
<1>2. PICK a \in Nat, b \in Nat : /\ b <= r.said /\ Ahead(r, a, b)
                                  /\ t.content = Copies(s, r.said - b)
  BY <1>1 DEF Fits
<1>3. Len(r.wire) = a + b
  BY <1>2 DEF Ahead
<1>4. Under(r, a, b)
  BY <1>2, <1>3 DEF Ahead, Under
<1> QED BY <1>1, <1>2, <1>4

\* One more chunk on the wire.
LEMMA Sent ==
  ASSUME NEW w \in Seq(Chunk), NEW c \in Chunk
  PROVE  /\ Append(w, c) \in Seq(Chunk) /\ Len(Append(w, c)) = Len(w) + 1
         /\ \A n \in 1 .. Len(w) : Append(w, c)[n] = w[n]
         /\ Append(w, c)[Len(w) + 1] = c
OBVIOUS

\* A chunk from the server, if the turn of the send, where there is one, still fits.
LEMMA Serve ==
  ASSUME ConversationInv, NEW s \in Sends, Serving(s), Len(reader[s].wire) < MaxWire,
         MaxWire \in Nat,
         NEW q \in Reader, NEW c \in Chunk, q.wire = Append(reader[s].wire, c),
         q.phase = "reading", q.complete => q.stream # "open", reader' = [reader EXCEPT ![s] = q],
         UNCHANGED <<turns, isStreaming, controller, request>>,
         \A i \in 1 .. Len(turns) : Fits(turns[i], reader[s], s) => Fits(turns[i], q, s)
  PROVE  ConversationInv'
<1>1. turns \in Seq(Turn) /\ reader[s] \in Reader /\ reader[s].wire \in Seq(Chunk)
      /\ ReaderOK(reader[s]) /\ reader[s].phase = "reading" /\ reader[s].stream = "open"
  BY ReaderIs DEF ConversationInv, ChatTypes, Serving
<1>2. ReaderOK(q)
  <2>1. Len(q.wire) = Len(reader[s].wire) + 1 /\ Len(reader[s].wire) \in Nat
    BY <1>1, Sent
  <2> QED BY <2>1 DEF ReaderOK
<1>3. Kept(q, reader[s])
  BY <1>1 DEF ReaderOK, Kept
<1>4. OneUnderWay'
  BY <1>1, GoesOn DEF Active
<1>5. \A i \in 1 .. Len(turns) : turns[i].id = AssistantId(s) => Fits(turns'[i], q, s)
  BY DEF ConversationInv
<1>6. Reduced(turns', AssistantId(s))
  BY <1>1, NothingReduced
<1>7. isStreaming' \in BOOLEAN /\ controller' \in Sends \cup {NoSend} /\ UNCHANGED request
  BY DEF ConversationInv, ChatTypes
<1> QED BY <1>2, <1>3, <1>4, <1>5, <1>6, <1>7, ReaderMoves


LEMMA ServerCallsStep ==
  ASSUME ConversationInv, NEW s \in Sends, ServerCalls(s), MaxWire \in Nat
  PROVE  ConversationInv'
<1> DEFINE r == reader[s]
           started == [kind |-> "started", calls |-> 0]
           finished == [kind |-> "finished", calls |-> 0]
<1>1. r \in Reader /\ r.wire \in Seq(Chunk) /\ r.said = 0 /\ r.called \in Nat
      /\ Serving(s) /\ Len(r.wire) < MaxWire /\ r.phase = "reading" /\ r.stream = "open"
      /\ ~ r.complete
  <2>1. ReaderOK(r) /\ Serving(s)
    BY ReaderIs DEF ServerCalls
  <2> QED BY <2>1, ReaderIs DEF ServerCalls, Serving, ReaderOK
<1>2. PICK q \in Reader, c \in {started, finished} :
        /\ reader' = [reader EXCEPT ![s] = q] /\ q.wire = Append(r.wire, c)
        /\ q.phase = "reading" /\ q.stream = "open" /\ q.settled = r.settled
        /\ q.said = r.said /\ q.complete = r.complete
  <2>0. started \in Chunk /\ finished \in Chunk
    BY DEF Chunk
  <2>1. CASE reader' = [reader EXCEPT ![s].wire = Append(@, [kind |-> "started", calls |-> 0]),
                                      ![s].calling = TRUE]
    <3> DEFINE q == [r EXCEPT !.wire = Append(r.wire, started), !.calling = TRUE]
    <3>1. Append(r.wire, started) \in Seq(Chunk)
      BY <1>1, <2>0, Sent
    <3>2. reader' = [reader EXCEPT ![s] = q]
      BY <2>1 DEF ConversationInv, ChatTypes
    <3>3. /\ q \in Reader /\ q.wire = Append(r.wire, started)
          /\ q.phase = "reading" /\ q.stream = "open" /\ q.settled = r.settled
          /\ q.said = r.said /\ q.complete = r.complete
      <4> HIDE DEF started, r
      <4> QED BY <1>1, <3>1 DEF Reader
    <3> HIDE DEF q
    <3> QED BY <3>2, <3>3
  <2>2. CASE reader' = [reader EXCEPT ![s].wire = Append(@, [kind |-> "finished", calls |-> 0]),
                                      ![s].calling = FALSE, ![s].called = @ + 1]
    <3> DEFINE q == [r EXCEPT !.wire = Append(r.wire, finished), !.calling = FALSE,
                              !.called = r.called + 1]
    <3>1. Append(r.wire, finished) \in Seq(Chunk) /\ r.called + 1 \in Nat
      BY <1>1, <2>0, Sent
    <3>2. reader' = [reader EXCEPT ![s] = q]
      BY <2>2 DEF ConversationInv, ChatTypes
    <3>3. /\ q \in Reader /\ q.wire = Append(r.wire, finished)
          /\ q.phase = "reading" /\ q.stream = "open" /\ q.settled = r.settled
          /\ q.said = r.said /\ q.complete = r.complete
      <4> HIDE DEF finished, r
      <4> QED BY <1>1, <3>1 DEF Reader
    <3> HIDE DEF q
    <3> QED BY <3>2, <3>3
  <2> QED BY <2>1, <2>2 DEF ServerCalls
<1>3. c \in Chunk /\ c.kind \in {"started", "finished"}
  BY DEF Chunk
<1> HIDE DEF r, started, finished
<1>4. ASSUME NEW t, Fits(t, r, s) PROVE Fits(t, q, s)
  <2>1. t.streaming /\ ~ r.settled
    BY <1>1, <1>4, OpenIs
  <2>2. PICK a \in Nat, b \in Nat :
          b <= r.said /\ Under(r, a, b) /\ t.content = Copies(s, r.said - b)
    BY <1>1, <1>4, OpenIs
  <2>3. b = 0 /\ Len(r.wire) = a /\ a + 1 \in Nat
    BY <1>1, <2>2 DEF Under
  <2>4. Len(q.wire) = a + 1 /\ q.wire[a + 1] = c /\ \A n \in 1 .. a : q.wire[n] = r.wire[n]
    BY <1>1, <1>2, <1>3, <2>3, Sent
  <2>5. \A n \in 1 .. a + 1 : q.wire[n].kind \in {"started", "finished"}
    <3>1. \A n \in 1 .. a + 1 : n \in 1 .. a \/ n = a + 1
      OBVIOUS
    <3> QED BY <3>1, <2>2, <2>4, <1>3 DEF Under
  <2>6. Ahead(q, a + 1, 0)
    BY <2>3, <2>4, <2>5 DEF Ahead
  <2>7. t.content = Copies(s, q.said - 0) /\ 0 <= q.said
    BY <1>1, <1>2, <2>2, <2>3
  <2>8. \E x, y \in Nat : y <= q.said /\ Ahead(q, x, y) /\ t.content = Copies(s, q.said - y)
    BY <2>3, <2>6, <2>7
  <2> QED BY <1>1, <1>2, <1>4, <2>1, <2>8 DEF Fits
<1>5. UNCHANGED <<turns, isStreaming, controller, request>> /\ (q.complete => q.stream # "open")
  BY <1>1, <1>2 DEF ServerCalls
<1> QED BY <1>1, <1>2, <1>3, <1>4, <1>5, Serve DEF r


LEMMA ServerSaysStep ==
  ASSUME ConversationInv, NEW s \in Sends, ServerSays(s), MaxWire \in Nat
  PROVE  ConversationInv'
<1> DEFINE r == reader[s]
           c == [kind |-> "delta", calls |-> 0]
           q == [r EXCEPT !.wire = Append(r.wire, c), !.said = r.said + 1]
<1>1. r \in Reader /\ r.wire \in Seq(Chunk) /\ r.said \in Nat
      /\ Serving(s) /\ Len(r.wire) < MaxWire /\ r.phase = "reading" /\ r.stream = "open"
      /\ ~ r.complete
  <2>1. ReaderOK(r) /\ Serving(s)
    BY ReaderIs DEF ServerSays
  <2> QED BY <2>1, ReaderIs DEF ServerSays, Serving, ReaderOK
<1>2. c \in Chunk /\ c.kind = "delta"
  BY DEF Chunk
<1>3. reader' = [reader EXCEPT ![s] = q] /\ UNCHANGED <<turns, isStreaming, controller, request>>
  BY DEF ServerSays, ConversationInv, ChatTypes
<1> HIDE DEF r, c
<1>4. Append(r.wire, c) \in Seq(Chunk) /\ r.said + 1 \in Nat
  BY <1>1, <1>2, Sent
<1>5. /\ q \in Reader /\ q.wire = Append(r.wire, c) /\ q.phase = "reading" /\ q.stream = "open"
      /\ q.settled = r.settled /\ q.said = r.said + 1 /\ q.complete = r.complete
  BY <1>1, <1>4 DEF Reader
<1> HIDE DEF q
<1>6. ASSUME NEW t, Fits(t, r, s) PROVE Fits(t, q, s)
  <2>1. t.streaming /\ ~ r.settled
    BY <1>1, <1>6, OpenIs
  <2>2. PICK a \in Nat, b \in Nat :
          b <= r.said /\ Under(r, a, b) /\ t.content = Copies(s, r.said - b)
    BY <1>1, <1>6, OpenIs
  <2>3. Len(r.wire) = a + b /\ b + 1 \in Nat /\ a + (b + 1) = a + b + 1
    BY <2>2 DEF Under
  <2>4. Len(q.wire) = a + b + 1 /\ q.wire[a + b + 1] = c
        /\ \A n \in 1 .. a + b : q.wire[n] = r.wire[n]
    BY <1>1, <1>2, <1>5, <2>3, Sent
  <2>5. \A n \in 1 .. a : q.wire[n].kind \in {"started", "finished"}
    <3>1. \A n \in 1 .. a : n \in 1 .. a + b
      OBVIOUS
    <3> QED BY <3>1, <2>2, <2>4 DEF Under
  <2>6. \A n \in a + 1 .. a + b + 1 : q.wire[n].kind = "delta"
    <3>1. \A n \in a + 1 .. a + b + 1 :
            n = a + b + 1 \/ (n \in a + 1 .. a + b /\ n \in 1 .. a + b)
      OBVIOUS
    <3> QED BY <3>1, <2>2, <2>4, <1>2 DEF Under
  <2>7. Ahead(q, a, b + 1)
    BY <2>3, <2>4, <2>5, <2>6 DEF Ahead
  <2>8. t.content = Copies(s, q.said - (b + 1)) /\ b + 1 <= q.said
    <3>1. q.said - (b + 1) = r.said - b /\ b + 1 <= q.said
      BY <1>1, <1>5, <2>2
    <3> QED BY <3>1, <2>2
  <2>9. \E x, y \in Nat : y <= q.said /\ Ahead(q, x, y) /\ t.content = Copies(s, q.said - y)
    BY <2>3, <2>7, <2>8
  <2> QED BY <1>1, <1>5, <1>6, <2>1, <2>9 DEF Fits
<1>7. q.complete => q.stream # "open"
  BY <1>1, <1>5
<1> QED BY <1>1, <1>2, <1>3, <1>5, <1>6, <1>7, Serve DEF r

LEMMA ServerEndsStep ==
  ASSUME ConversationInv, NEW s \in Sends, ServerEnds(s), MaxWire \in Nat
  PROVE  ConversationInv'
<1>0. PICK kind \in {"done", "error"} :
        reader' = [reader EXCEPT
            ![s].wire = Append(@, [kind |-> kind, calls |-> reader[s].called]),
            ![s].stream = IF kind = "done" THEN "done" ELSE "ended",
            ![s].complete = kind = "done"]
  BY DEF ServerEnds
<1> DEFINE r == reader[s]
           c == [kind |-> kind, calls |-> r.called]
           end == IF kind = "done" THEN "done" ELSE "ended"
           whole == kind = "done"
           q == [r EXCEPT !.wire = Append(r.wire, c), !.stream = end, !.complete = whole]
<1>1. r \in Reader /\ r.wire \in Seq(Chunk) /\ r.said \in Nat /\ r.called \in Nat
      /\ Serving(s) /\ Len(r.wire) < MaxWire /\ r.phase = "reading" /\ r.stream = "open"
      /\ ~ r.complete
  <2>1. ReaderOK(r) /\ Serving(s)
    BY ReaderIs DEF ServerEnds
  <2> QED BY <2>1, ReaderIs DEF ServerEnds, Serving, ReaderOK
<1>2. c \in Chunk /\ c.kind \in {"done", "error"}
  BY <1>1 DEF Chunk
<1>3. reader' = [reader EXCEPT ![s] = q] /\ UNCHANGED <<turns, isStreaming, controller, request>>
  BY <1>0 DEF ServerEnds, ConversationInv, ChatTypes
<1>4. end \in {"done", "ended"} /\ whole \in BOOLEAN /\ (c.kind = "done" => whole)
  OBVIOUS
<1> HIDE DEF r, c, end, whole
<1>5. Append(r.wire, c) \in Seq(Chunk)
  BY <1>1, <1>2, Sent
<1>6. /\ q \in Reader /\ q.wire = Append(r.wire, c) /\ q.phase = "reading" /\ q.stream # "open"
      /\ q.settled = r.settled /\ q.said = r.said /\ q.complete = whole
  BY <1>1, <1>4, <1>5 DEF Reader
<1> HIDE DEF q
<1>7. ASSUME NEW t, Fits(t, r, s) PROVE Fits(t, q, s)
  <2>1. t.streaming /\ ~ r.settled
    BY <1>1, <1>7, OpenIs
  <2>2. PICK a \in Nat, b \in Nat :
          b <= r.said /\ Under(r, a, b) /\ t.content = Copies(s, r.said - b)
    BY <1>1, <1>7, OpenIs
  <2>3. Len(r.wire) = a + b
    BY <2>2 DEF Under
  <2>4. Len(q.wire) = a + b + 1 /\ q.wire[a + b + 1] = c
        /\ \A n \in 1 .. a + b : q.wire[n] = r.wire[n]
    BY <1>1, <1>2, <1>6, <2>3, Sent
  <2>5. \A n \in 1 .. a : q.wire[n].kind \in {"started", "finished"}
    <3>1. \A n \in 1 .. a : n \in 1 .. a + b
      OBVIOUS
    <3> QED BY <3>1, <2>2, <2>4 DEF Under
  <2>6. \A n \in a + 1 .. a + b : q.wire[n].kind = "delta"
    <3>1. \A n \in a + 1 .. a + b : n \in 1 .. a + b
      OBVIOUS
    <3> QED BY <3>1, <2>2, <2>4 DEF Under
  <2>7. Ahead(q, a, b)
    BY <2>4, <2>5, <2>6, <1>2, <1>4, <1>6 DEF Ahead
  <2>8. \E x, y \in Nat : y <= q.said /\ Ahead(q, x, y) /\ t.content = Copies(s, q.said - y)
    BY <2>2, <2>7, <1>6
  <2> QED BY <1>1, <1>6, <1>7, <2>1, <2>8 DEF Fits
<1> QED BY <1>1, <1>2, <1>3, <1>6, <1>7, Serve DEF r


\* The first chunk is taken from the wire.
LEMMA Received ==
  ASSUME NEW w \in Seq(Chunk), w # <<>>
  PROVE  /\ Head(w) = w[1] /\ w[1] \in Chunk /\ Len(w) \in Nat \ {0}
         /\ Tail(w) \in Seq(Chunk) /\ Len(Tail(w)) = Len(w) - 1
         /\ \A n \in 1 .. Len(w) - 1 : Tail(w)[n] = w[n + 1]
OBVIOUS

\* A tool call comes first, so it is one of those on the way.
LEMMA CallComes ==
  ASSUME NEW r \in Reader, NEW q, NEW a \in Nat, NEW b \in Nat, Ahead(r, a, b), r.wire # <<>>,
         Head(r.wire).kind \in {"started", "finished"}, q.wire = Tail(r.wire),
         q.stream = r.stream, q.complete = r.complete
  PROVE  a - 1 \in Nat /\ Ahead(q, a - 1, b)
<1>1. r.wire \in Seq(Chunk)
  BY DEF Reader
<1> DEFINE w == r.wire
<1>2. w[1].kind \in {"started", "finished"} /\ Len(w) \in Nat \ {0}
      /\ Len(q.wire) = Len(w) - 1 /\ \A n \in 1 .. Len(w) - 1 : q.wire[n] = w[n + 1]
  BY <1>1, Received
<1>3. a # 0
  <2> SUFFICES ASSUME a = 0 PROVE FALSE
    OBVIOUS
  <2>1. CASE b = 0
    BY <2>1, <1>2 DEF Ahead
  <2>2. CASE b # 0
    <3>1. 1 \in a + 1 .. a + b
      BY <2>2
    <3> QED BY <3>1, <1>2 DEF Ahead
  <2> QED BY <2>1, <2>2
<1>4. PICK d \in Nat : a = d + 1
  <2>1. a - 1 \in Nat /\ a = (a - 1) + 1
    BY <1>3
  <2> QED BY <2>1
<1> HIDE DEF w
<1>5. Len(w) \in {d + b + 1, d + b + 2}
  BY <1>4 DEF Ahead, w
<1>6. \A n \in 1 .. d : q.wire[n].kind \in {"started", "finished"}
  <2>1. \A n \in 1 .. d : n \in 1 .. Len(w) - 1 /\ n + 1 \in 1 .. a
    BY <1>4, <1>5
  <2> QED BY <2>1, <1>2 DEF Ahead, w
<1>7. \A n \in d + 1 .. d + b : q.wire[n].kind = "delta"
  <2>1. \A n \in d + 1 .. d + b : n \in 1 .. Len(w) - 1 /\ n + 1 \in a + 1 .. a + b
    BY <1>4, <1>5
  <2> QED BY <2>1, <1>2 DEF Ahead, w
<1>8. Len(q.wire) = d + b + 1 =>
        /\ q.stream # "open" /\ q.wire[d + b + 1].kind \in {"done", "error"}
        /\ q.wire[d + b + 1].kind = "done" => q.complete
  <2> SUFFICES ASSUME Len(q.wire) = d + b + 1
               PROVE  /\ q.stream # "open" /\ q.wire[d + b + 1].kind \in {"done", "error"}
                      /\ q.wire[d + b + 1].kind = "done" => q.complete
    OBVIOUS
  <2>1. Len(w) = a + b + 1 /\ d + b + 1 \in 1 .. Len(w) - 1 /\ d + b + 1 + 1 = a + b + 1
    BY <1>2, <1>4, <1>5
  <2>2. q.wire[d + b + 1] = w[a + b + 1]
    BY <1>2, <2>1
  <2> QED BY <2>1, <2>2 DEF Ahead, w
<1>9. Len(q.wire) \in {d + b, d + b + 1}
  BY <1>2, <1>5
<1>10. Ahead(q, d, b)
  BY <1>6, <1>7, <1>8, <1>9 DEF Ahead
<1> QED BY <1>4, <1>10

\* A delta comes first, so no tool call is on the way any more.
LEMMA DeltaComes ==
  ASSUME NEW r \in Reader, NEW q, NEW a \in Nat, NEW b \in Nat, Ahead(r, a, b), r.wire # <<>>,
         Head(r.wire).kind = "delta", q.wire = Tail(r.wire),
         q.stream = r.stream, q.complete = r.complete
  PROVE  b - 1 \in Nat /\ Ahead(q, 0, b - 1)
<1>1. r.wire \in Seq(Chunk)
  BY DEF Reader
<1> DEFINE w == r.wire
<1>2. w[1].kind = "delta" /\ Len(w) \in Nat \ {0}
      /\ Len(q.wire) = Len(w) - 1 /\ \A n \in 1 .. Len(w) - 1 : q.wire[n] = w[n + 1]
  BY <1>1, Received
<1>3. a = 0
  <2>1. a # 0 => 1 \in 1 .. a
    OBVIOUS
  <2> QED BY <2>1, <1>2 DEF Ahead
<1>4. PICK d \in Nat : b = d + 1
  <2>1. b # 0
    BY <1>2, <1>3 DEF Ahead
  <2>2. b - 1 \in Nat /\ b = (b - 1) + 1
    BY <2>1
  <2> QED BY <2>2
<1> HIDE DEF w
<1>5. Len(w) \in {d + 1, d + 2}
  BY <1>3, <1>4 DEF Ahead, w
<1>6. \A n \in 1 .. d : q.wire[n].kind = "delta"
  <2>1. \A n \in 1 .. d : n \in 1 .. Len(w) - 1 /\ n + 1 \in a + 1 .. a + b
    BY <1>3, <1>4, <1>5
  <2> QED BY <2>1, <1>2 DEF Ahead, w
<1>7. Len(q.wire) = d + 1 =>
        /\ q.stream # "open" /\ q.wire[d + 1].kind \in {"done", "error"}
        /\ q.wire[d + 1].kind = "done" => q.complete
  <2> SUFFICES ASSUME Len(q.wire) = d + 1
               PROVE  /\ q.stream # "open" /\ q.wire[d + 1].kind \in {"done", "error"}
                      /\ q.wire[d + 1].kind = "done" => q.complete
    OBVIOUS
  <2>1. Len(w) = a + b + 1 /\ d + 1 \in 1 .. Len(w) - 1 /\ d + 1 + 1 = a + b + 1
    BY <1>2, <1>3, <1>4, <1>5
  <2>2. q.wire[d + 1] = w[a + b + 1]
    BY <1>2, <2>1
  <2> QED BY <2>1, <2>2 DEF Ahead, w
<1>8. Len(q.wire) \in {d, d + 1}
  BY <1>2, <1>5
<1>9. Ahead(q, 0, d)
  BY <1>6, <1>7, <1>8 DEF Ahead
<1> QED BY <1>4, <1>9

\* "done" comes first, so it is the last chunk, and the reply has been generated to its end.
LEMMA DoneComes ==
  ASSUME NEW r \in Reader, NEW a \in Nat, NEW b \in Nat, Ahead(r, a, b), r.wire # <<>>,
         Head(r.wire).kind = "done"
  PROVE  b = 0 /\ r.complete /\ r.stream # "open" /\ Tail(r.wire) = <<>>
<1>1. r.wire \in Seq(Chunk)
  BY DEF Reader
<1>2. r.wire[1].kind = "done" /\ Len(r.wire) \in Nat \ {0}
      /\ Tail(r.wire) \in Seq(Chunk) /\ Len(Tail(r.wire)) = Len(r.wire) - 1
  BY <1>1, Received
<1>3. a = 0
  <2>1. a # 0 => 1 \in 1 .. a
    OBVIOUS
  <2> QED BY <2>1, <1>2 DEF Ahead
<1>4. b = 0
  <2>1. b # 0 => 1 \in a + 1 .. a + b
    BY <1>3
  <2> QED BY <2>1, <1>2 DEF Ahead
<1>5. Len(r.wire) = 1
  BY <1>2, <1>3, <1>4 DEF Ahead
<1>6. Tail(r.wire) = <<>>
  <2>1. \A v \in Seq(Chunk) : Len(v) = 0 => v = <<>>
    OBVIOUS
  <2>2. Len(Tail(r.wire)) = 0
    BY <1>2, <1>5
  <2> QED BY <2>1, <2>2, <1>2
<1> QED BY <1>2, <1>3, <1>4, <1>5, <1>6 DEF Ahead


LEMMA OneMore ==
  ASSUME NEW s \in Sends, NEW n \in Nat
  PROVE  Append(Copies(s, n), s) = Copies(s, n + 1)
<1>1. Copies(s, n) \in Seq(Sends) /\ Len(Copies(s, n)) = n
      /\ \A i \in 1 .. n : Copies(s, n)[i] = s
  BY DEF Copies
<1>2. Copies(s, n + 1) \in Seq(Sends) /\ Len(Copies(s, n + 1)) = n + 1
      /\ \A i \in 1 .. n + 1 : Copies(s, n + 1)[i] = s
  BY DEF Copies
<1>3. Append(Copies(s, n), s) \in Seq(Sends) /\ Len(Append(Copies(s, n), s)) = n + 1
      /\ \A i \in 1 .. n + 1 : Append(Copies(s, n), s)[i] = s
  BY <1>1
<1> HIDE DEF Copies
<1> QED BY <1>2, <1>3

\* The turn that fits a reader about to take the chunk at the head of the wire.
LEMMA TakenIs ==
  ASSUME NEW r \in Reader, NEW t, NEW s, Fits(t, r, s), r.phase = "reading", r.wire # <<>>
  PROVE  /\ t.streaming /\ ~ r.settled
         /\ \E a, b \in Nat : b <= r.said /\ Ahead(r, a, b) /\ t.content = Copies(s, r.said - b)
<1>1. t.streaming /\ ~ r.settled
  BY DEF Fits
<1> QED BY <1>1 DEF Fits

\* A turn that has another tool call, or the end of one, fits as it did.
LEMMA CallFits ==
  ASSUME NEW r \in Reader, NEW t, NEW u, NEW q, NEW s \in Sends, Fits(t, r, s),
         r.phase = "reading", r.wire # <<>>, Head(r.wire).kind \in {"started", "finished"},
         q.phase = "reading", q.wire = Tail(r.wire), q.settled = r.settled,
         q.stream = r.stream, q.said = r.said, q.complete = r.complete,
         NEW running, Holds(u, t.content, t.streaming, running, t.failed, t.stopped)
  PROVE  Fits(u, q, s)
<1>1. t.streaming /\ ~ r.settled
  BY TakenIs
<1>2. PICK a \in Nat, b \in Nat : b <= r.said /\ Ahead(r, a, b) /\ t.content = Copies(s, r.said - b)
  BY TakenIs
<1>3. a - 1 \in Nat /\ Ahead(q, a - 1, b)
  BY <1>2, CallComes
<1>4. \E x, y \in Nat : y <= q.said /\ Ahead(q, x, y) /\ u.content = Copies(s, q.said - y)
  BY <1>2, <1>3 DEF Holds
<1> QED BY <1>1, <1>4 DEF Fits, Holds

\* The turn has one delta more, and one less is on the way.
LEMMA DeltaFits ==
  ASSUME NEW r \in Reader, NEW t, NEW u, NEW q, NEW s \in Sends, Fits(t, r, s),
         r.phase = "reading", r.wire # <<>>, Head(r.wire).kind = "delta",
         q.phase = "reading", q.wire = Tail(r.wire), q.settled = r.settled,
         q.stream = r.stream, q.said = r.said, q.complete = r.complete,
         Holds(u, Append(t.content, s), t.streaming, t.running, t.failed, t.stopped)
  PROVE  Fits(u, q, s)
<1>0. r.said \in Nat
  BY DEF Reader
<1>1. t.streaming /\ ~ r.settled
  BY TakenIs
<1>2. PICK a \in Nat, b \in Nat : b <= r.said /\ Ahead(r, a, b) /\ t.content = Copies(s, r.said - b)
  BY TakenIs
<1>3. b - 1 \in Nat /\ Ahead(q, 0, b - 1)
  BY <1>2, DeltaComes
<1>4. r.said - b \in Nat /\ r.said - b + 1 = r.said - (b - 1) /\ b - 1 <= r.said
  BY <1>0, <1>2
<1>5. u.content = Copies(s, r.said - (b - 1))
  BY <1>2, <1>4, OneMore DEF Holds
<1>6. \E x, y \in Nat : y <= q.said /\ Ahead(q, x, y) /\ u.content = Copies(s, q.said - y)
  BY <1>3, <1>4, <1>5
<1> QED BY <1>1, <1>6 DEF Fits, Holds

\* "done" comes when nothing else is on the way: the turn is the whole reply.
LEMMA DoneFits ==
  ASSUME NEW r \in Reader, NEW t, NEW u, NEW q, NEW s \in Sends, Fits(t, r, s),
         r.phase = "reading", r.wire # <<>>, Head(r.wire).kind = "done",
         q.phase = "reading", q.wire = Tail(r.wire), q.settled = TRUE,
         q.stream = r.stream, q.said = r.said, q.complete = r.complete,
         Holds(u, t.content, FALSE, FALSE, t.failed, t.stopped)
  PROVE  Fits(u, q, s)
<1>0. r.said \in Nat
  BY DEF Reader
<1>1. t.streaming /\ ~ r.settled
  BY TakenIs
<1>2. PICK a \in Nat, b \in Nat : b <= r.said /\ Ahead(r, a, b) /\ t.content = Copies(s, r.said - b)
  BY TakenIs
<1>3. b = 0 /\ r.complete /\ r.stream # "open" /\ Tail(r.wire) = <<>>
  BY <1>2, DoneComes
<1>4. u.content = Copies(s, q.said)
  BY <1>0, <1>2, <1>3 DEF Holds
<1> QED BY <1>1, <1>3, <1>4 DEF Fits, Holds


LEMMA ReadChunkStep ==
  ASSUME ConversationInv, NEW s \in Sends, ReadChunk(s), MaxWire \in Nat
  PROVE  ConversationInv'
<1> DEFINE r == reader[s]
           c == Head(r.wire)
           id == AssistantId(s)
           done == r.settled \/ c.kind = "done"
           q == [r EXCEPT !.wire = Tail(r.wire), !.settled = done]
<1>1. /\ r \in Reader /\ r.wire \in Seq(Chunk) /\ r.wire # <<>> /\ ReaderOK(r)
      /\ r.phase = "reading" /\ r.settled \in BOOLEAN
  BY ReaderIs DEF ReadChunk, Reading, Reader
<1>2. c \in Chunk /\ c.calls \in Nat /\ Tail(r.wire) \in Seq(Chunk)
      /\ Len(Tail(r.wire)) = Len(r.wire) - 1 /\ Len(r.wire) \in Nat
  BY <1>1, Received DEF Chunk
<1>3. CASE c.kind = "error"
  <2>1. Finally(s) /\ turns' = Failed(id)
    BY <1>3 DEF ReadChunk
  <2> QED BY <2>1, <1>1, FinallyStep DEF Active
<1>4. CASE c.kind # "error"
  <2>1. /\ turns' = CASE c.kind = "started"  -> ToolStarted(id)
                      [] c.kind = "finished" -> ToolFinished(id)
                      [] c.kind = "delta"    -> Delta(id, s)
                      [] c.kind = "done"     -> Done(id, c.calls)
        /\ reader' = [reader EXCEPT ![s].wire = Tail(@), ![s].settled = @ \/ c.kind = "done"]
        /\ UNCHANGED <<isStreaming, controller, request>>
    BY <1>4 DEF ReadChunk
  <2>2. reader' = [reader EXCEPT ![s] = q]
    BY <2>1 DEF ConversationInv, ChatTypes
  <2>3. c.kind \in {"started", "finished", "delta", "done"}
    BY <1>2, <1>4 DEF Chunk
  <2>4. turns \in Seq(Turn)
        /\ \A i \in 1 .. Len(turns) : turns[i].id = id => Fits(turns[i], r, s)
    BY DEF ConversationInv, ChatTypes
  <2>5. done \in BOOLEAN /\ (c.kind # "done" => done = r.settled) /\ (c.kind = "done" => done = TRUE)
    BY <1>1
  <2> HIDE DEF r, c, done, id
  <2>6. /\ q \in Reader /\ q.wire = Tail(r.wire) /\ q.settled = done /\ q.phase = "reading"
        /\ q.stream = r.stream /\ q.said = r.said /\ q.complete = r.complete
    BY <1>1, <1>2, <2>5 DEF Reader
  <2> HIDE DEF q
  <2>7. ReaderOK(q) /\ Kept(q, r)
    BY <1>1, <1>2, <2>6 DEF ReaderOK, Kept
  <2>8. Reduced(turns', id) /\ \A i \in 1 .. Len(turns) : turns[i].id = id => Fits(turns'[i], q, s)
    <3>1. CASE c.kind = "started"
      <4>1. turns' = ToolStarted(id)
        BY <2>1, <3>1
      <4>2. Reduced(turns', id) /\ \A i \in 1 .. Len(turns) : turns[i].id = id =>
              Holds(turns'[i], turns[i].content, turns[i].streaming, TRUE, turns[i].failed,
                    turns[i].stopped)
        BY <4>1, <2>4, ToolStartedIs
      <4>3. ASSUME NEW i \in 1 .. Len(turns), turns[i].id = id PROVE Fits(turns'[i], q, s)
        BY <4>2, <4>3, <2>4, <2>5, <2>6, <3>1, <1>1, CallFits DEF c
      <4> QED BY <4>2, <4>3
    <3>2. CASE c.kind = "finished"
      <4>1. turns' = ToolFinished(id)
        BY <2>1, <3>2
      <4>2. Reduced(turns', id) /\ \A i \in 1 .. Len(turns) : turns[i].id = id =>
              Holds(turns'[i], turns[i].content, turns[i].streaming, FALSE, turns[i].failed,
                    turns[i].stopped)
        BY <4>1, <2>4, ToolFinishedIs
      <4>3. ASSUME NEW i \in 1 .. Len(turns), turns[i].id = id PROVE Fits(turns'[i], q, s)
        BY <4>2, <4>3, <2>4, <2>5, <2>6, <3>2, <1>1, CallFits DEF c
      <4> QED BY <4>2, <4>3
    <3>3. CASE c.kind = "delta"
      <4>1. turns' = Delta(id, s)
        BY <2>1, <3>3
      <4>2. Reduced(turns', id) /\ \A i \in 1 .. Len(turns) : turns[i].id = id =>
              Holds(turns'[i], Append(turns[i].content, s), turns[i].streaming, turns[i].running,
                    turns[i].failed, turns[i].stopped)
        BY <4>1, <2>4, DeltaIs
      <4>3. ASSUME NEW i \in 1 .. Len(turns), turns[i].id = id PROVE Fits(turns'[i], q, s)
        BY <4>2, <4>3, <2>4, <2>5, <2>6, <3>3, <1>1, DeltaFits DEF c
      <4> QED BY <4>2, <4>3
    <3>4. CASE c.kind = "done"
      <4>1. turns' = Done(id, c.calls)
        BY <2>1, <3>4
      <4>2. Reduced(turns', id) /\ \A i \in 1 .. Len(turns) : turns[i].id = id =>
              Holds(turns'[i], turns[i].content, FALSE, FALSE, turns[i].failed, turns[i].stopped)
        BY <4>1, <2>4, <1>2, DoneIs
      <4>3. ASSUME NEW i \in 1 .. Len(turns), turns[i].id = id PROVE Fits(turns'[i], q, s)
        BY <4>2, <4>3, <2>4, <2>5, <2>6, <3>4, <1>1, DoneFits DEF c
      <4> QED BY <4>2, <4>3
    <3> QED BY <2>3, <3>1, <3>2, <3>3, <3>4
  <2>9. OneUnderWay'
    BY <2>1, <2>2, <2>6, <1>1, GoesOn DEF Active, r
  <2>10. isStreaming' \in BOOLEAN /\ controller' \in Sends \cup {NoSend} /\ UNCHANGED request
    BY <2>1 DEF ConversationInv, ChatTypes
  <2> QED BY <2>2, <2>6, <2>7, <2>8, <2>9, <2>10, ReaderMoves DEF r, id
<1> QED BY <1>3, <1>4

\* What ends the reading of a send.
LEMMA EndsStep ==
  ASSUME ConversationInv, NEW s \in Sends, MaxWire \in Nat,
         Refused(s) \/ Aborted(s) \/ StreamEnded(s) \/ StreamBroke(s)
  PROVE  ConversationInv'
<1>1. Active(s) /\ Finally(s)
  BY DEF Refused, Aborted, StreamEnded, StreamBroke, Reading, Active
<1>2. \/ turns' = Failed(AssistantId(s)) \/ turns' = Stopped(AssistantId(s))
      \/ turns' = turns /\ reader[s].settled
  BY DEF Refused, Aborted, StreamEnded, StreamBroke
<1> QED BY <1>1, <1>2, FinallyStep


-----------------------------------------------------------------------------
(***************************************************************************)
(* The conversation: what the user does.                                   *)
(***************************************************************************)

\* A reader that is as far as another: only the abort signal may differ.
AsFar(q, r) ==
  /\ q.phase = r.phase /\ q.settled = r.settled /\ q.wire = r.wire /\ q.stream = r.stream
  /\ q.said = r.said /\ q.complete = r.complete

LEMMA AbortIs ==
  ASSUME ConversationInv, reader' = Abort(reader)
  PROVE  reader' \in [Sends -> Reader] /\ \A s \in Sends : AsFar(reader'[s], reader[s])
<1>1. reader \in [Sends -> Reader] /\ controller \in Sends \cup {NoSend}
  BY DEF ConversationInv, ChatTypes
<1>2. CASE controller = NoSend
  BY <1>1, <1>2 DEF Abort, AsFar
<1>3. CASE controller # NoSend
  <2> DEFINE q == [reader[controller] EXCEPT !.aborted = TRUE]
  <2>1. controller \in Sends /\ reader[controller] \in Reader
    BY <1>1, <1>3
  <2>2. q \in Reader /\ AsFar(q, reader[controller])
    BY <2>1 DEF Reader, AsFar
  <2>3. reader' = [reader EXCEPT ![controller] = q]
    BY <1>1, <1>3, <2>1 DEF Abort
  <2> HIDE DEF q
  <2> QED BY <1>1, <2>1, <2>2, <2>3 DEF AsFar
<1> QED BY <1>2, <1>3

\* Readers as far as they were: what held of them and of the request holds.
LEMMA AsFarAs ==
  ASSUME ConversationInv, \A s \in Sends : AsFar(reader'[s], reader[s]),
         UNCHANGED <<isStreaming, controller, request>>
  PROVE  /\ \A s \in Sends : ReaderOK(reader[s])'
         /\ OneUnderWay'
         /\ \A k \in 1 .. Len(request') : MessageOK(k)'
<1>1. \A s \in Sends : ReaderOK(reader[s])'
  BY DEF ConversationInv, ReaderOK, AsFar
<1>2. OneUnderWay'
  BY DEF ConversationInv, OneUnderWay, Active, AsFar
<1>3. \A s \in Sends : Kept(reader'[s], reader[s])
  BY DEF Kept, AsFar
<1>4. \A k \in 1 .. Len(request') : MessageOK(k)'
  BY <1>3, RequestStays
<1> QED BY <1>1, <1>2, <1>4

LEMMA StopStep ==
  ASSUME ConversationInv, Stop
  PROVE  ConversationInv'
<1>1. reader' \in [Sends -> Reader] /\ \A s \in Sends : AsFar(reader'[s], reader[s])
  BY AbortIs DEF Stop
<1>2. UNCHANGED <<turns, isStreaming, controller, request>>
  BY DEF Stop
<1>3. /\ OneUnderWay' /\ \A s \in Sends : ReaderOK(reader'[s])
      /\ \A k \in 1 .. Len(request') : MessageOK(k)'
  BY <1>1, <1>2, AsFarAs
<1>4. ChatTypes'
  BY <1>1, <1>2 DEF ConversationInv, ChatTypes
<1>5. Len(turns') % 2 = 0 /\ \A i \in 1 .. Len(turns') : PairOK(i)'
  BY <1>2 DEF ConversationInv, PairOK
<1>6. ASSUME NEW i \in 1 .. Len(turns), NEW s \in Sends, turns[i].id = AssistantId(s)
      PROVE  Fits(turns[i], reader'[s], s)
  <2>1. Fits(turns[i], reader[s], s)
    BY <1>6 DEF ConversationInv
  <2>2. reader[s].phase # "unsent"
    BY <2>1 DEF Fits
  <2>3. AsFar(reader'[s], reader[s])
    BY <1>1
  <2> HIDE DEF Fits
  <2> QED BY <2>1, <2>2, <2>3, FitsAsBefore DEF AsFar
<1>7. \A i \in 1 .. Len(turns'), s \in Sends :
        turns'[i].id = AssistantId(s) => Fits(turns'[i], reader'[s], s)
  BY <1>6, <1>2
<1> QED BY <1>3, <1>4, <1>5, <1>7 DEF ConversationInv, OneUnderWay

LEMMA NewChatStep ==
  ASSUME ConversationInv, NewChat
  PROVE  ConversationInv'
<1>1. reader' \in [Sends -> Reader] /\ \A s \in Sends : AsFar(reader'[s], reader[s])
  BY AbortIs DEF NewChat
<1>2. turns' = <<>> /\ UNCHANGED <<isStreaming, controller, request>>
  BY DEF NewChat
<1>3. /\ OneUnderWay' /\ \A s \in Sends : ReaderOK(reader'[s])
      /\ \A k \in 1 .. Len(request') : MessageOK(k)'
  BY <1>1, <1>2, AsFarAs
<1>4. ChatTypes'
  BY <1>1, <1>2 DEF ConversationInv, ChatTypes
<1>5. Len(turns') = 0 /\ 1 .. 0 = {} /\ 0 % 2 = 0
  BY <1>2
<1> QED BY <1>3, <1>4, <1>5 DEF ConversationInv, OneUnderWay

LEMMA RemountStep ==
  ASSUME ConversationInv, Remount, MaxWire \in Nat
  PROVE  ConversationInv'
<1>1. /\ turns' = <<>> /\ isStreaming' = FALSE /\ controller' = NoSend /\ UNCHANGED request
      /\ reader' = [s \in Sends |-> IF reader[s].phase = "unsent" THEN reader[s]
                                    ELSE Over(reader[s])]
  BY DEF Remount
<1>2. reader \in [Sends -> Reader] /\ request \in Seq(Messages)
  BY DEF ConversationInv, ChatTypes
<1>3. ASSUME NEW s \in Sends
      PROVE  /\ reader'[s] \in Reader /\ ReaderOK(reader'[s]) /\ Kept(reader'[s], reader[s])
             /\ reader'[s].phase \in {"unsent", "over"}
  <2>1. CASE reader[s].phase = "unsent"
    <3>1. reader'[s] = reader[s]
      BY <1>1, <2>1
    <3> QED BY <3>1, <2>1, <1>2 DEF ConversationInv, Kept
  <2>2. CASE reader[s].phase # "unsent"
    <3>1. reader'[s] = Over(reader[s])
      BY <1>1, <2>2
    <3>2. /\ Over(reader[s]) \in Reader /\ Over(reader[s]).phase = "over"
          /\ ~ Over(reader[s]).settled /\ Over(reader[s]).wire = <<>>
          /\ Over(reader[s]).said = reader[s].said
          /\ Over(reader[s]).complete = reader[s].complete
      BY <1>2, OverIs
    <3> QED BY <3>1, <3>2 DEF ReaderOK, Kept
  <2> QED BY <2>1, <2>2
<1>4. ChatTypes'
  <2>1. reader' \in [Sends -> Reader]
    BY <1>1, <1>3
  <2>2. turns' \in Seq(Turn) /\ request' \in Seq(Messages)
    BY <1>1, <1>2
  <2> QED BY <2>1, <2>2, <1>1 DEF ChatTypes
<1>5. OneUnderWay'
  BY <1>1, <1>3 DEF OneUnderWay, Active
<1>6. \A k \in 1 .. Len(request') : MessageOK(k)'
  BY <1>1, <1>3, RequestStays
<1>7. Len(turns') = 0 /\ 1 .. 0 = {} /\ 0 % 2 = 0
  BY <1>1
<1> QED BY <1>3, <1>4, <1>5, <1>6, <1>7 DEF ConversationInv, OneUnderWay

LEMMA PlayInitOK == PlayInit => ConversationInv
<1> SUFFICES ASSUME PlayInit PROVE ConversationInv
  OBVIOUS
<1>1. /\ Idle \in Reader /\ Idle.phase = "unsent" /\ Idle.wire = <<>> /\ Idle.said = 0
      /\ ~ Idle.settled /\ Idle.stream = "open" /\ ~ Idle.complete
  <2>1. <<>> \in Seq(Chunk) /\ 0 \in Nat
    OBVIOUS
  <2> QED BY <2>1 DEF Idle, Reader
<1>2. \A s \in Sends : reader[s] = Idle
  BY DEF PlayInit
<1>3. ChatTypes
  <2>1. turns \in Seq(Turn) /\ request \in Seq(Messages)
    BY DEF PlayInit
  <2> QED BY <2>1, <1>1 DEF PlayInit, ChatTypes
<1>4. \A s \in Sends : ReaderOK(reader[s])
  BY <1>1, <1>2, PlaygroundAssumption DEF ReaderOK
<1>5. \A s \in Sends : Active(s) <=> isStreaming /\ controller = s
  BY <1>1, <1>2 DEF PlayInit, Active
<1>6. Len(turns) = 0 /\ Len(request) = 0 /\ 1 .. 0 = {} /\ 0 % 2 = 0
  BY DEF PlayInit
<1> QED BY <1>3, <1>4, <1>5, <1>6 DEF ConversationInv


-----------------------------------------------------------------------------
(***************************************************************************)
(* The conversation: the messages that are sent again.                     *)
(***************************************************************************)

LEMMA SmallestOf ==
  ASSUME NEW S \in SUBSET Nat, S # {}
  PROVE  \E m \in S : \A n \in S : m <= n
<1>1. PICK m \in S : \A n \in S : ~ (<<n, m>> \in OpToRel(<, Nat))
  BY WFMin, NatLessThanWellFounded
<1>2. ASSUME NEW n \in S, n < m PROVE FALSE
  <2>1. <<n, m>> \in Nat \X Nat /\ <<n, m>>[1] < <<n, m>>[2]
    BY <1>2
  <2>2. <<n, m>> \in OpToRel(<, Nat)
    BY <2>1 DEF OpToRel
  <2> QED BY <1>1, <2>2
<1>3. \A n \in S : m <= n
  BY <1>2
<1> QED BY <1>3

\* An enumeration of a set, the smallest first.
Increasing(f, S) ==
  /\ f \in [1 .. Cardinality(S) -> S]
  /\ \A i, j \in 1 .. Cardinality(S) : i < j => f[i] < f[j]

\* Every finite set of numbers has one, or a smallest one without would have one.
LEMMA AscendingIs ==
  ASSUME NEW S \in SUBSET Nat, IsFiniteSet(S)
  PROVE  Increasing(Ascending(S), S)
<1> DEFINE Bad == {n \in Nat : \E R \in SUBSET Nat : /\ IsFiniteSet(R) /\ Cardinality(R) = n
                                                     /\ \A f : ~ Increasing(f, R)}
<1>1. ASSUME Bad # {} PROVE FALSE
  <2>1. PICK n \in Bad : \A k \in Bad : n <= k
    BY <1>1, SmallestOf
  <2>2. PICK R \in SUBSET Nat : /\ IsFiniteSet(R) /\ Cardinality(R) = n
                                /\ \A f : ~ Increasing(f, R)
    BY <2>1
  <2>3. n \in Nat
    BY <2>1
  <2>4. R # {}
    <3> SUFFICES ASSUME R = {} PROVE FALSE
      OBVIOUS
    <3>1. Cardinality(R) = 0 /\ 1 .. 0 = {}
      BY FS_EmptySet
    <3>2. Increasing([i \in 1 .. 0 |-> i], R)
      BY <3>1 DEF Increasing
    <3> QED BY <3>2, <2>2
  <2>5. PICK m \in R : \A k \in R : m <= k
    BY <2>4, SmallestOf
  <2> DEFINE T == R \ {m}
  <2>6. T \in SUBSET Nat /\ IsFiniteSet(T) /\ Cardinality(T) = n - 1 /\ n - 1 \in Nat
    <3>1. IsFiniteSet(T) /\ Cardinality(T) = n - 1
      BY <2>2, <2>5, FS_RemoveElement
    <3>2. n - 1 \in Nat
      BY <3>1, FS_CardinalityType
    <3> QED BY <3>1, <3>2
  <2>7. n - 1 \notin Bad
    <3>1. ~ (n <= n - 1)
      BY <2>3
    <3> HIDE DEF Bad
    <3> QED BY <2>1, <3>1
  <2>8. PICK g : Increasing(g, T)
    BY <2>6, <2>7
  <2> DEFINE f == [i \in 1 .. n |-> IF i = 1 THEN m ELSE g[i - 1]]
  <2>9. g \in [1 .. n - 1 -> T] /\ \A i, j \in 1 .. n - 1 : i < j => g[i] < g[j]
    BY <2>6, <2>8 DEF Increasing
  <2>10. \A i \in 1 .. n : i = 1 \/ i - 1 \in 1 .. n - 1
    BY <2>3
  <2>11. f \in [1 .. n -> R]
    BY <2>5, <2>9, <2>10
  <2>12. ASSUME NEW i \in 1 .. n, NEW j \in 1 .. n, i < j PROVE f[i] < f[j]
    <3>1. j # 1 /\ j - 1 \in 1 .. n - 1 /\ g[j - 1] \in T /\ f[j] = g[j - 1]
      BY <2>9, <2>10, <2>12
    <3>2. CASE i = 1
      <4>1. f[i] = m
        BY <3>2
      <4>2. f[j] \in R /\ f[j] # m
        BY <3>1
      <4> HIDE DEF f
      <4>3. m <= f[j] /\ m \in Nat /\ f[j] \in Nat
        BY <4>2, <2>5
      <4> QED BY <4>1, <4>2, <4>3
    <3>3. CASE i # 1
      <4>1. i - 1 \in 1 .. n - 1 /\ i - 1 < j - 1 /\ f[i] = g[i - 1]
        BY <2>10, <2>12, <3>3
      <4> QED BY <3>1, <4>1, <2>9
    <3> QED BY <3>2, <3>3
  <2> HIDE DEF f
  <2>13. Increasing(f, R)
    BY <2>2, <2>11, <2>12 DEF Increasing
  <2> QED BY <2>2, <2>13
<1>2. \E f : Increasing(f, S)
  <2>1. Cardinality(S) \in Nat
    BY FS_CardinalityType
  <2> QED BY <1>1, <2>1
<1> QED BY <1>2 DEF Ascending, Increasing


\* A message of a request that is whole, given the readers and the message before it.
WholeIn(h, k) ==
  LET m == h[k] IN
  m.role = "assistant" =>
    /\ reader[m.of].complete /\ m.content = Copies(m.of, reader[m.of].said)
    /\ k # 1 /\ h[k - 1].of = m.of

\* Once no reply is under way, the kept pairs are whole and follow their messages.
LEMMA HistoryIs ==
  ASSUME ConversationInv, ~ isStreaming
  PROVE  LET h == TurnsToHistory(turns) IN
         /\ h \in Seq(Messages)
         /\ \A k \in 1 .. Len(h) : WholeIn(h, k)
<1> DEFINE S == {i \in 1 .. Len(turns) : i % 2 = 0 /\ ~ turns[i].failed /\ ~ turns[i].stopped}
           h == TurnsToHistory(turns)
           N == Cardinality(S)
           p(k) == Ascending(S)[(k + 1) \div 2]
<1>1. turns \in Seq(Turn) /\ Len(turns) \in Nat
  BY DEF ConversationInv, ChatTypes
<1>2. IsFiniteSet(S) /\ S \in SUBSET Nat
  <2>1. IsFiniteSet(1 .. Len(turns)) /\ 1 .. Len(turns) \subseteq Nat
    BY <1>1, FS_Interval
  <2>2. S \in SUBSET (1 .. Len(turns))
    OBVIOUS
  <2> HIDE DEF S
  <2> QED BY <2>1, <2>2, FS_Subset
<1>3. N \in Nat /\ Ascending(S) \in [1 .. N -> S]
  BY <1>2, AscendingIs, FS_CardinalityType DEF Increasing
<1>4. h = [k \in 1 .. 2 * N |-> Message(turns[p(k) - (k % 2)])]
  BY DEF TurnsToHistory, HistoryOf
<1>5. \A k \in 1 .. 2 * N : (k + 1) \div 2 \in 1 .. N /\ k % 2 \in {0, 1}
  BY <1>3
<1>6. ASSUME NEW i \in S
      PROVE  \E s \in Sends :
               /\ Message(turns[i - 1]) = [role |-> "user", content |-> turns[i - 1].content, of |-> s]
               /\ Message(turns[i]) = [role |-> "assistant", content |-> turns[i].content, of |-> s]
               /\ reader[s].complete /\ turns[i].content = Copies(s, reader[s].said)
               /\ turns[i - 1].content \in Seq(Sends) /\ turns[i].content \in Seq(Sends)
  <2>1. /\ i \in 1 .. Len(turns) /\ i % 2 = 0 /\ i - 1 \in 1 .. Len(turns) /\ (i - 1) % 2 = 1
        /\ ~ turns[i].failed /\ ~ turns[i].stopped
    BY <1>1
  <2> HIDE DEF S
  <2>2. PICK s \in Sends : /\ turns[i].role = "assistant" /\ turns[i].id = AssistantId(s)
                           /\ turns[i - 1].id = UserId(s)
    BY <2>1 DEF ConversationInv, PairOK
  <2>3. turns[i - 1].role = "user"
    BY <2>1 DEF ConversationInv, PairOK
  <2>4. Fits(turns[i], reader[s], s)
    BY <2>1, <2>2 DEF ConversationInv
  <2>5. ~ (reader[s].phase \in {"requesting", "reading"})
    BY DEF ConversationInv, Active
  <2>6. reader[s].complete /\ turns[i].content = Copies(s, reader[s].said)
    BY <2>1, <2>4, <2>5 DEF Fits
  <2>7. (turns[i].id + 1) \div 2 = s /\ (turns[i - 1].id + 1) \div 2 = s
    BY <2>2, SendsAre
  <2>8. turns[i] \in Turn /\ turns[i - 1] \in Turn
    BY <2>1, <1>1
  <2>9. turns[i - 1].content \in Seq(Sends) /\ turns[i].content \in Seq(Sends)
    BY <2>8 DEF Turn
  <2> QED BY <2>2, <2>3, <2>6, <2>7, <2>9 DEF Message
<1> HIDE DEF S, h
<1>7. ASSUME NEW k \in 1 .. 2 * N PROVE h[k] \in Messages /\ WholeIn(h, k)
  <2>1. p(k) \in S /\ k % 2 \in {0, 1} /\ h[k] = Message(turns[p(k) - (k % 2)])
    BY <1>3, <1>4, <1>5
  <2> DEFINE i == p(k)
  <2>2. PICK s \in Sends :
               /\ Message(turns[i - 1]) = [role |-> "user", content |-> turns[i - 1].content, of |-> s]
               /\ Message(turns[i]) = [role |-> "assistant", content |-> turns[i].content, of |-> s]
               /\ reader[s].complete /\ turns[i].content = Copies(s, reader[s].said)
               /\ turns[i - 1].content \in Seq(Sends) /\ turns[i].content \in Seq(Sends)
    BY <2>1, <1>6
  <2>3. CASE k % 2 = 1
    <3>1. h[k] = Message(turns[i - 1])
      BY <2>1, <2>3
    <3> HIDE DEF i
    <3> QED BY <2>2, <3>1 DEF Messages, WholeIn
  <2>4. CASE k % 2 = 0
    <3>1. i \in Nat /\ i - 0 = i
      <4>1. \A n \in Nat : n - 0 = n
        OBVIOUS
      <4>2. i \in Nat
        BY <2>1, <1>2
      <4> QED BY <4>1, <4>2
    <3>2. h[k] = Message(turns[i])
      BY <2>1, <2>4, <3>1
    <3>3. /\ k # 1 /\ k - 1 \in 1 .. 2 * N /\ (k - 1) % 2 = 1 /\ (k - 1 + 1) \div 2 = (k + 1) \div 2
      BY <2>4, <1>3
    <3>4. h[k - 1] = Message(turns[i - 1])
      BY <3>3, <1>4
    <3> HIDE DEF i
    <3> QED BY <2>2, <3>2, <3>3, <3>4 DEF Messages, WholeIn
  <2> QED BY <2>1, <2>3, <2>4
<1>8. 2 * N \in Nat
  BY <1>3
<1>9. h \in Seq(Messages) /\ Len(h) = 2 * N
  <2>1. \A k \in 1 .. 2 * N : h[k] \in Messages
    BY <1>7
  <2>2. h = [k \in 1 .. 2 * N |-> h[k]]
    BY <1>4
  <2> HIDE DEF p, N
  <2> QED BY <2>1, <2>2, <1>8
<1> QED BY <1>7, <1>9 DEF h


LEMMA TurnsAdded ==
  ASSUME NEW w \in Seq(Turn), NEW u \in Turn, NEW v \in Turn
  PROVE  /\ w \o <<u, v>> \in Seq(Turn) /\ Len(w \o <<u, v>>) = Len(w) + 2 /\ Len(w) \in Nat
         /\ \A i \in 1 .. Len(w) : (w \o <<u, v>>)[i] = w[i]
         /\ (w \o <<u, v>>)[Len(w) + 1] = u /\ (w \o <<u, v>>)[Len(w) + 2] = v
<1>1. <<u, v>> \in Seq(Turn) /\ Len(<<u, v>>) = 2 /\ <<u, v>>[1] = u /\ <<u, v>>[2] = v
  OBVIOUS
<1> QED BY <1>1

LEMMA SendStep ==
  ASSUME ConversationInv, NEW s \in Sends, NEW in \in Inputs, Send(s, in), MaxWire \in Nat
  PROVE  ConversationInv'
<1> DEFINE h == TurnsToHistory(turns)
           body == BuildChatRequest(h, s, in)
           u == NewTurn(UserId(s), "user", <<s>>, FALSE, FALSE)
           v == NewTurn(AssistantId(s), "assistant", <<>>, TRUE, body.schema)
           m == [role |-> "user", content |-> <<s>>, of |-> s]
           q == [reader[s] EXCEPT !.phase = "requesting"]
<1>0. PICK N \in Nat : N = Len(turns)
  BY DEF ConversationInv, ChatTypes
<1>1. /\ turns \in Seq(Turn) /\ reader \in [Sends -> Reader] /\ reader[s] \in Reader
      /\ ReaderOK(reader[s]) /\ N \in Nat /\ N % 2 = 0 /\ N = Len(turns)
  BY <1>0 DEF ConversationInv, ChatTypes
<1>2. /\ ~ isStreaming /\ reader[s].phase = "unsent" /\ turns' = turns \o <<u, v>>
      /\ request' = body.messages /\ reader' = [reader EXCEPT ![s] = q]
      /\ controller' = s /\ isStreaming' = TRUE
  BY <1>1 DEF Send, Composer, ConversationInv, ChatTypes
<1>3. body.messages = Append(h, m) /\ body.schema \in BOOLEAN
  BY DEF BuildChatRequest
<1>4. h \in Seq(Messages) /\ \A k \in 1 .. Len(h) : WholeIn(h, k)
  BY <1>2, HistoryIs
<1>5. <<s>> \in Seq(Sends) /\ <<>> \in Seq(Sends) /\ m \in Messages /\ m.role = "user"
  BY DEF Messages
<1>6. UserId(s) \in Nat /\ AssistantId(s) \in Nat /\ UserId(s) # AssistantId(s)
  BY SendsAre
<1> HIDE DEF h, body
<1>7. /\ u \in Turn /\ u.id = UserId(s) /\ u.role = "user" /\ ~ u.streaming /\ ~ u.running
  BY <1>5, <1>6 DEF NewTurn, Turn
<1>8. /\ v \in Turn /\ v.id = AssistantId(s) /\ v.role = "assistant" /\ v.streaming
      /\ ~ v.running /\ v.content = <<>>
  BY <1>3, <1>5, <1>6 DEF NewTurn, Turn
<1>9. /\ q \in Reader /\ q.phase = "requesting" /\ q.settled = reader[s].settled
      /\ q.wire = reader[s].wire /\ q.stream = reader[s].stream
      /\ q.said = reader[s].said /\ q.complete = reader[s].complete
  BY <1>1 DEF Reader
<1> HIDE DEF u, v, q, m
<1>10. /\ turns' \in Seq(Turn) /\ Len(turns') = N + 2 /\ \A i \in 1 .. N : turns'[i] = turns[i]
       /\ turns'[N + 1] = u /\ turns'[N + 2] = v
  BY <1>1, <1>2, <1>7, <1>8, TurnsAdded
<1>11. /\ request' \in Seq(Messages) /\ Len(request') = Len(h) + 1 /\ Len(h) \in Nat
       /\ \A k \in 1 .. Len(h) : request'[k] = h[k]
       /\ request'[Len(h) + 1] = m
  BY <1>2, <1>3, <1>4, <1>5
<1>12. reader' \in [Sends -> Reader] /\ reader'[s] = q
       /\ \A r \in Sends \ {s} : reader'[r] = reader[r]
  BY <1>1, <1>2, <1>9
<1>13. ChatTypes'
  BY <1>2, <1>10, <1>11, <1>12 DEF ChatTypes
<1>14. \A r \in Sends : ReaderOK(reader'[r])
  <2>1. ReaderOK(q)
    BY <1>1, <1>2, <1>9 DEF ReaderOK
  <2> QED BY <2>1, <1>12 DEF ConversationInv
<1>15. \A r \in Sends : Active(r)' <=> isStreaming' /\ controller' = r
  <2>1. \A r \in Sends : ~ Active(r)
    BY <1>2 DEF ConversationInv
  <2> QED BY <2>1, <1>2, <1>9, <1>12 DEF Active
<1>16. Len(turns') % 2 = 0 /\ \A i \in 1 .. Len(turns') : PairOK(i)'
  <2>1. (N + 2) % 2 = 0 /\ (N + 1) % 2 = 1
    BY <1>1
  <2>2. ASSUME NEW i \in 1 .. N PROVE PairOK(i)'
    <3>1. PairOK(i)
      BY <1>1 DEF ConversationInv
    <3>2. i % 2 # 1 => i - 1 \in 1 .. N
      BY <1>1
    <3> QED BY <3>1, <3>2, <1>10 DEF PairOK
  <2>3. PairOK(N + 1)'
    BY <2>1, <1>7, <1>10 DEF PairOK
  <2>4. PairOK(N + 2)'
    <3>1. N + 2 - 1 = N + 1
      BY <1>1
    <3> QED BY <2>1, <3>1, <1>7, <1>8, <1>10 DEF PairOK
  <2>5. \A i \in 1 .. N + 2 : i \in 1 .. N \/ i = N + 1 \/ i = N + 2
    BY <1>1
  <2> QED BY <2>1, <2>2, <2>3, <2>4, <2>5, <1>10
<1>17. ASSUME NEW i \in 1 .. Len(turns'), NEW r \in Sends, turns'[i].id = AssistantId(r)
       PROVE  Fits(turns'[i], reader'[r], r)
  <2>1. CASE i \in 1 .. N
    <3>1. turns'[i] = turns[i] /\ Fits(turns[i], reader[r], r)
      BY <2>1, <1>1, <1>10, <1>17 DEF ConversationInv
    <3>2. r # s
      BY <3>1, <1>2 DEF Fits
    <3> QED BY <3>1, <3>2, <1>12
  <2>2. CASE i = N + 1
    BY <2>2, <1>7, <1>10, <1>17, SendsAre
  <2>3. CASE i = N + 2
    <3>1. turns'[i] = v /\ r = s
      BY <2>3, <1>8, <1>10, <1>17, SendsAre
    <3>2. q.wire = <<>> /\ q.said = 0 /\ ~ q.settled /\ q.stream = "open"
      BY <1>1, <1>2, <1>9 DEF ReaderOK
    <3>3. Ahead(q, 0, 0) /\ <<>> = Copies(s, 0) /\ 0 - 0 = 0 /\ 0 \in Nat
      BY <3>2 DEF Ahead, Copies
    <3>4. \E a, b \in Nat : b <= q.said /\ Ahead(q, a, b) /\ v.content = Copies(s, q.said - b)
      BY <3>2, <3>3, <1>8
    <3>5. Fits(v, q, s)
      BY <3>2, <3>4, <1>8, <1>9 DEF Fits
    <3> QED BY <3>1, <3>5, <1>12
  <2>4. i \in 1 .. N \/ i = N + 1 \/ i = N + 2
    BY <1>1, <1>10
  <2> QED BY <2>1, <2>2, <2>3, <2>4
<1>18. ASSUME NEW k \in 1 .. Len(request') PROVE MessageOK(k)'
  <2>1. CASE k = Len(h) + 1
    BY <2>1, <1>5, <1>11 DEF MessageOK, m
  <2>2. CASE k \in 1 .. Len(h)
    <3> SUFFICES ASSUME request'[k].role = "assistant"
                 PROVE  /\ reader'[request'[k].of].complete
                        /\ request'[k].content = Copies(request'[k].of, reader'[request'[k].of].said)
                        /\ request'[k - 1].of = request'[k].of
      BY DEF MessageOK
    <3>1. request'[k] = h[k] /\ h[k] \in Messages /\ WholeIn(h, k)
      BY <2>2, <1>4, <1>11
    <3>2. h[k].of \in Sends
      BY <3>1 DEF Messages
    <3>3. /\ reader[h[k].of].complete /\ h[k].content = Copies(h[k].of, reader[h[k].of].said)
          /\ k # 1 /\ h[k - 1].of = h[k].of
      BY <3>1 DEF WholeIn
    <3>4. h[k].of # s
      BY <3>3, <1>1, <1>2 DEF ReaderOK
    <3>5. reader'[h[k].of] = reader[h[k].of]
      BY <3>2, <3>4, <1>12
    <3>6. k - 1 \in 1 .. Len(h)
      BY <2>2, <3>3, <1>11
    <3> QED BY <3>1, <3>3, <3>5, <3>6, <1>11
  <2> QED BY <2>1, <2>2, <1>11
<1> QED BY <1>1, <1>13, <1>14, <1>15, <1>16, <1>17, <1>18 DEF ConversationInv


-----------------------------------------------------------------------------
(***************************************************************************)
(* The conversation: every step, and the properties.                       *)
(***************************************************************************)

LEMMA PlayStep == ConversationInv /\ [PlayNext]_playVars => ConversationInv'
<1> SUFFICES ASSUME ConversationInv, [PlayNext]_playVars
             PROVE  ConversationInv'
  OBVIOUS
<1>0. MaxWire \in Nat
  BY PlaygroundAssumption
<1>1. CASE UNCHANGED playVars
  <2>1. UNCHANGED <<turns, isStreaming, controller, reader, request>>
    BY <1>1 DEF playVars
  <2>2. ChatTypes'
    BY <2>1 DEF ConversationInv, ChatTypes
  <2>3. \A i \in 1 .. Len(turns') : PairOK(i)'
    BY <2>1 DEF ConversationInv, PairOK
  <2>4. \A k \in 1 .. Len(request') : MessageOK(k)'
    BY <2>1 DEF ConversationInv, MessageOK
  <2>5. \A s \in Sends : Active(s)' <=> isStreaming' /\ controller' = s
    BY <2>1 DEF ConversationInv, Active
  <2> QED BY <2>1, <2>2, <2>3, <2>4, <2>5 DEF ConversationInv
<1>2. ASSUME NEW s \in Sends, NEW in \in Inputs, Send(s, in) PROVE ConversationInv'
  BY <1>0, <1>2, SendStep
<1>3. CASE Stop
  BY <1>3, StopStep
<1>4. CASE NewChat
  BY <1>4, NewChatStep
<1>5. CASE Remount
  BY <1>0, <1>5, RemountStep
<1>6. ASSUME NEW s \in Sends, Reads(s) \/ Refused(s) \/ Serves(s) PROVE ConversationInv'
  <2>1. CASE Responded(s)
    BY <2>1, RespondedStep
  <2>2. CASE ReadChunk(s)
    BY <1>0, <2>2, ReadChunkStep
  <2>3. CASE Refused(s) \/ Aborted(s) \/ StreamEnded(s) \/ StreamBroke(s)
    BY <1>0, <2>3, EndsStep
  <2>4. CASE ServerCalls(s)
    BY <1>0, <2>4, ServerCallsStep
  <2>5. CASE ServerSays(s)
    BY <1>0, <2>5, ServerSaysStep
  <2>6. CASE ServerEnds(s)
    BY <1>0, <2>6, ServerEndsStep
  <2>7. CASE ConnectionCloses(s)
    BY <2>7, ClosesStep
  <2> QED BY <1>6, <2>1, <2>2, <2>3, <2>4, <2>5, <2>6, <2>7 DEF Reads, Serves
<1> QED BY <1>1, <1>2, <1>3, <1>4, <1>5, <1>6 DEF PlayNext

\* What the page shows of the turns follows from how they fit their readers.
LEMMA PlayInvHolds == ConversationInv => PlayInv
<1> SUFFICES ASSUME ConversationInv PROVE PlayInv
  OBVIOUS
<1>1. /\ turns \in Seq(Turn) /\ DOMAIN turns = 1 .. Len(turns)
      /\ reader \in [Sends -> Reader] /\ \A i \in 1 .. Len(turns) : turns[i] \in Turn
  BY DEF ConversationInv, ChatTypes
<1>2. ASSUME NEW i \in 1 .. Len(turns)
      PROVE  \E s \in Sends :
               IF i % 2 = 1 THEN /\ turns[i].role = "user" /\ turns[i].id = UserId(s)
                                 /\ ~ turns[i].streaming /\ ~ turns[i].running
               ELSE /\ turns[i].role = "assistant" /\ turns[i].id = AssistantId(s)
                    /\ turns[i - 1].id = UserId(s)
  BY DEF ConversationInv, PairOK
<1>3. PlayTypeOK
  <2>1. ASSUME NEW i \in 1 .. Len(turns)
        PROVE  /\ turns[i].id \in {UserId(s) : s \in Sends} \cup {AssistantId(s) : s \in Sends}
               /\ turns[i].content \in Seq(Sends)
    <3>1. turns[i].content \in Seq(Sends)
      BY <1>1 DEF Turn
    <3> QED BY <3>1, <1>2
  <2>2. ASSUME NEW s \in Sends
        PROVE  /\ reader[s].phase \in {"unsent", "requesting", "reading", "over"}
               /\ Len(reader[s].wire) <= MaxWire
    <3>1. reader[s] \in Reader /\ ReaderOK(reader[s])
      BY <1>1 DEF ConversationInv
    <3> QED BY <3>1 DEF Reader, ReaderOK
  <2>3. isStreaming \in BOOLEAN /\ controller \in Sends \cup {NoSend}
    BY DEF ConversationInv, ChatTypes
  <2> QED BY <2>1, <2>2, <2>3, <1>1 DEF PlayTypeOK
<1>4. FixedPairs
  <2>1. ASSUME NEW i \in 1 .. Len(turns)
        PROVE  LET s == (turns[i].id + 1) \div 2
               IN IF i % 2 = 1 THEN turns[i].role = "user" /\ turns[i].id = UserId(s)
                  ELSE turns[i].role = "assistant" /\ turns[i - 1].id = UserId(s)
    <3>1. PICK r \in Sends :
               IF i % 2 = 1 THEN /\ turns[i].role = "user" /\ turns[i].id = UserId(r)
                                 /\ ~ turns[i].streaming /\ ~ turns[i].running
               ELSE /\ turns[i].role = "assistant" /\ turns[i].id = AssistantId(r)
                    /\ turns[i - 1].id = UserId(r)
      BY <1>2
    <3>2. (turns[i].id + 1) \div 2 = r
      BY <3>1, SendsAre
    <3> QED BY <3>1, <3>2
  <2>2. Len(turns) % 2 = 0
    BY DEF ConversationInv
  <2> QED BY <2>1, <2>2, <1>1 DEF FixedPairs
<1>5. ASSUME NEW i \in 1 .. Len(turns)
      PROVE  /\ turns[i].streaming => turns[i].id = AssistantId(controller) /\ Active(controller)
             /\ turns[i].running => turns[i].streaming
  <2>1. CASE i % 2 = 1
    BY <1>2, <2>1
  <2>2. CASE i % 2 # 1
    <3>1. PICK s \in Sends : turns[i].id = AssistantId(s)
      BY <1>2, <2>2
    <3>2. Fits(turns[i], reader[s], s)
      BY <3>1 DEF ConversationInv
    <3>3. turns[i].streaming => Active(s) /\ controller = s
      BY <3>2 DEF ConversationInv, Fits, Active
    <3> QED BY <3>1, <3>2, <3>3 DEF Fits
  <2> QED BY <2>1, <2>2
<1>6. \A s \in Sends : Active(s) <=> isStreaming /\ controller = s
  BY DEF ConversationInv
<1> QED BY <1>1, <1>3, <1>4, <1>5, <1>6 DEF PlayInv, AssistantTurn

LEMMA WholeHistory == ConversationInv => HistoryIsWhole
<1> SUFFICES ASSUME ConversationInv, NEW k \in DOMAIN request, request[k].role = "assistant"
             PROVE  LET p == reader[request[k].of] IN
                    /\ p.complete
                    /\ request[k].content = [i \in 1 .. p.said |-> request[k].of]
                    /\ request[k - 1].of = request[k].of
  BY DEF HistoryIsWhole
<1>1. k \in 1 .. Len(request)
  BY DEF ConversationInv, ChatTypes
<1> QED BY <1>1 DEF ConversationInv, MessageOK, Copies

\* One reply at most is under way, and Stop reaches it; a turn that looks live has a reader that
\* will settle it; a settled turn shows no running tool; turns come in pairs.  This holds for
\* every order of sends, stops, new chats, remounts and chunks (useChatStream, chatReducer).
THEOREM ConversationSafe == PlaySpec => []PlayInv
<1>1. PlayInit => ConversationInv
  BY PlayInitOK
<1>2. ConversationInv /\ [PlayNext]_playVars => ConversationInv'
  BY PlayStep
<1>3. ConversationInv => PlayInv
  BY PlayInvHolds
<1> QED BY <1>1, <1>2, <1>3, PTL DEF PlaySpec

\* A request resends whole replies only, each after the message it answers: no text of a reply
\* that was stopped, failed or cut off, and none of another stream (turnsToHistory).
THEOREM HistorySafe == PlaySpec => []HistoryIsWhole
<1>1. PlayInit => ConversationInv
  BY PlayInitOK
<1>2. ConversationInv /\ [PlayNext]_playVars => ConversationInv'
  BY PlayStep
<1>3. ConversationInv => HistoryIsWhole
  BY WholeHistory
<1> QED BY <1>1, <1>2, <1>3, PTL DEF PlaySpec

==============================================================================
