----------------------------- MODULE ModelPicker -----------------------------
(***************************************************************************)
(* The Playground's model bar: the backend and the model a message would   *)
(* be sent with, prefilled from the URL and corrected during rendering     *)
(* against the list of downloaded models whenever that list or the backend *)
(* changes (PlaygroundPage, modelOptions, ModelBar).                       *)
(*                                                                         *)
(* A model id is a repository with an optional quant, the string "repo" or *)
(* "repo:quant" of the code.  Rendering is part of every action: React     *)
(* renders again with the adjusted state before anything is shown.         *)
(***************************************************************************)
EXTENDS Integers, Sequences, FiniteSets

CONSTANTS Repos,       \* repositories
          Quants,      \* GGUF files a repository may be downloaded as
          Lists        \* the lists GET /models/downloaded may answer with

NoParam == "-"
NoQuant == "-"
NoModel == [repo |-> "", quant |-> NoQuant]        \* ''
ModelId(repo, quant) == [repo |-> repo, quant |-> quant]

BackendNames == {"api", "gguf", "transformers"}

(* A record is of a repository of the Hub, and of a local backend.         *)
ASSUME PickerAssumption ==
  /\ NoParam \notin Repos
  /\ \A records \in Lists :
       records \in Seq([repo : Repos, quant : Quants \cup {NoQuant},
                       backend : BackendNames \ {"api"}, loadable : BOOLEAN])

Urls == [model : Repos \cup {NoParam}, quant : Quants \cup {NoParam}, backend : BackendNames]

VARIABLES
  url,          \* useSearchParams: ?model=, ?quant= and the backend it names, else api
  backend,      \* useState
  modelId,      \* useState
  list,         \* useDownloadedModels: pending, its data and its error
  unavailable   \* useBackends: the backends reported as not installed

pickVars == <<url, backend, modelId, list, unavailable>>

(* local_model_ids: the quant is part of the id when the repository has    *)
(* several GGUF files.                                                     *)
RecordModelId(records, r) ==
  LET rows == {i \in DOMAIN records : records[i].repo = r.repo /\ records[i].backend = "gguf"}
  IN IF r.backend = "gguf" /\ Cardinality(rows) > 1
     THEN ModelId(r.repo, r.quant) ELSE ModelId(r.repo, NoQuant)

Option(records, r) ==
  [id |-> RecordModelId(records, r), unloadable |-> r.backend = "gguf" /\ ~r.loadable]

(* Options are listed in the places their records have in the answer.     *)
GgufModelOptions(records) ==
  [i \in {i \in DOMAIN records : records[i].backend = "gguf"} |-> Option(records, records[i])]

(* Several downloads of one repository are one option, in the first's place. *)
TransformersModelOptions(records) ==
  LET snapshots == {i \in DOMAIN records : records[i].backend = "transformers"}
      firsts == {i \in snapshots : \A j \in snapshots : j < i => records[j].repo # records[i].repo}
  IN [i \in firsts |-> Option(records, records[i])]

ModelOptionsFor(b, records) ==
  CASE b = "gguf"         -> GgufModelOptions(records)
    [] b = "transformers" -> TransformersModelOptions(records)
    [] b = "api"          -> <<>>

Ids(options) == {options[i].id : i \in DOMAIN options}

(* options.find: the first option that satisfies Test, or none. *)
Find(options, Test(_)) ==
  LET hits == {i \in DOMAIN options : Test(options[i])}
  IN {options[i].id : i \in {h \in hits : \A g \in hits : h <= g}}

PickPrefilledModelId(options, model, quant) ==
  LET withQuant == ModelId(model, quant)   \* NoParam and NoQuant are one value
      exact     == Find(options, LAMBDA o : o.id = withQuant)
      sameRepo  == Find(options, LAMBDA o : o.id.repo = model)
      anything  == Find(options, LAMBDA o : TRUE)
  IN CASE model # NoParam /\ exact # {}    -> CHOOSE id \in exact : TRUE
       [] model # NoParam /\ exact = {} /\ sameRepo # {} -> CHOOSE id \in sameRepo : TRUE
       [] (model = NoParam \/ exact \cup sameRepo = {}) /\ anything # {}
            -> CHOOSE id \in anything : TRUE
       [] OTHER -> NoModel

(* The adjustment PlaygroundPage makes while it renders: on a local        *)
(* backend whose list has loaded, a selection that is not an option is     *)
(* replaced; the URL counts only on the backend it named.                  *)
Adjusted(b, l, id) ==
  LET options == ModelOptionsFor(b, l.data)
      useUrlParams == b = url.backend
  IN IF b # "api" /\ ~l.pending /\ id \notin Ids(options)
     THEN PickPrefilledModelId(options, IF useUrlParams THEN url.model ELSE NoParam,
                                        IF useUrlParams THEN url.quant ELSE NoParam)
     ELSE id

(* What the bar offers for the model. *)
Control ==
  CASE backend = "api"                              -> "input"
    [] backend # "api" /\ list.error                -> "error"
    [] backend # "api" /\ ~list.error /\ list.pending -> "loading"
    [] OTHER -> IF ModelOptionsFor(backend, list.data) = <<>> THEN "hint" ELSE "select"

PickInit ==
  /\ url \in Urls
  /\ backend = url.backend
  /\ modelId = IF url.model = NoParam THEN NoModel ELSE ModelId(url.model, NoQuant)
  /\ list = [pending |-> TRUE, data |-> <<>>, error |-> FALSE]
  /\ unavailable = {}

(* GET /models/downloaded answers, at first or after an invalidation: a    *)
(* failed refetch keeps the data it had.                                   *)
ListArrives ==
  /\ \E data \in Lists : list' = [pending |-> FALSE, data |-> data, error |-> FALSE]
  /\ modelId' = Adjusted(backend, list', modelId)
  /\ UNCHANGED <<url, backend, unavailable>>

ListFails ==
  /\ list' = [list EXCEPT !.pending = FALSE, !.error = TRUE]
  /\ modelId' = Adjusted(backend, list', modelId)
  /\ UNCHANGED <<url, backend, unavailable>>

BackendsArrive ==
  /\ unavailable' \in {{}, {"gguf"}, {"gguf", "transformers"}}
  /\ UNCHANGED <<url, backend, modelId, list>>

(* Mutant: the model is left as it is. *)
BackendChangeOnly(b) ==
  /\ b \notin unavailable
  /\ backend' = b
  /\ UNCHANGED <<url, modelId, list, unavailable>>

BackendChange(b) ==
  /\ b \notin unavailable
  /\ backend' = b
  /\ modelId' = Adjusted(b, list, modelId)
  /\ UNCHANGED <<url, list, unavailable>>

ModelIdChange(id) ==
  /\ \/ Control = "input"
     \/ Control = "select" /\ id \in Ids(ModelOptionsFor(backend, list.data))
  /\ modelId' = id
  /\ UNCHANGED <<url, backend, list, unavailable>>

PickNext ==
  \/ ListArrives \/ ListFails \/ BackendsArrive
  \/ \E b \in BackendNames : BackendChange(b)
  \/ \E repo \in Repos, quant \in Quants \cup {NoQuant} : ModelIdChange(ModelId(repo, quant))

PickSpec == PickInit /\ [][PickNext]_pickVars

(* ---- properties ------------------------------------------------------- *)

(* On a local backend with a loaded list the selection is one of the       *)
(* options, or empty when there are none - after every list, backend       *)
(* switch and choice, so no other backend's model is sent to a local one.  *)
(* (The HF API takes any text: a switch to it leaves the id as it is.)     *)
(* A list that arrives leaves a valid selection alone, and replaces an     *)
(* invalid one by the model the URL named when that is downloaded.  One    *)
(* adjustment is enough: the next render has nothing left to change.       *)
SelectionFollowsTheList ==
  [][ LET ids == Ids(ModelOptionsFor(backend', list'.data))
          named == {id \in ids : id.repo = url.model}
      IN backend' # "api" /\ ~list'.pending =>
           /\ modelId' \in ids \/ (ids = {} /\ modelId' = NoModel)
           /\ backend' = backend /\ modelId \in ids /\ list' # list => modelId' = modelId
           /\ modelId \notin ids /\ backend' = url.backend /\ named # {} => modelId' \in named
           /\ Adjusted(backend', list', modelId') = modelId' ]_pickVars

=============================================================================
