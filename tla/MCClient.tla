------------------------------ MODULE MCClient ------------------------------
(***************************************************************************)
(* The parts of the browser's client that share no state, for one run: the *)
(* choice of the part is made at the start and only that part moves.       *)
(***************************************************************************)
EXTENDS Playground, ModelPicker, FormEditor, DatasetEditor, EvalClient, SseStream,
        Radar, EvalMatrix

CONSTANTS h1, h2   \* models of the Hub

VARIABLE part   \* the part that moves

Parts == {"chat", "picker", "form", "dataset", "eval", "sse", "radar", "matrix"}

Record(repo, quant, b, loadable) ==
  [repo |-> repo, quant |-> quant, backend |-> b, loadable |-> loadable]

(* Two files of one repository, one of them not loadable, one file of      *)
(* another, a snapshot: every list of two of them, and one of three.       *)
Downloaded == {Record("A", "q1", "gguf", TRUE), Record("A", "q2", "gguf", FALSE),
               Record("B", "q1", "gguf", TRUE), Record("B", "-", "transformers", TRUE)}
MCLists == SeqOf(Downloaded, 2)
  \cup {<<Record("A", "q1", "gguf", TRUE), Record("A", "q2", "gguf", FALSE),
          Record("B", "-", "transformers", TRUE)>>}

(* A list of both models and one of the second; reports at and around the  *)
(* thresholds of a machine with one gigabyte.                              *)
MCRankings == {<<h1, h2>>, <<h2>>}
MCDetails ==
  {[files |-> f, weights |-> NoSize] : f \in {<<>>, <<58>>, <<79>>, <<200>>}}
    \cup {[files |-> <<57, 200>>, weights |-> 90]}

MCCounts == {[cases |-> 1, passed |-> 0, latestRun |-> 1],
             [cases |-> 1, passed |-> 1, latestRun |-> 2],
             [cases |-> 3, passed |-> 1, latestRun |-> 1]}

MCMetrics == {NoMetric, 0, 100}

MCSymmetry == Permutations(Requests)

MCInit ==
  /\ part \in Parts
  /\ PlayInit
  /\ IF part = "picker" THEN PickInit
     ELSE /\ url = [model |-> NoParam, quant |-> NoParam, backend |-> "api"]
          /\ backend = "api" /\ modelId = NoModel /\ unavailable = {}
          /\ list = [pending |-> TRUE, data |-> <<>>, error |-> FALSE]
  /\ FormInit
  /\ IF part = "dataset" THEN DataInit
     ELSE /\ files = {} /\ loc = At(NoCase, {}) /\ editor = NoEditor /\ missed = FALSE
          /\ cases = [status |-> "pending", data |-> {}, fetch |-> "asked", read |-> {}]
          /\ requests = [r \in Requests |-> Free]
  /\ ClientInit
  /\ RadarInit
  /\ MatrixInit
  /\ IF part = "sse" THEN SseInit
     ELSE sent = <<>> /\ body = <<>> /\ buffer = <<>> /\ yielded = <<>> /\ sse = "requested"

MCNext ==
  \/ /\ part = "chat" /\ PlayNext
     /\ UNCHANGED <<part, pickVars, form, dataVars, clientVars, sseVars, radarVars, reportRows>>
  \/ /\ part = "picker" /\ PickNext
     /\ UNCHANGED <<part, playVars, form, dataVars, clientVars, sseVars, radarVars, reportRows>>
  \/ /\ part = "form" /\ FormNext
     /\ UNCHANGED <<part, playVars, pickVars, dataVars, clientVars, sseVars, radarVars, reportRows>>
  \/ /\ part = "dataset" /\ DataNext
     /\ UNCHANGED <<part, playVars, pickVars, form, clientVars, sseVars, radarVars, reportRows>>
  \/ /\ part = "eval" /\ ClientNext
     /\ UNCHANGED <<part, playVars, pickVars, form, dataVars, sseVars, radarVars, reportRows>>
  \/ /\ part = "sse" /\ SseNext
     /\ UNCHANGED <<part, playVars, pickVars, form, dataVars, clientVars, radarVars, reportRows>>
  \/ /\ part = "radar" /\ RadarNext
     /\ UNCHANGED <<part, playVars, pickVars, form, dataVars, clientVars, sseVars, reportRows>>
  \/ /\ part = "matrix" /\ MatrixNext
     /\ UNCHANGED <<part, playVars, pickVars, form, dataVars, clientVars, sseVars, radarVars>>

mcVars == <<part, playVars, pickVars, form, dataVars, clientVars, sseVars, radarVars, reportRows>>

MCSpec == MCInit /\ [][MCNext]_mcVars

=============================================================================
