------------------------------ MODULE MCServer ------------------------------
(***************************************************************************)
(* Two parts of the server that share no state, for one run: the models in *)
(* memory and the evaluation runs.  The choice of the part is made at the  *)
(* start and only that part moves.  Chats are interchangeable, so are      *)
(* deletes; categories are only compared with each other.                  *)
(***************************************************************************)
EXTENDS ModelCache, EvalRuns, TLC

VARIABLE part   \* the part that moves

MCSymmetry == Permutations(Chats) \union Permutations(Deletes) \union Permutations(Categories)

MCInit ==
  /\ part \in {"cache", "evals"}
  /\ CacheInit
  /\ Init
  /\ part = "cache" => \A c \in DOMAIN category : category[c] = None

MCNext ==
  \/ part = "cache" /\ CacheNext /\ UNCHANGED <<part, vars>>
  \/ part = "evals" /\ Next      /\ UNCHANGED <<part, modelVars>>

MCSpec == MCInit /\ [][MCNext]_<<part, modelVars, vars>>
=============================================================================
