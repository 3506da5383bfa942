---------------------------- MODULE JobLifecycle ----------------------------
(***************************************************************************)
(* What a download job promises its observers, whatever happens to files,  *)
(* records and threads: a job is queued, picked up, and ends exactly once; *)
(* it is "completed" only after its downloaded-model record was published, *)
(* and a finished job never changes again.  A server restart ends every    *)
(* unfinished job at once.  Downloads.tla is shown to implement this.      *)
(***************************************************************************)

CONSTANT Jobs    \* the job ids

VARIABLE phase   \* phase[j]: how far job j has come

Phases   == {"absent", "pending", "downloading", "published", "completed", "failed"}
Active   == {"pending", "downloading", "published"}

Init == phase = [j \in Jobs |-> "absent"]

Move(j, from, to) ==
  /\ phase[j] = from
  /\ phase' = [phase EXCEPT ![j] = to]

\* A POST was accepted.
Enqueue(j) == Move(j, "absent", "pending")

\* The background task picked the job up.
Start(j) == Move(j, "pending", "downloading")

\* The record of the downloaded model is committed.
Publish(j) == Move(j, "downloading", "published")

Complete(j) == Move(j, "published", "completed")

\* The transfer failed: possible only as long as nothing has been published.
Fail(j) == Move(j, "downloading", "failed")

\* A restart fails every job that was still active, published or not.
Interrupt ==
  phase' = [j \in Jobs |-> IF phase[j] \in Active THEN "failed" ELSE phase[j]]

Next ==
  \/ \E j \in Jobs : Enqueue(j) \/ Start(j) \/ Publish(j) \/ Complete(j) \/ Fail(j)
  \/ Interrupt

Spec == Init /\ [][Next]_phase
=============================================================================
