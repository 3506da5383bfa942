----------------------------- MODULE RunLifecycle -----------------------------
(***************************************************************************)
(* What an evaluation run promises whoever watches it: it runs a fixed     *)
(* number of cases, stores their results one at a time and only while it   *)
(* is "running", is "completed" only with a result for every case, and     *)
(* never changes again once it has ended.  A server restart fails every    *)
(* unfinished run at once.  EvalRuns.tla is shown to implement this.       *)
(***************************************************************************)
EXTENDS Naturals

CONSTANTS
  Runs,     \* the run ids
  MaxTotal  \* the most cases a run has

VARIABLES
  status,   \* "absent", "running", "completed" or "failed"
  total,    \* the number of cases of a run
  stored    \* the number of results it has stored

vars == <<status, total, stored>>

Init ==
  /\ status = [r \in Runs |-> "absent"]
  /\ total  = [r \in Runs |-> 0]
  /\ stored = [r \in Runs |-> 0]

Begin(r) ==
  /\ status[r] = "absent"
  /\ status' = [status EXCEPT ![r] = "running"]
  /\ \E n \in 0..MaxTotal : total' = [total EXCEPT ![r] = n]
  /\ UNCHANGED stored

Store(r) ==
  /\ status[r] = "running" /\ stored[r] < total[r]
  /\ stored' = [stored EXCEPT ![r] = @ + 1]
  /\ UNCHANGED <<status, total>>

End(r, s) ==
  /\ status[r] = "running"
  /\ s = "failed" \/ (s = "completed" /\ stored[r] = total[r])
  /\ status' = [status EXCEPT ![r] = s]
  /\ UNCHANGED <<total, stored>>

\* A restart fails every run that has not ended, whatever it has stored.
Interrupt ==
  /\ status' = [r \in Runs |-> IF status[r] = "running" THEN "failed" ELSE status[r]]
  /\ UNCHANGED <<total, stored>>

Next ==
  \/ \E r \in Runs : Begin(r) \/ Store(r) \/ \E s \in {"completed", "failed"} : End(r, s)
  \/ Interrupt

Spec == Init /\ [][Next]_vars
=============================================================================
