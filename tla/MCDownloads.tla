---------------------------- MODULE MCDownloads ----------------------------
(***************************************************************************)
(* Downloads for TLC.  Threads of one kind are interchangeable.            *)
(***************************************************************************)
EXTENDS Downloads, TLC, FiniteSets

ThreadSymmetry == Permutations(Requests) \union Permutations(Deletes)

(***************************************************************************)
(* Bound: a behaviour goes on through two overlaps of threads, or one fault *)
(* of the network or the disk.  The state the next one leads to is checked *)
(* and not left any more.                                                  *)
(***************************************************************************)
Faults == {"undeclared", "stuckFile"}
Count(kinds) == Cardinality({<<t, m>> \in Targets \X kinds : m \in mishaps[t]})
FewMishaps == Count(Mishaps \ Faults) + 2 * Count(Faults) <= 2
=============================================================================
