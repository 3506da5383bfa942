------------------------------- MODULE Arrays -------------------------------
(***************************************************************************)
(* What the pages do with arrays: sort, filter, and reduce to a sum.  A    *)
(* sorted array is stated by the place of each element: how many are not   *)
(* behind it.                                                              *)
(***************************************************************************)
EXTENDS Integers, Sequences, FiniteSets

(* rel is a total order on S, as a set of pairs.                           *)
Place(S, rel, x) == Cardinality({y \in S : <<y, x>> \in rel})
InOrder(S, rel) == [k \in 1..Cardinality(S) |-> CHOOSE x \in S : Place(S, rel, x) = k]

Upwards(S) == {p \in S \X S : p[1] <= p[2]}       \* S: numbers
Sorted(S) == InOrder(S, Upwards(S))

(* The elements at the positions of S, in the order they have in seq. *)
Kept(seq, S) == [k \in DOMAIN Sorted(S) |-> seq[Sorted(S)[k]]]

(* The sum of the numbers at the positions of S. *)
Total(seq, S) ==
  LET sum[i \in 0..Len(seq)] ==
        IF i = 0 THEN 0 ELSE sum[i - 1] + IF i \in S THEN seq[i] ELSE 0
  IN sum[Len(seq)]

=============================================================================
