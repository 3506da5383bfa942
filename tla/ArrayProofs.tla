----------------------------- MODULE ArrayProofs -----------------------------
(***************************************************************************)
(* Proofs about what the pages compute of arrays: the test-case form       *)
(* (FormEditor), which saves the filled fields and opens them again, and   *)
(* the matrix of the report (EvalMatrix), which sorts, groups and adds     *)
(* up, for any number of fields, models, backends, categories and rows;    *)
(* and the reader of event streams (SseStream), whose buffer is what is    *)
(* kept of the text, wherever the reads cut it.  First the lemmas about    *)
(* the arrays themselves (Arrays): what is sorted, kept and summed.        *)
(***************************************************************************)
EXTENDS FormEditor, EvalMatrix, SseStream, FiniteSetTheorems, SequenceTheorems,
        WellFoundedInduction, TLAPS

(***************************************************************************)
(* Arrays: what is sorted, kept and summed.                                *)
(***************************************************************************)

\* A set of numbers that is not empty has a least one.
LEMMA LeastExists ==
  ASSUME NEW S \in SUBSET Nat, S # {}
  PROVE  \E x \in S : \A y \in S : x <= y
<1>1. PICK x \in S : \A y \in S : ~(<<y, x>> \in OpToRel(<, Nat))
  BY NatLessThanWellFounded, WFMin
<1>2. \A y \in S : ~(y < x)
  BY <1>1 DEF OpToRel
<1> QED
  BY <1>2

\* What a sort needs of an order.
IsOrder(S, rel) ==
  /\ \A x \in S : <<x, x>> \in rel
  /\ \A x, y \in S : <<x, y>> \in rel \/ <<y, x>> \in rel
  /\ \A x, y \in S : <<x, y>> \in rel /\ <<y, x>> \in rel => x = y
  /\ \A x, y, z \in S : <<x, y>> \in rel /\ <<y, z>> \in rel => <<x, z>> \in rel

\* A sorted array has each element once, and none before one that is not behind it.
LEMMA InOrderIs ==
  ASSUME NEW S, IsFiniteSet(S), NEW rel, IsOrder(S, rel)
  PROVE  LET at == InOrder(S, rel)
         IN /\ Cardinality(S) \in Nat /\ DOMAIN at = 1..Cardinality(S)
            /\ \A k \in DOMAIN at : at[k] \in S
            /\ \A x \in S : \E k \in DOMAIN at : at[k] = x
            /\ \A k, l \in DOMAIN at : at[k] = at[l] => k = l
            /\ \A k, l \in DOMAIN at : k <= l => <<at[k], at[l]>> \in rel
<1> DEFINE upTo(x) == {y \in S : <<y, x>> \in rel}
           n == Cardinality(S)
           at == InOrder(S, rel)
<1>1. n \in Nat
  BY FS_CardinalityType
<1>2. ASSUME NEW x \in S
      PROVE  /\ IsFiniteSet(upTo(x)) /\ Cardinality(upTo(x)) \in Nat
             /\ Place(S, rel, x) = Cardinality(upTo(x)) /\ Place(S, rel, x) \in 1..n
  <2>1. upTo(x) \in SUBSET S /\ x \in upTo(x)
    BY DEF IsOrder
  <2>2. IsFiniteSet(upTo(x)) /\ Cardinality(upTo(x)) <= n
    BY <2>1, FS_Subset
  <2>3. Cardinality(upTo(x)) \in Nat /\ Cardinality(upTo(x)) # 0
    BY <2>1, <2>2, FS_CardinalityType, FS_EmptySet
  <2> QED
    BY <1>1, <2>2, <2>3 DEF Place
<1>3. ASSUME NEW x \in S, NEW y \in S, <<x, y>> \in rel, x # y
      PROVE  Place(S, rel, x) < Place(S, rel, y)
  <2>1. upTo(x) \in SUBSET upTo(y)
    BY <1>3 DEF IsOrder
  <2>2. y \notin upTo(x) /\ y \in upTo(y)
    BY <1>3 DEF IsOrder
  <2>3. /\ Cardinality(upTo(x)) <= Cardinality(upTo(y))
        /\ Cardinality(upTo(y)) = Cardinality(upTo(x)) => upTo(y) = upTo(x)
    BY <1>2, <2>1, FS_Subset
  <2>4. Cardinality(upTo(y)) # Cardinality(upTo(x))
    BY <2>2, <2>3
  <2> QED
    BY <1>2, <2>3, <2>4
<1>4. ASSUME NEW x \in S, NEW y \in S, Place(S, rel, x) = Place(S, rel, y), x # y
      PROVE  FALSE
  <2>1. <<x, y>> \in rel \/ <<y, x>> \in rel
    BY DEF IsOrder
  <2>2. Place(S, rel, x) \in 1..n /\ Place(S, rel, y) \in 1..n
    BY <1>2
  <2>3. Place(S, rel, x) < Place(S, rel, y) \/ Place(S, rel, y) < Place(S, rel, x)
    BY <1>3, <1>4, <2>1
  <2> HIDE DEF n
  <2> QED
    BY <1>1, <1>4, <2>2, <2>3
<1>5. ASSUME NEW k \in 1..n
      PROVE  \E x \in S : Place(S, rel, x) = k
  <2> DEFINE place == [x \in S |-> Place(S, rel, x)]
  <2>1. place \in [S -> 1..n]
    BY <1>2
  <2>2. place \in Injection(S, 1..n)
    BY <1>4, <2>1 DEF Injection, IsInjective
  <2>3. IsFiniteSet(1..n) /\ Cardinality(1..n) = n
    BY <1>1, FS_Interval
  <2>4. place \in Surjection(S, 1..n)
    BY <2>2, <2>3, FS_Injection
  <2> QED
    BY <2>4 DEF Surjection
<1>6. at = [k \in 1..n |-> CHOOSE x \in S : Place(S, rel, x) = k]
  BY DEF InOrder
<1>7. \A k \in 1..n : at[k] \in S /\ Place(S, rel, at[k]) = k
  BY <1>5, <1>6
<1>8. DOMAIN at = 1..n
  BY <1>6
<1> HIDE DEF at, n
<1>9. ASSUME NEW x \in S
      PROVE  \E k \in DOMAIN at : at[k] = x
  <2>1. Place(S, rel, x) \in 1..n
    BY <1>2
  <2>2. at[Place(S, rel, x)] \in S /\ Place(S, rel, at[Place(S, rel, x)]) = Place(S, rel, x)
    BY <1>7, <2>1
  <2> QED
    BY <1>4, <1>8, <2>1, <2>2
<1>10. \A k, l \in DOMAIN at : at[k] = at[l] => k = l
  BY <1>7, <1>8
<1>11. ASSUME NEW k \in DOMAIN at, NEW l \in DOMAIN at, k <= l
       PROVE  <<at[k], at[l]>> \in rel
  <2>1. at[k] \in S /\ at[l] \in S /\ k \in Int /\ l \in Int
        /\ Place(S, rel, at[k]) = k /\ Place(S, rel, at[l]) = l
    BY <1>1, <1>7, <1>8
  <2>2. CASE <<at[l], at[k]>> \in rel /\ at[l] # at[k]
    BY <1>3, <1>11, <2>1, <2>2
  <2>3. CASE at[l] = at[k]
    BY <2>1, <2>3 DEF IsOrder
  <2> QED
    BY <2>1, <2>2, <2>3 DEF IsOrder
<1> QED
  BY <1>1, <1>7, <1>8, <1>9, <1>10, <1>11 DEF at, n

\* Numbers are sorted upwards.
LEMMA SortedIs ==
  ASSUME NEW S \in SUBSET Int, IsFiniteSet(S)
  PROVE  LET at == Sorted(S)
         IN /\ Cardinality(S) \in Nat /\ DOMAIN at = 1..Cardinality(S)
            /\ \A k \in DOMAIN at : at[k] \in S
            /\ \A x \in S : \E k \in DOMAIN at : at[k] = x
            /\ \A k, l \in DOMAIN at : at[k] = at[l] => k = l
            /\ \A k, l \in DOMAIN at : k <= l => at[k] <= at[l]
<1> DEFINE rel == Upwards(S)
<1>1. \A x, y \in S : <<x, y>> \in rel <=> x <= y
  BY DEF Upwards
<1>2. \A x \in S : x \in Int
  OBVIOUS
<1> HIDE DEF rel
<1>3. IsOrder(S, rel)
  BY <1>1, <1>2 DEF IsOrder
<1>4. Sorted(S) = InOrder(S, rel)
  BY DEF Sorted, rel
<1> QED
  <2> DEFINE at == Sorted(S)
  <2>1. /\ Cardinality(S) \in Nat /\ DOMAIN at = 1..Cardinality(S)
        /\ \A k \in DOMAIN at : at[k] \in S
        /\ \A x \in S : \E k \in DOMAIN at : at[k] = x
        /\ \A k, l \in DOMAIN at : at[k] = at[l] => k = l
        /\ \A k, l \in DOMAIN at : k <= l => <<at[k], at[l]>> \in rel
    BY <1>3, <1>4, InOrderIs
  <2> HIDE DEF at
  <2>2. \A k, l \in DOMAIN at : k <= l => at[k] <= at[l]
    BY <1>1, <2>1
  <2> QED
    BY <2>1, <2>2 DEF at

\* An array keeps elements of its own, as many as positions are kept, and loses none of them.
LEMMA KeptIs ==
  ASSUME NEW T, NEW seq \in Seq(T), NEW S \in SUBSET DOMAIN seq
  PROVE  /\ Kept(seq, S) \in Seq(T) /\ Len(Kept(seq, S)) = Cardinality(S)
         /\ \A k \in DOMAIN Kept(seq, S) : \E i \in S : Kept(seq, S)[k] = seq[i]
         /\ Kept(seq, S) = <<>> <=> S = {}
<1>1. S \in SUBSET (1..Len(seq)) /\ Len(seq) \in Nat /\ DOMAIN seq = 1..Len(seq)
  OBVIOUS
<1>2. IsFiniteSet(S)
  <2>1. IsFiniteSet(1..Len(seq))
    BY <1>1, FS_Interval
  <2> QED
    BY <1>1, <2>1, FS_Subset
<1>3. S \in SUBSET Int
  BY <1>1
<1>4. /\ Cardinality(S) \in Nat /\ DOMAIN Sorted(S) = 1..Cardinality(S)
      /\ \A k \in DOMAIN Sorted(S) : Sorted(S)[k] \in S
  BY <1>2, <1>3, SortedIs
<1>5. \A k \in 1..Cardinality(S) : seq[Sorted(S)[k]] \in T
  BY <1>1, <1>4
<1>6. Kept(seq, S) \in Seq(T) /\ Len(Kept(seq, S)) = Cardinality(S)
  BY <1>4, <1>5 DEF Kept
<1>7. \A k \in DOMAIN Kept(seq, S) : \E i \in S : Kept(seq, S)[k] = seq[i]
  BY <1>4 DEF Kept
<1>8. Kept(seq, S) = <<>> <=> Cardinality(S) = 0
  BY <1>4, <1>6
<1> QED
  BY <1>2, <1>6, <1>7, <1>8, FS_EmptySet

\* An array that keeps every position is kept as it is.
LEMMA KeptWhole ==
  ASSUME NEW T, NEW seq \in Seq(T)
  PROVE  Kept(seq, DOMAIN seq) = seq
<1> DEFINE S == DOMAIN seq
           rel == Upwards(S)
<1>1. S = 1..Len(seq) /\ Len(seq) \in Nat
  OBVIOUS
<1>2. Cardinality(S) = Len(seq) /\ IsFiniteSet(S) /\ S \in SUBSET Int
  BY <1>1, FS_Interval
<1>3. ASSUME NEW i \in S
      PROVE  Place(S, rel, i) = i
  <2>1. {j \in S : <<j, i>> \in rel} = 1..i
    BY <1>1 DEF Upwards
  <2>2. Cardinality(1..i) = i
    BY <1>1, FS_Interval
  <2> QED
    BY <2>1, <2>2 DEF Place
<1>4. \A k \in 1..Len(seq) : (CHOOSE x \in S : Place(S, rel, x) = k) = k
  <2> HIDE DEF S, rel
  <2> QED
    BY <1>1, <1>3
<1>5. Sorted(S) = [k \in 1..Len(seq) |-> k]
  <2> HIDE DEF S
  <2> QED
    BY <1>2, <1>4 DEF Sorted, InOrder
<1>6. Kept(seq, S) = [k \in 1..Len(seq) |-> seq[k]]
  <2> HIDE DEF S
  <2> QED
    BY <1>5 DEF Kept
<1> QED
  BY <1>6

(***************************************************************************)
(* What is kept of an array, listed.                                       *)
(***************************************************************************)

\* h lists the numbers of S upwards.
Lists(h, m, S) ==
  /\ m \in Nat /\ S \in SUBSET Int /\ h \in [1..m -> S]
  /\ \A x \in S : \E k \in 1..m : h[k] = x
  /\ \A k, l \in 1..m : k < l => h[k] < h[l]

\* Two such lists begin alike.
LEMMA ListsAgree ==
  ASSUME NEW S, NEW g, NEW m, Lists(g, m, S), NEW h, NEW n, Lists(h, n, S)
  PROVE  m <= n /\ \A k \in 1..m : g[k] = h[k]
<1> DEFINE D == {k \in 1..m : ~(k <= n /\ g[k] = h[k])}
<1>1. /\ m \in Nat /\ n \in Nat /\ S \in SUBSET Int
      /\ \A k \in 1..m : g[k] \in S /\ g[k] \in Int
      /\ \A k \in 1..n : h[k] \in S /\ h[k] \in Int
  <2>1. m \in Nat /\ n \in Nat /\ S \in SUBSET Int /\ g \in [1..m -> S] /\ h \in [1..n -> S]
    BY DEF Lists
  <2>2. \A x \in S : x \in Int
    BY <2>1
  <2> QED
    BY <2>1, <2>2
<1>2. D = {}
  <2>1. SUFFICES ASSUME D # {} PROVE FALSE
    OBVIOUS
  <2>2. D \in SUBSET Nat
    BY <1>1
  <2>3. PICK k \in D : \A y \in D : k <= y
    BY <2>1, <2>2, LeastExists
  <2>4. k \in 1..m /\ ~(k <= n /\ g[k] = h[k])
    BY <2>3
  <2>5. \A j \in 1..m : j < k => j <= n /\ g[j] = h[j]
    BY <1>1, <2>3, <2>4
  <2> HIDE DEF D
  <2>6. PICK j \in 1..n : h[j] = g[k]
    BY <1>1, <2>4 DEF Lists
  <2>7. ~(j < k)
    <3>1. SUFFICES ASSUME j < k PROVE FALSE
      OBVIOUS
    <3>2. j \in 1..m /\ g[j] = h[j] /\ g[j] < g[k]
      BY <1>1, <2>4, <2>5, <2>6, <3>1 DEF Lists
    <3> QED
      BY <1>1, <2>4, <2>6, <3>2
  <2>8. k \in 1..n
    BY <1>1, <2>4, <2>6, <2>7
  <2>9. h[k] <= h[j]
    <3>1. k < j => h[k] < h[j]
      BY <2>6, <2>8 DEF Lists
    <3>2. k \in Int /\ j \in Int /\ h[k] \in Int /\ h[j] \in Int
      BY <1>1, <2>6, <2>8
    <3>3. k < j \/ k = j
      BY <2>7, <3>2
    <3> QED
      BY <3>1, <3>2, <3>3
  <2>10. PICK i \in 1..m : g[i] = h[k]
    BY <1>1, <2>8 DEF Lists
  <2>11. ~(i < k)
    <3>1. SUFFICES ASSUME i < k PROVE FALSE
      OBVIOUS
    <3>2. i \in 1..n /\ g[i] = h[i] /\ h[i] < h[k]
      BY <1>1, <2>4, <2>5, <2>8, <2>10, <3>1 DEF Lists
    <3> QED
      BY <1>1, <2>8, <2>10, <3>2
  <2>12. g[k] <= g[i]
    <3>1. k < i => g[k] < g[i]
      BY <2>4, <2>10 DEF Lists
    <3>2. k \in Int /\ i \in Int /\ g[k] \in Int /\ g[i] \in Int
      BY <1>1, <2>4, <2>10
    <3>3. k < i \/ k = i
      BY <2>11, <3>2
    <3> QED
      BY <3>1, <3>2, <3>3
  <2>13. g[k] \in Int /\ h[k] \in Int
    BY <1>1, <2>4, <2>8
  <2> QED
    BY <2>4, <2>6, <2>8, <2>9, <2>10, <2>12, <2>13
<1>3. \A k \in 1..m : k <= n /\ g[k] = h[k]
  BY <1>2
<1> HIDE DEF D
<1> QED
  BY <1>1, <1>3

\* A finite set of numbers has a list.
LEMMA SortedLists ==
  ASSUME NEW S \in SUBSET Int, IsFiniteSet(S)
  PROVE  Lists(Sorted(S), Cardinality(S), S)
<1> DEFINE h == Sorted(S)
           n == Cardinality(S)
<1>1. /\ n \in Nat /\ DOMAIN h = 1..n
      /\ \A k \in DOMAIN h : h[k] \in S
      /\ \A x \in S : \E k \in DOMAIN h : h[k] = x
      /\ \A k, l \in DOMAIN h : h[k] = h[l] => k = l
      /\ \A k, l \in DOMAIN h : k <= l => h[k] <= h[l]
  BY SortedIs
<1>2. h = [k \in 1..n |-> h[k]]
  BY DEF Sorted, InOrder
<1> HIDE DEF h, n
<1>3. h \in [1..n -> S]
  BY <1>1, <1>2
<1>4. ASSUME NEW k \in 1..n, NEW l \in 1..n, k < l
      PROVE  h[k] < h[l]
  <2>1. k \in Int /\ l \in Int /\ k # l /\ k <= l /\ k \in DOMAIN h /\ l \in DOMAIN h
    BY <1>1, <1>4
  <2>2. h[k] <= h[l] /\ h[k] # h[l] /\ h[k] \in S /\ h[l] \in S
    BY <1>1, <2>1
  <2>3. \A x \in S : x \in Int
    OBVIOUS
  <2>4. h[k] \in Int /\ h[l] \in Int
    BY <2>2, <2>3
  <2> QED
    BY <2>2, <2>4
<1> QED
  BY <1>1, <1>3, <1>4 DEF Lists, h, n

\* Whatever lists the positions, the elements kept are those at the positions listed.
LEMMA KeptListed ==
  ASSUME NEW seq, NEW S, NEW g, NEW m, Lists(g, m, S)
  PROVE  /\ IsFiniteSet(S) /\ Kept(seq, S) = [k \in 1..m |-> seq[g[k]]]
         /\ g = Sorted(S) /\ m = Cardinality(S)
<1>1. m \in Nat /\ S \in SUBSET Int /\ g \in [1..m -> S] /\ \A x \in S : \E k \in 1..m : g[k] = x
  BY DEF Lists
<1>2. IsFiniteSet(S)
  <2>1. g \in Surjection(1..m, S)
    BY <1>1 DEF Surjection
  <2> QED
    BY <1>1, <2>1, FS_Surjection, FS_Interval
<1> DEFINE h == Sorted(S)
           n == Cardinality(S)
<1>3. Lists(h, n, S)
  BY <1>1, <1>2, SortedLists
<1>4. Kept(seq, S) = [k \in DOMAIN h |-> seq[h[k]]]
  BY DEF Kept
<1> HIDE DEF h, n
<1>5. m <= n /\ (\A k \in 1..m : g[k] = h[k]) /\ n <= m
  BY <1>3, ListsAgree
<1>6. n \in Nat /\ h \in [1..n -> S]
  BY <1>3 DEF Lists
<1>7. m = n
  BY <1>1, <1>5, <1>6
<1>8. g = h
  BY <1>1, <1>5, <1>6, <1>7
<1> QED
  BY <1>1, <1>2, <1>4, <1>7, <1>8 DEF h, n

\* The numbers that h lists at the places I.
At(h, I) == {h[k] : k \in I}

\* What is kept of what was kept.
LEMMA KeptOfKept ==
  ASSUME NEW seq, NEW S, NEW h, NEW m, Lists(h, m, S), NEW T \in SUBSET (1..m)
  PROVE  Kept(Kept(seq, S), T) = Kept(seq, At(h, T))
<1>1. /\ m \in Nat /\ S \in SUBSET Int /\ h \in [1..m -> S]
      /\ \A k, l \in 1..m : k < l => h[k] < h[l]
  BY DEF Lists
<1>2. IsFiniteSet(T) /\ T \in SUBSET Int
  <2>1. IsFiniteSet(1..m)
    BY <1>1, FS_Interval
  <2>2. IsFiniteSet(T)
    BY <2>1, FS_Subset
  <2>3. \A x \in 1..m : x \in Int
    BY <1>1
  <2> QED
    BY <2>2, <2>3
<1> DEFINE t == Sorted(T)
           n == Cardinality(T)
           g == [k \in 1..n |-> h[t[k]]]
           U == At(h, T)
<1>3. Lists(t, n, T)
  BY <1>2, SortedLists
<1> HIDE DEF t, n
<1>4. /\ n \in Nat /\ t \in [1..n -> T] /\ \A x \in T : \E k \in 1..n : t[k] = x
      /\ \A k, l \in 1..n : k < l => t[k] < t[l]
  BY <1>3 DEF Lists
<1>5. Lists(g, n, U)
  <2>1. U \in SUBSET Int
    BY <1>1 DEF At
  <2>2. g \in [1..n -> U]
    BY <1>1, <1>4 DEF At
  <2>3. \A x \in U : \E k \in 1..n : g[k] = x
    BY <1>4 DEF At
  <2>4. \A k, l \in 1..n : k < l => g[k] < g[l]
    BY <1>1, <1>4
  <2> QED
    BY <1>4, <2>1, <2>2, <2>3, <2>4 DEF Lists
<1>6. Kept(seq, U) = [k \in 1..n |-> seq[g[k]]]
  <2> HIDE DEF g, U
  <2> QED
    BY <1>5, KeptListed
<1>7. Kept(seq, S) = [k \in 1..m |-> seq[h[k]]]
  BY KeptListed
<1>8. Kept(Kept(seq, S), T) = [k \in 1..n |-> Kept(seq, S)[t[k]]]
  BY <1>3, KeptListed
<1>9. \A k \in 1..n : Kept(seq, S)[t[k]] = seq[g[k]]
  BY <1>4, <1>7
<1> QED
  BY <1>6, <1>8, <1>9

\* A part of an array.
Part(seq, a, b) == SubSeq(seq, a, b)

\* A part of what was kept of an array.
LEMMA SubSeqKept ==
  ASSUME NEW seq, NEW S, NEW h, NEW m, Lists(h, m, S),
         NEW a \in Int, NEW b \in Int, 1 <= a, b <= m
  PROVE  Part(Kept(seq, S), a, b) = Kept(seq, At(h, a..b))
<1>1. /\ m \in Nat /\ S \in SUBSET Int /\ h \in [1..m -> S]
      /\ \A k, l \in 1..m : k < l => h[k] < h[l]
  BY DEF Lists
<1>0. \A k \in a..b : k \in 1..m
  BY <1>1
<1> DEFINE n == IF a <= b THEN b - a + 1 ELSE 0
           g == [k \in 1..n |-> h[k + a - 1]]
           U == At(h, a..b)
<1>2. n \in Nat /\ \A k \in 1..n : k + a - 1 \in 1..m /\ k + a - 1 \in a..b
  BY <1>1
<1>3. \A k \in a..b : k - a + 1 \in 1..n
  OBVIOUS
<1>4. 1..n = 1..(b - a + 1)
  BY <1>1
<1> HIDE DEF n
<1>5. Lists(g, n, U)
  <2>1. U \in SUBSET Int
    <3>1. \A k \in 1..m : h[k] \in Int
      BY <1>1
    <3> QED
      BY <1>0, <3>1 DEF At
  <2>2. g \in [1..n -> U]
    BY <1>1, <1>2 DEF At
  <2>3. ASSUME NEW x \in U
        PROVE  \E k \in 1..n : g[k] = x
    <3>1. PICK k \in a..b : x = h[k]
      BY DEF At
    <3>2. k - a + 1 \in 1..n /\ (k - a + 1) + a - 1 = k /\ k \in Int
      BY <1>1, <1>3, <3>1
    <3>3. g[k - a + 1] = x
      BY <3>1, <3>2
    <3> QED
      BY <3>2, <3>3
  <2>4. ASSUME NEW k \in 1..n, NEW l \in 1..n, k < l
        PROVE  g[k] < g[l]
    <3>1. k + a - 1 \in 1..m /\ l + a - 1 \in 1..m /\ k + a - 1 < l + a - 1
      BY <1>2, <2>4
    <3> QED
      BY <1>1, <3>1
  <2> QED
    BY <1>2, <2>1, <2>2, <2>3, <2>4 DEF Lists
<1>6. Kept(seq, U) = [k \in 1..n |-> seq[g[k]]]
  <2> HIDE DEF g, U
  <2> QED
    BY <1>5, KeptListed
<1>7. Kept(seq, S) = [k \in 1..m |-> seq[h[k]]]
  BY KeptListed
<1> DEFINE kept == Kept(seq, S)
<1>8. SubSeq(kept, a, b) = [k \in 1..n |-> kept[k + a - 1]]
  <2> DEFINE R == {kept[k] : k \in 1..m}
  <2>1. kept \in Seq(R) /\ Len(kept) = m
    BY <1>1, <1>7
  <2> HIDE DEF kept, R
  <2>2. /\ SubSeq(kept, a, b) \in Seq(R)
        /\ Len(SubSeq(kept, a, b)) = IF a <= b THEN b - a + 1 ELSE 0
        /\ \A k \in 1..(b - a + 1) : SubSeq(kept, a, b)[k] = kept[k + a - 1]
    BY <1>1, <2>1
  <2> QED
    BY <1>2, <1>4, <2>2 DEF n
<1>9. \A k \in 1..n : kept[k + a - 1] = seq[g[k]]
  BY <1>2, <1>7
<1> QED
  BY <1>6, <1>8, <1>9 DEF Part

\* The positions of an array list themselves.
LEMMA ListsThemselves ==
  ASSUME NEW m \in Nat
  PROVE  Lists([k \in 1..m |-> k], m, 1..m)
BY DEF Lists

\* A part of an array is what is kept of it at the positions of the part.
LEMMA PartIsKept ==
  ASSUME NEW T, NEW seq \in Seq(T), NEW a \in Int, NEW b \in Int,
         1 <= a, b <= Len(seq)
  PROVE  Part(seq, a, b) = Kept(seq, a..b)
<1> DEFINE m == Len(seq)
           h == [k \in 1..m |-> k]
<1>1. m \in Nat /\ Lists(h, m, 1..m) /\ DOMAIN seq = 1..m /\ b <= m
  BY ListsThemselves
<1>2. Kept(seq, 1..m) = seq
  BY <1>1, KeptWhole
<1>3. At(h, a..b) = a..b
  <2>1. \A k \in a..b : k \in 1..m /\ h[k] = k
    OBVIOUS
  <2> HIDE DEF h
  <2> QED
    BY <2>1 DEF At
<1> HIDE DEF h, m
<1>4. Part(Kept(seq, 1..m), a, b) = Kept(seq, At(h, a..b))
  <2> DEFINE D == 1..m
  <2>1. Lists(h, m, D) /\ b <= m
    BY <1>1
  <2> HIDE DEF D
  <2>2. Part(Kept(seq, D), a, b) = Kept(seq, At(h, a..b))
    BY <2>1, SubSeqKept
  <2> QED
    BY <2>2 DEF D
<1> QED
  BY <1>2, <1>3, <1>4

\* One array after the other.
Joined(a, b) == a \o b

\* What is kept at earlier positions and then at later ones.
LEMMA KeptJoins ==
  ASSUME NEW V, NEW seq \in Seq(V), NEW S \in SUBSET DOMAIN seq, NEW T \in SUBSET DOMAIN seq,
         \A x \in S, y \in T : x < y
  PROVE  Joined(Kept(seq, S), Kept(seq, T)) = Kept(seq, S \cup T)
<1> DEFINE h == Sorted(S)
           m == Cardinality(S)
           t == Sorted(T)
           n == Cardinality(T)
           g == [k \in 1..(m + n) |-> IF k <= m THEN h[k] ELSE t[k - m]]
<1>1. /\ Len(seq) \in Nat /\ IsFiniteSet(1..Len(seq)) /\ DOMAIN seq = 1..Len(seq)
      /\ \A x \in DOMAIN seq : x \in Int
  BY FS_Interval
<1>2. /\ IsFiniteSet(S) /\ IsFiniteSet(T) /\ S \in SUBSET Int /\ T \in SUBSET Int
  <2>1. IsFiniteSet(S)
    BY <1>1, FS_Subset
  <2>2. IsFiniteSet(T)
    BY <1>1, FS_Subset
  <2> QED
    BY <1>1, <2>1, <2>2
<1>3. Lists(h, m, S) /\ Lists(t, n, T)
  BY <1>2, SortedLists
<1> HIDE DEF h, m, t, n
<1>4. /\ m \in Nat /\ h \in [1..m -> S] /\ \A x \in S : \E k \in 1..m : h[k] = x
      /\ \A k, l \in 1..m : k < l => h[k] < h[l]
      /\ n \in Nat /\ t \in [1..n -> T] /\ \A x \in T : \E k \in 1..n : t[k] = x
      /\ \A k, l \in 1..n : k < l => t[k] < t[l]
  BY <1>3 DEF Lists
<1>5. /\ \A k \in 1..m : k \in 1..(m + n) /\ g[k] = h[k]
      /\ \A k \in 1..n : k + m \in 1..(m + n) /\ g[k + m] = t[k]
      /\ \A k \in 1..(m + n) : k \in 1..m \/ (k - m \in 1..n /\ k > m)
  BY <1>4
<1>6. Lists(g, m + n, S \cup T)
  <2>1. g \in [1..(m + n) -> S \cup T]
    BY <1>4, <1>5
  <2>2. ASSUME NEW x \in S \cup T
        PROVE  \E k \in 1..(m + n) : g[k] = x
    BY <1>4, <1>5
  <2>3. ASSUME NEW k \in 1..(m + n), NEW l \in 1..(m + n), k < l
        PROVE  g[k] < g[l]
    <3>1. CASE k \in 1..m /\ l \in 1..m
      BY <1>4, <1>5, <2>3, <3>1
    <3>2. CASE k \in 1..m /\ l - m \in 1..n /\ l > m
      <4>1. g[k] \in S /\ g[l] \in T
        BY <1>4, <1>5, <3>2
      <4> QED
        BY <4>1
    <3>3. CASE k - m \in 1..n /\ k > m /\ l - m \in 1..n /\ l > m
      <4>1. g[k] = t[k - m] /\ g[l] = t[l - m] /\ k - m < l - m
        BY <1>4, <2>3, <3>3
      <4> QED
        BY <1>4, <3>3, <4>1
    <3>4. ~(k \in 1..m) => ~(l \in 1..m)
      BY <1>4, <2>3
    <3> QED
      BY <1>5, <3>1, <3>2, <3>3, <3>4
  <2>4. S \cup T \in SUBSET Int /\ m + n \in Nat
    BY <1>2, <1>4
  <2> QED
    BY <2>1, <2>2, <2>3, <2>4 DEF Lists
<1>7. Kept(seq, S \cup T) = [k \in 1..(m + n) |-> seq[g[k]]]
  <2> DEFINE p == m + n
             U == S \cup T
  <2>1. Lists(g, p, U)
    BY <1>6
  <2> HIDE DEF g, p, U
  <2>2. Kept(seq, U) = [k \in 1..p |-> seq[g[k]]]
    BY <2>1, KeptListed
  <2> QED
    BY <2>2 DEF p, U
<1>8. Kept(seq, S) = [k \in 1..m |-> seq[h[k]]] /\ Kept(seq, T) = [k \in 1..n |-> seq[t[k]]]
  BY <1>3, KeptListed
<1>9. Kept(seq, S) \in Seq(V) /\ Kept(seq, T) \in Seq(V)
  BY KeptIs
<1>10. Kept(seq, S \cup T) \in Seq(V)
  <2>1. S \cup T \in SUBSET DOMAIN seq
    OBVIOUS
  <2> HIDE DEF g
  <2> QED
    BY <2>1, KeptIs
<1> DEFINE a == Kept(seq, S)
           b == Kept(seq, T)
           c == Kept(seq, S \cup T)
<1>11. Len(a) = m /\ Len(b) = n /\ Len(c) = m + n
  BY <1>4, <1>7, <1>8
<1>12. \A k \in 1..(m + n) : c[k] = IF k <= m THEN a[k] ELSE b[k - m]
  BY <1>4, <1>5, <1>7, <1>8
<1> HIDE DEF a, b, c, g
<1>13. a \in Seq(V) /\ b \in Seq(V) /\ c \in Seq(V)
  BY <1>9, <1>10 DEF a, b, c
<1> DEFINE d == a \o b
<1>14. /\ d \in Seq(V) /\ Len(d) = m + n
       /\ \A k \in 1..(m + n) : d[k] = IF k <= m THEN a[k] ELSE b[k - m]
  BY <1>11, <1>13, ConcatProperties
<1> HIDE DEF d
<1>15. d = c
  BY <1>11, <1>12, <1>13, <1>14
<1> QED
  BY <1>15 DEF a, b, c, d, Joined

-----------------------------------------------------------------------------
(***************************************************************************)
(* Sums.  A sum is reached position by position; what two such ways have   *)
(* in common at the start and keep at every position they have at the end. *)
(***************************************************************************)

\* What a position adds to a sum.
Adds(seq, S, i) == IF i \in S THEN seq[i] ELSE 0

\* The sums of the first 0, 1, 2, ... positions.
IsSum(g, seq, S) ==
  /\ g \in [0..Len(seq) -> Int] /\ g[0] = 0
  /\ \A i \in 1..Len(seq) : g[i] = g[i - 1] + Adds(seq, S, i)

\* Every array of numbers has such sums.
LEMMA SumExists ==
  ASSUME NEW seq \in Seq(Int), NEW S
  PROVE  \E g : IsSum(g, seq, S)
<1> DEFINE upTo(n, g) == /\ g \in [0..n -> Int] /\ g[0] = 0
                         /\ \A i \in 1..n : g[i] = g[i - 1] + Adds(seq, S, i)
           bad == {n \in 0..Len(seq) : ~\E g : upTo(n, g)}
<1>1. Len(seq) \in Nat /\ \A i \in 1..Len(seq) : Adds(seq, S, i) \in Int
  BY DEF Adds
<1>2. ASSUME bad # {}
      PROVE  FALSE
  <2>1. bad \in SUBSET Nat
    BY <1>1
  <2>2. PICK n \in bad : \A m \in bad : n <= m
    BY <1>2, <2>1, LeastExists
  <2>3. n # 0
    <3>1. upTo(0, [i \in 0..0 |-> 0])
      OBVIOUS
    <3> QED
      BY <2>2, <3>1
  <2>4. n \in Nat /\ n <= Len(seq) /\ n - 1 \in 0..Len(seq) /\ n - 1 \notin bad
    <3>1. n \in 0..Len(seq)
      BY <2>2
    <3> HIDE DEF bad
    <3> QED
      BY <1>1, <2>2, <2>3, <3>1
  <2>5. PICK g : upTo(n - 1, g)
    BY <2>4
  <2> DEFINE h == [i \in 0..n |-> IF i = n THEN g[n - 1] + Adds(seq, S, n) ELSE g[i]]
  <2>6. h \in [0..n -> Int]
    <3>1. n - 1 \in 0 .. n - 1 /\ n \in 1..Len(seq) /\ g[n - 1] \in Int
      BY <1>1, <2>3, <2>4, <2>5
    <3>2. \A i \in 0..n : i # n => i \in 0 .. n - 1
      BY <2>4
    <3> QED
      BY <1>1, <2>5, <3>1, <3>2
  <2>7. h[0] = 0
    BY <2>3, <2>4, <2>5
  <2>8. ASSUME NEW i \in 1..n
        PROVE  h[i] = h[i - 1] + Adds(seq, S, i)
    <3>1. CASE i = n
      BY <2>3, <2>4, <3>1
    <3>2. CASE i # n
      <4>1. i \in 1 .. n - 1 /\ i - 1 # n /\ i \in 0..n /\ i - 1 \in 0..n
        BY <2>4, <3>2
      <4> QED
        BY <2>5, <3>2, <4>1
    <3> QED
      BY <3>1, <3>2
  <2>9. upTo(n, h)
    BY <2>6, <2>7, <2>8
  <2> QED
    BY <2>2, <2>9
<1>3. Len(seq) \notin bad /\ Len(seq) \in 0..Len(seq)
  <2> HIDE DEF bad
  <2> QED
    BY <1>1, <1>2
<1>4. \E g : upTo(Len(seq), g)
  BY <1>3
<1> QED
  BY <1>4 DEF IsSum

\* There is one way to reach a sum.
LEMMA SumIsOne ==
  ASSUME NEW seq \in Seq(Int), NEW S, NEW g, IsSum(g, seq, S), NEW h, h[0] = 0,
         \A i \in 1..Len(seq) : h[i] = h[i - 1] + Adds(seq, S, i)
  PROVE  \A n \in 0..Len(seq) : g[n] = h[n]
<1> DEFINE bad == {n \in 0..Len(seq) : g[n] # h[n]}
<1>1. Len(seq) \in Nat
  OBVIOUS
<1>2. ASSUME bad # {}
      PROVE  FALSE
  <2>1. bad \in SUBSET Nat
    BY <1>1
  <2>2. PICK n \in bad : \A m \in bad : n <= m
    BY <1>2, <2>1, LeastExists
  <2>3. n # 0
    BY <2>2 DEF IsSum
  <2>4. n \in 1..Len(seq) /\ n - 1 \in 0..Len(seq) /\ n - 1 \notin bad
    BY <1>1, <2>1, <2>2, <2>3
  <2>5. g[n - 1] = h[n - 1]
    BY <2>4
  <2>6. g[n] = g[n - 1] + Adds(seq, S, n) /\ h[n] = h[n - 1] + Adds(seq, S, n)
    BY <2>4 DEF IsSum
  <2> QED
    BY <2>2, <2>5, <2>6
<1> QED
  BY <1>2

\* The total is the last of the sums, however they are reached.
LEMMA TotalIs ==
  ASSUME NEW seq \in Seq(Int), NEW S, NEW g, IsSum(g, seq, S)
  PROVE  Total(seq, S) = g[Len(seq)] /\ Total(seq, S) \in Int
<1> DEFINE rule(f) == [i \in 0..Len(seq) |->
                         IF i = 0 THEN 0 ELSE f[i - 1] + IF i \in S THEN seq[i] ELSE 0]
           sum == CHOOSE f : f = rule(f)
<1>1. Len(seq) \in Nat
  OBVIOUS
<1>2. Total(seq, S) = sum[Len(seq)]
  BY DEF Total
<1>3. g = rule(g)
  <2>1. ASSUME NEW i \in 0..Len(seq)
        PROVE  g[i] = rule(g)[i]
    <3>1. i = 0 \/ i \in 1..Len(seq)
      BY <1>1
    <3> QED
      BY <3>1 DEF IsSum, Adds
  <2>2. g = [i \in 0..Len(seq) |-> g[i]]
    BY DEF IsSum
  <2>3. rule(g) = [i \in 0..Len(seq) |-> rule(g)[i]]
    OBVIOUS
  <2> HIDE DEF rule
  <2> QED
    BY <2>1, <2>2, <2>3
<1>4. sum = rule(sum)
  <2> HIDE DEF rule
  <2> QED
    BY <1>3
<1>5. DOMAIN rule(sum) = 0..Len(seq)
      /\ rule(sum)[0] = 0
      /\ \A i \in 1..Len(seq) : rule(sum)[i] = sum[i - 1] + Adds(seq, S, i)
  <2> HIDE DEF sum
  <2> QED
    BY <1>1 DEF Adds
<1>6. sum[0] = 0 /\ \A i \in 1..Len(seq) : sum[i] = sum[i - 1] + Adds(seq, S, i)
  <2> HIDE DEF rule, sum
  <2> QED
    BY <1>4, <1>5
<1> HIDE DEF rule, sum
<1>7. g[Len(seq)] = sum[Len(seq)]
  BY <1>1, <1>6, SumIsOne
<1>8. g[Len(seq)] \in Int
  BY <1>1 DEF IsSum
<1> QED
  BY <1>2, <1>7, <1>8

\* Nothing adds up to nothing, and only what is in the array counts.
LEMMA TotalOfNone ==
  ASSUME NEW seq \in Seq(Int)
  PROVE  Total(seq, {}) = 0
<1>1. IsSum([i \in 0..Len(seq) |-> 0], seq, {})
  BY DEF IsSum, Adds
<1> QED
  BY <1>1, TotalIs

\* A total is a number.
LEMMA TotalIsNumber ==
  ASSUME NEW seq \in Seq(Int), NEW S
  PROVE  Total(seq, S) \in Int
BY SumExists, TotalIs

\* The totals of two sets of positions without a common one add up.
LEMMA TotalSplits ==
  ASSUME NEW seq \in Seq(Int), NEW A, NEW B, A \cap B = {}
  PROVE  Total(seq, A \cup B) = Total(seq, A) + Total(seq, B)
<1>1. PICK g : IsSum(g, seq, A)
  BY SumExists
<1>2. PICK h : IsSum(h, seq, B)
  BY SumExists
<1> DEFINE both == [i \in 0..Len(seq) |-> g[i] + h[i]]
<1>3. Len(seq) \in Nat /\ \A i \in 1..Len(seq) : seq[i] \in Int
  OBVIOUS
<1>4. \A i \in 1..Len(seq) : /\ Adds(seq, A \cup B, i) = Adds(seq, A, i) + Adds(seq, B, i)
                             /\ Adds(seq, A, i) \in Int /\ Adds(seq, B, i) \in Int
  BY <1>3 DEF Adds
<1>5. \A i \in 0..Len(seq) : g[i] \in Int /\ h[i] \in Int
  BY <1>1, <1>2 DEF IsSum
<1>6. ASSUME NEW i \in 1..Len(seq)
      PROVE  both[i] = both[i - 1] + Adds(seq, A \cup B, i)
  <2>1. i \in 0..Len(seq) /\ i - 1 \in 0..Len(seq)
    BY <1>3
  <2>2. g[i] = g[i - 1] + Adds(seq, A, i) /\ h[i] = h[i - 1] + Adds(seq, B, i)
    BY <1>1, <1>2 DEF IsSum
  <2>3. g[i - 1] \in Int /\ h[i - 1] \in Int
    BY <1>5, <2>1
  <2>4. both[i] = g[i] + h[i] /\ both[i - 1] = g[i - 1] + h[i - 1]
    BY <2>1
  <2>5. /\ Adds(seq, A \cup B, i) = Adds(seq, A, i) + Adds(seq, B, i)
        /\ Adds(seq, A, i) \in Int /\ Adds(seq, B, i) \in Int
    BY <1>4
  <2> HIDE DEF both
  <2> QED
    BY <2>2, <2>3, <2>4, <2>5
<1>7. both \in [0..Len(seq) -> Int] /\ both[0] = 0
  BY <1>1, <1>2, <1>3, <1>5 DEF IsSum
<1>8. IsSum(both, seq, A \cup B)
  BY <1>6, <1>7 DEF IsSum
<1>9. Total(seq, A \cup B) = both[Len(seq)]
  BY <1>8, TotalIs
<1>10. Total(seq, A) = g[Len(seq)] /\ Total(seq, B) = h[Len(seq)]
  BY <1>1, <1>2, TotalIs
<1> QED
  BY <1>3, <1>9, <1>10

\* Products, for what the solvers do not find.
LEMMA Products ==
  \A x, y, z \in Int : x * (y + z) = x * y + x * z /\ x * y \in Int /\ x * y = y * x
OBVIOUS

\* Totals are linear.
LEMMA TotalIsLinear ==
  ASSUME NEW f \in Seq(Int), NEW k \in Seq(Int), NEW both \in Seq(Int),
         Len(k) = Len(f), Len(both) = Len(f), NEW S, NEW a \in Int, NEW b \in Int,
         \A i \in 1..Len(f) : i \in S => both[i] = a * f[i] + b * k[i]
  PROVE  Total(both, S) = a * Total(f, S) + b * Total(k, S)
<1>1. PICK g : IsSum(g, f, S)
  BY SumExists
<1>2. PICK h : IsSum(h, k, S)
  BY SumExists
<1> DEFINE sum == [i \in 0..Len(f) |-> a * g[i] + b * h[i]]
<1>3. Len(f) \in Nat /\ \A i \in 1..Len(f) : f[i] \in Int /\ k[i] \in Int
  OBVIOUS
<1>4. \A i \in 1..Len(f) : /\ Adds(both, S, i) = a * Adds(f, S, i) + b * Adds(k, S, i)
                           /\ Adds(f, S, i) \in Int /\ Adds(k, S, i) \in Int
  BY <1>3 DEF Adds
<1>5. \A i \in 0..Len(f) : g[i] \in Int /\ h[i] \in Int
  BY <1>1, <1>2 DEF IsSum
<1>6. ASSUME NEW i \in 1..Len(f)
      PROVE  sum[i] = sum[i - 1] + Adds(both, S, i)
  <2>1. i \in 0..Len(f) /\ i - 1 \in 0..Len(f)
    BY <1>3
  <2>2. g[i] = g[i - 1] + Adds(f, S, i) /\ h[i] = h[i - 1] + Adds(k, S, i)
    BY <1>1, <1>2 DEF IsSum
  <2>3. g[i - 1] \in Int /\ h[i - 1] \in Int /\ Adds(f, S, i) \in Int /\ Adds(k, S, i) \in Int
    BY <1>4, <1>5, <2>1
  <2>4. /\ a * (g[i - 1] + Adds(f, S, i)) = a * g[i - 1] + a * Adds(f, S, i)
        /\ b * (h[i - 1] + Adds(k, S, i)) = b * h[i - 1] + b * Adds(k, S, i)
    <3>1. \A x, y \in Int : a * (x + y) = a * x + a * y /\ b * (x + y) = b * x + b * y
      BY Products
    <3> QED
      BY <2>3, <3>1, Zenon
  <2>5. sum[i] = a * g[i] + b * h[i] /\ sum[i - 1] = a * g[i - 1] + b * h[i - 1]
    BY <2>1
  <2>6. /\ a * g[i - 1] \in Int /\ a * Adds(f, S, i) \in Int
        /\ b * h[i - 1] \in Int /\ b * Adds(k, S, i) \in Int
    BY <2>3, Products
  <2>7. Adds(both, S, i) = a * Adds(f, S, i) + b * Adds(k, S, i)
    BY <1>4
  <2> HIDE DEF sum
  <2> QED
    BY <2>2, <2>4, <2>5, <2>6, <2>7
<1>7. sum \in [0..Len(f) -> Int] /\ sum[0] = 0
  BY <1>1, <1>2, <1>3, <1>5 DEF IsSum
<1>8. IsSum(sum, both, S)
  BY <1>6, <1>7 DEF IsSum
<1>9. Total(both, S) = sum[Len(f)]
  BY <1>8, TotalIs
<1>10. Total(f, S) = g[Len(f)] /\ Total(k, S) = h[Len(f)]
  BY <1>1, <1>2, TotalIs
<1> QED
  BY <1>3, <1>9, <1>10

\* What is nowhere negative has a total that is not, and one that is positive when some
\* position that counts is.
LEMMA TotalIsPositive ==
  ASSUME NEW seq \in Seq(Int), NEW S, \A i \in 1..Len(seq) : i \in S => seq[i] >= 0
  PROVE  /\ Total(seq, S) >= 0
         /\ \A i \in 1..Len(seq) : i \in S => seq[i] <= Total(seq, S)
<1>1. PICK g : IsSum(g, seq, S)
  BY SumExists
<1>2. Len(seq) \in Nat /\ \A i \in 1..Len(seq) : Adds(seq, S, i) \in Int /\ Adds(seq, S, i) >= 0
  BY DEF Adds
<1>3. \A i \in 0..Len(seq) : g[i] \in Int
  BY <1>1 DEF IsSum
<1>4. \A i \in 1..Len(seq) : g[i] = g[i - 1] + Adds(seq, S, i)
  BY <1>1 DEF IsSum
<1>5. ASSUME NEW m \in 0..Len(seq)
      PROVE  \A n \in m..Len(seq) : g[m] <= g[n]
  <2> DEFINE bad == {n \in m..Len(seq) : ~(g[m] <= g[n])}
  <2>1. ASSUME bad # {}
        PROVE  FALSE
    <3>1. bad \in SUBSET Nat
      BY <1>2
    <3>2. PICK n \in bad : \A l \in bad : n <= l
      BY <2>1, <3>1, LeastExists
    <3>3. n \in m..Len(seq) /\ ~(g[m] <= g[n]) /\ n # m
      BY <1>3, <3>2
    <3>4. n - 1 \in m..Len(seq) /\ n - 1 \notin bad /\ n \in 1..Len(seq) /\ n - 1 \in 0..Len(seq)
      <4> HIDE DEF bad
      <4> QED
        BY <1>2, <3>2, <3>3
    <3>5. g[m] <= g[n - 1] /\ g[n] = g[n - 1] + Adds(seq, S, n)
      BY <1>4, <3>4
    <3>6. g[m] \in Int /\ g[n - 1] \in Int /\ Adds(seq, S, n) \in Int /\ Adds(seq, S, n) >= 0
      BY <1>2, <1>3, <3>4
    <3> HIDE DEF bad
    <3> QED
      BY <3>3, <3>5, <3>6
  <2> QED
    BY <2>1
<1>6. Total(seq, S) = g[Len(seq)]
  BY <1>1, TotalIs
<1>7. g[0] = 0 /\ 0 \in 0..Len(seq) /\ Len(seq) \in 0..Len(seq)
  BY <1>1, <1>2 DEF IsSum
<1>8. Total(seq, S) >= 0
  BY <1>3, <1>5, <1>6, <1>7
<1>9. ASSUME NEW i \in 1..Len(seq), i \in S
      PROVE  seq[i] <= Total(seq, S)
  <2>1. i - 1 \in 0..Len(seq) /\ i \in 0..Len(seq) /\ 0 \in 0..Len(seq) /\ i - 1 \in 0..Len(seq)
        /\ Len(seq) \in i..Len(seq)
    BY <1>2
  <2>2. g[0] <= g[i - 1] /\ g[i] <= g[Len(seq)]
    BY <1>2, <1>5, <2>1
  <2>3. g[i] = g[i - 1] + seq[i]
    BY <1>4, <1>9 DEF Adds
  <2>4. g[i - 1] \in Int /\ g[i] \in Int /\ g[Len(seq)] \in Int /\ seq[i] \in Int
    BY <1>3, <1>7, <2>1
  <2> QED
    BY <1>6, <1>7, <2>2, <2>3, <2>4
<1> QED
  BY <1>8, <1>9

-----------------------------------------------------------------------------
(***************************************************************************)
(* The form's fields.                                                      *)
(***************************************************************************)

\* What the fields may hold.
AnyText == Texts \cup {""}
AnyMessage == [role : {"user", "assistant"}, content : AnyText]
AnyAssertion == [type : AssertionTypes, argument : AnyText]

\* A text is a text after trimming, and none of them stands for an absent one.
LEMMA TextsAre ==
  /\ \A t \in AnyText : Trim(t) \in AnyText /\ Trim(t) # NoValue /\ Trim(Trim(t)) = Trim(t)
  /\ \A t \in SchemaTexts \cup {""} :
       Trim(t) \in SchemaTexts \cup {""} /\ Trim(t) # NoValue /\ Trim(Trim(t)) = Trim(t)
BY FormAssumption DEF AnyText, Trim, Blank, NoValue

\* What is left of a sequence without one element is a sequence of the same elements.
LEMMA RemoveAtType ==
  ASSUME NEW T, NEW seq \in Seq(T), NEW i \in DOMAIN seq
  PROVE  RemoveAt(seq, i) \in Seq(T)
<1>1. i \in 1..Len(seq) /\ Len(seq) \in Nat
  OBVIOUS
<1>2. SubSeq(seq, 1, i - 1) \in Seq(T) /\ SubSeq(seq, i + 1, Len(seq)) \in Seq(T)
  BY <1>1
<1> QED
  BY <1>2 DEF RemoveAt

\* The messages with content are messages, each of them one of the form's and not blank.
LEMMA SavedMessagesAre ==
  ASSUME NEW f, f.messages \in Seq(AnyMessage)
  PROVE  /\ SavedMessages(f) \in Seq(AnyMessage)
         /\ \A k \in DOMAIN SavedMessages(f) : Trim(SavedMessages(f)[k].content) # ""
<1> DEFINE S == {i \in DOMAIN f.messages : Trim(f.messages[i].content) # ""}
<1>1. SavedMessages(f) = Kept(f.messages, S) /\ S \in SUBSET DOMAIN f.messages
  BY DEF SavedMessages
<1>2. /\ Kept(f.messages, S) \in Seq(AnyMessage)
      /\ \A k \in DOMAIN Kept(f.messages, S) : \E i \in S : Kept(f.messages, S)[k] = f.messages[i]
  <2> HIDE DEF S
  <2> QED
    BY <1>1, KeptIs
<1>3. \A i \in S : Trim(f.messages[i].content) # ""
  OBVIOUS
<1> HIDE DEF S
<1>4. ASSUME NEW k \in DOMAIN Kept(f.messages, S)
      PROVE  Trim(Kept(f.messages, S)[k].content) # ""
  BY <1>2, <1>3
<1> QED
  BY <1>1, <1>2, <1>4

\* The same for texts: those that are filled.
LEMMA FilledAre ==
  ASSUME NEW T, NEW seq \in Seq(T)
  PROVE  /\ Filled(seq) \in Seq(T) /\ \A k \in DOMAIN Filled(seq) : Trim(Filled(seq)[k]) # ""
         /\ Filled(Filled(seq)) = Filled(seq)
<1> DEFINE S == {i \in DOMAIN seq : Trim(seq[i]) # ""}
<1>1. Filled(seq) = Kept(seq, S) /\ S \in SUBSET DOMAIN seq
  BY DEF Filled
<1>2. /\ Kept(seq, S) \in Seq(T)
      /\ \A k \in DOMAIN Kept(seq, S) : \E i \in S : Kept(seq, S)[k] = seq[i]
  <2> HIDE DEF S
  <2> QED
    BY <1>1, KeptIs
<1>3. \A i \in S : Trim(seq[i]) # ""
  OBVIOUS
<1> HIDE DEF S
<1>4. ASSUME NEW k \in DOMAIN Kept(seq, S)
      PROVE  Trim(Kept(seq, S)[k]) # ""
  BY <1>2, <1>3
<1>5. ASSUME NEW kept \in Seq(T), \A k \in DOMAIN kept : Trim(kept[k]) # ""
      PROVE  Filled(kept) = kept
  <2>1. {k \in DOMAIN kept : Trim(kept[k]) # ""} = DOMAIN kept
    BY <1>5
  <2> QED
    BY <2>1, KeptWhole DEF Filled
<1> QED
  BY <1>1, <1>2, <1>4, <1>5

\* And messages without content are gone once and for all.
LEMMA SavedMessagesTwice ==
  ASSUME NEW f, f.messages \in Seq(AnyMessage), NEW g, g.messages = SavedMessages(f)
  PROVE  SavedMessages(g) = SavedMessages(f)
<1>1. /\ g.messages \in Seq(AnyMessage)
      /\ \A k \in DOMAIN g.messages : Trim(g.messages[k].content) # ""
  BY SavedMessagesAre
<1>2. {k \in DOMAIN g.messages : Trim(g.messages[k].content) # ""} = DOMAIN g.messages
  BY <1>1
<1> QED
  BY <1>1, <1>2, KeptWhole DEF SavedMessages

-----------------------------------------------------------------------------
(***************************************************************************)
(* A form that is saved, and opened again.                                 *)
(***************************************************************************)

\* What a form shows of an assertion that was saved: its argument where its type has one.
ReopenedAssertion(a) ==
  [type |-> a.type, argument |-> IF NeedsArgument(a.type) THEN Trim(a.argument) ELSE ""]

\* What a form shows when it is opened from the case it was saved as.
Reopened(f) ==
  [id |-> Trim(f.id), category |-> Trim(f.category), tags |-> Filled(f.tags),
   messages |-> SavedMessages(f), systemPrompt |-> Trim(f.systemPrompt),
   judgeCriteria |-> Trim(f.judgeCriteria), outputSchema |-> Trim(f.outputSchema),
   expectedTools |-> f.expectedTools,
   assertions |-> [i \in DOMAIN f.assertions |-> ReopenedAssertion(f.assertions[i])]]

\* The fields of a form.
LEMMA FormFields ==
  ASSUME NEW f \in Forms
  PROVE  /\ f.id \in IdTexts \cup {""} /\ f.category \in {"", "c"} /\ f.tags \in Seq({"x", ""})
         /\ f.messages \in Seq(AnyMessage) /\ f.systemPrompt \in AnyText
         /\ f.judgeCriteria \in AnyText /\ f.outputSchema \in SchemaTexts \cup {""}
         /\ f.expectedTools \in Seq(ToolNames) /\ f.assertions \in Seq(AnyAssertion)
BY DEF Forms, AnyMessage, AnyAssertion, AnyText

\* An assertion is reopened with what its type reads.
LEMMA ReopenedAssertionIs ==
  ASSUME NEW a \in AnyAssertion
  PROVE  /\ SavedAssertion(a).type = a.type
         /\ Argument(SavedAssertion(a)) = ReopenedAssertion(a).argument
         /\ ReopenedAssertion(a) \in AnyAssertion
         /\ SavedAssertion(ReopenedAssertion(a)) = SavedAssertion(a)
<1> DEFINE t == Trim(a.argument)
<1>1. a.type \in AssertionTypes /\ a.argument \in AnyText
  BY DEF AnyAssertion
<1>2. t \in AnyText /\ t # NoValue /\ Trim(t) = t /\ "" \in AnyText
  BY <1>1, TextsAre DEF AnyText
<1>3. SavedAssertion(a) =
        [type |-> a.type, value |-> IF a.type = "contains" THEN t ELSE NoValue,
         pattern |-> IF a.type = "regex" THEN t ELSE NoValue,
         name |-> IF a.type = "tool_called" THEN t ELSE NoValue]
  BY DEF SavedAssertion
<1>4. /\ ReopenedAssertion(a).type = a.type
      /\ NeedsArgument(a.type) => ReopenedAssertion(a).argument = t
      /\ ~NeedsArgument(a.type) => ReopenedAssertion(a).argument = ""
      /\ ReopenedAssertion(a) = [type |-> ReopenedAssertion(a).type,
                                 argument |-> ReopenedAssertion(a).argument]
  BY DEF ReopenedAssertion, NeedsArgument
<1>5. SavedAssertion(ReopenedAssertion(a)) = SavedAssertion(a)
  <2> DEFINE u == Trim(ReopenedAssertion(a).argument)
  <2>1. NeedsArgument(a.type) => u = t
    BY <1>2, <1>4 DEF NeedsArgument
  <2>2. ReopenedAssertion(a).type = a.type
    BY <1>4 DEF NeedsArgument
  <2>3. SavedAssertion(ReopenedAssertion(a)) =
          [type |-> a.type, value |-> IF a.type = "contains" THEN u ELSE NoValue,
           pattern |-> IF a.type = "regex" THEN u ELSE NoValue,
           name |-> IF a.type = "tool_called" THEN u ELSE NoValue]
    BY <2>2 DEF SavedAssertion
  <2> QED
    <3> HIDE DEF u, t
    <3> QED
      BY <1>3, <2>1, <2>3 DEF NeedsArgument
<1> HIDE DEF t
<1>6. Argument(SavedAssertion(a)) = ReopenedAssertion(a).argument
  <2>1. /\ SavedAssertion(a).value = IF a.type = "contains" THEN t ELSE NoValue
        /\ SavedAssertion(a).pattern = IF a.type = "regex" THEN t ELSE NoValue
        /\ SavedAssertion(a).name = IF a.type = "tool_called" THEN t ELSE NoValue
    BY <1>3
  <2> QED
    BY <1>2, <1>4, <2>1 DEF Argument, Else, OrEmpty, NeedsArgument
<1>7. ReopenedAssertion(a) \in AnyAssertion
  BY <1>1, <1>2, <1>4 DEF AnyAssertion, NeedsArgument
<1> QED
  BY <1>3, <1>5, <1>6, <1>7

\* Saving and opening a form again trims its texts and drops what is blank.
LEMMA ReopenedIs ==
  ASSUME NEW f \in Forms
  PROVE  CaseToForm(FormToCase(f)) = Reopened(f) /\ Reopened(f) \in Forms
<1> DEFINE c == FormToCase(f)
           shown == [i \in DOMAIN c.assertions |-> [type |-> c.assertions[i].type,
                                                    argument |-> Argument(c.assertions[i])]]
           orNull(text) == IF Trim(text) = "" THEN NoValue ELSE Trim(text)
           kept == [i \in DOMAIN f.assertions |-> ReopenedAssertion(f.assertions[i])]
<1>1. c = [id |-> Trim(f.id), category |-> Trim(f.category), tags |-> Filled(f.tags),
           messages |-> SavedMessages(f), system_prompt |-> orNull(f.systemPrompt),
           judge |-> orNull(f.judgeCriteria), output_schema |-> orNull(f.outputSchema),
           expected_tools |-> f.expectedTools,
           assertions |-> [i \in DOMAIN f.assertions |-> SavedAssertion(f.assertions[i])]]
  BY DEF FormToCase
<1>2. \A i \in DOMAIN f.assertions : f.assertions[i] \in AnyAssertion
  <2>1. f.assertions \in Seq(AnyAssertion)
    BY FormFields
  <2> QED
    BY <2>1
<1>3. shown = kept
  <2>1. /\ c.assertions = [i \in DOMAIN f.assertions |-> SavedAssertion(f.assertions[i])]
        /\ DOMAIN c.assertions = DOMAIN f.assertions
    BY DEF FormToCase
  <2>2. ASSUME NEW i \in DOMAIN f.assertions
        PROVE  [type |-> c.assertions[i].type, argument |-> Argument(c.assertions[i])]
                 = ReopenedAssertion(f.assertions[i])
    <3> DEFINE a == f.assertions[i]
    <3>1. c.assertions[i] = SavedAssertion(a)
      <4> HIDE DEF c
      <4> QED
        BY <2>1
    <3>2. a \in AnyAssertion
      BY <1>2
    <3> HIDE DEF a, c
    <3>3. SavedAssertion(a).type = a.type
          /\ Argument(SavedAssertion(a)) = ReopenedAssertion(a).argument
      BY <3>2, ReopenedAssertionIs
    <3>4. ReopenedAssertion(a) = [type |-> a.type, argument |-> ReopenedAssertion(a).argument]
      BY DEF ReopenedAssertion
    <3> QED
      BY <3>1, <3>3, <3>4 DEF a
  <2> HIDE DEF c
  <2> QED
    BY <2>1, <2>2
<1>4. ASSUME NEW t, Trim(t) # NoValue
      PROVE  OrEmpty(orNull(t)) = Trim(t)
  BY <1>4 DEF OrEmpty, Else
<1>5. /\ OrEmpty(orNull(f.systemPrompt)) = Trim(f.systemPrompt)
      /\ OrEmpty(orNull(f.judgeCriteria)) = Trim(f.judgeCriteria)
      /\ OrEmpty(orNull(f.outputSchema)) = Trim(f.outputSchema)
  BY <1>4, FormFields, TextsAre
<1>6. CaseToForm(c) =
        [id |-> c.id, category |-> c.category, tags |-> c.tags, messages |-> c.messages,
         systemPrompt |-> OrEmpty(c.system_prompt), judgeCriteria |-> OrEmpty(c.judge),
         outputSchema |-> OrEmpty(c.output_schema), expectedTools |-> c.expected_tools,
         assertions |-> shown]
  BY DEF CaseToForm
<1>7. kept \in Seq(AnyAssertion)
  <2>1. \A i \in DOMAIN f.assertions : ReopenedAssertion(f.assertions[i]) \in AnyAssertion
    BY <1>2, ReopenedAssertionIs
  <2>2. f.assertions \in Seq(AnyAssertion)
    BY FormFields
  <2>3. DOMAIN f.assertions = 1..Len(f.assertions) /\ Len(f.assertions) \in Nat
    BY <2>2
  <2> QED
    BY <2>1, <2>3
<1>8. CaseToForm(c) = Reopened(f)
  <2> HIDE DEF shown, kept, orNull
  <2>1. /\ c.id = Trim(f.id) /\ c.category = Trim(f.category) /\ c.tags = Filled(f.tags)
        /\ c.messages = SavedMessages(f) /\ c.system_prompt = orNull(f.systemPrompt)
        /\ c.judge = orNull(f.judgeCriteria) /\ c.output_schema = orNull(f.outputSchema)
        /\ c.expected_tools = f.expectedTools
    BY <1>1
  <2> HIDE DEF c
  <2> QED
    BY <1>3, <1>5, <1>6, <2>1 DEF Reopened, kept
<1>9. Reopened(f) \in Forms
  <2>1. /\ Trim(f.id) \in IdTexts \cup {""} /\ Trim(f.category) \in {"", "c"}
        /\ Filled(f.tags) \in Seq({"x", ""}) /\ SavedMessages(f) \in Seq(AnyMessage)
    BY FormFields, FilledAre, SavedMessagesAre DEF Trim
  <2>2. /\ Trim(f.systemPrompt) \in AnyText /\ Trim(f.judgeCriteria) \in AnyText
        /\ Trim(f.outputSchema) \in SchemaTexts \cup {""}
    BY FormFields, TextsAre
  <2>3. f.expectedTools \in Seq(ToolNames)
    BY FormFields
  <2> HIDE DEF kept
  <2>4. Reopened(f) =
          [id |-> Trim(f.id), category |-> Trim(f.category), tags |-> Filled(f.tags),
           messages |-> SavedMessages(f), systemPrompt |-> Trim(f.systemPrompt),
           judgeCriteria |-> Trim(f.judgeCriteria), outputSchema |-> Trim(f.outputSchema),
           expectedTools |-> f.expectedTools, assertions |-> kept]
    BY DEF Reopened, kept
  <2> QED
    <3> DEFINE A1 == IdTexts \cup {""}
               A2 == {"", "c"}
               A3 == Seq({"x", ""})
               A4 == Seq(AnyMessage)
               A7 == SchemaTexts \cup {""}
               A8 == Seq(ToolNames)
               A9 == Seq(AnyAssertion)
    <3>1. Forms = [id : A1, category : A2, tags : A3, messages : A4, systemPrompt : AnyText,
                   judgeCriteria : AnyText, outputSchema : A7, expectedTools : A8,
                   assertions : A9]
      BY DEF Forms, AnyMessage, AnyAssertion, AnyText
    <3>2. /\ Trim(f.id) \in A1 /\ Trim(f.category) \in A2 /\ Filled(f.tags) \in A3
          /\ SavedMessages(f) \in A4 /\ Trim(f.systemPrompt) \in AnyText
          /\ Trim(f.judgeCriteria) \in AnyText /\ Trim(f.outputSchema) \in A7
          /\ f.expectedTools \in A8 /\ kept \in A9
      BY <1>7, <2>1, <2>2, <2>3
    <3> HIDE DEF A1, A2, A3, A4, A7, A8, A9
    <3> QED
      BY <2>4, <3>1, <3>2
<1> QED
  BY <1>8, <1>9

-----------------------------------------------------------------------------
(***************************************************************************)
(* The form's type, and what is promised of the cases that are saved.      *)
(***************************************************************************)

\* A field is set to a value of its own.
LEMMA FieldSet ==
  ASSUME NEW f \in Forms
  PROVE  /\ \A v \in IdTexts \cup {""} : [f EXCEPT !.id = v] \in Forms
         /\ \A v \in {"", "c"} : [f EXCEPT !.category = v] \in Forms
         /\ \A v \in Seq({"x", ""}) : [f EXCEPT !.tags = v] \in Forms
         /\ \A v \in Seq(AnyMessage) : [f EXCEPT !.messages = v] \in Forms
         /\ \A v \in AnyText : [f EXCEPT !.systemPrompt = v] \in Forms
         /\ \A v \in AnyText : [f EXCEPT !.judgeCriteria = v] \in Forms
         /\ \A v \in SchemaTexts \cup {""} : [f EXCEPT !.outputSchema = v] \in Forms
         /\ \A v \in Seq(ToolNames) : [f EXCEPT !.expectedTools = v] \in Forms
         /\ \A v \in Seq(AnyAssertion) : [f EXCEPT !.assertions = v] \in Forms
<1> DEFINE A1 == IdTexts \cup {""}
           A2 == {"", "c"}
           A3 == Seq({"x", ""})
           A4 == Seq(AnyMessage)
           A7 == SchemaTexts \cup {""}
           A8 == Seq(ToolNames)
           A9 == Seq(AnyAssertion)
<1>1. Forms = [id : A1, category : A2, tags : A3, messages : A4, systemPrompt : AnyText,
               judgeCriteria : AnyText, outputSchema : A7, expectedTools : A8, assertions : A9]
  BY DEF Forms, AnyMessage, AnyAssertion, AnyText
<1> HIDE DEF A1, A2, A3, A4, A7, A8, A9
<1>2. \A v \in A1 : [f EXCEPT !.id = v] \in Forms
  BY <1>1
<1>3. \A v \in A2 : [f EXCEPT !.category = v] \in Forms
  BY <1>1
<1>4. \A v \in A3 : [f EXCEPT !.tags = v] \in Forms
  BY <1>1
<1>5. \A v \in A4 : [f EXCEPT !.messages = v] \in Forms
  BY <1>1
<1>6. \A v \in AnyText : [f EXCEPT !.systemPrompt = v] \in Forms
                         /\ [f EXCEPT !.judgeCriteria = v] \in Forms
  BY <1>1
<1>7. \A v \in A7 : [f EXCEPT !.outputSchema = v] \in Forms
  BY <1>1
<1>8. \A v \in A8 : [f EXCEPT !.expectedTools = v] \in Forms
  BY <1>1
<1>9. \A v \in A9 : [f EXCEPT !.assertions = v] \in Forms
  BY <1>1
<1> QED
  BY <1>2, <1>3, <1>4, <1>5, <1>6, <1>7, <1>8, <1>9 DEF A1, A2, A3, A4, A7, A8, A9

\* Every control leaves the form a form.
LEMMA FormStep ==
  ASSUME FormTypeOK, FormNext
  PROVE  FormTypeOK'
<1> SUFFICES form' \in Forms
  BY DEF FormTypeOK
<1>1. form \in Forms /\ form.messages \in Seq(AnyMessage) /\ form.assertions \in Seq(AnyAssertion)
      /\ form.expectedTools \in Seq(ToolNames)
  BY FormFields DEF FormTypeOK
<1>2. CASE EditHead
  <2>1. {"x", ""} # {} /\ <<>> \in Seq({"x", ""}) /\ <<"x", "">> \in Seq({"x", ""})
    OBVIOUS
  <2>2. CASE \E t \in IdTexts : Sets([form EXCEPT !.id = t])
    BY <1>1, <2>2, FieldSet DEF Sets
  <2>3. CASE \E t \in {"", "c"} : Sets([form EXCEPT !.category = t])
    BY <1>1, <2>3, FieldSet DEF Sets
  <2>4. CASE \E t \in {<<>>, <<"x", "">>} : Sets([form EXCEPT !.tags = t])
    BY <1>1, <2>1, <2>4, FieldSet DEF Sets
  <2> QED
    BY <1>2, <2>2, <2>3, <2>4 DEF EditHead
<1>3. CASE EditTexts
  <2>1. Texts \subseteq AnyText
    BY DEF AnyText
  <2> QED
    BY <1>1, <1>3, <2>1, FieldSet DEF EditTexts, Sets
<1>4. CASE UpdateMessage
  <2>1. PICK i \in DOMAIN form.messages :
          \/ \E r \in {"user", "assistant"} : Sets([form EXCEPT !.messages[i].role = r])
          \/ \E t \in Texts : Sets([form EXCEPT !.messages[i].content = t])
    BY <1>4 DEF UpdateMessage
  <2>2. form.messages[i] \in AnyMessage
    BY <1>1
  <2>3. ASSUME NEW r \in {"user", "assistant"}, Sets([form EXCEPT !.messages[i].role = r])
        PROVE  form' \in Forms
    <3> DEFINE list == [form.messages EXCEPT ![i] = [@ EXCEPT !.role = r]]
    <3>1. [form.messages[i] EXCEPT !.role = r] \in AnyMessage
      BY <2>2 DEF AnyMessage
    <3>2. list \in Seq(AnyMessage)
      BY <1>1, <3>1
    <3>3. form' = [form EXCEPT !.messages = list]
      BY <2>3 DEF Sets
    <3> QED
      BY <1>1, <3>2, <3>3, FieldSet
  <2>4. ASSUME NEW t \in Texts, Sets([form EXCEPT !.messages[i].content = t])
        PROVE  form' \in Forms
    <3> DEFINE list == [form.messages EXCEPT ![i] = [@ EXCEPT !.content = t]]
    <3>1. [form.messages[i] EXCEPT !.content = t] \in AnyMessage
      BY <2>2 DEF AnyMessage, AnyText
    <3>2. list \in Seq(AnyMessage)
      BY <1>1, <3>1
    <3>3. form' = [form EXCEPT !.messages = list]
      BY <2>4 DEF Sets
    <3> QED
      BY <1>1, <3>2, <3>3, FieldSet
  <2> QED
    BY <2>1, <2>3, <2>4
<1>5. CASE AddMessage
  <2>1. [role |-> "user", content |-> ""] \in AnyMessage
    BY DEF AnyMessage, AnyText
  <2>2. \A m \in AnyMessage : Append(form.messages, m) \in Seq(AnyMessage)
    BY <1>1
  <2> QED
    BY <1>1, <1>5, <2>1, <2>2, FieldSet DEF AddMessage, Sets
<1>6. CASE RemoveMessage
  <2>1. \A i \in DOMAIN form.messages : RemoveAt(form.messages, i) \in Seq(AnyMessage)
    BY <1>1, RemoveAtType
  <2> QED
    BY <1>1, <1>6, <2>1, FieldSet DEF RemoveMessage, Sets
<1>7. CASE UpdateAssertion
  <2>1. PICK i \in DOMAIN form.assertions :
          \/ \E type \in AssertionTypes : Sets([form EXCEPT !.assertions[i].type = type])
          \/ \E t \in Texts : Sets([form EXCEPT !.assertions[i].argument = t])
    BY <1>7 DEF UpdateAssertion
  <2>2. form.assertions[i] \in AnyAssertion
    BY <1>1
  <2>3. ASSUME NEW type \in AssertionTypes, Sets([form EXCEPT !.assertions[i].type = type])
        PROVE  form' \in Forms
    <3> DEFINE list == [form.assertions EXCEPT ![i] = [@ EXCEPT !.type = type]]
    <3>1. [form.assertions[i] EXCEPT !.type = type] \in AnyAssertion
      BY <2>2 DEF AnyAssertion
    <3>2. list \in Seq(AnyAssertion)
      BY <1>1, <3>1
    <3>3. form' = [form EXCEPT !.assertions = list]
      BY <2>3 DEF Sets
    <3> QED
      BY <1>1, <3>2, <3>3, FieldSet
  <2>4. ASSUME NEW t \in Texts, Sets([form EXCEPT !.assertions[i].argument = t])
        PROVE  form' \in Forms
    <3> DEFINE list == [form.assertions EXCEPT ![i] = [@ EXCEPT !.argument = t]]
    <3>1. [form.assertions[i] EXCEPT !.argument = t] \in AnyAssertion
      BY <2>2 DEF AnyAssertion, AnyText
    <3>2. list \in Seq(AnyAssertion)
      BY <1>1, <3>1
    <3>3. form' = [form EXCEPT !.assertions = list]
      BY <2>4 DEF Sets
    <3> QED
      BY <1>1, <3>2, <3>3, FieldSet
  <2> QED
    BY <2>1, <2>3, <2>4
<1>8. CASE AddAssertion
  <2>1. [type |-> "schema_valid", argument |-> ""] \in AnyAssertion
    BY DEF AnyAssertion, AnyText, AssertionTypes
  <2>2. \A a \in AnyAssertion : Append(form.assertions, a) \in Seq(AnyAssertion)
    BY <1>1
  <2> QED
    BY <1>1, <1>8, <2>1, <2>2, FieldSet DEF AddAssertion, Sets
<1>9. CASE RemoveAssertion
  <2>1. \A i \in DOMAIN form.assertions : RemoveAt(form.assertions, i) \in Seq(AnyAssertion)
    BY <1>1, RemoveAtType
  <2> QED
    BY <1>1, <1>9, <2>1, FieldSet DEF RemoveAssertion, Sets
<1>10. ASSUME NEW name \in ToolNames, ToggleTool(name)
       PROVE  form' \in Forms
  <2> DEFINE tools == form.expectedTools
             others == {i \in DOMAIN tools : tools[i] # name}
  <2>1. Kept(tools, others) \in Seq(ToolNames)
    <3>1. others \in SUBSET DOMAIN tools
      OBVIOUS
    <3> HIDE DEF others
    <3> QED
      BY <1>1, <3>1, KeptIs
  <2>2. Append(tools, name) \in Seq(ToolNames)
    BY <1>1
  <2>3. form' = [form EXCEPT !.expectedTools =
                   IF Checked(name) THEN Kept(tools, others) ELSE Append(tools, name)]
    BY <1>10 DEF ToggleTool, Sets
  <2> HIDE DEF tools, others
  <2> QED
    BY <1>1, <2>1, <2>2, <2>3, FieldSet
<1>11. CASE SaveForm
  <2>1. form' = CaseToForm(FormToCase(form))
    BY <1>11 DEF SaveForm, Sets
  <2> QED
    BY <1>1, <2>1, ReopenedIs
<1> QED
  BY <1>2, <1>3, <1>4, <1>5, <1>6, <1>7, <1>8, <1>9, <1>10, <1>11 DEF FormNext

\* The fields of the form hold texts, messages and assertions, whatever is typed, added and
\* removed, and however often the form is saved and opened again.
THEOREM FormEditorTypeCorrect == FormSpec => []FormTypeOK
<1>1. FormInit => FormTypeOK
  <2> DEFINE A1 == IdTexts \cup {""}
             A2 == {"", "c"}
             A3 == Seq({"x", ""})
             A4 == Seq(AnyMessage)
             A7 == SchemaTexts \cup {""}
             A8 == Seq(ToolNames)
             A9 == Seq(AnyAssertion)
             first == <<[role |-> "user", content |-> ""]>>
             none == <<>>
  <2>1. EmptyForm("c") =
          [id |-> "", category |-> "c", tags |-> none, messages |-> first,
           systemPrompt |-> "", judgeCriteria |-> "", outputSchema |-> "",
           expectedTools |-> none, assertions |-> none]
    BY DEF EmptyForm
  <2>2. first \in A4
    <3>1. [role |-> "user", content |-> ""] \in AnyMessage
      BY DEF AnyMessage, AnyText
    <3>2. \A m \in AnyMessage : <<m>> \in Seq(AnyMessage)
      OBVIOUS
    <3> QED
      BY <3>1, <3>2
  <2>3. /\ "" \in A1 /\ "c" \in A2 /\ none \in A3 /\ "" \in AnyText /\ "" \in A7
        /\ none \in A8 /\ none \in A9
    BY DEF AnyText
  <2>4. Forms = [id : A1, category : A2, tags : A3, messages : A4, systemPrompt : AnyText,
                 judgeCriteria : AnyText, outputSchema : A7, expectedTools : A8, assertions : A9]
    BY DEF Forms, AnyMessage, AnyAssertion, AnyText
  <2> HIDE DEF A1, A2, A3, A4, A7, A8, A9, first, none
  <2>5. [id |-> "", category |-> "c", tags |-> none, messages |-> first, systemPrompt |-> "",
         judgeCriteria |-> "", outputSchema |-> "", expectedTools |-> none, assertions |-> none]
           \in Forms
    BY <2>2, <2>3, <2>4
  <2> QED
    BY <2>1, <2>5 DEF FormInit, FormTypeOK
<1>2. FormTypeOK /\ [FormNext]_form => FormTypeOK'
  BY FormStep DEF FormTypeOK
<1> QED
  BY <1>1, <1>2, PTL DEF FormSpec

\* A case that is saved can be run; opened again and saved untouched it is the same case; and
\* the list finds it and has a preview for its row.
THEOREM SavedFormsSurviveReopening == FormSpec => []SavedCasesSurviveReopening
<1>1. ASSUME FormTypeOK, FormErrors(form) = {}
      PROVE  LET c == FormToCase(form)
             IN /\ c.id \notin BadIds /\ c.category # ""
                /\ FormErrors(CaseToForm(c)) = {} /\ FormToCase(CaseToForm(c)) = c
                /\ Trim(FirstUserMessage(c)) # "" /\ MatchesSearch(c, c.id)
                /\ \A i \in DOMAIN c.assertions :
                     LET a == c.assertions[i]
                         used == {v \in {a.value, a.pattern, a.name} : v # NoValue}
                     IN IF NeedsArgument(a.type) THEN \E v \in used : v # "" ELSE used = {}
                /\ ("checks" \in CaseBadges(c)) <=> form.assertions # <<>>
  <2> DEFINE c == FormToCase(form)
             g == CaseToForm(c)
             saved == [i \in DOMAIN form.assertions |-> SavedAssertion(form.assertions[i])]
  <2>1. /\ c.id = Trim(form.id) /\ c.category = Trim(form.category) /\ c.tags = Filled(form.tags)
        /\ c.messages = SavedMessages(form) /\ c.assertions = saved
    BY DEF FormToCase
  <2>2. g = Reopened(form) /\ g \in Forms /\ form \in Forms
    BY <1>1, ReopenedIs DEF FormTypeOK
  <2>3. /\ Trim(form.id) \notin BadIds /\ Trim(form.category) # ""
        /\ SavedMessages(form) # <<>> /\ form.outputSchema \notin {"array", "garbage"}
        /\ \A i \in DOMAIN form.assertions : NeedsArgument(form.assertions[i].type)
                                             => Trim(form.assertions[i].argument) # ""
    <3> DEFINE lacks(i) == /\ NeedsArgument(form.assertions[i].type)
                           /\ Trim(form.assertions[i].argument) = ""
    <3>1. \A e \in {"id", "category", "messages", "schema"} :
            ~CASE e = "id"       -> Trim(form.id) \in BadIds
               [] e = "category" -> Trim(form.category) = ""
               [] e = "messages" -> SavedMessages(form) = <<>>
               [] e = "schema"   -> form.outputSchema \in {"array", "garbage"}
      BY <1>1 DEF FormErrors
    <3>2. \A i \in DOMAIN form.assertions : ~lacks(i)
      BY <1>1 DEF FormErrors
    <3> QED
      BY <3>1, <3>2
  <2>4. c.id \notin BadIds /\ c.category # ""
    BY <2>1, <2>3
  <2> HIDE DEF c, g
  <2>5. SavedMessages(g) = SavedMessages(form) /\ Filled(g.tags) = Filled(form.tags)
    <3>1. /\ form.messages \in Seq(AnyMessage) /\ g.messages = SavedMessages(form)
          /\ form.tags \in Seq({"x", ""}) /\ g.tags = Filled(form.tags)
      BY <2>2, FormFields DEF Reopened
    <3> QED
      BY <3>1, SavedMessagesTwice, FilledAre
  <2>6. /\ g.id = Trim(form.id) /\ g.category = Trim(form.category)
        /\ g.outputSchema = Trim(form.outputSchema) /\ g.expectedTools = form.expectedTools
        /\ g.systemPrompt = Trim(form.systemPrompt) /\ g.judgeCriteria = Trim(form.judgeCriteria)
        /\ DOMAIN g.assertions = DOMAIN form.assertions
        /\ \A i \in DOMAIN form.assertions :
             g.assertions[i] = ReopenedAssertion(form.assertions[i])
    BY <2>2 DEF Reopened
  <2>7. \A i \in DOMAIN form.assertions : form.assertions[i] \in AnyAssertion
    <3>1. form.assertions \in Seq(AnyAssertion)
      BY <2>2, FormFields
    <3> QED
      BY <3>1
  <2>8. FormErrors(g) = {}
    <3>1. Trim(g.id) \notin BadIds /\ Trim(g.category) # ""
      BY <2>3, <2>6 DEF Trim, Blank, BadIds
    <3>2. SavedMessages(g) # <<>>
      BY <2>3, <2>5
    <3>3. g.outputSchema \notin {"array", "garbage"}
      BY <2>3, <2>6 DEF Trim
    <3>4. ASSUME NEW i \in DOMAIN g.assertions
          PROVE  ~(NeedsArgument(g.assertions[i].type) /\ Trim(g.assertions[i].argument) = "")
      <4> DEFINE a == form.assertions[i]
      <4>1. g.assertions[i] = ReopenedAssertion(a) /\ i \in DOMAIN form.assertions
        BY <2>6
      <4>2. /\ a \in AnyAssertion
            /\ NeedsArgument(a.type) => Trim(a.argument) # ""
        BY <2>3, <2>7, <4>1
      <4>3. ReopenedAssertion(a).type = a.type
            /\ (NeedsArgument(a.type) => ReopenedAssertion(a).argument = Trim(a.argument))
        BY DEF ReopenedAssertion, NeedsArgument
      <4>4. Trim(Trim(a.argument)) = Trim(a.argument)
        BY <4>2, TextsAre DEF AnyAssertion
      <4> HIDE DEF a
      <4> QED
        BY <4>1, <4>2, <4>3, <4>4 DEF NeedsArgument
    <3> QED
      BY <3>1, <3>2, <3>3, <3>4 DEF FormErrors
  <2>9. FormToCase(g) = c
    <3> DEFINE orNull(text) == IF Trim(text) = "" THEN NoValue ELSE Trim(text)
               again == [i \in DOMAIN g.assertions |-> SavedAssertion(g.assertions[i])]
    <3>1. again = saved
      <4>1. \A i \in DOMAIN form.assertions :
              SavedAssertion(g.assertions[i]) = SavedAssertion(form.assertions[i])
        BY <2>6, <2>7, ReopenedAssertionIs
      <4> QED
        BY <2>6, <4>1
    <3>2. \A text : Trim(Trim(text)) = Trim(text)
      BY DEF Trim, Blank
    <3>3. /\ orNull(g.systemPrompt) = orNull(form.systemPrompt)
          /\ orNull(g.judgeCriteria) = orNull(form.judgeCriteria)
          /\ orNull(g.outputSchema) = orNull(form.outputSchema)
          /\ Trim(g.id) = Trim(form.id) /\ Trim(g.category) = Trim(form.category)
      BY <2>6, <3>2
    <3>4. \A f : FormToCase(f) =
            [id |-> Trim(f.id), category |-> Trim(f.category), tags |-> Filled(f.tags),
             messages |-> SavedMessages(f), system_prompt |-> orNull(f.systemPrompt),
             judge |-> orNull(f.judgeCriteria), output_schema |-> orNull(f.outputSchema),
             expected_tools |-> f.expectedTools,
             assertions |-> [i \in DOMAIN f.assertions |-> SavedAssertion(f.assertions[i])]]
      BY DEF FormToCase
    <3>5. FormToCase(g) =
            [id |-> Trim(g.id), category |-> Trim(g.category), tags |-> Filled(g.tags),
             messages |-> SavedMessages(g), system_prompt |-> orNull(g.systemPrompt),
             judge |-> orNull(g.judgeCriteria), output_schema |-> orNull(g.outputSchema),
             expected_tools |-> g.expectedTools, assertions |-> again]
      BY <3>4
    <3>6. c =
            [id |-> Trim(form.id), category |-> Trim(form.category), tags |-> Filled(form.tags),
             messages |-> SavedMessages(form), system_prompt |-> orNull(form.systemPrompt),
             judge |-> orNull(form.judgeCriteria), output_schema |-> orNull(form.outputSchema),
             expected_tools |-> form.expectedTools, assertions |-> saved]
      BY <3>4 DEF c
    <3> HIDE DEF orNull, again, saved
    <3> QED
      BY <2>5, <2>6, <3>1, <3>3, <3>5, <3>6
  <2>10. Trim(FirstUserMessage(c)) # ""
    <3> DEFINE list == SavedMessages(form)
               said == {i \in DOMAIN list : list[i].role = "user"}
               first == IF said = {} THEN 1 ELSE CHOOSE i \in said : \A j \in said : i <= j
    <3>1. /\ list \in Seq(AnyMessage) /\ list # <<>>
          /\ \A k \in DOMAIN list : Trim(list[k].content) # ""
      BY <2>2, <2>3, FormFields, SavedMessagesAre
    <3>2. FirstUserMessage(c) = list[first].content
      BY <2>1 DEF FirstUserMessage
    <3>3. DOMAIN list = 1..Len(list) /\ Len(list) \in Nat \ {0}
      <4>1. \A other \in Seq(AnyMessage) : /\ DOMAIN other = 1..Len(other) /\ Len(other) \in Nat
                                            /\ other # <<>> => Len(other) # 0
        OBVIOUS
      <4> HIDE DEF list
      <4>2. list \in Seq(AnyMessage) /\ list # <<>>
        BY <3>1
      <4>3. DOMAIN list = 1..Len(list) /\ Len(list) \in Nat
        BY <4>1, <4>2
      <4>4. Len(list) # 0
        BY <4>1, <4>2
      <4> QED
        BY <4>3, <4>4
    <3>4. first \in DOMAIN list
      <4>1. CASE said = {}
        BY <3>3, <4>1
      <4>2. CASE said # {}
        <5>1. said \in SUBSET Nat
          BY <3>3
        <5>2. \E i \in said : \A j \in said : i <= j
          BY <4>2, <5>1, LeastExists
        <5> QED
          BY <4>2, <5>2
      <4> QED
        BY <4>1, <4>2
    <3> HIDE DEF list, first
    <3> QED
      BY <3>1, <3>2, <3>4
  <2>11. MatchesSearch(c, c.id)
    BY DEF MatchesSearch
  <2>12. ASSUME NEW i \in DOMAIN c.assertions
         PROVE  LET a == c.assertions[i]
                    used == {v \in {a.value, a.pattern, a.name} : v # NoValue}
                IN IF NeedsArgument(a.type) THEN \E v \in used : v # "" ELSE used = {}
    <3> DEFINE b == form.assertions[i]
               t == Trim(b.argument)
    <3>1. i \in DOMAIN form.assertions /\ c.assertions[i] = SavedAssertion(b)
      BY <2>1
    <3>2. b \in AnyAssertion /\ (NeedsArgument(b.type) => t # "")
      BY <2>3, <2>7, <3>1
    <3>3. t # NoValue
      BY <3>2, TextsAre DEF AnyAssertion
    <3> HIDE DEF b, t
    <3>4. /\ SavedAssertion(b).type = b.type
          /\ SavedAssertion(b).value = IF b.type = "contains" THEN t ELSE NoValue
          /\ SavedAssertion(b).pattern = IF b.type = "regex" THEN t ELSE NoValue
          /\ SavedAssertion(b).name = IF b.type = "tool_called" THEN t ELSE NoValue
      BY DEF SavedAssertion, t
    <3> QED
      BY <3>1, <3>2, <3>3, <3>4 DEF NeedsArgument
  <2>13. ("checks" \in CaseBadges(c)) <=> form.assertions # <<>>
    <3>1. ("checks" \in CaseBadges(c)) <=> c.assertions # <<>>
      BY DEF CaseBadges
    <3>2. form.assertions \in Seq(AnyAssertion)
      BY <2>2, FormFields
    <3>3. c.assertions \in Seq(UNION {{SavedAssertion(form.assertions[i])} :
                                        i \in DOMAIN form.assertions})
          /\ Len(c.assertions) = Len(form.assertions)
      BY <2>1, <3>2
    <3> QED
      BY <3>1, <3>2, <3>3
  <2> QED
    BY <2>4, <2>8, <2>9, <2>10, <2>11, <2>12, <2>13 DEF c, g
<1>2. FormTypeOK => SavedCasesSurviveReopening
  BY <1>1 DEF SavedCasesSurviveReopening
<1> QED
  BY <1>2, FormEditorTypeCorrect, PTL

\* The least of a set of numbers is one of them, and no other is less.
LEMMA LeastIs ==
  ASSUME NEW S \in SUBSET Nat, S # {}
  PROVE  Min(S) \in S /\ \A y \in S : Min(S) <= y
BY LeastExists DEF Min

-----------------------------------------------------------------------------
(***************************************************************************)
(* The report and its groups.                                              *)
(***************************************************************************)

\* A row of the report.
AnyReportRow == [model : Nat, backend : Nat, category : Nat, cases : Nat \ {0}, passed : Nat,
                 metric : Nat \cup {NoMetric}, latestRun : Nat]

\* A report is sorted by model, backend and category, which no two of its rows share; of the
\* cases a row counts, as many passed at most.
IsReport(rows) ==
  /\ rows \in Seq(AnyReportRow)
  /\ \A i \in DOMAIN rows : rows[i].passed <= rows[i].cases
  /\ \A i, j \in DOMAIN rows : i < j => Before(rows[i], rows[j])

\* The inductive invariant.
MatrixInv == IsReport(reportRows)

\* A report grows by a row behind all others.
LEMMA ReportGrowsKeeps == MatrixInv /\ ReportGrows => MatrixInv'
<1> SUFFICES ASSUME MatrixInv, ReportGrows PROVE MatrixInv'
  OBVIOUS
<1> DEFINE rows == reportRows
<1>1. PICK m \in RatedModels, b \in RatedBackends, c \in RatedCategories,
           n \in Counts, x \in Metrics :
        LET row == [model |-> m, backend |-> b, category |-> c, cases |-> n.cases,
                    passed |-> n.passed, metric |-> x, latestRun |-> n.latestRun]
        IN /\ rows # <<>> => Before(Last(rows), row)
           /\ reportRows' = Append(rows, row)
  BY DEF ReportGrows
<1> DEFINE row == [model |-> m, backend |-> b, category |-> c, cases |-> n.cases,
                   passed |-> n.passed, metric |-> x, latestRun |-> n.latestRun]
           new == Append(rows, row)
<1>2. row \in AnyReportRow /\ row.passed <= row.cases
  <2>1. /\ m \in Nat /\ b \in Nat /\ c \in Nat /\ x \in Nat \cup {NoMetric}
        /\ n.cases \in Nat \ {0} /\ n.passed \in 0 .. n.cases /\ n.latestRun \in Nat
    BY EvalMatrixAssumption
  <2> QED
    BY <2>1 DEF AnyReportRow
<1>3. rows \in Seq(AnyReportRow) /\ Len(rows) \in Nat /\ DOMAIN rows = 1..Len(rows)
      /\ \A i \in DOMAIN rows : rows[i] \in AnyReportRow /\ rows[i].passed <= rows[i].cases
  BY DEF MatrixInv, IsReport
<1>4. (rows # <<>> => Before(Last(rows), row)) /\ reportRows' = new
  BY <1>1
<1> HIDE DEF row
<1>5. /\ new \in Seq(AnyReportRow) /\ Len(new) = Len(rows) + 1 /\ DOMAIN new = 1 .. Len(rows) + 1
      /\ \A i \in DOMAIN rows : new[i] = rows[i]
      /\ new[Len(rows) + 1] = row
  BY <1>2, <1>3
<1> HIDE DEF new
<1>6. ASSUME NEW i \in DOMAIN rows
      PROVE  Before(rows[i], row)
  <2>1. rows # <<>> /\ Last(rows) = rows[Len(rows)] /\ Len(rows) \in DOMAIN rows
    BY <1>3 DEF Last
  <2>2. Before(rows[Len(rows)], row)
    BY <1>4, <2>1
  <2>3. i = Len(rows) \/ Before(rows[i], rows[Len(rows)])
    BY <1>3, <2>1 DEF MatrixInv, IsReport
  <2>4. \A q \in {rows[i], rows[Len(rows)], row} :
          q.model \in Nat /\ q.backend \in Nat /\ q.category \in Nat
    BY <1>2, <1>3, <2>1 DEF AnyReportRow
  <2> QED
    BY <2>2, <2>3, <2>4 DEF Before
<1>7. \A i \in DOMAIN new : new[i].passed <= new[i].cases
  <2>1. \A i \in DOMAIN new : i \in DOMAIN rows \/ i = Len(rows) + 1
    BY <1>3, <1>5
  <2> QED
    BY <1>2, <1>3, <1>5, <2>1
<1>8. ASSUME NEW i \in DOMAIN new, NEW j \in DOMAIN new, i < j
      PROVE  Before(new[i], new[j])
  <2>1. i \in DOMAIN rows /\ (j \in DOMAIN rows \/ j = Len(rows) + 1)
    BY <1>3, <1>5, <1>8
  <2>2. CASE j \in DOMAIN rows
    BY <1>5, <1>8, <2>1, <2>2 DEF MatrixInv, IsReport
  <2>3. CASE j = Len(rows) + 1
    BY <1>5, <1>6, <2>1, <2>3
  <2> QED
    BY <2>1, <2>2, <2>3
<1>9. IsReport(new)
  BY <1>5, <1>7, <1>8 DEF IsReport
<1> QED
  BY <1>4, <1>9 DEF MatrixInv

\* Whatever the evaluation answers, it is such a report.
THEOREM ReportIsSorted == MatrixSpec => []MatrixInv
<1>1. MatrixInit => MatrixInv
  BY DEF MatrixInit, MatrixInv, IsReport
<1>2. MatrixInv /\ [MatrixNext]_reportRows => MatrixInv'
  BY ReportGrowsKeeps DEF MatrixNext, MatrixInv
<1> QED
  BY <1>1, <1>2, PTL DEF MatrixSpec

\* The fields of the rows.
LEMMA ReportFields ==
  ASSUME NEW rows, IsReport(rows)
  PROVE  /\ rows \in Seq(AnyReportRow) /\ Len(rows) \in Nat /\ DOMAIN rows = 1..Len(rows)
         /\ \A i \in DOMAIN rows :
              /\ rows[i].model \in Nat /\ rows[i].backend \in Nat /\ rows[i].category \in Nat
              /\ rows[i].cases \in Nat \ {0} /\ rows[i].passed \in Nat
              /\ rows[i].passed <= rows[i].cases /\ rows[i].latestRun \in Nat
              /\ rows[i].metric \in Nat \cup {NoMetric}
         /\ \A i, j \in DOMAIN rows :
              rows[i].model = rows[j].model /\ rows[i].backend = rows[j].backend
                /\ rows[i].category = rows[j].category => i = j
<1>1. rows \in Seq(AnyReportRow) /\ Len(rows) \in Nat /\ DOMAIN rows = 1..Len(rows)
      /\ \A i \in DOMAIN rows : rows[i] \in AnyReportRow /\ rows[i].passed <= rows[i].cases
  BY DEF IsReport
<1>2. ASSUME NEW i \in DOMAIN rows
      PROVE  /\ rows[i].model \in Nat /\ rows[i].backend \in Nat /\ rows[i].category \in Nat
             /\ rows[i].cases \in Nat \ {0} /\ rows[i].passed \in Nat
             /\ rows[i].passed <= rows[i].cases /\ rows[i].latestRun \in Nat
             /\ rows[i].metric \in Nat \cup {NoMetric}
  BY <1>1 DEF AnyReportRow
<1>3. ASSUME NEW i \in DOMAIN rows, NEW j \in DOMAIN rows,
             rows[i].model = rows[j].model, rows[i].backend = rows[j].backend,
             rows[i].category = rows[j].category
      PROVE  i = j
  <2>1. i < j \/ j < i \/ i = j
    BY <1>1
  <2>2. (i < j => Before(rows[i], rows[j])) /\ (j < i => Before(rows[j], rows[i]))
    BY DEF IsReport
  <2>3. ~Before(rows[i], rows[j]) /\ ~Before(rows[j], rows[i])
    BY <1>2, <1>3 DEF Before
  <2> QED
    BY <2>1, <2>2, <2>3
<1> QED
  BY <1>1, <1>2, <1>3

\* The numbers in the columns of a report.
LEMMA ColumnsAre ==
  ASSUME NEW rows, IsReport(rows)
  PROVE  /\ Column(rows, "cases") \in Seq(Int) /\ Column(rows, "passed") \in Seq(Int)
         /\ Len(Column(rows, "cases")) = Len(rows) /\ Len(Column(rows, "passed")) = Len(rows)
         /\ \A i \in DOMAIN rows : /\ Column(rows, "cases")[i] = rows[i].cases
                                   /\ Column(rows, "passed")[i] = rows[i].passed
                                   /\ Column(rows, "category")[i] = rows[i].category
         /\ Range(Column(rows, "category")) = {rows[i].category : i \in DOMAIN rows}
<1>1. /\ Len(rows) \in Nat /\ DOMAIN rows = 1..Len(rows)
      /\ \A i \in DOMAIN rows : rows[i].cases \in Int /\ rows[i].passed \in Int
  BY ReportFields
<1>2. /\ Column(rows, "cases") = [i \in 1..Len(rows) |-> rows[i].cases]
      /\ Column(rows, "passed") = [i \in 1..Len(rows) |-> rows[i].passed]
      /\ Column(rows, "category") = [i \in 1..Len(rows) |-> rows[i].category]
  BY <1>1 DEF Column
<1>3. Column(rows, "cases") \in Seq(Int) /\ Len(Column(rows, "cases")) = Len(rows)
  BY <1>1, <1>2
<1>4. Column(rows, "passed") \in Seq(Int) /\ Len(Column(rows, "passed")) = Len(rows)
  BY <1>1, <1>2
<1>5. \A i \in DOMAIN rows : /\ Column(rows, "cases")[i] = rows[i].cases
                           /\ Column(rows, "passed")[i] = rows[i].passed
                           /\ Column(rows, "category")[i] = rows[i].category
  BY <1>1, <1>2
<1>6. DOMAIN Column(rows, "category") = DOMAIN rows
  BY <1>1, <1>2
<1>7. Range(Column(rows, "category")) = {rows[i].category : i \in DOMAIN rows}
  BY <1>5, <1>6 DEF Range
<1> QED
  BY <1>3, <1>4, <1>5, <1>7

\* The rows with the model and backend of one of them.
Own(rows, i) ==
  {j \in DOMAIN rows : rows[j].model = rows[i].model /\ rows[j].backend = rows[i].backend}

\* Every row is in one group, with all rows of its model and backend.
LEMMA GroupsAre ==
  ASSUME NEW rows, IsReport(rows)
  PROVE  /\ IsFiniteSet(Groups(rows))
         /\ \A i \in DOMAIN rows : Own(rows, i) \in Groups(rows) /\ i \in Own(rows, i)
         /\ \A g \in Groups(rows) :
              /\ g # {} /\ g \subseteq DOMAIN rows /\ g \in SUBSET Nat
              /\ \A i \in g : g = Own(rows, i)
              /\ Min(g) \in g
         /\ \A g, h \in Groups(rows) : g \cap h # {} => g = h
<1> DEFINE own == [i \in DOMAIN rows |-> Own(rows, i)]
<1>1. Groups(rows) = {Own(rows, i) : i \in DOMAIN rows}
  BY DEF Groups, Own
<1>2. IsFiniteSet(DOMAIN rows) /\ DOMAIN rows \in SUBSET Nat
  <2>1. DOMAIN rows = 1..Len(rows) /\ Len(rows) \in Nat
    BY ReportFields
  <2> QED
    BY <2>1, FS_Interval
<1>3. IsFiniteSet(Groups(rows))
  <2>1. own \in Surjection(DOMAIN rows, Groups(rows))
    BY <1>1 DEF Surjection
  <2> QED
    BY <1>2, <2>1, FS_Surjection
<1>4. \A i \in DOMAIN rows : Own(rows, i) \in Groups(rows) /\ i \in Own(rows, i)
  BY <1>1 DEF Own
<1>5. \A g \in Groups(rows) : /\ g # {} /\ g \subseteq DOMAIN rows
                              /\ \A i \in g : g = Own(rows, i)
  BY <1>1 DEF Own
<1>6. \A g \in Groups(rows) : g \in SUBSET Nat /\ Min(g) \in g
  BY <1>2, <1>5, LeastIs
<1>7. \A g, h \in Groups(rows) : g \cap h # {} => g = h
  BY <1>5
<1> QED
  BY <1>3, <1>4, <1>5, <1>6, <1>7

-----------------------------------------------------------------------------
(***************************************************************************)
(* The matrix: percentages, shares, means and sums of parts.               *)
(***************************************************************************)

\* The largest of the numbers a column has at some positions.
LEMMA LargestIsOne ==
  ASSUME NEW seq \in Seq(Int), \A i \in 1..Len(seq) : seq[i] >= 0,
         NEW S \in SUBSET (1..Len(seq)), S # {}
  PROVE  \E i \in S : \A j \in S : seq[j] <= seq[i]
<1> DEFINE bounds == {t \in Nat : \A j \in S : seq[j] <= t}
<1>1. \A j \in S : seq[j] \in Nat /\ seq[j] <= Total(seq, S)
  BY TotalIsPositive
<1>2. Total(seq, S) \in bounds
  BY <1>1, TotalIsPositive, TotalIsNumber
<1>3. PICK t \in bounds : \A u \in bounds : t <= u
  BY <1>2, LeastExists
<1>4. t \in Nat /\ \A j \in S : seq[j] <= t
  OBVIOUS
<1>5. ASSUME \A j \in S : seq[j] # t
      PROVE  FALSE
  <2>1. PICK j \in S : TRUE
    OBVIOUS
  <2>2. t - 1 \in Nat
    BY <1>1, <1>4, <1>5, <2>1
  <2>3. t - 1 \in bounds
    BY <1>1, <1>4, <1>5, <2>2
  <2> HIDE DEF bounds
  <2> QED
    BY <1>3, <1>4, <2>3
<1>6. PICK i \in S : seq[i] = t
  BY <1>5
<1> QED
  BY <1>4, <1>6

\* The largest number of a field.
LEMMA LargestField ==
  ASSUME NEW T \in SUBSET Nat, NEW x \in T, \A y \in T : y <= x
  PROVE  Max(T) = x
<1>1. Max(T) \in T /\ \A y \in T : Max(T) >= y
  BY DEF Max
<1>2. Max(T) <= x /\ Max(T) >= x /\ Max(T) \in Nat /\ x \in Nat
  BY <1>1
<1> QED
  BY <1>2

\* Rounded percentages: of a part, at most 100; and the two ways to bound one.
LEMMA PctIs ==
  ASSUME NEW p \in Nat, NEW n \in Nat \ {0}
  PROVE  /\ Pct(p, n) \in Nat
         /\ p <= n => Pct(p, n) <= 100
         /\ 2 * n * Pct(p, n) <= 200 * p + n
         /\ 200 * p + n < 2 * n * (Pct(p, n) + 1)
         /\ \A k \in Nat : 2 * n * k <= 200 * p + n => k <= Pct(p, n)
         /\ \A k \in Nat : 200 * p + n < 2 * n * (k + 1) => Pct(p, n) <= k
<1> DEFINE a == 200 * p + n
           b == 2 * n
           q == Pct(p, n)
<1>1. a \in Nat /\ b \in Nat \ {0} /\ q = a \div b
  BY DEF Pct
<1>2. \A x \in Nat, y \in Nat \ {0} : /\ x \div y \in Nat
                                      /\ y * (x \div y) <= x /\ x < y * (x \div y + 1)
  OBVIOUS
<1>3. q \in Nat /\ b * q <= a /\ a < b * (q + 1)
  BY <1>1, <1>2
<1>4. \A x, y, z \in Nat : y <= z => x * y <= x * z
  OBVIOUS
<1>5. ASSUME NEW k \in Nat, b * k <= a
      PROVE  k <= q
  <2> HIDE DEF a, b, q
  <2>1. CASE q + 1 <= k
    <3>1. q + 1 \in Nat /\ b * (q + 1) \in Int /\ b * k \in Int
      BY <1>1, <1>3
    <3>2. b * (q + 1) <= b * k
      BY <1>1, <1>4, <2>1, <3>1
    <3> QED
      BY <1>1, <1>3, <1>5, <3>1, <3>2
  <2> QED
    BY <1>3, <2>1
<1>6. ASSUME NEW k \in Nat, a < b * (k + 1)
      PROVE  q <= k
  <2> HIDE DEF a, b, q
  <2>1. CASE k + 1 <= q
    <3>1. k + 1 \in Nat /\ b * (k + 1) \in Int /\ b * q \in Int
      BY <1>1, <1>3
    <3>2. b * (k + 1) <= b * q
      BY <1>1, <1>3, <1>4, <2>1, <3>1
    <3> QED
      BY <1>1, <1>3, <1>6, <3>1, <3>2
  <2> QED
    BY <1>3, <2>1
<1>7. ASSUME p <= n
      PROVE  q <= 100
  <2>1. a < b * (100 + 1)
    BY <1>7
  <2> HIDE DEF a, b, q
  <2> QED
    BY <1>6, <2>1
<1> QED
  BY <1>3, <1>5, <1>6, <1>7

\* Two ways to write a product.
LEMMA Shares ==
  \A k, n \in Nat : /\ (1 - 2 * k) * n = n - 2 * n * k
                    /\ (2 * (k + 1) - 1) * n = 2 * n * (k + 1) - n
OBVIOUS

\* Products of greater numbers are greater.
LEMMA Monotone == \A n, y, z \in Nat : y <= z => 2 * n * y <= 2 * n * z
<1>1. \A x, y, z \in Nat : y <= z => x * y <= x * z
  OBVIOUS
<1> QED
  BY <1>1

\* The share of several rows that passed, rounded, is not less than that of each of them, and
\* not more.
LEMMA SharesBound ==
  ASSUME NEW rows, IsReport(rows), NEW S \in SUBSET DOMAIN rows, S # {}
  PROVE  LET passed == Total(Column(rows, "passed"), S)
             cases  == Total(Column(rows, "cases"), S)
             pct(i) == Pct(rows[i].passed, rows[i].cases)
         IN /\ passed \in Nat /\ cases \in Nat \ {0} /\ Pct(passed, cases) \in Nat
            /\ \E i \in S : pct(i) <= Pct(passed, cases)
            /\ \E i \in S : Pct(passed, cases) <= pct(i)
<1> DEFINE np == Column(rows, "passed")
           nc == Column(rows, "cases")
           passed == Total(np, S)
           cases  == Total(nc, S)
           pct(i) == Pct(rows[i].passed, rows[i].cases)
           D == 1..Len(rows)
<1>1. /\ np \in Seq(Int) /\ nc \in Seq(Int) /\ Len(np) = Len(rows) /\ Len(nc) = Len(rows)
      /\ \A i \in D : np[i] = rows[i].passed /\ nc[i] = rows[i].cases
      /\ DOMAIN rows = D /\ Len(rows) \in Nat
  BY ColumnsAre, ReportFields
<1>2. \A i \in D : /\ np[i] \in Nat /\ nc[i] \in Nat \ {0} /\ pct(i) = Pct(np[i], nc[i])
  BY <1>1, ReportFields
<1>3. S \in SUBSET D
  BY <1>1
<1> HIDE DEF np, nc, D, pct
<1>4. passed \in Nat /\ cases \in Nat \ {0}
  <2>1. passed \in Int /\ cases \in Int
    BY <1>1, TotalIsNumber
  <2>2. \A i \in D : np[i] >= 0 /\ nc[i] >= 0
    BY <1>2
  <2>3. passed >= 0 /\ cases >= 0 /\ \A i \in D : i \in S => nc[i] <= cases
    BY <1>1, <2>2, TotalIsPositive DEF D
  <2>4. PICK i \in S : TRUE
    OBVIOUS
  <2> QED
    BY <1>2, <1>3, <2>1, <2>3, <2>4
<1> HIDE DEF passed, cases
<1>5. \A i \in D : pct(i) \in Nat
  BY <1>2, PctIs
<1>6. ASSUME NEW a \in Int, NEW b \in Int, NEW both \in Seq(Int), Len(both) = Len(rows),
             \A i \in D : both[i] = a * np[i] + b * nc[i]
      PROVE  Total(both, S) = a * passed + b * cases
  BY <1>1, <1>6, TotalIsLinear DEF passed, cases, D
<1>7. \E i \in S : pct(i) <= Pct(passed, cases)
  <2>1. {pct(j) : j \in S} \in SUBSET Nat /\ {pct(j) : j \in S} # {}
    BY <1>3, <1>5
  <2>2. PICK i \in S : \A j \in S : pct(i) <= pct(j)
    <3>1. PICK x \in {pct(j) : j \in S} : \A y \in {pct(j) : j \in S} : x <= y
      BY <2>1, LeastExists
    <3> QED
      BY <3>1
  <2> DEFINE k == pct(i)
             both == [j \in D |-> 200 * np[j] + (1 - 2 * k) * nc[j]]
  <2>3. k \in Nat
    BY <1>3, <1>5
  <2> HIDE DEF k
  <2>4. \A j \in D : both[j] \in Int /\ both[j] = 200 * np[j] + (1 - 2 * k) * nc[j]
    <3>1. ASSUME NEW j \in D
          PROVE  200 * np[j] + (1 - 2 * k) * nc[j] \in Int
      <4>1. np[j] \in Int /\ nc[j] \in Int /\ 1 - 2 * k \in Int
        BY <1>2, <2>3
      <4> QED
        BY <4>1, Products
    <3> QED
      BY <3>1
  <2>5. both \in Seq(Int) /\ Len(both) = Len(rows)
    BY <1>1, <2>4 DEF D
  <2> HIDE DEF both
  <2>6. ASSUME NEW j \in S
        PROVE  both[j] >= 0
    <3>1. j \in D /\ k <= pct(j) /\ pct(j) \in Nat
      BY <1>3, <1>5, <2>2 DEF k
    <3>2. np[j] \in Nat /\ nc[j] \in Nat \ {0} /\ pct(j) = Pct(np[j], nc[j])
      BY <1>2, <3>1
    <3>3. 2 * nc[j] * pct(j) <= 200 * np[j] + nc[j]
      BY <3>2, PctIs
    <3>4. 2 * nc[j] * k <= 2 * nc[j] * pct(j)
      BY <2>3, <3>1, <3>2, Monotone
    <3>5. (1 - 2 * k) * nc[j] = nc[j] - 2 * nc[j] * k
      BY <2>3, <3>2, Shares
    <3>6. 2 * nc[j] * k \in Int /\ 2 * nc[j] * pct(j) \in Int
      BY <2>3, <3>1, <3>2, Products
    <3>7. both[j] = 200 * np[j] + (1 - 2 * k) * nc[j]
      BY <2>4, <3>1
    <3> QED
      BY <3>2, <3>3, <3>4, <3>5, <3>6, <3>7
  <2>7. Total(both, S) >= 0
    BY <2>5, <2>6, TotalIsPositive
  <2>8. Total(both, S) = 200 * passed + (1 - 2 * k) * cases
    <3>1. 1 - 2 * k \in Int
      BY <2>3
    <3> QED
      BY <1>6, <2>4, <2>5, <3>1
  <2>9. (1 - 2 * k) * cases = cases - 2 * cases * k /\ 2 * cases * k \in Int
    BY <1>4, <2>3, Shares, Products
  <2>10. 2 * cases * k <= 200 * passed + cases
    BY <1>4, <2>7, <2>8, <2>9
  <2>11. k <= Pct(passed, cases)
    BY <1>4, <2>3, <2>10, PctIs
  <2> QED
    BY <2>11 DEF k
<1>8. \E i \in S : Pct(passed, cases) <= pct(i)
  <2> DEFINE pcts == [j \in D |-> pct(j)]
  <2>1. pcts \in Seq(Int) /\ Len(pcts) = Len(rows) /\ \A j \in D : pcts[j] = pct(j)
    BY <1>1, <1>5 DEF D
  <2> HIDE DEF pcts
  <2>2. PICK i \in S : \A j \in S : pcts[j] <= pcts[i]
    <3>1. \A j \in 1..Len(pcts) : pcts[j] >= 0
      BY <1>5, <2>1 DEF D
    <3>2. S \in SUBSET (1..Len(pcts))
      BY <1>3, <2>1 DEF D
    <3> QED
      BY <2>1, <3>1, <3>2, LargestIsOne
  <2> DEFINE k == pct(i)
             both == [j \in D |-> (-200) * np[j] + (2 * (k + 1) - 1) * nc[j]]
  <2>3. k \in Nat
    BY <1>3, <1>5
  <2> HIDE DEF k
  <2>4. \A j \in D : both[j] \in Int /\ both[j] = (-200) * np[j] + (2 * (k + 1) - 1) * nc[j]
    <3>1. ASSUME NEW j \in D
          PROVE  (-200) * np[j] + (2 * (k + 1) - 1) * nc[j] \in Int
      <4>1. np[j] \in Int /\ nc[j] \in Int /\ 2 * (k + 1) - 1 \in Int
        BY <1>2, <2>3
      <4> QED
        BY <4>1, Products
    <3> QED
      BY <3>1
  <2>5. both \in Seq(Int) /\ Len(both) = Len(rows)
    <3>1. both = [j \in 1..Len(rows) |-> both[j]] /\ \A j \in 1..Len(rows) : both[j] \in Int
      BY <2>4 DEF D
    <3> HIDE DEF both
    <3>2. Len(rows) \in Nat
      BY <1>1
    <3> QED
      BY <3>1, <3>2
  <2> HIDE DEF both
  <2>6. ASSUME NEW j \in S
        PROVE  both[j] > 0
    <3>1. j \in D /\ pct(j) <= k /\ pct(j) \in Nat
      BY <1>3, <1>5, <2>1, <2>2 DEF k
    <3>2. np[j] \in Nat /\ nc[j] \in Nat \ {0} /\ pct(j) = Pct(np[j], nc[j])
      BY <1>2, <3>1
    <3>3. 200 * np[j] + nc[j] < 2 * nc[j] * (pct(j) + 1)
      BY <3>2, PctIs
    <3>4. 2 * nc[j] * (pct(j) + 1) <= 2 * nc[j] * (k + 1)
      <4>1. pct(j) + 1 \in Nat /\ k + 1 \in Nat /\ pct(j) + 1 <= k + 1
        BY <2>3, <3>1
      <4> QED
        BY <3>2, <4>1, Monotone
    <3>5. (2 * (k + 1) - 1) * nc[j] = 2 * nc[j] * (k + 1) - nc[j]
      BY <2>3, <3>2, Shares
    <3>6. 2 * nc[j] * (k + 1) \in Int /\ 2 * nc[j] * (pct(j) + 1) \in Int
      BY <2>3, <3>1, <3>2, Products
    <3>7. both[j] = (-200) * np[j] + (2 * (k + 1) - 1) * nc[j]
      BY <2>4, <3>1
    <3> QED
      BY <3>2, <3>3, <3>4, <3>5, <3>6, <3>7
  <2>7. Total(both, S) > 0
    <3>1. \A j \in 1..Len(both) : j \in S => both[j] >= 0
      BY <1>3, <2>4, <2>6
    <3>2. i \in 1..Len(both) /\ both[i] > 0 /\ both[i] \in Int
      BY <1>3, <2>4, <2>5, <2>6 DEF D
    <3>3. both[i] <= Total(both, S) /\ Total(both, S) \in Int
      BY <2>5, <3>1, <3>2, TotalIsPositive, TotalIsNumber
    <3> QED
      BY <3>2, <3>3
  <2>8. Total(both, S) = (-200) * passed + (2 * (k + 1) - 1) * cases
    <3>1. 2 * (k + 1) - 1 \in Int /\ -200 \in Int
      BY <2>3
    <3> QED
      BY <1>6, <2>4, <2>5, <3>1
  <2>9. /\ (2 * (k + 1) - 1) * cases = 2 * cases * (k + 1) - cases
        /\ 2 * cases * (k + 1) \in Int
    BY <1>4, <2>3, Shares, Products
  <2>10. 200 * passed + cases < 2 * cases * (k + 1)
    BY <1>4, <2>7, <2>8, <2>9
  <2>11. Pct(passed, cases) <= k
    BY <1>4, <2>3, <2>10, PctIs
  <2> QED
    BY <2>11 DEF k
<1> QED
  BY <1>4, <1>7, <1>8, PctIs DEF np, nc, passed, cases, pct

\* Products of greater numbers, and of negative ones.
LEMMA MonotoneOnce == \A n, y, z \in Nat : y <= z => n * y <= n * z
OBVIOUS

\* A product with a negative number.
LEMMA Negatives ==
  \A x, n \in Nat : (-x) * n = -(n * x) /\ (-x) * n = -(x * n)
OBVIOUS

\* The mean of a metric, weighted by cases, lies between the values it is made of.
LEMMA MeanIs ==
  ASSUME NEW rows, IsReport(rows), NEW S \in SUBSET DOMAIN rows
  PROVE  LET mean  == WeightedMean(rows, S)
             known == {rows[i].metric : i \in S} \ {NoMetric}
         IN /\ known = {} <=> mean.weight = 0
            /\ known # {} => \E low, high \in known : /\ low * mean.weight <= mean.sum
                                                      /\ mean.sum <= high * mean.weight
<1> DEFINE nc == Column(rows, "cases")
           prod == [i \in DOMAIN rows |-> rows[i].metric * rows[i].cases]
           at == {i \in S : rows[i].metric # NoMetric}
           known == {rows[i].metric : i \in S} \ {NoMetric}
           sum == Total(prod, at)
           weight == Total(nc, at)
           D == 1..Len(rows)
<1>1. WeightedMean(rows, S).sum = sum /\ WeightedMean(rows, S).weight = weight
  BY DEF WeightedMean
<1>2. known = {rows[i].metric : i \in at} /\ at \in SUBSET D
  BY ReportFields
<1>3. /\ nc \in Seq(Int) /\ Len(nc) = Len(rows) /\ Len(rows) \in Nat
      /\ \A i \in D : nc[i] \in Nat \ {0}
  BY ColumnsAre, ReportFields
<1>4. /\ prod \in Seq(Int) /\ Len(prod) = Len(rows)
      /\ \A i \in D : prod[i] = rows[i].metric * nc[i]
  <2>1. DOMAIN rows = D
    BY ReportFields
  <2>2. ASSUME NEW i \in D
        PROVE  rows[i].metric * rows[i].cases \in Int
    <3>1. rows[i].metric \in Int /\ rows[i].cases \in Int
      BY <2>1, ReportFields DEF NoMetric
    <3> QED
      BY <3>1, Products
  <2>3. \A i \in D : nc[i] = rows[i].cases
    BY <2>1, ColumnsAre
  <2> QED
    BY <1>3, <2>1, <2>2, <2>3
<1>5. \A i \in at : rows[i].metric \in Nat
  <2>1. \A i \in DOMAIN rows : rows[i].metric \in Nat \cup {NoMetric}
    BY ReportFields
  <2> QED
    BY <2>1
<1> HIDE DEF prod, nc, at
<1>6. sum \in Int /\ weight \in Int
  BY <1>3, <1>4, TotalIsNumber
<1>7. CASE at = {}
  <2>1. weight = 0
    BY <1>3, <1>7, TotalOfNone
  <2> QED
    BY <1>1, <1>2, <1>7, <2>1
<1>8. CASE at # {}
  <2>1. PICK first \in at : TRUE
    BY <1>8
  <2>2. weight > 0
    <3>1. \A i \in 1..Len(nc) : i \in at => nc[i] >= 0
      BY <1>3
    <3>2. first \in 1..Len(nc) /\ nc[first] > 0 /\ nc[first] \in Int
      BY <1>2, <1>3, <2>1
    <3>3. nc[first] <= weight
      BY <1>3, <2>1, <3>1, <3>2, TotalIsPositive
    <3> QED
      BY <1>6, <3>2, <3>3
  <2>3. ASSUME NEW a \in Int, NEW b \in Int,
               \A i \in at : a * prod[i] + b * nc[i] >= 0
        PROVE  a * sum + b * weight >= 0
    <3> DEFINE both == [i \in D |-> a * prod[i] + b * nc[i]]
    <3>1. \A i \in D : both[i] \in Int /\ both[i] = a * prod[i] + b * nc[i]
      <4>1. ASSUME NEW i \in D
            PROVE  a * prod[i] + b * nc[i] \in Int
        <5>1. prod[i] \in Int /\ nc[i] \in Int
          BY <1>3, <1>4
        <5> QED
          BY <5>1, Products
      <4> QED
        BY <4>1
    <3>2. both = [i \in 1..Len(rows) |-> both[i]]
      OBVIOUS
    <3> HIDE DEF both
    <3>3. both \in Seq(Int) /\ Len(both) = Len(rows)
      BY <1>3, <3>1, <3>2
    <3>4. Total(both, at) = a * sum + b * weight
      <4>1. \A i \in 1..Len(prod) : i \in at => both[i] = a * prod[i] + b * nc[i]
        BY <1>4, <3>1
      <4>2. Len(nc) = Len(prod) /\ Len(both) = Len(prod)
        BY <1>3, <1>4, <3>3
      <4> QED
        BY <1>3, <1>4, <3>3, <4>1, <4>2, TotalIsLinear
    <3>5. \A i \in 1..Len(both) : i \in at => both[i] >= 0
      BY <2>3, <3>1, <3>3
    <3> HIDE DEF sum, weight
    <3> QED
      BY <3>3, <3>4, <3>5, TotalIsPositive
  <2>4. PICK low \in known : low * weight <= sum
    <3>1. {rows[i].metric : i \in at} \in SUBSET Nat /\ {rows[i].metric : i \in at} # {}
      BY <1>5, <1>8
    <3>2. PICK low \in {rows[i].metric : i \in at} : \A y \in {rows[i].metric : i \in at} : low <= y
      BY <3>1, LeastExists
    <3>3. low \in Nat /\ \A i \in at : low <= rows[i].metric
      BY <3>1, <3>2
    <3>4. ASSUME NEW i \in at
          PROVE  1 * prod[i] + (-low) * nc[i] >= 0
      <4>1. /\ i \in D /\ prod[i] = rows[i].metric * nc[i] /\ nc[i] \in Nat
            /\ rows[i].metric \in Nat /\ low <= rows[i].metric
        BY <1>2, <1>3, <1>4, <1>5, <3>3
      <4>2. nc[i] * low <= nc[i] * rows[i].metric
        BY <3>3, <4>1, MonotoneOnce
      <4>3. /\ (-low) * nc[i] = -(nc[i] * low) /\ nc[i] * rows[i].metric = rows[i].metric * nc[i]
            /\ nc[i] * low \in Int /\ nc[i] * rows[i].metric \in Int
        BY <3>3, <4>1, Products, Negatives
      <4> QED
        BY <4>1, <4>2, <4>3
    <3>5. 1 * sum + (-low) * weight >= 0
      <4>1. 1 \in Int /\ -low \in Int
        BY <3>3
      <4> HIDE DEF sum, weight
      <4> QED
        BY <2>3, <3>4, <4>1
    <3>6. (-low) * weight = -(low * weight) /\ low * weight \in Int
      <4> HIDE DEF sum, weight
      <4> QED
        BY <1>6, <2>2, <3>3, Negatives, Products
    <3> HIDE DEF sum, weight
    <3>7. low * weight <= sum
      BY <1>6, <3>5, <3>6
    <3> QED
      BY <1>2, <3>2, <3>7
  <2>5. PICK high \in known : sum <= high * weight
    <3> DEFINE values == [i \in D |-> IF i \in at THEN rows[i].metric ELSE 0]
    <3>1. \A i \in D : values[i] \in Nat /\ (i \in at => values[i] = rows[i].metric)
      BY <1>5
    <3>2. values = [i \in 1..Len(rows) |-> values[i]]
      OBVIOUS
    <3> HIDE DEF values
    <3>3. values \in Seq(Int) /\ Len(values) = Len(rows)
      BY <1>3, <3>1, <3>2
    <3>4. PICK h \in at : \A j \in at : values[j] <= values[h]
      <4>1. \A i \in 1..Len(values) : values[i] >= 0
        BY <3>1, <3>3
      <4>2. at \in SUBSET (1..Len(values))
        BY <1>2, <3>3
      <4> QED
        BY <1>8, <3>3, <4>1, <4>2, LargestIsOne
    <3> DEFINE high == rows[h].metric
    <3>5. high \in Nat /\ high \in known /\ \A i \in at : rows[i].metric <= high
      BY <1>2, <1>5, <3>1, <3>4
    <3> HIDE DEF high, known
    <3>6. ASSUME NEW i \in at
          PROVE  (-1) * prod[i] + high * nc[i] >= 0
      <4>1. /\ i \in D /\ prod[i] = rows[i].metric * nc[i] /\ nc[i] \in Nat
            /\ rows[i].metric \in Nat /\ rows[i].metric <= high
        BY <1>2, <1>3, <1>4, <1>5, <3>5
      <4>2. nc[i] * rows[i].metric <= nc[i] * high
        BY <3>5, <4>1, MonotoneOnce
      <4>3. /\ nc[i] * high = high * nc[i] /\ nc[i] * rows[i].metric = rows[i].metric * nc[i]
            /\ nc[i] * high \in Int /\ nc[i] * rows[i].metric \in Int
        BY <3>5, <4>1, Products
      <4> QED
        BY <4>1, <4>2, <4>3
    <3>7. (-1) * sum + high * weight >= 0
      <4>1. -1 \in Int /\ high \in Int
        BY <3>5
      <4> HIDE DEF sum, weight
      <4> QED
        BY <2>3, <3>6, <4>1
    <3>8. high * weight \in Int
      <4> HIDE DEF sum, weight
      <4> QED
        BY <1>6, <3>5, Products
    <3> HIDE DEF sum, weight
    <3>9. sum <= high * weight
      BY <1>6, <3>7, <3>8
    <3> QED
      BY <3>5, <3>9
  <2>6. known # {}
    BY <2>4
  <2> QED
    BY <1>1, <1>6, <2>2, <2>4, <2>5, <2>6
<1> QED
  BY <1>7, <1>8

\* A whole, the n parts it has without a common position, and the totals of these.
AreParts(f, parts, n, whole, totals) ==
  /\ n \in Nat /\ DOMAIN parts = 1..n
  /\ \A k, l \in 1..n : parts[k] \cap parts[l] # {} => k = l
  /\ \A k \in 1..n : parts[k] \subseteq whole
  /\ \A i \in whole : \E k \in 1..n : i \in parts[k]
  /\ totals \in Seq(Int) /\ Len(totals) = n
  /\ \A k \in 1..n : totals[k] = Total(f, parts[k])

\* The parts of a sum add up.
LEMMA PartsAddUp ==
  ASSUME NEW f \in Seq(Int), NEW parts, NEW n, NEW whole, NEW totals,
         AreParts(f, parts, n, whole, totals)
  PROVE  Total(totals, DOMAIN totals) = Total(f, whole)
<1> USE DEF AreParts
<1> DEFINE upTo(k) == UNION {parts[j] : j \in 1..k}
           sum == [k \in 0..n |-> Total(f, upTo(k))]
<1>1. DOMAIN totals = 1..n
  OBVIOUS
<1>2. sum \in [0..n -> Int] /\ \A k \in 0..n : sum[k] = Total(f, upTo(k))
  BY TotalIsNumber
<1>3. sum[0] = 0
  <2>1. upTo(0) = {}
    OBVIOUS
  <2>2. 0 \in 0..n
    OBVIOUS
  <2> HIDE DEF sum, upTo
  <2>3. sum[0] = Total(f, {})
    BY <1>2, <2>1, <2>2
  <2> QED
    BY <2>3, TotalOfNone
<1>4. ASSUME NEW k \in 1..n
      PROVE  sum[k] = sum[k - 1] + Adds(totals, DOMAIN totals, k)
  <2>1. k - 1 \in 0..n /\ k \in 0..n /\ 1..k = (1 .. k - 1) \cup {k}
    OBVIOUS
  <2>2. upTo(k) = upTo(k - 1) \cup parts[k]
    BY <2>1
  <2>3. upTo(k - 1) \cap parts[k] = {}
    <3>1. \A j \in 1 .. k - 1 : j \in 1..n /\ j # k
      OBVIOUS
    <3> QED
      BY <3>1
  <2>4. Total(f, upTo(k)) = Total(f, upTo(k - 1)) + Total(f, parts[k])
    <3> HIDE DEF upTo
    <3> QED
      BY <2>2, <2>3, TotalSplits
  <2>5. Adds(totals, DOMAIN totals, k) = Total(f, parts[k])
    BY <1>1 DEF Adds
  <2> QED
    BY <1>2, <2>1, <2>4, <2>5
<1>5. IsSum(sum, totals, DOMAIN totals)
  BY <1>2, <1>3, <1>4 DEF IsSum
<1>6. Total(totals, DOMAIN totals) = sum[n]
  BY <1>5, TotalIs
<1>7. upTo(n) = whole
  OBVIOUS
<1>8. n \in 0..n
  OBVIOUS
<1> HIDE DEF sum, upTo
<1> QED
  BY <1>2, <1>6, <1>7, <1>8

-----------------------------------------------------------------------------
(***************************************************************************)
(* The rows, the columns and the cells of the matrix.                      *)
(***************************************************************************)

\* The columns are the categories of the report, each once, with no row of more cases.
LEMMA CategoriesAre ==
  ASSUME NEW rows, IsReport(rows)
  PROVE  LET categories == MatrixCategories(rows)
         IN /\ \E n \in Nat : DOMAIN categories = 1..n
            /\ \A k \in DOMAIN categories :
                 \E i \in DOMAIN rows : rows[i].category = categories[k].name
            /\ \A i \in DOMAIN rows :
                 \E k \in DOMAIN categories : rows[i].category = categories[k].name
            /\ \A k, l \in DOMAIN categories : categories[k].name = categories[l].name => k = l
            /\ \A k \in DOMAIN categories, i \in DOMAIN rows :
                 rows[i].category = categories[k].name => rows[i].cases <= categories[k].cases
<1> DEFINE categories == MatrixCategories(rows)
           S == Range(Column(rows, "category"))
           names == Sorted(S)
           of(k) == {j \in DOMAIN rows : rows[j].category = names[k]}
           cases(k) == {rows[i].cases : i \in of(k)}
<1>1. S = {rows[i].category : i \in DOMAIN rows}
  BY ColumnsAre
<1>2. S \in SUBSET Int /\ IsFiniteSet(S)
  <2> DEFINE category == [i \in DOMAIN rows |-> rows[i].category]
  <2>1. category \in Surjection(DOMAIN rows, S)
    BY <1>1 DEF Surjection
  <2>2. DOMAIN rows = 1..Len(rows) /\ Len(rows) \in Nat
        /\ \A i \in DOMAIN rows : rows[i].category \in Int
    BY ReportFields
  <2>3. IsFiniteSet(DOMAIN rows)
    BY <2>2, FS_Interval
  <2> QED
    BY <1>1, <2>1, <2>2, <2>3, FS_Surjection
<1>3. /\ Cardinality(S) \in Nat /\ DOMAIN names = 1..Cardinality(S)
      /\ \A k \in DOMAIN names : names[k] \in S
      /\ \A x \in S : \E k \in DOMAIN names : names[k] = x
      /\ \A k, l \in DOMAIN names : names[k] = names[l] => k = l
  BY <1>2, SortedIs
<1>4. DOMAIN categories = DOMAIN names
      /\ \A k \in DOMAIN names : /\ categories[k].name = names[k]
                                 /\ categories[k].cases = Max(cases(k))
  BY DEF MatrixCategories
<1> HIDE DEF S, names, categories
<1>5. ASSUME NEW k \in DOMAIN categories
      PROVE  \E i \in DOMAIN rows : rows[i].category = categories[k].name
  <2>1. categories[k].name = names[k] /\ names[k] \in S
    BY <1>3, <1>4
  <2>2. PICK i \in DOMAIN rows : rows[i].category = names[k]
    BY <1>1, <2>1
  <2> QED
    BY <2>1, <2>2
<1>6. ASSUME NEW i \in DOMAIN rows
      PROVE  \E k \in DOMAIN categories : rows[i].category = categories[k].name
  <2>1. rows[i].category \in S
    BY <1>1
  <2>2. PICK k \in DOMAIN names : names[k] = rows[i].category
    BY <1>3, <2>1
  <2> QED
    BY <1>4, <2>2
<1>7. \A k, l \in DOMAIN categories : categories[k].name = categories[l].name => k = l
  BY <1>3, <1>4
<1>8. \E n \in Nat : DOMAIN categories = 1..n
  BY <1>3, <1>4
<1>9. ASSUME NEW k \in DOMAIN categories, NEW i \in DOMAIN rows,
             rows[i].category = categories[k].name
      PROVE  rows[i].cases <= categories[k].cases
  <2> DEFINE nc == Column(rows, "cases")
  <2>1. i \in of(k)
    BY <1>4, <1>9
  <2>2. /\ nc \in Seq(Int) /\ Len(nc) = Len(rows) /\ DOMAIN rows = 1..Len(rows)
        /\ \A j \in DOMAIN rows : nc[j] = rows[j].cases /\ rows[j].cases \in Nat
    BY ColumnsAre, ReportFields
  <2> HIDE DEF nc
  <2>3. PICK h \in of(k) : \A j \in of(k) : nc[j] <= nc[h]
    <3>1. \A j \in 1..Len(nc) : nc[j] >= 0
      BY <2>2
    <3>2. of(k) \in SUBSET (1..Len(nc)) /\ of(k) # {}
      BY <2>1, <2>2
    <3> HIDE DEF of
    <3> QED
      BY <2>2, <3>1, <3>2, LargestIsOne
  <2>4. \A j \in of(k) : rows[j].cases \in Nat /\ rows[j].cases <= rows[h].cases
    BY <2>2, <2>3
  <2> HIDE DEF of
  <2>5. cases(k) \in SUBSET Nat /\ rows[h].cases \in cases(k)
        /\ \A y \in cases(k) : y <= rows[h].cases
    BY <2>3, <2>4
  <2>6. Max(cases(k)) = rows[h].cases
    <3> HIDE DEF cases
    <3> QED
      BY <2>5, LargestField
  <2> QED
    BY <1>4, <2>1, <2>4, <2>6
<1> QED
  BY <1>9, <1>5, <1>6, <1>7, <1>8 DEF categories

\* A row of the matrix has the sums of its group.
LEMMA MatrixRowIs ==
  ASSUME NEW rows, IsReport(rows), NEW categories, NEW group \in Groups(rows)
  PROVE  LET row == MatrixRow(rows, group, categories)
         IN /\ group = {i \in DOMAIN rows : rows[i].model = row.model
                                            /\ rows[i].backend = row.backend}
            /\ row.cells = Cells(rows, group, categories)
            /\ row.overallPassed = Total(Column(rows, "passed"), group)
            /\ row.overallCases = Total(Column(rows, "cases"), group)
            /\ row.overallPct = Pct(row.overallPassed, row.overallCases)
            /\ row.overallPassed \in Nat /\ row.overallCases \in Nat \ {0}
            /\ row.overallPct \in Nat
            /\ row.mean = WeightedMean(rows, group)
            /\ row.latestRun = Max({rows[i].latestRun : i \in group})
<1> DEFINE row == MatrixRow(rows, group, categories)
<1>1. /\ row.model = rows[Min(group)].model /\ row.backend = rows[Min(group)].backend
      /\ row.cells = Cells(rows, group, categories)
      /\ row.overallPassed = Total(Column(rows, "passed"), group)
      /\ row.overallCases = Total(Column(rows, "cases"), group)
      /\ row.overallPct = Pct(row.overallPassed, row.overallCases)
      /\ row.mean = WeightedMean(rows, group)
      /\ row.latestRun = Max({rows[i].latestRun : i \in group})
  BY DEF MatrixRow
<1> HIDE DEF row
<1>2. group = Own(rows, Min(group)) /\ group \in SUBSET DOMAIN rows /\ group # {}
  BY GroupsAre
<1>3. /\ Total(Column(rows, "passed"), group) \in Nat
      /\ Total(Column(rows, "cases"), group) \in Nat \ {0}
      /\ Pct(Total(Column(rows, "passed"), group), Total(Column(rows, "cases"), group)) \in Nat
  BY <1>2, SharesBound
<1>4. group = {i \in DOMAIN rows : rows[i].model = row.model /\ rows[i].backend = row.backend}
  BY <1>1, <1>2 DEF Own
<1> QED
  BY <1>1, <1>3, <1>4 DEF row

\* All rows of a group have the model and the backend of its row of the matrix.
LEMMA ModelOfGroup ==
  ASSUME NEW rows, IsReport(rows), NEW categories, NEW group \in Groups(rows), NEW i \in group
  PROVE  /\ rows[i].model = MatrixRow(rows, group, categories).model
         /\ rows[i].backend = MatrixRow(rows, group, categories).backend
<1>1. /\ MatrixRow(rows, group, categories).model = rows[Min(group)].model
      /\ MatrixRow(rows, group, categories).backend = rows[Min(group)].backend
  BY DEF MatrixRow
<1>2. i \in Own(rows, Min(group))
  BY GroupsAre
<1> QED
  BY <1>1, <1>2 DEF Own

\* The rows of the matrix are those of the groups, each once, and none is better than one
\* before it.
LEMMA MatrixRowsAre ==
  ASSUME NEW rows, IsReport(rows), NEW categories
  PROVE  LET made == MatrixRows(rows, Groups(rows), categories)
         IN \E n \in Nat : \E at \in [1..n -> Groups(rows)] :
              /\ DOMAIN made = 1..n
              /\ \A k \in 1..n : made[k] = MatrixRow(rows, at[k], categories)
              /\ \A g \in Groups(rows) : \E k \in 1..n : at[k] = g
              /\ \A k, l \in 1..n : at[k] = at[l] => k = l
              /\ \A k, l \in 1..n : k <= l => made[k].overallPct >= made[l].overallPct
<1> DEFINE S == Groups(rows)
           row == [g \in S |-> MatrixRow(rows, g, categories)]
           pct(g) == MatrixRow(rows, g, categories).overallPct
           ahead(g, h) == \/ row[g].overallPct > row[h].overallPct
                          \/ row[g].overallPct = row[h].overallPct /\ Min(g) <= Min(h)
           rel == {p \in S \X S : ahead(p[1], p[2])}
           at == InOrder(S, rel)
           made == MatrixRows(rows, S, categories)
<1>1. BestFirst(row) = at
  BY DEF BestFirst
<1>2. made = [k \in DOMAIN at |-> row[at[k]]]
  BY <1>1 DEF MatrixRows
<1>3. \A g \in S : /\ row[g] = MatrixRow(rows, g, categories) /\ row[g].overallPct = pct(g)
                   /\ pct(g) \in Nat /\ Min(g) \in Nat
  <2>1. \A g \in S : Min(g) \in Nat
    BY GroupsAre
  <2>2. \A g \in S : row[g] = MatrixRow(rows, g, categories)
    OBVIOUS
  <2>3. \A g \in S : MatrixRow(rows, g, categories).overallPct \in Nat
    BY MatrixRowIs
  <2> QED
    BY <2>1, <2>2, <2>3
<1>4. \A g, h \in S : <<g, h>> \in rel <=> ahead(g, h)
  OBVIOUS
<1>5. \A g, h \in S : Min(g) = Min(h) => g = h
  BY GroupsAre
<1> HIDE DEF S, row, pct, rel
<1>6. \A g, h \in S :
        <<g, h>> \in rel <=> (pct(g) > pct(h) \/ (pct(g) = pct(h) /\ Min(g) <= Min(h)))
  BY <1>3, <1>4
<1>7. IsOrder(S, rel)
  <2>1. \A g \in S : <<g, g>> \in rel
    BY <1>3, <1>6
  <2>2. ASSUME NEW g \in S, NEW h \in S
        PROVE  <<g, h>> \in rel \/ <<h, g>> \in rel
    <3>1. pct(g) \in Nat /\ pct(h) \in Nat /\ Min(g) \in Nat /\ Min(h) \in Nat
      BY <1>3
    <3>2. /\ pct(g) > pct(h) \/ (pct(g) = pct(h) /\ Min(g) <= Min(h)) => <<g, h>> \in rel
          /\ pct(h) > pct(g) \/ (pct(h) = pct(g) /\ Min(h) <= Min(g)) => <<h, g>> \in rel
      BY <1>6
    <3> QED
      BY <3>1, <3>2
  <2>3. \A g, h \in S : <<g, h>> \in rel /\ <<h, g>> \in rel => g = h
    BY <1>3, <1>5, <1>6
  <2>4. \A x, y, z \in S : <<x, y>> \in rel /\ <<y, z>> \in rel => <<x, z>> \in rel
    BY <1>3, <1>6
  <2> QED
    BY <2>1, <2>2, <2>3, <2>4 DEF IsOrder
<1>8. IsFiniteSet(S)
  BY GroupsAre DEF S
<1>9. /\ Cardinality(S) \in Nat /\ DOMAIN at = 1..Cardinality(S)
      /\ \A k \in DOMAIN at : at[k] \in S
      /\ \A x \in S : \E k \in DOMAIN at : at[k] = x
      /\ \A k, l \in DOMAIN at : at[k] = at[l] => k = l
      /\ \A k, l \in DOMAIN at : k <= l => <<at[k], at[l]>> \in rel
  BY <1>7, <1>8, InOrderIs
<1>10. at \in [DOMAIN at -> S]
  <2>1. at = [k \in DOMAIN at |-> at[k]]
    BY DEF InOrder
  <2> HIDE DEF at
  <2> QED
    BY <1>9, <2>1
<1> DEFINE n == Cardinality(S)
<1> HIDE DEF at, made, n
<1>11. n \in Nat /\ DOMAIN at = 1..n /\ at \in [1..n -> S]
  BY <1>9, <1>10 DEF n
<1>12. DOMAIN made = 1..n /\ \A k \in 1..n : made[k] = row[at[k]]
  BY <1>2, <1>11
<1>13. \A k \in 1..n : at[k] \in S /\ made[k] = MatrixRow(rows, at[k], categories)
                       /\ made[k].overallPct = pct(at[k])
  BY <1>3, <1>9, <1>11, <1>12
<1>14. ASSUME NEW k \in 1..n, NEW l \in 1..n, k <= l
       PROVE  made[k].overallPct >= made[l].overallPct
  <2>1. <<at[k], at[l]>> \in rel /\ at[k] \in S /\ at[l] \in S
    BY <1>9, <1>11, <1>14
  <2>2. pct(at[k]) \in Nat /\ pct(at[l]) \in Nat
    BY <1>3, <2>1
  <2>3. pct(at[k]) >= pct(at[l])
    BY <1>6, <2>1, <2>2
  <2> QED
    BY <1>13, <2>3
<1>15. \A g \in S : \E k \in 1..n : at[k] = g
  BY <1>9, <1>11
<1>16. \A k, l \in 1..n : at[k] = at[l] => k = l
  BY <1>9, <1>11
<1> QED
  BY <1>11, <1>12, <1>13, <1>14, <1>15, <1>16 DEF made, S

\* A cell is filled by the one row of its group and category.
LEMMA CellsAre ==
  ASSUME NEW rows, IsReport(rows), NEW group \in Groups(rows),
         NEW categories, NEW k \in DOMAIN categories
  PROVE  LET cells == Cells(rows, group, categories)
         IN /\ DOMAIN cells = DOMAIN categories
            /\ \A i \in group : rows[i].category = categories[k].name =>
                 cells[k] = {Cell(rows[i])}
            /\ cells[k] # {} => \E i \in group : rows[i].category = categories[k].name
<1> DEFINE cells == Cells(rows, group, categories)
           at == {i \in group : rows[i].category = categories[k].name}
<1>1. DOMAIN cells = DOMAIN categories
      /\ cells[k] = {Cell(rows[i]) : i \in {j \in at : \A l \in at : l <= j}}
  BY DEF Cells
<1>2. ASSUME NEW i \in group, rows[i].category = categories[k].name
      PROVE  cells[k] = {Cell(rows[i])}
  <2>1. \A j \in group : j \in DOMAIN rows /\ group = Own(rows, j) /\ j \in Nat
    BY GroupsAre
  <2>2. ASSUME NEW j \in at
        PROVE  j = i
    <3>1. i \in DOMAIN rows /\ j \in DOMAIN rows /\ j \in Own(rows, i)
      BY <2>1
    <3>2. rows[j].model = rows[i].model /\ rows[j].backend = rows[i].backend
          /\ rows[j].category = rows[i].category
      BY <1>2, <3>1 DEF Own
    <3> QED
      BY <3>1, <3>2, ReportFields
  <2>3. at = {i} /\ i \in Nat
    BY <1>2, <2>1, <2>2
  <2>4. {j \in at : \A l \in at : l <= j} = {i}
    <3> HIDE DEF at
    <3> QED
      BY <2>3
  <2> HIDE DEF at, cells
  <2> QED
    BY <1>1, <2>4
<1>3. ASSUME cells[k] # {}
      PROVE  \E i \in group : rows[i].category = categories[k].name
  <2> HIDE DEF cells
  <2> QED
    BY <1>1, <1>3
<1> QED
  BY <1>1, <1>2, <1>3

-----------------------------------------------------------------------------
(***************************************************************************)
(* The matrix is the report.                                               *)
(***************************************************************************)

\* A matrix of a report: its n rows are those of the groups at, best first.
MadeOf(matrix, rows, n, at) ==
  /\ n \in Nat /\ at \in [1..n -> Groups(rows)]
  /\ matrix.categories = MatrixCategories(rows)
  /\ DOMAIN matrix.rows = 1..n
  /\ \A k \in 1..n : matrix.rows[k] = MatrixRow(rows, at[k], matrix.categories)
  /\ \A g \in Groups(rows) : \E k \in 1..n : at[k] = g
  /\ \A k, l \in 1..n : at[k] = at[l] => k = l
  /\ \A k, l \in 1..n : k <= l => matrix.rows[k].overallPct >= matrix.rows[l].overallPct

\* What the page computes is such a matrix.
LEMMA MatrixIsMade ==
  ASSUME NEW rows, IsReport(rows)
  PROVE  \E n, at : MadeOf(AggregateReport(rows), rows, n, at)
<1> DEFINE matrix == AggregateReport(rows)
           categories == MatrixCategories(rows)
           made == MatrixRows(rows, Groups(rows), categories)
<1>1. matrix.categories = categories /\ matrix.rows = made
  BY DEF AggregateReport
<1>2. PICK n \in Nat : \E at \in [1..n -> Groups(rows)] :
        /\ DOMAIN made = 1..n
        /\ \A k \in 1..n : made[k] = MatrixRow(rows, at[k], categories)
        /\ \A g \in Groups(rows) : \E k \in 1..n : at[k] = g
        /\ \A k, l \in 1..n : at[k] = at[l] => k = l
        /\ \A k, l \in 1..n : k <= l => made[k].overallPct >= made[l].overallPct
  BY MatrixRowsAre
<1>3. PICK at \in [1..n -> Groups(rows)] :
        /\ DOMAIN made = 1..n
        /\ \A k \in 1..n : made[k] = MatrixRow(rows, at[k], categories)
        /\ \A g \in Groups(rows) : \E k \in 1..n : at[k] = g
        /\ \A k, l \in 1..n : at[k] = at[l] => k = l
        /\ \A k, l \in 1..n : k <= l => made[k].overallPct >= made[l].overallPct
  BY <1>2
<1> HIDE DEF matrix, categories, made
<1>4. MadeOf(matrix, rows, n, at)
  BY <1>1, <1>3 DEF MadeOf, categories
<1> QED
  BY <1>4 DEF matrix

\* Every row of the report is in one row of the matrix.
LEMMA RowsHavePlaces ==
  ASSUME NEW rows, IsReport(rows), NEW matrix, NEW n, NEW at, MadeOf(matrix, rows, n, at)
  PROVE  /\ \A k \in 1..n : at[k] \in Groups(rows) /\ at[k] \subseteq DOMAIN rows
         /\ \A i \in DOMAIN rows : \E k \in 1..n : i \in at[k]
         /\ \A k, l \in 1..n, i \in DOMAIN rows : i \in at[k] /\ i \in at[l] => k = l
         /\ \A k, l \in 1..n : at[k] \cap at[l] # {} => k = l
<1>1. \A k \in 1..n : at[k] \in Groups(rows) /\ at[k] \subseteq DOMAIN rows
  BY GroupsAre DEF MadeOf
<1>2. ASSUME NEW i \in DOMAIN rows
      PROVE  \E k \in 1..n : i \in at[k]
  <2>1. Own(rows, i) \in Groups(rows) /\ i \in Own(rows, i)
    BY GroupsAre
  <2> QED
    BY <2>1 DEF MadeOf
<1>3. ASSUME NEW k \in 1..n, NEW l \in 1..n, at[k] \cap at[l] # {}
      PROVE  k = l
  <2>1. at[k] = at[l]
    BY <1>1, <1>3, GroupsAre
  <2> QED
    BY <2>1 DEF MadeOf
<1> QED
  BY <1>1, <1>2, <1>3

\* What is in a cell that is filled.
LEMMA PlacesInMatrix ==
  ASSUME NEW rows, IsReport(rows), NEW matrix, NEW n, NEW at, MadeOf(matrix, rows, n, at)
  PROVE  /\ \A k \in 1..n : DOMAIN matrix.rows[k].cells = DOMAIN matrix.categories
         /\ \A k \in 1..n, l \in DOMAIN matrix.categories :
              /\ \A i \in at[k] : rows[i].category = matrix.categories[l].name =>
                   matrix.rows[k].cells[l] = {Cell(rows[i])}
              /\ matrix.rows[k].cells[l] # {} =>
                   \E i \in at[k] : rows[i].category = matrix.categories[l].name
<1>1. \A k \in 1..n : at[k] \in Groups(rows)
  BY RowsHavePlaces
<1>2. ASSUME NEW k \in 1..n
      PROVE  matrix.rows[k].cells = Cells(rows, at[k], matrix.categories)
  <2>1. matrix.rows[k] = MatrixRow(rows, at[k], matrix.categories)
    BY DEF MadeOf
  <2>2. MatrixRow(rows, at[k], matrix.categories).cells = Cells(rows, at[k], matrix.categories)
    BY DEF MatrixRow
  <2> QED
    BY <2>1, <2>2
<1>3. ASSUME NEW k \in 1..n, NEW l \in DOMAIN matrix.categories
      PROVE  /\ \A i \in at[k] : rows[i].category = matrix.categories[l].name =>
                  matrix.rows[k].cells[l] = {Cell(rows[i])}
             /\ matrix.rows[k].cells[l] # {} =>
                  \E i \in at[k] : rows[i].category = matrix.categories[l].name
  <2>1. at[k] \in Groups(rows)
    BY <1>1
  <2> QED
    BY <1>2, <2>1, CellsAre
<1>4. ASSUME NEW k \in 1..n
      PROVE  DOMAIN matrix.rows[k].cells = DOMAIN matrix.categories
  BY <1>2 DEF Cells
<1> QED
  BY <1>3, <1>4

\* The columns of a matrix.
LEMMA ColumnsOfMatrix ==
  ASSUME NEW rows, IsReport(rows), NEW matrix, NEW n, NEW at, MadeOf(matrix, rows, n, at)
  PROVE  /\ \A i \in DOMAIN rows :
              \E l \in DOMAIN matrix.categories : rows[i].category = matrix.categories[l].name
         /\ \A k, l \in DOMAIN matrix.categories :
              matrix.categories[k].name = matrix.categories[l].name => k = l
         /\ \A l \in DOMAIN matrix.categories, i \in DOMAIN rows :
              rows[i].category = matrix.categories[l].name =>
                rows[i].cases <= matrix.categories[l].cases
<1>1. matrix.categories = MatrixCategories(rows)
  BY DEF MadeOf
<1> QED
  BY <1>1, CategoriesAre

\* The rows of the report are the cells of the matrix.
LEMMA CellsAreFilled ==
  ASSUME IsReport(reportRows), NEW matrix, NEW n, NEW at, MadeOf(matrix, reportRows, n, at)
  PROVE  RowsFillCells(matrix)
<1> DEFINE rows == reportRows
           categories == matrix.categories
           filled == {p \in (DOMAIN matrix.rows) \X (DOMAIN categories) :
                        matrix.rows[p[1]].cells[p[2]] # {}}
           isAt(i, p) == i \in at[p[1]] /\ rows[i].category = categories[p[2]].name
           place == [i \in DOMAIN rows |-> CHOOSE p \in filled : isAt(i, p)]
<1>1. DOMAIN matrix.rows = 1..n
  BY DEF MadeOf
<1>2. ASSUME NEW i \in DOMAIN rows
      PROVE  \E p \in filled : isAt(i, p)
  <2>1. PICK k \in 1..n : i \in at[k]
    BY RowsHavePlaces
  <2>2. PICK l \in DOMAIN categories : rows[i].category = categories[l].name
    BY ColumnsOfMatrix
  <2>3. matrix.rows[k].cells[l] = {Cell(rows[i])}
    BY <2>1, <2>2, PlacesInMatrix
  <2>4. <<k, l>> \in filled
    BY <1>1, <2>3
  <2>5. isAt(i, <<k, l>>)
    BY <2>1, <2>2
  <2> QED
    BY <2>4, <2>5
<1>3. \A i \in DOMAIN rows : place[i] \in filled /\ isAt(i, place[i])
  <2> HIDE DEF filled, isAt
  <2> QED
    BY <1>2
<1>4. ASSUME NEW p \in filled
      PROVE  /\ p[1] \in 1..n /\ p[2] \in DOMAIN categories /\ p = <<p[1], p[2]>>
             /\ \E i \in DOMAIN rows : isAt(i, p)
  <2>1. p[1] \in 1..n /\ p[2] \in DOMAIN categories /\ p = <<p[1], p[2]>>
        /\ matrix.rows[p[1]].cells[p[2]] # {}
    BY <1>1
  <2>2. at[p[1]] \subseteq DOMAIN rows
        /\ \E i \in at[p[1]] : rows[i].category = categories[p[2]].name
    BY <2>1, PlacesInMatrix, RowsHavePlaces
  <2> QED
    BY <2>1, <2>2
<1>5. ASSUME NEW i \in DOMAIN rows, NEW p \in filled, NEW q \in filled, isAt(i, p), isAt(i, q)
      PROVE  p = q
  <2>1. p[1] = q[1]
    <3>1. p[1] \in 1..n /\ q[1] \in 1..n /\ i \in at[p[1]] /\ i \in at[q[1]]
      BY <1>4, <1>5
    <3> HIDE DEF filled, isAt
    <3> QED
      BY <3>1, RowsHavePlaces
  <2>2. p[2] = q[2]
    BY <1>4, <1>5, ColumnsOfMatrix
  <2> QED
    BY <1>4, <2>1, <2>2
<1>6. ASSUME NEW i \in DOMAIN rows, NEW j \in DOMAIN rows, NEW p \in filled, isAt(i, p), isAt(j, p)
      PROVE  i = j
  <2>1. at[p[1]] \in Groups(rows)
    BY <1>4, RowsHavePlaces
  <2>2. j \in Own(rows, i) /\ rows[i].category = rows[j].category
    BY <1>6, <2>1, GroupsAre
  <2> QED
    BY <2>2, ReportFields DEF Own
<1> HIDE DEF place, filled, isAt
<1>7. place \in Bijection(DOMAIN rows, filled)
  <2>1. place \in [DOMAIN rows -> filled]
    BY <1>3 DEF place
  <2>2. \A i, j \in DOMAIN rows : place[i] = place[j] => i = j
    BY <1>3, <1>6
  <2>3. \A p \in filled : \E i \in DOMAIN rows : place[i] = p
    BY <1>3, <1>4, <1>5
  <2> QED
    BY <2>1, <2>2, <2>3 DEF Bijection, Injection, Surjection, IsInjective
<1>8. Cardinality(filled) = Len(rows)
  <2>1. DOMAIN rows = 1..Len(rows) /\ Len(rows) \in Nat
    BY ReportFields
  <2>2. \A m \in Nat : IsFiniteSet(1..m) /\ Cardinality(1..m) = m
    BY FS_Interval
  <2>3. IsFiniteSet(DOMAIN rows) /\ Cardinality(DOMAIN rows) = Len(rows)
    BY <2>1, <2>2
  <2>4. ExistsBijection(DOMAIN rows, filled)
    BY <1>7 DEF ExistsBijection
  <2> QED
    BY <2>3, <2>4, FS_Bijection
<1>9. ASSUME NEW k \in 1..n, NEW l \in DOMAIN categories, NEW c \in matrix.rows[k].cells[l]
      PROVE  /\ \E r \in {r \in Range(rows) :
                           /\ r.model = matrix.rows[k].model /\ r.backend = matrix.rows[k].backend
                           /\ r.category = categories[l].name} :
                  c.passed = r.passed /\ c.cases = r.cases
             /\ c.cases <= categories[l].cases /\ c.tint \in 0 .. 70
  <2>1. PICK i \in at[k] : rows[i].category = categories[l].name
    BY <1>9, PlacesInMatrix
  <2>2. c = Cell(rows[i]) /\ i \in DOMAIN rows /\ at[k] \in Groups(rows)
    BY <1>9, <2>1, PlacesInMatrix, RowsHavePlaces
  <2>3. rows[i].model = matrix.rows[k].model /\ rows[i].backend = matrix.rows[k].backend
    <3>1. matrix.rows[k] = MatrixRow(rows, at[k], matrix.categories)
      BY DEF MadeOf
    <3> QED
      BY <2>2, <3>1, ModelOfGroup
  <2>4. c.passed = rows[i].passed /\ c.cases = rows[i].cases
    BY <2>2 DEF Cell
  <2>5. rows[i].cases <= categories[l].cases
    BY <2>1, <2>2, ColumnsOfMatrix
  <2>6. c.tint \in 0 .. 70
    <3> DEFINE pct == Pct(rows[i].passed, rows[i].cases)
    <3>1. pct \in Nat /\ pct <= 100
      BY <2>2, ReportFields, PctIs
    <3>2. c.tint = IF pct > 30 THEN pct - 30 ELSE 0
      BY <2>2 DEF Cell
    <3> HIDE DEF pct
    <3> QED
      BY <3>1, <3>2
  <2>7. rows[i] \in Range(rows)
    BY <2>2 DEF Range
  <2> QED
    BY <2>1, <2>3, <2>4, <2>5, <2>6, <2>7
<1>10. Cardinality({p \in (DOMAIN matrix.rows) \X (DOMAIN categories) :
                      matrix.rows[p[1]].cells[p[2]] # {}}) = Len(rows)
  BY <1>8 DEF filled
<1>11. DOMAIN matrix.rows = 1..n
  BY DEF MadeOf
<1> QED
  BY <1>9, <1>10, <1>11, Zenon DEF RowsFillCells

\* The totals and means of a row of the matrix are those of its rows of the report.
LEMMA TotalsAreOfRows ==
  ASSUME IsReport(reportRows), NEW matrix, NEW n, NEW at, MadeOf(matrix, reportRows, n, at),
         NEW k \in 1..n
  PROVE  RowTotals(matrix.rows[k])
<1> DEFINE rows == reportRows
           row == matrix.rows[k]
           g == at[k]
           mine == {i \in DOMAIN rows : rows[i].model = row.model /\ rows[i].backend = row.backend}
           pcts == {Pct(rows[i].passed, rows[i].cases) : i \in mine}
           known == {rows[i].metric : i \in mine} \ {NoMetric}
<1>1. /\ g \in Groups(rows) /\ g \in SUBSET DOMAIN rows /\ g # {}
      /\ row = MatrixRow(rows, g, matrix.categories)
  BY GroupsAre DEF MadeOf
<1> HIDE DEF row, g
<1>2. /\ mine = g
      /\ row.overallCases = Total(Column(rows, "cases"), g)
      /\ row.overallPct = Pct(Total(Column(rows, "passed"), g), Total(Column(rows, "cases"), g))
      /\ row.mean = WeightedMean(rows, g)
      /\ row.latestRun = Max({rows[i].latestRun : i \in g})
  <2>1. g = {i \in DOMAIN rows : rows[i].model = row.model /\ rows[i].backend = row.backend}
    <3>1. row.model = rows[Min(g)].model /\ row.backend = rows[Min(g)].backend
      BY <1>1 DEF MatrixRow
    <3>2. g = Own(rows, Min(g))
      BY <1>1, GroupsAre
    <3> QED
      BY <3>1, <3>2 DEF Own
  <2>2. /\ row.overallPassed = Total(Column(rows, "passed"), g)
        /\ row.overallCases = Total(Column(rows, "cases"), g)
        /\ row.overallPct = Pct(row.overallPassed, row.overallCases)
        /\ row.mean = WeightedMean(rows, g)
        /\ row.latestRun = Max({rows[i].latestRun : i \in g})
    BY <1>1 DEF MatrixRow
  <2> QED
    BY <2>1, <2>2
<1> HIDE DEF mine
<1>3. \E low, high \in pcts : low <= row.overallPct /\ row.overallPct <= high
  <2>1. \E i \in g : Pct(rows[i].passed, rows[i].cases) <= row.overallPct
    BY <1>1, <1>2, SharesBound
  <2>2. \E i \in g : row.overallPct <= Pct(rows[i].passed, rows[i].cases)
    BY <1>1, <1>2, SharesBound
  <2> QED
    BY <1>2, <2>1, <2>2
<1>4. /\ known = {} <=> row.mean.weight = 0
      /\ known # {} => \E low, high \in known : /\ low * row.mean.weight <= row.mean.sum
                                                /\ row.mean.sum <= high * row.mean.weight
  BY <1>1, <1>2, MeanIs
<1>5. \E i \in mine : rows[i].latestRun = row.latestRun
  <2> DEFINE runs == Column(rows, "latestRun")
             latest == {rows[i].latestRun : i \in g}
  <2>1. /\ DOMAIN rows = 1..Len(rows) /\ Len(rows) \in Nat
        /\ \A i \in DOMAIN rows : rows[i].latestRun \in Nat
    BY ReportFields
  <2>2. runs = [i \in 1..Len(rows) |-> rows[i].latestRun]
    BY <2>1 DEF Column
  <2> HIDE DEF runs
  <2>3. runs \in Seq(Int) /\ Len(runs) = Len(rows)
        /\ \A i \in DOMAIN rows : runs[i] = rows[i].latestRun
    BY <2>1, <2>2
  <2>4. PICK i \in g : \A j \in g : runs[j] <= runs[i]
    <3>1. \A j \in 1..Len(runs) : runs[j] >= 0
      BY <2>1, <2>3
    <3>2. g \in SUBSET (1..Len(runs)) /\ g # {}
      BY <1>1, <2>1, <2>3
    <3> QED
      BY <2>3, <3>1, <3>2, LargestIsOne
  <2>5. latest \in SUBSET Nat /\ rows[i].latestRun \in latest
        /\ \A y \in latest : y <= rows[i].latestRun
    BY <1>1, <2>1, <2>3, <2>4
  <2>6. Max(latest) = rows[i].latestRun
    <3> HIDE DEF latest
    <3> QED
      BY <2>5, LargestField
  <2> QED
    BY <1>2, <2>4, <2>6
<1>6. row.overallCases = Total(Column(rows, "cases"), mine)
  BY <1>2
<1> QED
  BY <1>3, <1>4, <1>5, <1>6 DEF RowTotals, mine, row

\* Of the backends of a model, one that no other has more cases than.
LEMMA BestBackendIs ==
  ASSUME NEW rows, IsReport(rows), NEW model, NEW first \in DOMAIN rows,
         rows[first].model = model
  PROVE  LET mine == {i \in DOMAIN rows : rows[i].model = model}
         IN \E x \in mine :
              /\ BestEvalBackend(rows, mine) = rows[x].backend
              /\ {i \in mine : rows[i].backend = rows[x].backend} = Own(rows, x)
              /\ \A i \in mine : Total(Column(rows, "cases"), Own(rows, i))
                                   <= Total(Column(rows, "cases"), Own(rows, x))
<1> DEFINE mine == {i \in DOMAIN rows : rows[i].model = model}
           nc == Column(rows, "cases")
           ofBackend(i) == {j \in mine : rows[j].backend = rows[i].backend}
           best == {i \in mine : \A j \in mine : Total(nc, ofBackend(j)) <= Total(nc, ofBackend(i))}
           totals == [i \in 1..Len(rows) |-> IF i \in mine THEN Total(nc, Own(rows, i)) ELSE 0]
<1>1. BestEvalBackend(rows, mine) = rows[Min(best)].backend
  BY DEF BestEvalBackend
<1>2. \A i \in mine : ofBackend(i) = Own(rows, i)
  BY DEF Own
<1>3. DOMAIN rows = 1..Len(rows) /\ Len(rows) \in Nat /\ mine \in SUBSET (1..Len(rows))
      /\ first \in mine
  BY ReportFields
<1>4. \A i \in mine : Total(nc, Own(rows, i)) \in Nat
  <2>1. \A i \in mine : Own(rows, i) \in SUBSET DOMAIN rows /\ Own(rows, i) # {}
    BY GroupsAre
  <2> QED
    BY <2>1, SharesBound
<1> HIDE DEF mine, nc, ofBackend
<1>5. /\ totals \in Seq(Int) /\ Len(totals) = Len(rows)
      /\ \A i \in 1..Len(rows) : totals[i] >= 0
      /\ \A i \in mine : totals[i] = Total(nc, Own(rows, i))
  <2>1. \A i \in 1..Len(rows) : totals[i] \in Nat
    BY <1>4
  <2>2. \A i \in mine : totals[i] = Total(nc, Own(rows, i))
    BY <1>3
  <2>3. totals = [i \in 1..Len(rows) |-> totals[i]]
    OBVIOUS
  <2> HIDE DEF totals
  <2>4. \A i \in 1..Len(rows) : totals[i] \in Int /\ totals[i] >= 0
    BY <2>1
  <2>5. totals \in Seq(Int) /\ Len(totals) = Len(rows)
    BY <1>3, <2>3, <2>4
  <2> QED
    BY <2>2, <2>4, <2>5
<1> HIDE DEF totals
<1>6. best # {} /\ best \in SUBSET Nat
  <2>1. PICK i \in mine : \A j \in mine : totals[j] <= totals[i]
    BY <1>3, <1>5, LargestIsOne
  <2>2. \A j \in mine : Total(nc, ofBackend(j)) <= Total(nc, ofBackend(i))
    BY <1>2, <1>5, <2>1
  <2>3. i \in best
    BY <2>2
  <2> QED
    BY <1>3, <2>3
<1>7. Min(best) \in best
  BY <1>6, LeastIs
<1>8. Min(best) \in mine
      /\ \A j \in mine : Total(nc, ofBackend(j)) <= Total(nc, ofBackend(Min(best)))
  BY <1>7
<1> DEFINE x == Min(best)
<1> HIDE DEF best, x
<1>9. x \in mine /\ BestEvalBackend(rows, mine) = rows[x].backend
      /\ ofBackend(x) = Own(rows, x)
      /\ \A i \in mine : Total(nc, Own(rows, i)) <= Total(nc, Own(rows, x))
  BY <1>1, <1>2, <1>8 DEF x
<1> QED
  BY <1>9 DEF mine, nc, ofBackend

\* A group has a cell for each of its rows.
LEMMA CellsOfGroup ==
  ASSUME NEW rows, IsReport(rows), NEW matrix, NEW n, NEW at, MadeOf(matrix, rows, n, at),
         NEW k \in 1..n
  PROVE  LET cells == matrix.rows[k].cells
         IN /\ IsFiniteSet(at[k])
            /\ Cardinality({l \in DOMAIN cells : cells[l] # {}}) = Cardinality(at[k])
<1> DEFINE categories == matrix.categories
           filled == {l \in DOMAIN matrix.rows[k].cells : matrix.rows[k].cells[l] # {}}
           place == [i \in at[k] |->
                       CHOOSE l \in filled : rows[i].category = categories[l].name]
<1>1. /\ at[k] \in Groups(rows) /\ at[k] \subseteq DOMAIN rows
      /\ DOMAIN matrix.rows[k].cells = DOMAIN categories
  BY PlacesInMatrix, RowsHavePlaces
<1>2. ASSUME NEW i \in at[k]
      PROVE  \E l \in filled : rows[i].category = categories[l].name
  <2>1. PICK l \in DOMAIN categories : rows[i].category = categories[l].name
    BY <1>1, ColumnsOfMatrix
  <2>2. matrix.rows[k].cells[l] = {Cell(rows[i])}
    BY <2>1, PlacesInMatrix
  <2> QED
    BY <1>1, <2>1, <2>2
<1>3. \A l \in filled : l \in DOMAIN categories
                        /\ \E i \in at[k] : rows[i].category = categories[l].name
  BY <1>1, PlacesInMatrix
<1> HIDE DEF filled
<1>4. \A i \in at[k] : place[i] \in filled /\ rows[i].category = categories[place[i]].name
  BY <1>2
<1>5. \A l, m \in filled : categories[l].name = categories[m].name => l = m
  BY <1>3, ColumnsOfMatrix
<1>6. ASSUME NEW i \in at[k], NEW j \in at[k], rows[i].category = rows[j].category
      PROVE  i = j
  <2>1. j \in Own(rows, i)
    BY <1>1, GroupsAre
  <2> QED
    BY <1>1, <1>6, <2>1, ReportFields DEF Own
<1>7. ExistsBijection(at[k], filled)
  <2>1. place \in [at[k] -> filled]
    BY <1>4
  <2> HIDE DEF place
  <2>2. \A i, j \in at[k] : place[i] = place[j] => i = j
    BY <1>4, <1>6
  <2>3. \A l \in filled : \E i \in at[k] : place[i] = l
    BY <1>3, <1>4, <1>5
  <2>4. place \in Bijection(at[k], filled)
    BY <2>1, <2>2, <2>3 DEF Bijection, Injection, Surjection, IsInjective
  <2> QED
    BY <2>4 DEF ExistsBijection
<1>8. IsFiniteSet(at[k])
  <2>1. DOMAIN rows = 1..Len(rows) /\ Len(rows) \in Nat
    BY ReportFields
  <2>2. IsFiniteSet(1..Len(rows))
    BY <2>1, FS_Interval
  <2> QED
    BY <1>1, <2>1, <2>2, FS_Subset
<1> QED
  BY <1>7, <1>8, FS_Bijection DEF filled

\* The card of a model is the row of its best backend.
LEMMA CardIsOfBest ==
  ASSUME IsReport(reportRows), NEW matrix, NEW n, NEW at, MadeOf(matrix, reportRows, n, at),
         NEW k \in 1..n
  PROVE  CardIsARow(EvalHistoryCard(matrix.rows[k].model), matrix.rows[k], matrix.rows)
<1> DEFINE rows == reportRows
           row == matrix.rows[k]
           model == row.model
           mine == {i \in DOMAIN rows : rows[i].model = model}
           ofBest == {i \in mine : rows[i].backend = BestEvalBackend(rows, mine)}
           pcts == [i \in DOMAIN rows |-> Pct(rows[i].passed, rows[i].cases)]
           card == EvalHistoryCard(model)
           nc == Column(rows, "cases")
           np == Column(rows, "passed")
<1>1. /\ card.bars = Kept(pcts, ofBest) /\ card.passed = Total(np, ofBest)
      /\ card.cases = Total(nc, ofBest)
  BY DEF EvalHistoryCard
<1> HIDE DEF card, model, pcts, nc, np
<1>2. \A l \in 1..n : /\ at[l] \in Groups(rows)
                      /\ matrix.rows[l] = MatrixRow(rows, at[l], matrix.categories)
  BY DEF MadeOf
<1>3. ASSUME NEW l \in 1..n
      PROVE  /\ matrix.rows[l].overallCases = Total(nc, at[l])
             /\ matrix.rows[l].overallPassed = Total(np, at[l])
  <2> DEFINE made == MatrixRow(rows, at[l], matrix.categories)
  <2>1. made.overallCases = Total(nc, at[l]) /\ made.overallPassed = Total(np, at[l])
    BY DEF MatrixRow, nc, np
  <2>2. matrix.rows[l] = made
    BY <1>2
  <2> HIDE DEF made
  <2> QED
    BY <2>1, <2>2
<1>4. PICK first \in at[k] : TRUE
  BY <1>2, GroupsAre
<1>5. first \in DOMAIN rows /\ at[k] = Own(rows, first)
  BY <1>2, GroupsAre
<1>6. rows[first].model = model
  BY <1>2, ModelOfGroup DEF model
<1>7. PICK x \in mine : /\ BestEvalBackend(rows, mine) = rows[x].backend
                        /\ {i \in mine : rows[i].backend = rows[x].backend} = Own(rows, x)
                        /\ \A i \in mine : Total(nc, Own(rows, i)) <= Total(nc, Own(rows, x))
  BY <1>5, <1>6, BestBackendIs DEF nc
<1>8. first \in mine /\ x \in DOMAIN rows /\ rows[x].model = model
  BY <1>5, <1>6
<1>9. ofBest = Own(rows, x)
  BY <1>7
<1> HIDE DEF mine, ofBest
<1>10. row.overallCases <= card.cases
  BY <1>1, <1>3, <1>5, <1>7, <1>8, <1>9
<1>11. Own(rows, x) \in Groups(rows) /\ x \in Own(rows, x)
  BY <1>8, GroupsAre
<1>12. PICK j \in 1..n : at[j] = Own(rows, x)
  BY <1>11 DEF MadeOf
<1>13. matrix.rows[j].model = model
  BY <1>2, <1>8, <1>11, <1>12, ModelOfGroup
<1>14. matrix.rows[j].overallCases = card.cases /\ matrix.rows[j].overallPassed = card.passed
  BY <1>1, <1>3, <1>9, <1>12
<1>15. Len(card.bars) = Cardinality(Own(rows, x))
  <2>1. DOMAIN rows = 1..Len(rows) /\ Len(rows) \in Nat
        /\ \A i \in DOMAIN rows : rows[i].passed \in Nat /\ rows[i].cases \in Nat \ {0}
    BY ReportFields
  <2>2. \A i \in 1..Len(rows) : pcts[i] \in Nat
    BY <2>1, PctIs DEF pcts
  <2>3. pcts = [i \in 1..Len(rows) |-> pcts[i]]
    BY <2>1 DEF pcts
  <2>4. pcts \in Seq(Nat) /\ DOMAIN pcts = DOMAIN rows
    BY <2>1, <2>2, <2>3
  <2>5. Own(rows, x) \in SUBSET DOMAIN pcts
    BY <1>11, <2>4, GroupsAre
  <2>6. Len(Kept(pcts, Own(rows, x))) = Cardinality(Own(rows, x))
    BY <2>4, <2>5, KeptIs
  <2> QED
    BY <1>1, <1>9, <2>6
<1>16. Len(card.bars) = Cardinality({l \in DOMAIN matrix.rows[j].cells :
                                       matrix.rows[j].cells[l] # {}})
  <2>1. Cardinality({l \in DOMAIN matrix.rows[j].cells : matrix.rows[j].cells[l] # {}})
          = Cardinality(at[j])
    BY CellsOfGroup
  <2> QED
    BY <1>12, <1>15, <2>1
<1>17. DOMAIN matrix.rows = 1..n
  BY DEF MadeOf
<1> QED
  BY <1>10, <1>13, <1>14, <1>16, <1>17 DEF CardIsARow, card, model

\* The totals of the groups in a column of the report.
AreTotals(totals, column, rows, n, at) ==
  /\ column \in Seq(Int) /\ Len(column) = Len(rows)
  /\ totals \in [1..n -> Int]
  /\ \A k \in 1..n : totals[k] = Total(column, at[k])

\* The groups together are the report: what the rows of the matrix count adds up to what the
\* rows of the report count.
LEMMA SumsAreKept ==
  ASSUME NEW rows, IsReport(rows), NEW matrix, NEW n, NEW at, MadeOf(matrix, rows, n, at),
         NEW f, NEW totals, AreTotals(totals, f, rows, n, at)
  PROVE  Total(totals, DOMAIN totals) = Total(f, DOMAIN f)
<1>1. n \in Nat /\ at \in [1..n -> Groups(rows)]
  BY DEF MadeOf
<1>2. totals \in Seq(Int) /\ Len(totals) = n
  BY <1>1 DEF AreTotals
<1>3. DOMAIN rows = 1..Len(rows) /\ DOMAIN f = DOMAIN rows
  BY ReportFields DEF AreTotals
<1>4. /\ \A k \in 1..n : at[k] \subseteq DOMAIN f
      /\ \A i \in DOMAIN f : \E k \in 1..n : i \in at[k]
  <2>1. \A k \in 1..n : at[k] \subseteq DOMAIN rows
    BY RowsHavePlaces
  <2>2. ASSUME NEW i \in DOMAIN rows
        PROVE  \E k \in 1..n : i \in at[k]
    BY RowsHavePlaces
  <2> QED
    BY <1>3, <2>1, <2>2
<1>5. \A k, l \in 1..n : at[k] \cap at[l] # {} => k = l
  BY RowsHavePlaces
<1>6. DOMAIN at = 1..n
  BY <1>1
<1>7. AreParts(f, at, n, DOMAIN f, totals)
  BY <1>1, <1>2, <1>4, <1>5, <1>6 DEF AreParts, AreTotals
<1> QED
  BY <1>7, PartsAddUp DEF AreTotals

\* The matrix of any report is the report.
LEMMA EveryMatrixAddsUp == ASSUME MatrixInv PROVE MatrixAddsUp
<1> DEFINE matrix == AggregateReport(reportRows)
<1>1. IsReport(reportRows)
  BY DEF MatrixInv
<1>2. PICK n, at : MadeOf(matrix, reportRows, n, at)
  BY <1>1, MatrixIsMade
<1> HIDE DEF matrix
<1>3. /\ n \in Nat /\ DOMAIN matrix.rows = 1..n
      /\ \A k \in 1..n : matrix.rows[k] = MatrixRow(reportRows, at[k], matrix.categories)
      /\ \A k, l \in 1..n : k <= l => matrix.rows[k].overallPct >= matrix.rows[l].overallPct
  BY <1>2 DEF MadeOf
<1>4. RowsFillCells(matrix)
  BY <1>1, <1>2, CellsAreFilled
<1>5. ASSUME NEW i \in DOMAIN matrix.rows
      PROVE  /\ RowTotals(matrix.rows[i])
             /\ i > 1 => matrix.rows[i - 1].overallPct >= matrix.rows[i].overallPct
             /\ CardIsARow(EvalHistoryCard(matrix.rows[i].model), matrix.rows[i], matrix.rows)
  <2>1. i \in 1..n
    BY <1>3
  <2>2. RowTotals(matrix.rows[i])
    BY <1>1, <1>2, <2>1, TotalsAreOfRows
  <2>3. CardIsARow(EvalHistoryCard(matrix.rows[i].model), matrix.rows[i], matrix.rows)
    BY <1>1, <1>2, <2>1, CardIsOfBest
  <2>4. ASSUME i > 1
        PROVE  matrix.rows[i - 1].overallPct >= matrix.rows[i].overallPct
    <3>1. i - 1 \in 1..n /\ i - 1 <= i
      BY <1>3, <2>1, <2>4
    <3> QED
      BY <1>3, <2>1, <3>1
  <2> QED
    BY <2>2, <2>3, <2>4
<1>6. ASSUME NEW k \in 1..n
      PROVE  /\ matrix.rows[k].overallCases = Total(Column(reportRows, "cases"), at[k])
             /\ matrix.rows[k].overallPassed = Total(Column(reportRows, "passed"), at[k])
  <2> DEFINE made == MatrixRow(reportRows, at[k], matrix.categories)
  <2>1. /\ made.overallCases = Total(Column(reportRows, "cases"), at[k])
        /\ made.overallPassed = Total(Column(reportRows, "passed"), at[k])
    BY DEF MatrixRow
  <2>2. matrix.rows[k] = made
    BY <1>3
  <2> HIDE DEF made
  <2> QED
    BY <2>1, <2>2
<1> DEFINE sum(column) == Total(column, DOMAIN column)
           all == Column(matrix.rows, "overallCases")
           good == Column(matrix.rows, "overallPassed")
<1>7. sum(all) = sum(Column(reportRows, "cases"))
  <2>1. all = [k \in 1..n |-> matrix.rows[k].overallCases]
    BY <1>3 DEF Column
  <2> HIDE DEF all
  <2>2. \A k \in 1..n : all[k] = Total(Column(reportRows, "cases"), at[k])
    BY <1>6, <2>1
  <2>3. /\ Column(reportRows, "cases") \in Seq(Int)
        /\ Len(Column(reportRows, "cases")) = Len(reportRows)
    BY <1>1, ColumnsAre
  <2>4. all \in [1..n -> Int]
    <3>1. \A k \in 1..n : all[k] \in Int
      BY <2>2, <2>3, TotalIsNumber
    <3> QED
      BY <2>1, <3>1
  <2>5. AreTotals(all, Column(reportRows, "cases"), reportRows, n, at)
    BY <2>2, <2>3, <2>4 DEF AreTotals
  <2> QED
    BY <1>1, <1>2, <2>5, SumsAreKept
<1>8. sum(good) = sum(Column(reportRows, "passed"))
  <2>1. good = [k \in 1..n |-> matrix.rows[k].overallPassed]
    BY <1>3 DEF Column
  <2> HIDE DEF good
  <2>2. \A k \in 1..n : good[k] = Total(Column(reportRows, "passed"), at[k])
    BY <1>6, <2>1
  <2>3. /\ Column(reportRows, "passed") \in Seq(Int)
        /\ Len(Column(reportRows, "passed")) = Len(reportRows)
    BY <1>1, ColumnsAre
  <2>4. good \in [1..n -> Int]
    <3>1. \A k \in 1..n : good[k] \in Int
      BY <2>2, <2>3, TotalIsNumber
    <3> QED
      BY <2>1, <3>1
  <2>5. AreTotals(good, Column(reportRows, "passed"), reportRows, n, at)
    BY <2>2, <2>3, <2>4 DEF AreTotals
  <2> QED
    BY <1>1, <1>2, <2>5, SumsAreKept
<1>9. AddsUp(matrix)
  BY <1>4, <1>5, <1>7, <1>8, Zenon DEF AddsUp
<1> QED
  BY <1>9 DEF MatrixAddsUp, matrix

\* The matrix is the report, whatever the report: every row in a cell of its own, no case
\* counted twice or left out, totals and means those of the rows they are made of, the best
\* row first, and the card of a model one of them.
THEOREM MatrixIsTheReport == MatrixSpec => []MatrixAddsUp
<1>1. MatrixInv => MatrixAddsUp
  BY EveryMatrixAddsUp
<1> QED
  BY <1>1, ReportIsSorted, PTL

-----------------------------------------------------------------------------
(***************************************************************************)
(* The text of a body and its events.                                      *)
(***************************************************************************)

\* The symbols of a text.
Symbols == Payloads \cup {"data:", ":", "ping", "cr", "lf"}

\* j is the next symbol after i that is not "cr".
FollowedBy(text, i, j) ==
  /\ i < j /\ text[i] # "cr" /\ text[j] # "cr"
  /\ \A x \in DOMAIN text : i < x /\ x < j => text[x] = "cr"

\* An empty line at i and j.
Gap(text, i, j) == FollowedBy(text, i, j) /\ text[i] = "lf" /\ text[j] = "lf"

\* Where the payloads of an event are.
PayloadsAt(text, of, e) ==
  {i \in DOMAIN text : of[i] = e /\ i > 1 /\ text[i - 1] = "data:"}

\* The text of n events, of[i] the one its symbol i belongs to, that say what said lists.
IsBody(text, of, n, ended, said) ==
  /\ text \in Seq(Symbols) /\ n \in Nat /\ DOMAIN said = 1..n
  /\ \A i \in DOMAIN text : of[i] \in 1..n
  /\ \A i, j \in DOMAIN text : i <= j => of[i] <= of[j]
  /\ \A i \in DOMAIN text : text[i] = "cr" =>
       i + 1 \in DOMAIN text /\ of[i + 1] = of[i] /\ text[i + 1] = "lf"
  /\ \A i \in DOMAIN text : text[i] = "data:" =>
       /\ i + 1 \in DOMAIN text /\ of[i + 1] = of[i] /\ text[i + 1] \notin {"cr", "lf", "data:"}
  /\ \A i, j \in DOMAIN text : Gap(text, i, j) =>
       of[i] = of[j] /\ \A x \in DOMAIN text : j < x => of[j] < of[x]
  /\ \A e \in 1..n : ended \/ e < n =>
       \E i, j \in DOMAIN text : Gap(text, i, j) /\ of[i] = e /\ of[j] = e
  /\ \A e \in 1..n : Kept(text, PayloadsAt(text, of, e)) = said[e]

\* What has been read and not framed, when r symbols are read and k events framed.
Unframed(text, of, r, k) ==
  {i \in DOMAIN text : i <= r /\ of[i] > k /\ (text[i] # "cr" \/ i = r)}

\* Of the first k events all symbols have been read.
ReadOf(text, of, r, k) == \A i \in DOMAIN text : of[i] <= k => i <= r

\* A read is normalised to what the positions say.
LEMMA ReadIs ==
  ASSUME NEW text, NEW of, NEW n, NEW ended, NEW said, IsBody(text, of, n, ended, said),
         NEW r \in 0..Len(text), NEW k \in Nat, ReadOf(text, of, r, k),
         NEW q \in 0..Len(text), r < q
  PROVE  Normalized(Joined(Kept(text, Unframed(text, of, r, k)), Part(text, r + 1, q)))
           = Kept(text, Unframed(text, of, q, k))
<1> DEFINE B == Unframed(text, of, r, k)
           C == (r + 1)..q
           S == B \cup C
<1>1. /\ text \in Seq(Symbols) /\ Len(text) \in Nat /\ DOMAIN text = 1..Len(text)
      /\ \A i \in DOMAIN text : i \in Int
      /\ r \in Int /\ q \in Int
  BY DEF IsBody
<1>2. B \in SUBSET DOMAIN text /\ C \in SUBSET DOMAIN text /\ \A x \in B, y \in C : x < y
  <2>1. B \in SUBSET DOMAIN text
    BY DEF Unframed
  <2>2. C \in SUBSET DOMAIN text
    BY <1>1
  <2>3. \A x \in B : x <= r /\ x \in Int
    BY <1>1 DEF Unframed
  <2>4. \A y \in C : r + 1 <= y /\ y \in Int
    BY <1>1
  <2> HIDE DEF B, C
  <2> QED
    BY <1>1, <2>1, <2>2, <2>3, <2>4
<1>3. Part(text, r + 1, q) = Kept(text, C)
  BY <1>1, PartIsKept
<1> HIDE DEF B
<1>4. Joined(Kept(text, B), Kept(text, C)) = Kept(text, S)
  <2> HIDE DEF C
  <2> QED
    BY <1>1, <1>2, KeptJoins
<1>5. S \in SUBSET Int /\ IsFiniteSet(S) /\ S \in SUBSET DOMAIN text
  <2>1. S \in SUBSET DOMAIN text
    BY <1>2
  <2>2. IsFiniteSet(DOMAIN text)
    BY <1>1, FS_Interval
  <2> HIDE DEF S
  <2>3. IsFiniteSet(S)
    BY <2>1, <2>2, FS_Subset
  <2> QED
    BY <1>1, <2>1, <2>3
<1> DEFINE h == Sorted(S)
           m == Cardinality(S)
           kept == Kept(text, S)
           I == {i \in DOMAIN kept : ~(kept[i] = "cr" /\ i < Len(kept) /\ kept[i + 1] = "lf")}
<1>6. Lists(h, m, S)
  <2> HIDE DEF S
  <2> QED
    BY <1>5, SortedLists
<1>7. kept = [i \in 1..m |-> text[h[i]]]
  <2> HIDE DEF S, h, m
  <2> QED
    BY <1>6, KeptListed
<1>8. Normalized(kept) = Kept(kept, I)
  BY DEF Normalized
<1>9. /\ m \in Nat /\ h \in [1..m -> S] /\ \A x \in S : \E i \in 1..m : h[i] = x
      /\ \A i, j \in 1..m : i < j => h[i] < h[j]
  <2> HIDE DEF S, h, m
  <2> QED
    BY <1>6 DEF Lists
<1> HIDE DEF h, m
<1>10. DOMAIN kept = 1..m /\ Len(kept) = m
  BY <1>7, <1>9
<1> HIDE DEF kept
<1>11. I \in SUBSET (1..m)
  BY <1>10
<1>12. Kept(kept, I) = Kept(text, At(h, I))
  <2> HIDE DEF I, S
  <2> QED
    BY <1>6, <1>11, KeptOfKept DEF kept
<1>13. At(h, I) = Unframed(text, of, q, k)
  <2>1. \A x \in S : x \in DOMAIN text /\ x \in Int /\ x <= q /\ of[x] > k
    <3>1. \A x \in B : x <= q /\ of[x] > k
      BY <1>1 DEF B, Unframed
    <3>2. \A x \in C : x <= q /\ of[x] > k
      <4>1. ASSUME NEW x \in C
            PROVE  of[x] > k
        <5>1. x \in DOMAIN text /\ ~(x <= r)
          BY <1>1, <1>2
        <5>2. of[x] \in Int
          BY <5>1 DEF IsBody
        <5> QED
          BY <5>1, <5>2 DEF ReadOf
      <4> QED
        BY <4>1
    <3> HIDE DEF C
    <3> QED
      BY <1>1, <1>5, <3>1, <3>2
  <2>2. ASSUME NEW x \in DOMAIN text, x <= q, of[x] > k, text[x] # "cr" \/ x = q
        PROVE  x \in S
    <3>1. CASE x <= r
      BY <1>1, <2>2, <3>1 DEF B, Unframed
    <3>2. CASE ~(x <= r)
      BY <1>1, <2>2, <3>2
    <3> QED
      BY <3>1, <3>2
  <2> HIDE DEF S
  <2>3. ASSUME NEW i \in 1..m
        PROVE  i \in I <=> h[i] \in Unframed(text, of, q, k)
    <3>1. h[i] \in S /\ h[i] \in DOMAIN text /\ h[i] \in Int /\ h[i] <= q /\ of[h[i]] > k
      BY <1>9, <2>1
    <3>2. kept[i] = text[h[i]]
      BY <1>7 DEF kept
    <3>3. CASE text[h[i]] = "cr" /\ h[i] # q
      <4> DEFINE x == h[i] + 1
      <4>1. x \in DOMAIN text /\ of[x] = of[h[i]] /\ text[x] = "lf"
        BY <3>1, <3>3 DEF IsBody
      <4>2. x <= q /\ x \in Int
        BY <1>1, <3>1, <3>3
      <4>3. x \in S
        <5> HIDE DEF x
        <5> QED
          BY <2>2, <3>1, <4>1, <4>2
      <4>4. PICK j \in 1..m : h[j] = x
        BY <1>9, <4>3
      <4>5. i < j
        BY <1>9, <3>1, <4>4
      <4>6. j = i + 1
        <5>1. SUFFICES ASSUME i + 1 < j PROVE FALSE
          BY <1>9, <4>5
        <5>2. i + 1 \in 1..m /\ i < i + 1
          BY <1>9, <5>1
        <5>3. h[i] < h[i + 1] /\ h[i + 1] < h[j] /\ h[i + 1] \in Int
          BY <1>9, <2>1, <5>1, <5>2
        <5> QED
          BY <3>1, <4>4, <5>3
      <4>7. kept[i] = "cr" /\ i < Len(kept) /\ kept[i + 1] = "lf"
        <5>1. kept[i + 1] = text[h[i + 1]]
          BY <1>7, <4>6 DEF kept
        <5> QED
          BY <1>9, <1>10, <3>2, <3>3, <4>1, <4>4, <4>6, <5>1
      <4>8. h[i] \notin Unframed(text, of, q, k)
        BY <3>3 DEF Unframed
      <4> QED
        BY <4>7, <4>8
    <3>4. CASE text[h[i]] # "cr" \/ h[i] = q
      <4>1. h[i] \in Unframed(text, of, q, k)
        BY <3>1, <3>4 DEF Unframed
      <4>2. CASE text[h[i]] # "cr"
        BY <1>10, <3>2, <4>1, <4>2
      <4>3. CASE h[i] = q
        <5>1. ~(i < m)
          <6>1. SUFFICES ASSUME i < m PROVE FALSE
            OBVIOUS
          <6>2. i + 1 \in 1..m /\ i < i + 1
            BY <1>9, <6>1
          <6>3. h[i] < h[i + 1] /\ h[i + 1] <= q /\ h[i + 1] \in Int
            BY <1>9, <2>1, <6>2
          <6> QED
            BY <1>1, <3>1, <4>3, <6>3
        <5> QED
          BY <1>10, <4>1, <5>1
      <4> QED
        BY <3>4, <4>2, <4>3
    <3> QED
      BY <3>3, <3>4
  <2>4. ASSUME NEW x \in Unframed(text, of, q, k)
        PROVE  x \in At(h, I)
    <3>1. x \in S
      BY <2>2 DEF Unframed
    <3>2. PICK i \in 1..m : h[i] = x
      BY <1>9, <3>1
    <3>3. i \in I
      BY <2>3, <3>2
    <3> HIDE DEF I
    <3> QED
      BY <3>2, <3>3 DEF At
  <2>5. ASSUME NEW x \in At(h, I)
        PROVE  x \in Unframed(text, of, q, k)
    <3> HIDE DEF I
    <3>1. PICK i \in I : x = h[i]
      BY DEF At
    <3> QED
      BY <1>11, <2>3, <3>1
  <2> QED
    BY <2>4, <2>5
<1> QED
  BY <1>3, <1>4, <1>8, <1>12, <1>13 DEF kept, B

\* The data of a part that has each payload with its head.
LEMMA EventDataIs ==
  ASSUME NEW text, NEW of, NEW n, NEW ended, NEW said, IsBody(text, of, n, ended, said),
         NEW S \in SUBSET DOMAIN text,
         \A i \in S : i > 1 /\ text[i - 1] = "data:" => i - 1 \in S,
         \A i, j \in S : i < j /\ text[i] = "data:" => i + 1 \in S
  PROVE  EventData(Kept(text, S)) = Kept(text, {i \in S : i > 1 /\ text[i - 1] = "data:"})
<1>1. /\ text \in Seq(Symbols) /\ Len(text) \in Nat /\ DOMAIN text = 1..Len(text)
      /\ \A i \in DOMAIN text : i \in Int
  BY DEF IsBody
<1>2. S \in SUBSET Int /\ IsFiniteSet(S)
  <2>1. IsFiniteSet(DOMAIN text)
    BY <1>1, FS_Interval
  <2>2. IsFiniteSet(S)
    BY <2>1, FS_Subset
  <2> QED
    BY <1>1, <2>2
<1> DEFINE h == Sorted(S)
           m == Cardinality(S)
           kept == Kept(text, S)
           I == {i \in DOMAIN kept : i > 1 /\ kept[i - 1] = "data:"}
           D == {i \in S : i > 1 /\ text[i - 1] = "data:"}
<1>3. Lists(h, m, S)
  BY <1>2, SortedLists
<1> HIDE DEF h, m
<1>4. kept = [i \in 1..m |-> text[h[i]]]
  BY <1>3, KeptListed
<1>5. /\ m \in Nat /\ h \in [1..m -> S] /\ \A x \in S : \E i \in 1..m : h[i] = x
      /\ \A i, j \in 1..m : i < j => h[i] < h[j]
      /\ \A i \in 1..m : h[i] \in S /\ h[i] \in DOMAIN text /\ h[i] \in Int
  <2>1. /\ m \in Nat /\ h \in [1..m -> S] /\ \A x \in S : \E i \in 1..m : h[i] = x
        /\ \A i, j \in 1..m : i < j => h[i] < h[j]
    BY <1>3 DEF Lists
  <2> QED
    BY <1>1, <2>1
<1>6. EventData(kept) = Kept(kept, I)
  BY DEF EventData
<1> HIDE DEF kept
<1>7. DOMAIN kept = 1..m
  BY <1>4
<1>8. I \in SUBSET (1..m)
  BY <1>7
<1>9. Kept(kept, I) = Kept(text, At(h, I))
  <2> HIDE DEF I
  <2> QED
    BY <1>3, <1>8, KeptOfKept DEF kept
<1>10. ASSUME NEW i \in 1..m
       PROVE  i \in I <=> h[i] \in D
  <2>1. CASE i \in I
    <3>1. i - 1 \in 1..m /\ i - 1 < i /\ kept[i - 1] = "data:"
      BY <1>5, <1>7, <2>1
    <3>2. text[h[i - 1]] = "data:" /\ h[i - 1] < h[i]
      BY <1>4, <1>5, <3>1
    <3>3. h[i - 1] + 1 \in S
      BY <1>5, <3>1, <3>2
    <3>4. PICK j \in 1..m : h[j] = h[i - 1] + 1
      BY <1>5, <3>3
    <3>5. j = i
      <4>1. i - 1 < j
        <5>1. j < i - 1 => h[j] < h[i - 1]
          BY <1>5, <3>1
        <5> QED
          BY <1>5, <3>1, <3>4, <5>1
      <4>2. ~(i < j)
        <5>1. i < j => h[i] < h[j]
          BY <1>5
        <5>2. h[i] \in Int /\ h[i - 1] \in Int
          BY <1>5, <3>1
        <5> QED
          BY <3>2, <3>4, <5>1, <5>2
      <4> QED
        BY <1>5, <4>1, <4>2
    <3>6. h[i] - 1 = h[i - 1] /\ h[i] > 1
      BY <1>1, <1>5, <3>1, <3>4, <3>5
    <3> QED
      BY <1>5, <2>1, <3>2, <3>6
  <2>2. CASE h[i] \in D
    <3>1. h[i] - 1 \in S /\ text[h[i] - 1] = "data:"
      BY <1>5, <2>2
    <3>2. PICK j \in 1..m : h[j] = h[i] - 1
      BY <1>5, <3>1
    <3>3. j < i
      <4>1. i < j => h[i] < h[j]
        BY <1>5
      <4>2. i \in Int /\ j \in Int /\ h[i] \in Int
        BY <1>5
      <4> QED
        BY <3>2, <4>1, <4>2
    <3>4. j = i - 1
      <4>1. SUFFICES ASSUME j + 1 < i PROVE FALSE
        BY <1>5, <3>3
      <4>2. j + 1 \in 1..m /\ j < j + 1
        BY <1>5, <4>1
      <4>3. h[j] < h[j + 1] /\ h[j + 1] < h[i] /\ h[j + 1] \in Int /\ h[i] \in Int
        BY <1>5, <4>1, <4>2
      <4> QED
        BY <3>2, <4>3
    <3>5. kept[i - 1] = "data:" /\ i > 1
      BY <1>4, <1>5, <3>1, <3>2, <3>4
    <3> QED
      BY <1>7, <2>2, <3>5
  <2> QED
    BY <2>1, <2>2
<1> HIDE DEF I
<1>11. At(h, I) = D
  <2>1. ASSUME NEW x \in D
        PROVE  x \in At(h, I)
    <3>1. PICK i \in 1..m : h[i] = x
      BY <1>5
    <3> HIDE DEF D
    <3> QED
      BY <1>10, <3>1 DEF At
  <2>2. ASSUME NEW x \in At(h, I)
        PROVE  x \in D
    <3>1. PICK i \in I : x = h[i]
      BY DEF At
    <3> HIDE DEF D
    <3> QED
      BY <1>8, <1>10, <3>1
  <2> QED
    BY <2>1, <2>2
<1> QED
  BY <1>6, <1>9, <1>11 DEF kept

\* What there is in the buffer, by the positions it has in the text.
Buffers(b, text, of, r, k, h, m) ==
  /\ Lists(h, m, Unframed(text, of, r, k))
  /\ b = [i \in 1..m |-> text[h[i]]] /\ b = Kept(text, Unframed(text, of, r, k))
  /\ \A i \in 1..m : /\ h[i] \in DOMAIN text /\ h[i] \in Int /\ h[i] <= r /\ of[h[i]] > k
                     /\ text[h[i]] # "cr" \/ h[i] = r
  /\ \A x \in DOMAIN text : x <= r /\ of[x] > k /\ text[x] # "cr" => \E i \in 1..m : h[i] = x

\* The buffer has such positions: those that are read and not framed.
LEMMA BufferIs ==
  ASSUME NEW text, NEW of, NEW n, NEW ended, NEW said, IsBody(text, of, n, ended, said),
         NEW r \in 0..Len(text), NEW k \in Nat
  PROVE  \E h, m : Buffers(Kept(text, Unframed(text, of, r, k)), text, of, r, k, h, m)
<1> DEFINE S == Unframed(text, of, r, k)
           h == Sorted(S)
           m == Cardinality(S)
<1>1. /\ text \in Seq(Symbols) /\ Len(text) \in Nat /\ DOMAIN text = 1..Len(text)
      /\ \A i \in DOMAIN text : i \in Int
  BY DEF IsBody
<1>2. S \in SUBSET DOMAIN text /\ S \in SUBSET Int /\ IsFiniteSet(S)
  <2>1. IsFiniteSet(DOMAIN text)
    BY <1>1, FS_Interval
  <2>2. S \in SUBSET DOMAIN text
    BY DEF Unframed
  <2> HIDE DEF S
  <2>3. IsFiniteSet(S)
    BY <2>1, <2>2, FS_Subset
  <2> QED
    BY <1>1, <2>2, <2>3
<1>3. /\ \A x \in S : /\ x \in DOMAIN text /\ x \in Int /\ x <= r /\ of[x] > k
                      /\ text[x] # "cr" \/ x = r
      /\ \A x \in DOMAIN text : x <= r /\ of[x] > k /\ text[x] # "cr" => x \in S
  BY <1>1 DEF Unframed
<1> HIDE DEF S, h, m
<1>4. Lists(h, m, S)
  BY <1>2, SortedLists DEF h, m
<1>5. Kept(text, S) = [i \in 1..m |-> text[h[i]]]
  BY <1>4, KeptListed
<1>6. h \in [1..m -> S] /\ \A x \in S : \E i \in 1..m : h[i] = x
  BY <1>4 DEF Lists
<1>7. \A i \in 1..m : /\ h[i] \in DOMAIN text /\ h[i] \in Int /\ h[i] <= r /\ of[h[i]] > k
                      /\ text[h[i]] # "cr" \/ h[i] = r
  BY <1>3, <1>6
<1>8. \A x \in DOMAIN text : x <= r /\ of[x] > k /\ text[x] # "cr" => \E i \in 1..m : h[i] = x
  BY <1>3, <1>6
<1>9. Buffers(Kept(text, S), text, of, r, k, h, m)
  BY <1>4, <1>5, <1>7, <1>8 DEF Buffers, S
<1> QED
  BY <1>9 DEF S

\* The order in which the buffer lists its positions.
LEMMA BufferOrder ==
  ASSUME NEW b, NEW text, NEW of, NEW r, NEW k, NEW h, NEW m, Buffers(b, text, of, r, k, h, m)
  PROVE  /\ m \in Nat /\ DOMAIN b = 1..m /\ Len(b) = m
         /\ \A i \in 1..m : b[i] = text[h[i]] /\ h[i] \in DOMAIN text /\ h[i] \in Int
                            /\ h[i] <= r /\ of[h[i]] > k
         /\ \A i, j \in 1..m : i < j <=> h[i] < h[j]
<1>1. /\ m \in Nat /\ b = [i \in 1..m |-> text[h[i]]]
      /\ \A i \in 1..m : h[i] \in DOMAIN text /\ h[i] \in Int /\ h[i] <= r /\ of[h[i]] > k
      /\ \A i, j \in 1..m : i < j => h[i] < h[j]
  BY DEF Buffers, Lists
<1>2. ASSUME NEW i \in 1..m, NEW j \in 1..m, h[i] < h[j]
      PROVE  i < j
  <2>1. j < i => h[j] < h[i]
    BY <1>1
  <2>2. i \in Int /\ j \in Int /\ h[i] \in Int /\ h[j] \in Int /\ (i = j => h[i] = h[j])
    BY <1>1
  <2> QED
    BY <1>2, <2>1, <2>2
<1> QED
  BY <1>1, <1>2

\* A break in the buffer is an empty line of the text ...
LEMMA BreakIsGap ==
  ASSUME NEW text, NEW of, NEW n, NEW ended, NEW said, IsBody(text, of, n, ended, said),
         NEW r \in 0..Len(text), NEW k \in Nat,
         NEW h, NEW m, Buffers(buffer, text, of, r, k, h, m), NEW a \in Breaks
  PROVE  a \in 1..m /\ a + 1 \in 1..m /\ Gap(text, h[a], h[a + 1])
<1>1. /\ m \in Nat /\ Len(buffer) = m /\ r \in Int
      /\ \A i \in 1..m : buffer[i] = text[h[i]] /\ h[i] \in DOMAIN text /\ h[i] \in Int
                         /\ h[i] <= r /\ of[h[i]] > k
      /\ \A i, j \in 1..m : i < j <=> h[i] < h[j]
  BY BufferOrder
<1>2. a \in 1..m /\ a + 1 \in 1..m /\ a < a + 1 /\ buffer[a] = "lf" /\ buffer[a + 1] = "lf"
  BY <1>1 DEF Breaks
<1>3. text[h[a]] = "lf" /\ text[h[a + 1]] = "lf" /\ h[a] < h[a + 1]
  BY <1>1, <1>2
<1>4. ASSUME NEW x \in DOMAIN text, h[a] < x, x < h[a + 1], text[x] # "cr"
      PROVE  FALSE
  <2>1. x \in Int /\ of[x] \in Int /\ of[h[a]] \in Int
    BY <1>1, <1>2 DEF IsBody
  <2>2. of[h[a]] <= of[x]
    <3>1. h[a] <= x
      BY <1>1, <1>2, <1>4, <2>1
    <3> QED
      BY <1>1, <1>2, <3>1 DEF IsBody
  <2>3. x <= r /\ of[x] > k
    BY <1>1, <1>2, <1>4, <2>1, <2>2
  <2>4. PICK c \in 1..m : h[c] = x
    BY <1>4, <2>3 DEF Buffers
  <2>5. a < c /\ c < a + 1
    BY <1>1, <1>2, <1>4, <2>4
  <2> QED
    BY <1>2, <2>4, <2>5
<1> QED
  BY <1>2, <1>3, <1>4 DEF Gap, FollowedBy

\* ... and an empty line that has been read and not framed is a break.
LEMMA GapIsBreak ==
  ASSUME NEW text, NEW of, NEW n, NEW ended, NEW said, IsBody(text, of, n, ended, said),
         NEW r \in 0..Len(text), NEW k \in Nat,
         NEW h, NEW m, Buffers(buffer, text, of, r, k, h, m),
         NEW i \in DOMAIN text, NEW j \in DOMAIN text, Gap(text, i, j), of[i] > k, j <= r
  PROVE  \E a \in Breaks : h[a] = i /\ h[a + 1] = j
<1>1. /\ m \in Nat /\ Len(buffer) = m /\ r \in Int
      /\ \A c \in 1..m : buffer[c] = text[h[c]] /\ h[c] \in DOMAIN text /\ h[c] \in Int
                         /\ h[c] <= r /\ of[h[c]] > k
      /\ \A c, d \in 1..m : c < d <=> h[c] < h[d]
  BY BufferOrder
<1>2. /\ i < j /\ text[i] = "lf" /\ text[j] = "lf"
      /\ \A x \in DOMAIN text : i < x /\ x < j => text[x] = "cr"
  BY DEF Gap, FollowedBy
<1>3. of[j] > k /\ i \in Int /\ j \in Int
  <2>1. i \in Int /\ j \in Int /\ of[i] \in Int /\ of[j] \in Int
    BY DEF IsBody
  <2>2. i <= j
    BY <1>2, <2>1
  <2>3. of[i] <= of[j]
    BY <2>2 DEF IsBody
  <2> QED
    BY <2>1, <2>3
<1>4. PICK a \in 1..m : h[a] = i
  <2>1. i <= r
    BY <1>1, <1>2, <1>3
  <2> QED
    BY <1>2, <2>1 DEF Buffers
<1>5. PICK b \in 1..m : h[b] = j
  BY <1>2, <1>3 DEF Buffers
<1>6. a < b
  BY <1>2, <1>4, <1>5, <1>1
<1>7. b = a + 1
  <2>1. SUFFICES ASSUME a + 1 < b PROVE FALSE
    BY <1>1, <1>6
  <2>2. a + 1 \in 1..m /\ a < a + 1
    BY <1>1, <2>1
  <2>3. i < h[a + 1] /\ h[a + 1] < j
    BY <1>1, <1>4, <1>5, <2>1, <2>2
  <2>4. text[h[a + 1]] = "cr"
    BY <1>1, <1>2, <2>2, <2>3
  <2>5. h[a + 1] = r
    BY <2>2, <2>4 DEF Buffers
  <2> QED
    BY <1>1, <1>3, <2>3, <2>5
<1>8. a \in Breaks
  <2>1. a \in 1..(m - 1) /\ buffer[a] = "lf" /\ buffer[a + 1] = "lf"
    BY <1>1, <1>2, <1>4, <1>5, <1>7
  <2> QED
    BY <1>1, <2>1 DEF Breaks
<1> QED
  BY <1>4, <1>5, <1>7, <1>8

\* The data of the front of the buffer are the payloads at the positions it lists.
LEMMA FrontDataIs ==
  ASSUME NEW text, NEW of, NEW n, NEW ended, NEW said, IsBody(text, of, n, ended, said),
         NEW r \in 0..Len(text), NEW k \in Nat,
         NEW h, NEW m, Buffers(buffer, text, of, r, k, h, m), NEW c \in 0..m
  PROVE  EventData(Part(buffer, 1, c))
           = Kept(text, {i \in At(h, 1..c) : i > 1 /\ text[i - 1] = "data:"})
<1>1. /\ m \in Nat /\ r \in Int /\ c \in Int
      /\ \A i \in 1..m : h[i] \in DOMAIN text /\ h[i] \in Int
                         /\ h[i] <= r /\ of[h[i]] > k
      /\ \A i, j \in 1..m : i < j <=> h[i] < h[j]
  BY BufferOrder
<1> DEFINE S == At(h, 1..c)
           B == Unframed(text, of, r, k)
<1>2. Part(buffer, 1, c) = Kept(text, S)
  <2>1. Lists(h, m, B) /\ buffer = Kept(text, B) /\ 1 <= 1 /\ c <= m
    BY <1>1 DEF Buffers
  <2> HIDE DEF B
  <2> QED
    BY <1>1, <2>1, SubSeqKept
<1>3. S \in SUBSET DOMAIN text
  <2>1. \A i \in 1..c : i \in 1..m
    BY <1>1
  <2>2. \A i \in 1..c : h[i] \in DOMAIN text
    BY <1>1, <2>1
  <2> QED
    BY <2>2 DEF At
<1>4. ASSUME NEW i \in S, i > 1, text[i - 1] = "data:"
      PROVE  i - 1 \in S
  <2>1. PICK a \in 1..c : i = h[a]
    BY DEF At
  <2>2. a \in 1..m /\ i \in DOMAIN text /\ i \in Int /\ i <= r /\ of[i] > k
    BY <1>1, <2>1
  <2> DEFINE x == i - 1
  <2>3. x \in DOMAIN text /\ x + 1 = i /\ x \in Int /\ x < i /\ x <= r
    <3>1. DOMAIN text = 1..Len(text) /\ Len(text) \in Nat
      BY DEF IsBody
    <3> QED
      BY <1>1, <1>4, <2>2, <3>1
  <2>4. of[i] = of[x] /\ text[x] # "cr"
    <3>1. text[x] = "data:"
      BY <1>4
    <3> HIDE DEF x
    <3> QED
      BY <2>3, <3>1 DEF IsBody
  <2> HIDE DEF x
  <2>5. PICK b \in 1..m : h[b] = x
    BY <2>2, <2>3, <2>4 DEF Buffers
  <2>6. b < a
    BY <1>1, <2>1, <2>2, <2>3, <2>5
  <2>7. b \in 1..c
    BY <1>1, <2>1, <2>5, <2>6
  <2> QED
    BY <2>5, <2>7 DEF At, x
<1>5. ASSUME NEW i \in S, NEW j \in S, i < j, text[i] = "data:"
      PROVE  i + 1 \in S
  <2>1. PICK a \in 1..c : i = h[a]
    BY DEF At
  <2>2. PICK b \in 1..c : j = h[b]
    BY DEF At
  <2>3. /\ b \in 1..m /\ j \in Int /\ j <= r
        /\ a \in 1..m /\ i \in DOMAIN text /\ i \in Int /\ of[i] > k
    BY <1>1, <2>1, <2>2
  <2> DEFINE x == i + 1
  <2>4. x \in DOMAIN text /\ of[x] = of[i] /\ text[x] # "cr"
    BY <1>5, <2>3 DEF IsBody
  <2>5. x \in Int /\ x <= j /\ x <= r
    BY <1>1, <1>5, <2>3
  <2> HIDE DEF x
  <2>6. PICK d \in 1..m : h[d] = x
    BY <2>3, <2>4, <2>5 DEF Buffers
  <2>7. ~(b < d)
    BY <1>1, <2>2, <2>3, <2>5, <2>6
  <2>8. d \in 1..c
    BY <1>1, <2>2, <2>6, <2>7
  <2> QED
    BY <2>6, <2>8 DEF At, x
<1> HIDE DEF S
<1>6. EventData(Kept(text, S)) = Kept(text, {i \in S : i > 1 /\ text[i - 1] = "data:"})
  BY <1>3, <1>4, <1>5, EventDataIs
<1> QED
  BY <1>2, <1>6 DEF S

\* The first break ends the first event that is not framed yet.
LEMMA NextIs ==
  ASSUME NEW text, NEW of, NEW n, NEW ended, NEW said, IsBody(text, of, n, ended, said),
         NEW r \in 0..Len(text), NEW k \in Nat, ReadOf(text, of, r, k),
         buffer = Kept(text, Unframed(text, of, r, k)), Breaks # {}
  PROVE  LET end == Min(Breaks)
         IN /\ k + 1 \in 1..n /\ ReadOf(text, of, r, k + 1)
            /\ EventData(Part(buffer, 1, end - 1)) = said[k + 1]
            /\ Part(buffer, end + 2, Len(buffer)) = Kept(text, Unframed(text, of, r, k + 1))
<1> DEFINE end == Min(Breaks)
<1>1. PICK h, m : Buffers(buffer, text, of, r, k, h, m)
  BY BufferIs
<1>2. /\ m \in Nat /\ Len(buffer) = m /\ r \in Int /\ k \in Int
      /\ \A i \in 1..m : buffer[i] = text[h[i]] /\ h[i] \in DOMAIN text /\ h[i] \in Int
                         /\ h[i] <= r /\ of[h[i]] > k
      /\ \A i, j \in 1..m : i < j <=> h[i] < h[j]
  BY <1>1, BufferOrder
<1>3. end \in Breaks /\ \A a \in Breaks : end <= a
  <2>1. Breaks \in SUBSET Nat
    BY <1>2 DEF Breaks
  <2>2. \E a \in Breaks : \A c \in Breaks : a <= c
    BY <2>1, LeastExists
  <2> HIDE DEF Breaks
  <2> QED
    BY <2>2 DEF Min
<1> HIDE DEF end, Breaks
<1>4. end \in 1..m /\ end + 1 \in 1..m /\ Gap(text, h[end], h[end + 1])
  BY <1>1, <1>3, BreakIsGap
<1> DEFINE i == h[end]
           j == h[end + 1]
           e == of[i]
<1>5. i \in DOMAIN text /\ j \in DOMAIN text /\ i \in Int /\ j \in Int /\ j <= r /\ e > k
  BY <1>2, <1>4
<1>6. /\ i < j /\ text[i] = "lf" /\ text[j] = "lf"
      /\ \A x \in DOMAIN text : i < x /\ x < j => text[x] = "cr"
  BY <1>4 DEF Gap, FollowedBy
<1>7. e \in 1..n /\ n \in Nat /\ of[j] = e /\ \A x \in DOMAIN text : j < x => e < of[x]
  BY <1>4, <1>5 DEF IsBody
<1>8. e = k + 1
  <2>1. SUFFICES ASSUME k + 1 < e PROVE FALSE
    BY <1>2, <1>5, <1>7
  <2>2. k + 1 \in 1..n /\ k + 1 < n
    BY <1>2, <1>7, <2>1
  <2>3. PICK x \in DOMAIN text, y \in DOMAIN text :
          Gap(text, x, y) /\ of[x] = k + 1 /\ of[y] = k + 1
    BY <2>2 DEF IsBody
  <2>4. y < i
    <3>1. i <= y => e <= of[y]
      BY <1>5 DEF IsBody
    <3>2. y \in Int
      BY DEF IsBody
    <3> QED
      BY <1>2, <1>5, <1>7, <2>1, <2>3, <3>1, <3>2
  <2>5. of[x] > k /\ y <= r /\ y \in Int /\ x < y /\ x \in Int
    <3>1. x < y /\ x \in Int /\ y \in Int
      BY <2>3 DEF Gap, FollowedBy, IsBody
    <3> QED
      BY <1>2, <1>5, <1>6, <2>3, <2>4, <3>1
  <2> HIDE DEF i, j, e
  <2>6. PICK a \in Breaks : h[a] = x /\ h[a + 1] = y
    BY <1>1, <2>3, <2>5, GapIsBreak
  <2>7. end <= a /\ a \in 1..m
    <3>1. a \in 1..m
      BY <1>1, BreakIsGap
    <3> QED
      BY <1>3, <3>1
  <2>8. h[a] < h[end]
    BY <1>5, <2>4, <2>5, <2>6 DEF i
  <2>9. a < end
    BY <1>2, <1>4, <2>7, <2>8
  <2> QED
    BY <1>2, <1>4, <2>7, <2>9
<1>9. k + 1 \in 1..n
  BY <1>7, <1>8
<1>10. ReadOf(text, of, r, k + 1)
  <2>1. ASSUME NEW x \in DOMAIN text, of[x] <= k + 1
        PROVE  x <= r
    <3>1. x \in Int /\ of[x] \in Int
      BY DEF IsBody
    <3>2. ~(j < x)
      BY <1>7, <1>8, <2>1, <3>1
    <3> QED
      BY <1>2, <1>5, <3>1, <3>2
  <2> QED
    BY <2>1 DEF ReadOf
<1>11. EventData(Part(buffer, 1, end - 1)) = said[k + 1]
  <2> DEFINE c == end - 1
             S == At(h, 1..c)
             D == {x \in S : x > 1 /\ text[x - 1] = "data:"}
  <2>1. c \in 0..m
    BY <1>2, <1>4
  <2> HIDE DEF c
  <2>2. EventData(Part(buffer, 1, c)) = Kept(text, D)
    BY <1>1, <2>1, FrontDataIs
  <2>3. D = PayloadsAt(text, of, k + 1)
    <3>1. ASSUME NEW x \in D
          PROVE  x \in PayloadsAt(text, of, k + 1)
      <4>1. PICK a \in 1..c : x = h[a]
        BY DEF At
      <4>2. a \in 1..m /\ a < end
        BY <1>2, <1>4, <2>1, <4>1 DEF c
      <4>3. x \in DOMAIN text /\ x \in Int /\ of[x] > k /\ x < i
        BY <1>2, <1>4, <4>1, <4>2
      <4>4. of[x] <= e /\ of[x] \in Int
        BY <1>5, <4>3 DEF IsBody
      <4>5. of[x] = k + 1
        BY <1>2, <1>8, <4>3, <4>4
      <4> QED
        BY <4>3, <4>5 DEF PayloadsAt
    <3>2. ASSUME NEW x \in PayloadsAt(text, of, k + 1)
          PROVE  x \in D
      <4>1. x \in DOMAIN text /\ x \in Int /\ of[x] = k + 1 /\ x > 1 /\ text[x - 1] = "data:"
        BY DEF PayloadsAt, IsBody
      <4>2. text[x] \notin {"cr", "lf"}
        <5> DEFINE y == x - 1
        <5>1. y \in DOMAIN text /\ y + 1 = x
          <6>1. DOMAIN text = 1..Len(text) /\ Len(text) \in Nat
            BY DEF IsBody
          <6> QED
            BY <4>1, <6>1
        <5>2. text[y] = "data:"
          BY <4>1
        <5> HIDE DEF y
        <5> QED
          BY <5>1, <5>2 DEF IsBody
      <4>3. x <= r
        BY <1>2, <1>10, <4>1 DEF ReadOf
      <4>4. x < i
        <5>1. x # i /\ x # j /\ ~(i < x /\ x < j)
          BY <1>6, <4>1, <4>2
        <5>2. ~(j < x)
          BY <1>7, <1>8, <4>1
        <5> QED
          BY <1>5, <4>1, <5>1, <5>2
      <4>5. PICK a \in 1..m : h[a] = x
        <5>1. of[x] > k /\ text[x] # "cr"
          BY <1>2, <4>1, <4>2
        <5> HIDE DEF i, j, e, S, D
        <5> QED
          BY <1>1, <4>1, <4>3, <5>1 DEF Buffers
      <4>6. a < end
        BY <1>2, <1>4, <4>4, <4>5
      <4>7. a \in 1..c
        BY <1>2, <1>4, <4>6 DEF c
      <4>8. x \in S
        BY <4>5, <4>7 DEF At
      <4> QED
        BY <4>1, <4>8
    <3> QED
      BY <3>1, <3>2
  <2>4. Kept(text, PayloadsAt(text, of, k + 1)) = said[k + 1]
    BY <1>9 DEF IsBody
  <2> QED
    BY <2>2, <2>3, <2>4 DEF c
<1>12. Part(buffer, end + 2, Len(buffer)) = Kept(text, Unframed(text, of, r, k + 1))
  <2> DEFINE c == end + 2
             B == Unframed(text, of, r, k)
             S == At(h, c..m)
  <2>1. c \in Int /\ 1 <= c /\ m <= m /\ m \in Int
    BY <1>2, <1>4
  <2>2. Part(buffer, c, m) = Kept(text, S)
    <3>1. Lists(h, m, B) /\ buffer = Kept(text, B)
      BY <1>1 DEF Buffers
    <3> HIDE DEF B, c
    <3> QED
      BY <2>1, <3>1, SubSeqKept
  <2>3. S = Unframed(text, of, r, k + 1)
    <3>1. ASSUME NEW x \in S
          PROVE  x \in Unframed(text, of, r, k + 1)
      <4>1. PICK a \in c..m : x = h[a]
        BY DEF At
      <4>2. a \in 1..m /\ end + 1 < a
        BY <1>2, <1>4, <4>1
      <4>3. x \in DOMAIN text /\ x <= r /\ (text[x] # "cr" \/ x = r) /\ x \in Int
        BY <1>1, <4>1, <4>2 DEF Buffers
      <4>4. j < x
        BY <1>2, <1>4, <4>1, <4>2
      <4>5. of[x] > k + 1
        <5>1. e < of[x] /\ of[x] \in Int
          BY <1>7, <4>3, <4>4 DEF IsBody
        <5> QED
          BY <1>8, <5>1, <1>2
      <4> QED
        BY <4>3, <4>5 DEF Unframed
    <3>2. ASSUME NEW x \in Unframed(text, of, r, k + 1)
          PROVE  x \in S
      <4>1. /\ x \in DOMAIN text /\ x \in Int /\ of[x] \in Int /\ x <= r /\ of[x] > k + 1
            /\ text[x] # "cr" \/ x = r
        BY DEF Unframed, IsBody
      <4>2. x \in B
        BY <1>2, <4>1 DEF Unframed
      <4>3. PICK a \in 1..m : h[a] = x
        <5>1. Lists(h, m, B)
          BY <1>1 DEF Buffers
        <5> QED
          BY <4>2, <5>1 DEF Lists
      <4>4. ~(x <= j)
        <5>1. x <= j => of[x] <= of[j]
          BY <1>5, <4>1 DEF IsBody
        <5> QED
          BY <1>2, <1>7, <1>8, <4>1, <5>1
      <4>5. end + 1 < a
        <5>1. h[end + 1] < h[a]
          BY <1>5, <4>1, <4>3, <4>4
        <5> QED
          BY <1>2, <1>4, <4>3, <5>1
      <4>6. a \in c..m
        BY <1>2, <1>4, <4>5
      <4> QED
        BY <4>3, <4>6 DEF At
    <3> QED
      BY <3>1, <3>2
  <2> QED
    BY <1>2, <2>2, <2>3
<1> QED
  BY <1>9, <1>10, <1>11, <1>12 DEF end

\* What is left when all has been read is the last event without its empty line, or nothing.
LEMMA LastIs ==
  ASSUME NEW text, NEW of, NEW n, NEW ended, NEW said, IsBody(text, of, n, ended, said),
         NEW k \in 0..n, ReadOf(text, of, Len(text), k),
         buffer = Kept(text, Unframed(text, of, Len(text), k)), Breaks = {}
  PROVE  /\ k < n => k + 1 = n /\ EventData(buffer) = said[n]
         /\ k = n => EventData(buffer) = <<>>
<1> DEFINE r == Len(text)
<1>1. PICK h, m : Buffers(buffer, text, of, r, k, h, m)
  <2>1. k \in Nat /\ r \in 0..Len(text)
    BY DEF IsBody
  <2> HIDE DEF r
  <2> QED
    BY <2>1, BufferIs DEF r
<1>2. /\ r \in 0..Len(text) /\ k \in Nat /\ r \in Int /\ n \in Nat
      /\ DOMAIN text = 1..r /\ \A x \in DOMAIN text : x \in Int /\ x <= r /\ of[x] \in 1..n
  BY DEF IsBody
<1> HIDE DEF r
<1>3. /\ m \in Nat /\ Len(buffer) = m /\ DOMAIN buffer = 1..m
      /\ \A i \in 1..m : buffer[i] = text[h[i]] /\ h[i] \in DOMAIN text /\ h[i] \in Int
                         /\ h[i] <= r /\ of[h[i]] > k
      /\ \A i, j \in 1..m : i < j <=> h[i] < h[j]
  BY <1>1, BufferOrder
<1> DEFINE S == At(h, 1..m)
           D == {x \in S : x > 1 /\ text[x - 1] = "data:"}
<1>4. Part(buffer, 1, m) = buffer
  <2> DEFINE V == {text[h[i]] : i \in 1..m}
  <2>1. buffer = [i \in 1..m |-> text[h[i]]]
    BY <1>1 DEF Buffers
  <2>2. \A i \in 1..m : text[h[i]] \in V
    OBVIOUS
  <2> HIDE DEF V
  <2>3. buffer \in Seq(V)
    BY <1>3, <2>1, <2>2
  <2> DEFINE part == Part(buffer, 1, m)
  <2>4. part \in Seq(V) /\ Len(part) = m /\ \A i \in 1..m : part[i] = buffer[i]
    BY <1>3, <2>3 DEF Part
  <2> HIDE DEF part
  <2>5. part = buffer
    BY <1>3, <2>3, <2>4
  <2> QED
    BY <2>5 DEF part
<1>5. EventData(buffer) = Kept(text, D)
  <2>1. m \in 0..m
    BY <1>3
  <2>2. EventData(Part(buffer, 1, m)) = Kept(text, D)
    BY <1>1, <1>2, <2>1, FrontDataIs
  <2> QED
    BY <1>4, <2>2
<1>6. ASSUME k < n
      PROVE  k + 1 = n
  <2>1. SUFFICES ASSUME k + 1 < n PROVE FALSE
    BY <1>2, <1>6
  <2>2. k + 1 \in 1..n
    BY <1>2, <2>1
  <2>3. PICK i \in DOMAIN text, j \in DOMAIN text :
          Gap(text, i, j) /\ of[i] = k + 1 /\ of[j] = k + 1
    BY <2>1, <2>2 DEF IsBody
  <2>4. of[i] > k /\ j <= r
    BY <1>2, <2>3
  <2> QED
    BY <1>1, <1>2, <2>3, <2>4, GapIsBreak
<1>7. ASSUME k < n
      PROVE  EventData(buffer) = said[n]
  <2>1. D = PayloadsAt(text, of, n)
    <3>1. ASSUME NEW x \in D
          PROVE  x \in PayloadsAt(text, of, n)
      <4>1. PICK a \in 1..m : x = h[a]
        BY DEF At
      <4>2. x \in DOMAIN text /\ of[x] > k
        BY <1>3, <4>1
      <4>3. of[x] = n
        BY <1>2, <1>6, <1>7, <4>2
      <4> QED
        BY <4>2, <4>3 DEF PayloadsAt
    <3>2. ASSUME NEW x \in PayloadsAt(text, of, n)
          PROVE  x \in D
      <4>1. x \in DOMAIN text /\ x \in Int /\ of[x] = n /\ x > 1 /\ text[x - 1] = "data:"
        BY <1>2 DEF PayloadsAt
      <4>2. text[x] # "cr"
        <5> DEFINE y == x - 1
        <5>1. y \in DOMAIN text /\ y + 1 = x
          BY <1>2, <4>1
        <5>2. text[y] = "data:"
          BY <4>1
        <5> HIDE DEF y
        <5> QED
          BY <5>1, <5>2 DEF IsBody
      <4>3. PICK a \in 1..m : h[a] = x
        BY <1>1, <1>2, <1>7, <4>1, <4>2 DEF Buffers
      <4> QED
        BY <4>1, <4>3 DEF At
    <3> QED
      BY <3>1, <3>2
  <2>2. Kept(text, PayloadsAt(text, of, n)) = said[n]
    BY <1>2, <1>7 DEF IsBody
  <2> QED
    BY <1>5, <2>1, <2>2
<1>8. ASSUME k = n
      PROVE  EventData(buffer) = <<>>
  <2>1. D = {}
    <3>1. ASSUME NEW x \in S
          PROVE  FALSE
      <4>1. PICK a \in 1..m : x = h[a]
        BY DEF At
      <4>2. x \in DOMAIN text /\ of[x] > k
        BY <1>3, <4>1
      <4> QED
        BY <1>2, <1>8, <4>2
    <3> QED
      BY <3>1
  <2>2. Kept(text, {}) = <<>>
    <3>1. text \in Seq(Symbols)
      BY DEF IsBody
    <3>2. {} \in SUBSET DOMAIN text
      OBVIOUS
    <3> QED
      BY <3>1, <3>2, KeptIs
  <2> QED
    BY <1>5, <2>1, <2>2
<1> QED
  BY <1>6, <1>7, <1>8

-----------------------------------------------------------------------------
(***************************************************************************)
(* How the server lays a body out.                                         *)
(***************************************************************************)

\* The events of a body are not empty, and each line is a payload or a heartbeat.
AreEvents(events) ==
  /\ events \in Seq(Seq(Lines))
  /\ \A e \in DOMAIN events : Len(events[e]) \in 1..MaxLines

\* Event e has a symbol at column c of line l, when line ends have width symbols.
HasPlace(events, width, ended, e, l, c) ==
  /\ e \in DOMAIN events
  /\ \/ l \in 1..Len(events[e]) /\ c \in 1..(2 + width)
     \/ l = Len(events[e]) + 1 /\ c \in 1..width /\ (ended \/ e < Len(events))

\* The last column of a line.
LastColumn(events, width, e, l) == IF l <= Len(events[e]) THEN 2 + width ELSE width

\* What of, line and column say of i comes before what they say of j.
Earlier(of, line, column, i, j) ==
  \/ of[i] < of[j]
  \/ of[i] = of[j] /\ line[i] < line[j]
  \/ of[i] = of[j] /\ line[i] = line[j] /\ column[i] < column[j]

\* of, line and column are the places of the symbols of text.
IsLayout(text, of, line, column, events, width, ended) ==
  /\ AreEvents(events) /\ width \in {1, 2} /\ ended \in BOOLEAN /\ text \in Seq(Symbols)
  /\ \A i \in DOMAIN text : HasPlace(events, width, ended, of[i], line[i], column[i])
  /\ \A e, l, c \in Int : HasPlace(events, width, ended, e, l, c) =>
       \E i \in DOMAIN text : of[i] = e /\ line[i] = l /\ column[i] = c
  /\ \A i, j \in DOMAIN text : i < j => Earlier(of, line, column, i, j)
  /\ \A i \in DOMAIN text :
       /\ text[i] = "lf" <=> column[i] = LastColumn(events, width, of[i], line[i])
       /\ text[i] = "cr" <=> /\ width = 2
                             /\ column[i] + 1 = LastColumn(events, width, of[i], line[i])
       /\ line[i] <= Len(events[of[i]]) /\ column[i] <= 2 =>
            text[i] = events[of[i]][line[i]][column[i]]

\* The numbers of a place.
LEMMA PlaceIs ==
  ASSUME NEW text, NEW of, NEW line, NEW column, NEW events, NEW width, NEW ended,
         IsLayout(text, of, line, column, events, width, ended)
  PROVE  /\ Len(events) \in Nat /\ DOMAIN events = 1..Len(events) /\ width \in {1, 2}
         /\ Len(text) \in Nat /\ DOMAIN text = 1..Len(text)
         /\ \A e \in DOMAIN events : Len(events[e]) \in Nat /\ Len(events[e]) >= 1
         /\ \A i \in DOMAIN text :
              /\ of[i] \in DOMAIN events /\ of[i] \in Int /\ line[i] \in Int /\ column[i] \in Int
              /\ 1 <= line[i] /\ line[i] <= Len(events[of[i]]) + 1
              /\ line[i] > Len(events[of[i]]) => ended \/ of[i] < Len(events)
              /\ 1 <= column[i] /\ column[i] <= LastColumn(events, width, of[i], line[i])
         /\ \A i, j \in DOMAIN text : i < j <=> Earlier(of, line, column, i, j)
<1>1. /\ Len(events) \in Nat /\ DOMAIN events = 1..Len(events) /\ width \in {1, 2}
      /\ Len(text) \in Nat /\ DOMAIN text = 1..Len(text)
      /\ \A e \in DOMAIN events : Len(events[e]) \in Nat /\ Len(events[e]) >= 1
  BY SseAssumption DEF IsLayout, AreEvents
<1>2. ASSUME NEW i \in DOMAIN text
      PROVE  /\ of[i] \in DOMAIN events /\ of[i] \in Int /\ line[i] \in Int /\ column[i] \in Int
             /\ 1 <= line[i] /\ line[i] <= Len(events[of[i]]) + 1
             /\ line[i] > Len(events[of[i]]) => ended \/ of[i] < Len(events)
             /\ 1 <= column[i] /\ column[i] <= LastColumn(events, width, of[i], line[i])
  <2>1. HasPlace(events, width, ended, of[i], line[i], column[i])
    BY DEF IsLayout
  <2>2. of[i] \in DOMAIN events /\ of[i] \in Int /\ Len(events[of[i]]) \in Nat
    BY <1>1, <2>1 DEF HasPlace
  <2> QED
    BY <1>1, <2>1, <2>2 DEF HasPlace, LastColumn
<1>3. \A i, j \in DOMAIN text : i < j => Earlier(of, line, column, i, j)
  BY DEF IsLayout
<1>4. ASSUME NEW i \in DOMAIN text, NEW j \in DOMAIN text, Earlier(of, line, column, i, j)
      PROVE  i < j
  <2>1. ~Earlier(of, line, column, j, i) /\ i # j
    <3>1. /\ of[i] \in Int /\ line[i] \in Int /\ column[i] \in Int
          /\ of[j] \in Int /\ line[j] \in Int /\ column[j] \in Int
      BY <1>2
    <3> QED
      BY <1>4, <3>1 DEF Earlier
  <2> QED
    BY <1>1, <1>3, <2>1
<1> QED
  BY <1>1, <1>2, <1>3, <1>4

\* There is a symbol at a place.
SymbolAt(text, of, line, column, e, l, c) ==
  \E i \in DOMAIN text : of[i] = e /\ line[i] = l /\ column[i] = c

\* At each place there is a symbol.
LEMMA PlaceExists ==
  ASSUME NEW text, NEW of, NEW line, NEW column, NEW events, NEW width, NEW ended,
         IsLayout(text, of, line, column, events, width, ended),
         NEW e \in Int, NEW l \in Int, NEW c \in Int, HasPlace(events, width, ended, e, l, c)
  PROVE  SymbolAt(text, of, line, column, e, l, c)
<1>1. \A x, y, z \in Int : HasPlace(events, width, ended, x, y, z) =>
        \E i \in DOMAIN text : of[i] = x /\ line[i] = y /\ column[i] = z
  BY DEF IsLayout
<1> QED
  BY <1>1 DEF SymbolAt

\* The symbol after one that is not the last of its line is in the next column.
LEMMA NextPlace ==
  ASSUME NEW text, NEW of, NEW line, NEW column, NEW events, NEW width, NEW ended,
         IsLayout(text, of, line, column, events, width, ended), NEW i \in DOMAIN text,
         column[i] < LastColumn(events, width, of[i], line[i])
  PROVE  /\ i + 1 \in DOMAIN text /\ of[i + 1] = of[i] /\ line[i + 1] = line[i]
         /\ column[i + 1] = column[i] + 1
<1>1. /\ Len(events) \in Nat /\ width \in {1, 2} /\ Len(events[of[i]]) \in Nat
      /\ Len(text) \in Nat /\ DOMAIN text = 1..Len(text) /\ i \in Int
      /\ of[i] \in DOMAIN events /\ of[i] \in Int /\ line[i] \in Int /\ column[i] \in Int
      /\ 1 <= line[i] /\ line[i] <= Len(events[of[i]]) + 1
      /\ line[i] > Len(events[of[i]]) => ended \/ of[i] < Len(events)
      /\ 1 <= column[i]
  BY PlaceIs
<1>2. HasPlace(events, width, ended, of[i], line[i], column[i] + 1)
  BY <1>1 DEF HasPlace, LastColumn
<1>3. PICK j \in DOMAIN text : of[j] = of[i] /\ line[j] = line[i] /\ column[j] = column[i] + 1
  <2> DEFINE e == of[i]
             l == line[i]
             c == column[i] + 1
  <2>1. e \in Int /\ l \in Int /\ c \in Int /\ HasPlace(events, width, ended, e, l, c)
    BY <1>1, <1>2
  <2> HIDE DEF e, l, c
  <2>2. SymbolAt(text, of, line, column, e, l, c)
    BY <2>1, PlaceExists
  <2> QED
    BY <2>2 DEF e, l, c, SymbolAt
<1>4. i < j
  <2>1. Earlier(of, line, column, i, j)
    BY <1>1, <1>3 DEF Earlier
  <2>2. \A x, y \in DOMAIN text : x < y <=> Earlier(of, line, column, x, y)
    BY PlaceIs
  <2> QED
    BY <2>1, <2>2
<1>5. ~(i + 1 < j)
  <2>1. SUFFICES ASSUME i + 1 < j PROVE FALSE
    OBVIOUS
  <2> DEFINE x == i + 1
  <2>2. x \in DOMAIN text /\ i < x /\ x < j
    BY <1>1, <2>1
  <2> HIDE DEF x
  <2>3. /\ Earlier(of, line, column, i, x) /\ Earlier(of, line, column, x, j)
        /\ of[x] \in Int /\ line[x] \in Int /\ column[x] \in Int
    BY <2>2, PlaceIs
  <2> QED
    BY <1>1, <1>3, <2>3 DEF Earlier
<1>6. j = i + 1
  BY <1>1, <1>4, <1>5
<1> QED
  BY <1>3, <1>6

\* A symbol that ends no line is one of the two of a line with text.
LEMMA MarkIs ==
  ASSUME NEW text, NEW of, NEW line, NEW column, NEW events, NEW width, NEW ended,
         IsLayout(text, of, line, column, events, width, ended), NEW i \in DOMAIN text,
         text[i] \notin {"cr", "lf"}
  PROVE  /\ line[i] \in DOMAIN events[of[i]] /\ column[i] \in {1, 2}
         /\ text[i] = events[of[i]][line[i]][column[i]]
         /\ events[of[i]][line[i]] \in Lines
<1>1. /\ width \in {1, 2} /\ Len(events[of[i]]) \in Nat /\ of[i] \in DOMAIN events
      /\ line[i] \in Int /\ column[i] \in Int /\ 1 <= line[i] /\ 1 <= column[i]
      /\ column[i] <= LastColumn(events, width, of[i], line[i])
  BY PlaceIs
<1>2. /\ column[i] # LastColumn(events, width, of[i], line[i])
      /\ width = 2 => column[i] + 1 # LastColumn(events, width, of[i], line[i])
      /\ line[i] <= Len(events[of[i]]) /\ column[i] <= 2 =>
           text[i] = events[of[i]][line[i]][column[i]]
  BY DEF IsLayout
<1>3. line[i] <= Len(events[of[i]]) /\ column[i] \in {1, 2}
  BY <1>1, <1>2 DEF LastColumn
<1>4. events[of[i]] \in Seq(Lines)
  BY <1>1 DEF IsLayout, AreEvents
<1>5. line[i] \in DOMAIN events[of[i]]
  BY <1>1, <1>3, <1>4
<1> QED
  BY <1>2, <1>3, <1>4, <1>5

\* What lines are made of.
LEMMA LinesAre ==
  ASSUME NEW l \in Lines
  PROVE  /\ l \in Seq(Symbols) /\ Len(l) = 2 /\ l[1] \in {"data:", ":"}
         /\ l[1] \notin {"cr", "lf"} /\ l[2] \notin {"cr", "lf", "data:"}
<1>1. CASE l = <<":", "ping">>
  <2>1. l = [i \in 1..2 |-> IF i = 1 THEN ":" ELSE "ping"]
    BY <1>1
  <2> QED
    BY <2>1 DEF Symbols
<1>2. ASSUME NEW p \in Payloads, l = <<"data:", p>>
      PROVE  /\ l \in Seq(Symbols) /\ Len(l) = 2 /\ l[1] \in {"data:", ":"}
             /\ l[1] \notin {"cr", "lf"} /\ l[2] \notin {"cr", "lf", "data:"}
  <2>1. "data:" \in Symbols /\ p \in Symbols
    BY DEF Symbols
  <2>2. p \notin {"data:", "cr", "lf"}
    BY SseAssumption
  <2>3. l \in Seq(Symbols) /\ Len(l) = 2 /\ l[1] = "data:" /\ l[2] = p
    BY <1>2, <2>1
  <2> QED
    BY <2>2, <2>3
<1> QED
  BY <1>1, <1>2 DEF Lines, Heartbeat

\* An empty line ends an event ...
LEMMA GapEnds ==
  ASSUME NEW text, NEW of, NEW line, NEW column, NEW events, NEW width, NEW ended,
         IsLayout(text, of, line, column, events, width, ended),
         NEW i \in DOMAIN text, NEW j \in DOMAIN text, Gap(text, i, j)
  PROVE  of[i] = of[j] /\ \A x \in DOMAIN text : j < x => of[j] < of[x]
<1> DEFINE e == of[j]
           len == Len(events[e])
<1>1. /\ width \in {1, 2} /\ len \in Nat /\ len >= 1 /\ e \in DOMAIN events /\ e \in Int
      /\ DOMAIN text = 1..Len(text) /\ Len(text) \in Nat
      /\ \A x \in DOMAIN text :
           /\ x \in Int /\ of[x] \in Int /\ line[x] \in Int /\ column[x] \in Int
           /\ 1 <= line[x] /\ line[x] <= Len(events[of[x]]) + 1
           /\ 1 <= column[x] /\ column[x] <= LastColumn(events, width, of[x], line[x])
      /\ \A x, y \in DOMAIN text : x < y <=> Earlier(of, line, column, x, y)
  BY PlaceIs
<1>2. /\ \A x \in DOMAIN text : i < x /\ x < j => text[x] = "cr"
      /\ column[i] = LastColumn(events, width, of[i], line[i])
      /\ column[j] = LastColumn(events, width, e, line[j])
      /\ Earlier(of, line, column, i, j)
  <2>1. i < j /\ text[i] = "lf" /\ text[j] = "lf"
    BY DEF Gap, FollowedBy
  <2> QED
    BY <1>1, <2>1 DEF Gap, FollowedBy, IsLayout
<1>3. ASSUME NEW l \in Int, NEW c \in Int, HasPlace(events, width, ended, e, l, c)
      PROVE  \E x \in DOMAIN text : of[x] = e /\ line[x] = l /\ column[x] = c
  BY <1>1, <1>3, PlaceExists DEF SymbolAt
<1>4. \A x \in DOMAIN text :
        /\ text[x] = "cr" => width = 2 /\ column[x] + 1 = LastColumn(events, width, of[x], line[x])
        /\ text[x] = "lf" => column[x] = LastColumn(events, width, of[x], line[x])
  BY DEF IsLayout
<1>5. line[j] = len + 1
  <2>1. SUFFICES ASSUME line[j] <= len PROVE FALSE
    BY <1>1
  <2>2. HasPlace(events, width, ended, e, line[j], 1)
    BY <1>1, <2>1 DEF HasPlace
  <2>3. PICK x \in DOMAIN text : of[x] = e /\ line[x] = line[j] /\ column[x] = 1
    BY <1>1, <1>3, <2>2
  <2>4. column[j] = 2 + width
    BY <1>2, <2>1 DEF LastColumn
  <2>5. x < j
    BY <1>1, <2>3, <2>4 DEF Earlier
  <2>6. text[x] # "cr"
    BY <1>1, <1>4, <2>1, <2>3 DEF LastColumn
  <2>7. ~(i < x)
    BY <1>2, <2>5, <2>6
  <2>8. i # x
    BY <1>1, <1>2, <2>1, <2>3 DEF LastColumn
  <2>9. Earlier(of, line, column, x, i)
    BY <1>1, <2>7, <2>8
  <2>10. of[i] = e /\ line[i] = line[j]
    BY <1>1, <1>2, <2>3, <2>9 DEF Earlier
  <2> QED
    BY <1>1, <1>2, <2>10 DEF Earlier
<1>6. column[j] = width
  BY <1>1, <1>2, <1>5 DEF LastColumn
<1>7. HasPlace(events, width, ended, e, len, 2 + width)
  BY <1>1 DEF HasPlace
<1>8. PICK x \in DOMAIN text : of[x] = e /\ line[x] = len /\ column[x] = 2 + width
  <2>1. 2 + width \in Int /\ len \in Int
    BY <1>1
  <2> QED
    BY <1>3, <1>7, <2>1
<1>9. x < j
  BY <1>1, <1>5, <1>8 DEF Earlier
<1>10. text[x] # "cr"
  BY <1>1, <1>4, <1>8 DEF LastColumn
<1>11. ~(i < x)
  BY <1>2, <1>9, <1>10
<1>12. ~(x < i)
  <2>1. SUFFICES ASSUME x < i PROVE FALSE
    OBVIOUS
  <2>2. Earlier(of, line, column, x, i)
    BY <1>1, <2>1
  <2>3. of[i] = e
    BY <1>1, <1>2, <1>8, <2>2 DEF Earlier
  <2>4. line[i] = len + 1
    <3>1. line[i] >= len /\ line[i] <= len + 1
      BY <1>1, <1>8, <2>2, <2>3 DEF Earlier
    <3>2. line[i] # len
      BY <1>1, <1>2, <1>8, <2>2, <2>3 DEF Earlier, LastColumn
    <3> QED
      BY <1>1, <3>1, <3>2
  <2>5. column[i] = width
    BY <1>1, <1>2, <2>3, <2>4 DEF LastColumn
  <2> QED
    BY <1>1, <1>2, <1>5, <1>6, <2>3, <2>4, <2>5 DEF Earlier
<1>13. i = x
  BY <1>1, <1>11, <1>12
<1>14. ASSUME NEW y \in DOMAIN text, j < y
       PROVE  e < of[y]
  <2>1. Earlier(of, line, column, j, y)
    BY <1>1, <1>14
  <2>2. SUFFICES ASSUME of[y] = e PROVE FALSE
    BY <1>1, <2>1 DEF Earlier
  <2> QED
    BY <1>1, <1>5, <1>6, <2>1, <2>2 DEF Earlier, LastColumn
<1> QED
  BY <1>8, <1>13, <1>14

\* ... and each event has one, the last one if it is ended.
LEMMA EventsEnd ==
  ASSUME NEW text, NEW of, NEW line, NEW column, NEW events, NEW width, NEW ended,
         IsLayout(text, of, line, column, events, width, ended),
         NEW e \in DOMAIN events, ended \/ e < Len(events)
  PROVE  \E i, j \in DOMAIN text : Gap(text, i, j) /\ of[i] = e /\ of[j] = e
<1> DEFINE len == Len(events[e])
<1>1. /\ width \in {1, 2} /\ len \in Nat /\ len >= 1 /\ e \in Int
      /\ \A x \in DOMAIN text :
           /\ of[x] \in Int /\ line[x] \in Int /\ column[x] \in Int
           /\ 1 <= column[x] /\ column[x] <= LastColumn(events, width, of[x], line[x])
      /\ \A x, y \in DOMAIN text : x < y <=> Earlier(of, line, column, x, y)
  BY PlaceIs
<1>2. /\ HasPlace(events, width, ended, e, len, 2 + width)
      /\ HasPlace(events, width, ended, e, len + 1, width)
  BY <1>1 DEF HasPlace
<1>3. 2 + width \in Int /\ width \in Int /\ len \in Int /\ len + 1 \in Int
  BY <1>1
<1>4. PICK i \in DOMAIN text : of[i] = e /\ line[i] = len /\ column[i] = 2 + width
  BY <1>1, <1>2, <1>3, PlaceExists DEF SymbolAt
<1>5. PICK j \in DOMAIN text : of[j] = e /\ line[j] = len + 1 /\ column[j] = width
  <2> DEFINE l == len + 1
  <2>1. l \in Int /\ HasPlace(events, width, ended, e, l, width)
    BY <1>2, <1>3
  <2> HIDE DEF l
  <2>2. \E j \in DOMAIN text : of[j] = e /\ line[j] = l /\ column[j] = width
    BY <1>1, <1>3, <2>1, PlaceExists DEF SymbolAt
  <2> QED
    BY <2>2 DEF l
<1>6. i < j
  BY <1>1, <1>4, <1>5 DEF Earlier
<1>7. text[i] = "lf" /\ text[j] = "lf"
  <2>1. /\ LastColumn(events, width, of[i], line[i]) = 2 + width
        /\ LastColumn(events, width, of[j], line[j]) = width
    BY <1>1, <1>4, <1>5 DEF LastColumn
  <2> QED
    BY <1>4, <1>5, <2>1 DEF IsLayout
<1>8. ASSUME NEW x \in DOMAIN text, i < x, x < j
      PROVE  text[x] = "cr"
  <2>1. Earlier(of, line, column, i, x) /\ Earlier(of, line, column, x, j)
    BY <1>1, <1>8
  <2>2. of[x] = e /\ line[x] >= len /\ line[x] <= len + 1
    BY <1>1, <1>4, <1>5, <2>1 DEF Earlier
  <2>3. line[x] = len + 1
    BY <1>1, <1>4, <2>1, <2>2 DEF Earlier, LastColumn
  <2>4. column[x] < width
    BY <1>1, <1>5, <2>1, <2>2, <2>3 DEF Earlier
  <2>5. width = 2 /\ column[x] + 1 = LastColumn(events, width, of[x], line[x])
    BY <1>1, <2>2, <2>3, <2>4 DEF LastColumn
  <2> QED
    BY <2>5 DEF IsLayout
<1> QED
  BY <1>4, <1>5, <1>6, <1>7, <1>8 DEF Gap, FollowedBy

\* The payloads of an event are where its data lines have them.
LEMMA PayloadsAre ==
  ASSUME NEW text, NEW of, NEW line, NEW column, NEW events, NEW width, NEW ended,
         IsLayout(text, of, line, column, events, width, ended), NEW e \in DOMAIN events
  PROVE  Kept(text, PayloadsAt(text, of, e)) = Said(events[e])
<1> DEFINE event == events[e]
           payload == [l \in DOMAIN event |-> event[l][2]]
           L == {l \in DOMAIN event : event[l][1] = "data:"}
           K == PayloadsAt(text, of, e)
           pos(l) == CHOOSE i \in DOMAIN text : of[i] = e /\ line[i] = l /\ column[i] = 2
<1>1. /\ width \in {1, 2} /\ e \in Int /\ Len(event) \in Nat
      /\ DOMAIN text = 1..Len(text) /\ Len(text) \in Nat
      /\ \A x \in DOMAIN text : x \in Int /\ of[x] \in Int /\ line[x] \in Int /\ column[x] \in Int
      /\ \A x, y \in DOMAIN text : x < y <=> Earlier(of, line, column, x, y)
  BY PlaceIs
<1>2. event \in Seq(Lines) /\ DOMAIN event = 1..Len(event)
  BY DEF IsLayout, AreEvents
<1>3. L \in SUBSET Int /\ IsFiniteSet(L)
  <2>1. IsFiniteSet(DOMAIN event) /\ \A l \in DOMAIN event : l \in Int
    BY <1>1, <1>2, FS_Interval
  <2>2. L \in SUBSET DOMAIN event
    OBVIOUS
  <2> HIDE DEF L
  <2>3. IsFiniteSet(L)
    BY <2>1, <2>2, FS_Subset
  <2> QED
    BY <2>1, <2>2, <2>3
<1>4. ASSUME NEW l \in L
      PROVE  /\ pos(l) \in DOMAIN text /\ of[pos(l)] = e /\ line[pos(l)] = l /\ column[pos(l)] = 2
             /\ text[pos(l)] = payload[l] /\ pos(l) \in K
  <2>1. l \in DOMAIN event /\ l \in Int /\ 1 <= l /\ l <= Len(event)
    BY <1>1, <1>2
  <2>2. HasPlace(events, width, ended, e, l, 1) /\ HasPlace(events, width, ended, e, l, 2)
    BY <1>1, <2>1 DEF HasPlace
  <2>3. \E i \in DOMAIN text : of[i] = e /\ line[i] = l /\ column[i] = 2
    <3>1. SymbolAt(text, of, line, column, e, l, 2)
      <4> HIDE DEF L, K, pos
      <4> QED
        BY <1>1, <2>1, <2>2, PlaceExists
    <3> QED
      BY <3>1 DEF SymbolAt
  <2>4. pos(l) \in DOMAIN text /\ of[pos(l)] = e /\ line[pos(l)] = l /\ column[pos(l)] = 2
    BY <2>3
  <2>5. PICK y \in DOMAIN text : of[y] = e /\ line[y] = l /\ column[y] = 1
    <3>1. SymbolAt(text, of, line, column, e, l, 1)
      <4> HIDE DEF L, K, pos
      <4> QED
        BY <1>1, <2>1, <2>2, PlaceExists
    <3> QED
      BY <3>1 DEF SymbolAt
  <2> DEFINE x == pos(l)
  <2>6. x \in DOMAIN text /\ of[x] = e /\ line[x] = l /\ column[x] = 2
    BY <2>4
  <2> HIDE DEF x, pos, L
  <2>7. column[y] < LastColumn(events, width, of[y], line[y])
    BY <1>1, <2>1, <2>5 DEF LastColumn
  <2>8. /\ y + 1 \in DOMAIN text /\ of[y + 1] = e /\ line[y + 1] = l /\ column[y + 1] = 2
    BY <2>5, <2>7, NextPlace
  <2>9. x = y + 1
    <3> DEFINE z == y + 1
    <3>1. z \in DOMAIN text /\ of[z] = e /\ line[z] = l /\ column[z] = 2
      BY <2>8
    <3> HIDE DEF z
    <3>2. ~Earlier(of, line, column, x, z) /\ ~Earlier(of, line, column, z, x)
      BY <1>1, <2>1, <2>6, <3>1 DEF Earlier
    <3>3. x = z
      BY <1>1, <2>6, <3>1, <3>2
    <3> QED
      BY <3>3 DEF z
  <2>10. text[x] = event[l][2] /\ text[y] = event[l][1]
    <3>1. \A i \in DOMAIN text : line[i] <= Len(events[of[i]]) /\ column[i] <= 2 =>
            text[i] = events[of[i]][line[i]][column[i]]
      BY DEF IsLayout
    <3>2. line[x] <= Len(events[of[x]]) /\ line[y] <= Len(events[of[y]])
      BY <2>1, <2>5, <2>6
    <3> QED
      BY <2>1, <2>5, <2>6, <3>1, <3>2
  <2>11. x \in K
    <3>1. x > 1 /\ x - 1 = y
      BY <1>1, <2>5, <2>9
    <3>2. event[l][1] = "data:"
      BY DEF L
    <3> QED
      BY <2>6, <2>10, <3>1, <3>2 DEF PayloadsAt
  <2> QED
    BY <2>1, <2>4, <2>10, <2>11 DEF x
<1>5. ASSUME NEW x \in K
      PROVE  \E l \in L : pos(l) = x
  <2>1. x \in DOMAIN text /\ x \in Int /\ of[x] = e /\ x > 1 /\ text[x - 1] = "data:"
    BY <1>1 DEF PayloadsAt
  <2> DEFINE y == x - 1
  <2>2. y \in DOMAIN text /\ y + 1 = x /\ text[y] = "data:"
    BY <1>1, <2>1
  <2> HIDE DEF y, L, K, pos
  <2>3. /\ line[y] \in DOMAIN events[of[y]] /\ column[y] \in {1, 2}
        /\ text[y] = events[of[y]][line[y]][column[y]]
        /\ events[of[y]][line[y]] \in Lines
    BY <2>2, MarkIs
  <2>4. column[y] = 1
    BY <2>2, <2>3, LinesAre
  <2>5. column[y] < LastColumn(events, width, of[y], line[y])
    <3>1. of[y] \in DOMAIN events
      BY <2>2, PlaceIs
    <3>2. events[of[y]] \in Seq(Lines)
      BY <3>1 DEF IsLayout, AreEvents
    <3>3. line[y] <= Len(events[of[y]])
      BY <2>3, <3>2
    <3> QED
      BY <1>1, <2>4, <3>3 DEF LastColumn
  <2>6. of[x] = of[y] /\ line[x] = line[y] /\ column[x] = 2
    BY <2>2, <2>4, <2>5, NextPlace
  <2>7. line[x] \in L
    BY <2>1, <2>2, <2>3, <2>4, <2>6 DEF L
  <2>8. pos(line[x]) = x
    <3> DEFINE z == pos(line[x])
    <3>1. z \in DOMAIN text /\ of[z] = e /\ line[z] = line[x] /\ column[z] = 2
      BY <1>4, <2>7
    <3> HIDE DEF z
    <3>2. ~Earlier(of, line, column, x, z) /\ ~Earlier(of, line, column, z, x)
      <4>1. line[x] \in Int /\ e \in Int /\ of[x] = e /\ column[x] = 2
        BY <1>1, <2>1, <2>6
      <4> QED
        BY <3>1, <4>1 DEF Earlier
    <3>3. x = z
      BY <1>1, <2>1, <3>1, <3>2
    <3> QED
      BY <3>3 DEF z
  <2> QED
    BY <2>7, <2>8
<1> DEFINE t == Sorted(L)
           m == Cardinality(L)
           g == [k \in 1..m |-> pos(t[k])]
<1>6. Lists(t, m, L)
  <2> HIDE DEF L
  <2> QED
    BY <1>3, SortedLists
<1> HIDE DEF t, m
<1>7. /\ m \in Nat /\ t \in [1..m -> L] /\ \A l \in L : \E k \in 1..m : t[k] = l
      /\ \A k, l \in 1..m : k < l => t[k] < t[l]
  <2> HIDE DEF L
  <2> QED
    BY <1>6 DEF Lists
<1> HIDE DEF pos, K, L
<1>8. \A k \in 1..m : t[k] \in L /\ t[k] \in Int
  BY <1>3, <1>7
<1>9. Lists(g, m, K)
  <2>1. K \in SUBSET Int
    BY <1>1 DEF K, PayloadsAt
  <2>2. g \in [1..m -> K]
    BY <1>4, <1>8
  <2>3. ASSUME NEW x \in K
        PROVE  \E k \in 1..m : g[k] = x
    <3>1. PICK l \in L : pos(l) = x
      BY <1>5
    <3>2. PICK k \in 1..m : t[k] = l
      BY <1>7
    <3> QED
      BY <3>1, <3>2
  <2>4. ASSUME NEW k \in 1..m, NEW l \in 1..m, k < l
        PROVE  g[k] < g[l]
    <3>1. t[k] < t[l]
      BY <1>7, <2>4
    <3>2. /\ g[k] \in DOMAIN text /\ of[g[k]] = e /\ line[g[k]] = t[k]
          /\ g[l] \in DOMAIN text /\ of[g[l]] = e /\ line[g[l]] = t[l]
      BY <1>4, <1>8
    <3> HIDE DEF g
    <3> QED
      BY <1>1, <3>1, <3>2 DEF Earlier
  <2> QED
    BY <1>7, <2>1, <2>2, <2>3, <2>4 DEF Lists
<1>10. Kept(text, K) = [k \in 1..m |-> text[g[k]]]
  <2> HIDE DEF g
  <2> QED
    BY <1>9, KeptListed
<1>11. Kept(payload, L) = [k \in 1..m |-> payload[t[k]]]
  <2> HIDE DEF payload
  <2> QED
    BY <1>6, KeptListed
<1>12. \A k \in 1..m : text[g[k]] = payload[t[k]]
  BY <1>4, <1>8
<1>13. Kept(text, K) = Kept(payload, L)
  <2> HIDE DEF g, payload
  <2> QED
    BY <1>10, <1>11, <1>12
<1> QED
  BY <1>13 DEF Said, L, K

\* A text that is laid out is the body of its events.
LEMMA LayoutIsBody ==
  ASSUME NEW text, NEW of, NEW line, NEW column, NEW events, NEW width, NEW ended,
         IsLayout(text, of, line, column, events, width, ended)
  PROVE  IsBody(text, of, Len(events), ended, [e \in DOMAIN events |-> Said(events[e])])
<1> DEFINE n == Len(events)
           said == [e \in DOMAIN events |-> Said(events[e])]
<1>1. /\ n \in Nat /\ DOMAIN events = 1..n /\ width \in {1, 2}
      /\ DOMAIN text = 1..Len(text) /\ Len(text) \in Nat
      /\ \A x \in DOMAIN text :
           /\ x \in Int /\ of[x] \in 1..n /\ of[x] \in Int /\ line[x] \in Int /\ column[x] \in Int
      /\ \A x, y \in DOMAIN text : x < y <=> Earlier(of, line, column, x, y)
  BY PlaceIs
<1>2. text \in Seq(Symbols) /\ DOMAIN said = 1..n
  BY <1>1 DEF IsLayout
<1>3. ASSUME NEW i \in DOMAIN text, NEW j \in DOMAIN text, i <= j
      PROVE  of[i] <= of[j]
  <2>1. i = j \/ Earlier(of, line, column, i, j)
    BY <1>1, <1>3
  <2> QED
    BY <1>1, <2>1 DEF Earlier
<1>4. ASSUME NEW i \in DOMAIN text, text[i] = "cr"
      PROVE  i + 1 \in DOMAIN text /\ of[i + 1] = of[i] /\ text[i + 1] = "lf"
  <2>1. width = 2 /\ column[i] + 1 = LastColumn(events, width, of[i], line[i])
    BY <1>4 DEF IsLayout
  <2>2. column[i] < LastColumn(events, width, of[i], line[i])
    BY <1>1, <2>1
  <2> DEFINE x == i + 1
  <2>3. x \in DOMAIN text /\ of[x] = of[i] /\ line[x] = line[i] /\ column[x] = column[i] + 1
    BY <2>2, NextPlace
  <2> HIDE DEF x
  <2>4. text[x] = "lf"
    BY <2>1, <2>3 DEF IsLayout
  <2> QED
    BY <2>3, <2>4 DEF x
<1>5. ASSUME NEW i \in DOMAIN text, text[i] = "data:"
      PROVE  /\ i + 1 \in DOMAIN text /\ of[i + 1] = of[i]
             /\ text[i + 1] \notin {"cr", "lf", "data:"}
  <2>1. /\ line[i] \in DOMAIN events[of[i]] /\ column[i] \in {1, 2}
        /\ text[i] = events[of[i]][line[i]][column[i]]
        /\ events[of[i]][line[i]] \in Lines
    BY <1>5, MarkIs
  <2>2. column[i] = 1
    BY <1>5, <2>1, LinesAre
  <2>3. line[i] <= Len(events[of[i]])
    <3>1. events[of[i]] \in Seq(Lines)
      BY <1>1 DEF IsLayout, AreEvents
    <3> QED
      BY <2>1, <3>1
  <2>4. column[i] < LastColumn(events, width, of[i], line[i])
    BY <1>1, <2>2, <2>3 DEF LastColumn
  <2> DEFINE x == i + 1
  <2>5. x \in DOMAIN text /\ of[x] = of[i] /\ line[x] = line[i] /\ column[x] = 2
    BY <2>2, <2>4, NextPlace
  <2> HIDE DEF x
  <2>6. text[x] = events[of[i]][line[i]][2]
    BY <2>3, <2>5 DEF IsLayout
  <2>7. text[x] \notin {"cr", "lf", "data:"}
    BY <2>1, <2>6, LinesAre
  <2> QED
    BY <2>5, <2>7 DEF x
<1>6. \A i, j \in DOMAIN text : Gap(text, i, j) =>
        of[i] = of[j] /\ \A x \in DOMAIN text : j < x => of[j] < of[x]
  BY GapEnds
<1>7. \A e \in 1..n : ended \/ e < n =>
        \E i, j \in DOMAIN text : Gap(text, i, j) /\ of[i] = e /\ of[j] = e
  <2>1. ASSUME NEW e \in 1..n, ended \/ e < n
        PROVE  \E i, j \in DOMAIN text : Gap(text, i, j) /\ of[i] = e /\ of[j] = e
    <3>1. e \in DOMAIN events
      BY <1>1
    <3> QED
      BY <2>1, <3>1, EventsEnd
  <2> QED
    BY <2>1
<1>8. \A e \in 1..n : Kept(text, PayloadsAt(text, of, e)) = said[e]
  BY <1>1, PayloadsAre
<1> HIDE DEF n, said
<1>9. \A i \in DOMAIN text : of[i] \in 1..n
  BY <1>1
<1>10. IsBody(text, of, n, ended, said)
  BY <1>1, <1>2, <1>3, <1>4, <1>5, <1>6, <1>7, <1>8, <1>9 DEF IsBody
<1> QED
  BY <1>10 DEF n, said

\* The line ends the server may write.
LineEnds == {<<"lf">>, <<"cr", "lf">>}

\* What is written of a line (of n symbols, those of line) and of its end.
IsLine(s, line, n, width) ==
  /\ s \in Seq(Symbols) /\ DOMAIN s = 1..(n + width)
  /\ \A c \in 1..(n + width) :
       /\ s[c] = "lf" <=> c = n + width
       /\ s[c] = "cr" <=> width = 2 /\ c + 1 = n + width
       /\ c <= n => s[c] = line[c]

\* A line and its end.
LEMMA LineIs ==
  ASSUME NEW line \in Lines \cup {<<>>}, NEW eol \in LineEnds
  PROVE  /\ IsLine(line \o eol, line, IF line \in Lines THEN 2 ELSE 0, Len(eol))
         /\ Len(eol) \in {1, 2} /\ <<>> \notin Lines
<1> DEFINE n == IF line \in Lines THEN 2 ELSE 0
           width == Len(eol)
           s == line \o eol
<1>1. <<>> \notin Lines
  <2>1. SUFFICES ASSUME <<>> \in Lines PROVE FALSE
    OBVIOUS
  <2> DEFINE l == <<>>
  <2>2. l \in Lines /\ Len(l) = 0
    BY <2>1
  <2>3. Len(l) = 2
    <3>1. l \in Lines
      BY <2>1
    <3> HIDE DEF l
    <3> QED
      BY <3>1, LinesAre
  <2> QED
    BY <2>2, <2>3
<1>2. /\ line \in Seq(Symbols) /\ Len(line) = n /\ n \in {0, 2}
      /\ \A c \in 1..n : line[c] \notin {"cr", "lf"}
  <2>1. CASE line \in Lines
    <3>1. line \in Seq(Symbols) /\ Len(line) = 2 /\ line[1] \notin {"cr", "lf"}
          /\ line[2] \notin {"cr", "lf"}
      BY <2>1, LinesAre
    <3> QED
      BY <2>1, <3>1
  <2>2. CASE line = <<>>
    BY <1>1, <2>2
  <2> QED
    BY <2>1, <2>2
<1>3. /\ eol \in Seq(Symbols) /\ width \in {1, 2} /\ eol[width] = "lf"
      /\ width = 2 => eol[1] = "cr"
  BY DEF LineEnds, Symbols
<1> HIDE DEF n, width
<1>4. /\ s \in Seq(Symbols) /\ Len(s) = n + width
      /\ \A c \in 1..(n + width) : s[c] = IF c <= n THEN line[c] ELSE eol[c - n]
  BY <1>2, <1>3, ConcatProperties DEF width
<1> HIDE DEF s
<1>5. ASSUME NEW c \in 1..(n + width)
      PROVE  /\ s[c] = "lf" <=> c = n + width
             /\ s[c] = "cr" <=> width = 2 /\ c + 1 = n + width
             /\ c <= n => s[c] = line[c]
  <2>1. CASE c <= n
    <3>1. c \in 1..n /\ s[c] = line[c]
      BY <1>2, <1>3, <1>4, <2>1
    <3> QED
      BY <1>2, <1>3, <3>1
  <2>2. CASE c = n + 1 /\ width = 1
    BY <1>2, <1>3, <1>4, <2>2
  <2>3. CASE c = n + 1 /\ width = 2
    BY <1>2, <1>3, <1>4, <2>3
  <2>4. CASE c = n + 2 /\ width = 2
    BY <1>2, <1>3, <1>4, <2>4
  <2> QED
    BY <1>2, <1>3, <2>1, <2>2, <2>3, <2>4
<1>6. DOMAIN s = 1..(n + width)
  BY <1>2, <1>3, <1>4
<1>7. IsLine(s, line, n, width)
  BY <1>4, <1>5, <1>6 DEF IsLine
<1> QED
  BY <1>1, <1>3, <1>7 DEF n, width, s

\* The lines of an event as they are written.
IsWritten(w, event, width, closed) ==
  LET len == Len(event)
  IN /\ \A l \in Int : l \in DOMAIN w <=> l \in 1..len \/ (closed /\ l = len + 1)
     /\ \A l \in DOMAIN w : IsLine(w[l], IF l <= len THEN event[l] ELSE <<>>,
                                   IF l <= len THEN 2 ELSE 0, width)

\* Each event is written.
LEMMA WrittenIs ==
  ASSUME NEW events, AreEvents(events), NEW eol \in LineEnds, NEW ended \in BOOLEAN
  PROVE  /\ DOMAIN Written(events, eol, ended) = DOMAIN events
         /\ \A e \in DOMAIN events : IsWritten(Written(events, eol, ended)[e], events[e], Len(eol),
                                               ended \/ e < Len(events))
<1>1. ASSUME NEW e \in DOMAIN events
      PROVE  IsWritten(Written(events, eol, ended)[e], events[e], Len(eol),
                       ended \/ e < Len(events))
  <2> DEFINE closed == ended \/ e < Len(events)
             event == events[e]
             len == Len(event)
             lines == IF closed THEN Append(event, <<>>) ELSE event
             w == [l \in DOMAIN lines |-> lines[l] \o eol]
  <2>1. event \in Seq(Lines) /\ len \in Nat /\ DOMAIN event = 1..len
    BY DEF AreEvents
  <2>2. Written(events, eol, ended)[e] = w
    BY DEF Written
  <2>3. /\ \A l \in Int : l \in DOMAIN lines <=> l \in 1..len \/ (closed /\ l = len + 1)
        /\ \A l \in DOMAIN lines : l \in Int /\ lines[l] = IF l <= len THEN event[l] ELSE <<>>
    <3>1. CASE closed
      <4> HIDE DEF closed
      <4>1. /\ event \in Seq(Lines \cup {<<>>}) /\ <<>> \in Lines \cup {<<>>}
        <5> DEFINE X == <<>>
        <5> HIDE DEF X, event, len
        <5>1. event \in Seq(Lines \cup {X})
          BY <2>1 
        <5> QED
          BY <5>1 DEF X
      <4> DEFINE X == <<>>
                 S == Lines \cup {X}
                 a == Append(event, X)
      <4>2. event \in Seq(S) /\ X \in S
        BY <4>1
      <4> HIDE DEF X, S, event
      <4>3. /\ a \in Seq(S) /\ Len(a) = len + 1 /\ a[len + 1] = X
            /\ \A i \in 1..Len(event) : a[i] = event[i]
        BY <4>2, AppendProperties
      <4>4. lines = a
        BY <3>1 DEF X
      <4> HIDE DEF a, lines, len
      <4>5. DOMAIN a = 1..(len + 1)
        BY <4>3, <2>1
      <4> HIDE DEF closed
      <4>6. \A l \in Int : l \in DOMAIN a <=> l \in 1..len \/ l = len + 1
        BY <2>1, <4>5
      <4>7. \A l \in DOMAIN a : l \in Int /\ a[l] = IF l <= len THEN event[l] ELSE X
        BY <2>1, <4>3, <4>5 DEF len
      <4> QED
        BY <3>1, <4>4, <4>6, <4>7 DEF X
    <3>2. CASE ~closed
      <4>1. lines = event
        BY <3>2
      <4> HIDE DEF lines, event, closed, len
      <4> QED
        BY <2>1, <3>2, <4>1
    <3> QED
      BY <3>1, <3>2
  <2> HIDE DEF lines
  <2>4. ASSUME NEW l \in DOMAIN lines
        PROVE  IsLine(w[l], IF l <= len THEN event[l] ELSE <<>>, IF l <= len THEN 2 ELSE 0,
                      Len(eol))
    <3> DEFINE line == lines[l]
    <3>1. w[l] = line \o eol
      OBVIOUS
    <3>2. line = (IF l <= len THEN event[l] ELSE <<>>) /\ l \in Int
      BY <2>3
    <3>3. l <= len => line \in Lines
      <4> HIDE DEF w, event, len
      <4> QED
        BY <2>1, <2>3, <3>2
    <3>4. ~(l <= len) => line \notin Lines
      BY <3>2, <3>3, LineIs
    <3> DEFINE n == IF line \in Lines THEN 2 ELSE 0
    <3>5. line \in Lines \cup {<<>>}
      BY <3>2, <3>3
    <3>6. n = IF l <= len THEN 2 ELSE 0
      BY <3>3, <3>4
    <3>7. IsLine(line \o eol, line, n, Len(eol))
      <4> HIDE DEF line
      <4> QED
        BY <3>5, LineIs DEF n
    <3> HIDE DEF n, line, w
    <3> QED
      BY <3>1, <3>2, <3>6, <3>7
  <2>5. DOMAIN w = DOMAIN lines
    OBVIOUS
  <2> HIDE DEF w, event
  <2>6. IsWritten(w, event, Len(eol), closed)
    <3> HIDE DEF closed
    <3> QED
      BY <2>3, <2>4, <2>5 DEF IsWritten
  <2> QED
    BY <2>2, <2>6 DEF event
<1> QED
  BY <1>1 DEF Written

\* The symbols of an event are where it has a place.
LEMMA SymbolsAre ==
  ASSUME NEW events, AreEvents(events), NEW eol \in LineEnds, NEW ended \in BOOLEAN
  PROVE  LET w == Written(events, eol, ended)
             width == Len(eol)
         IN \A e, l, c \in Int :
              /\ HasPlace(events, width, ended, e, l, c)
                   <=> e \in DOMAIN w /\ l \in DOMAIN w[e] /\ c \in DOMAIN w[e][l]
              /\ HasPlace(events, width, ended, e, l, c) =>
                   /\ e \in 1..Len(events) /\ l \in 1..(MaxLines + 1) /\ c \in 1..4
                   /\ w[e][l][c] \in Symbols
                   /\ w[e][l][c] = "lf" <=> c = LastColumn(events, width, e, l)
                   /\ w[e][l][c] = "cr" <=> /\ width = 2
                                            /\ c + 1 = LastColumn(events, width, e, l)
                   /\ l <= Len(events[e]) /\ c <= 2 => w[e][l][c] = events[e][l][c]
<1> DEFINE w == Written(events, eol, ended)
           width == Len(eol)
<1>1. /\ width \in {1, 2} /\ DOMAIN w = DOMAIN events /\ DOMAIN events = 1..Len(events)
      /\ Len(events) \in Nat /\ MaxLines \in Nat
  <2>1. width \in {1, 2}
    BY DEF LineEnds
  <2> HIDE DEF width
  <2> QED
    BY <2>1, WrittenIs, SseAssumption DEF AreEvents
<1> HIDE DEF width
<1>2. ASSUME NEW e \in DOMAIN events
      PROVE  /\ IsWritten(w[e], events[e], width, ended \/ e < Len(events))
             /\ Len(events[e]) \in Nat /\ Len(events[e]) <= MaxLines
  <2>1. IsWritten(Written(events, eol, ended)[e], events[e], Len(eol), ended \/ e < Len(events))
    BY WrittenIs
  <2>2. Len(events[e]) \in 1..MaxLines
    BY DEF AreEvents
  <2> QED
    BY <2>1, <2>2, SseAssumption DEF w, width
<1> HIDE DEF w
<1>3. ASSUME NEW e \in Int, NEW l \in Int, NEW c \in Int
      PROVE  /\ HasPlace(events, width, ended, e, l, c)
                  <=> e \in DOMAIN w /\ l \in DOMAIN w[e] /\ c \in DOMAIN w[e][l]
             /\ HasPlace(events, width, ended, e, l, c) =>
                  /\ e \in 1..Len(events) /\ l \in 1..(MaxLines + 1) /\ c \in 1..4
                  /\ w[e][l][c] \in Symbols
                  /\ w[e][l][c] = "lf" <=> c = LastColumn(events, width, e, l)
                  /\ w[e][l][c] = "cr" <=> /\ width = 2
                                           /\ c + 1 = LastColumn(events, width, e, l)
                  /\ l <= Len(events[e]) /\ c <= 2 => w[e][l][c] = events[e][l][c]
  <2>1. CASE e \notin DOMAIN events
    BY <1>1, <2>1 DEF HasPlace
  <2>2. CASE e \in DOMAIN events
    <3> DEFINE event == events[e]
               len == Len(event)
               ew == w[e]
               closed == ended \/ e < Len(events)
               line == IF l <= len THEN event[l] ELSE <<>>
               n == IF l <= len THEN 2 ELSE 0
    <3>1. /\ len \in Nat /\ len <= MaxLines
          /\ l \in DOMAIN ew <=> l \in 1..len \/ (closed /\ l = len + 1)
      BY <1>2, <2>2 DEF IsWritten
    <3>2. CASE l \notin DOMAIN ew
      <4> HIDE DEF closed, len
      <4>1. ~HasPlace(events, width, ended, e, l, c)
        BY <1>1, <2>2, <3>1, <3>2 DEF HasPlace, closed, len
      <4> QED
        BY <3>2, <4>1
    <3>3. CASE l \in DOMAIN ew
      <4>1. IsLine(ew[l], line, n, width)
        BY <1>2, <2>2, <3>3 DEF IsWritten
      <4>2. n + width = LastColumn(events, width, e, l) /\ n \in {0, 2}
        BY <1>1 DEF LastColumn
      <4>3. HasPlace(events, width, ended, e, l, c) <=> c \in 1..(n + width)
        BY <1>1, <2>2, <3>1, <3>3 DEF HasPlace
      <4>4. l <= len => line = event[l] /\ n = 2
        OBVIOUS
      <4>5. l \in 1..(MaxLines + 1)
        BY <3>1, <3>3, SseAssumption
      <4> DEFINE s == ew[l]
      <4>6. /\ s \in Seq(Symbols) /\ DOMAIN s = 1..(n + width)
            /\ \A x \in 1..(n + width) :
                 /\ s[x] = "lf" <=> x = n + width
                 /\ s[x] = "cr" <=> width = 2 /\ x + 1 = n + width
                 /\ x <= n => s[x] = line[x]
        BY <4>1 DEF IsLine
      <4>7. c \in DOMAIN s <=> c \in 1..(n + width)
        BY <4>6
      <4> HIDE DEF n, line, s, len
      <4>8. ASSUME c \in 1..(n + width)
            PROVE  /\ s[c] \in Symbols
                   /\ s[c] = "lf" <=> c = n + width
                   /\ s[c] = "cr" <=> width = 2 /\ c + 1 = n + width
                   /\ l <= len /\ c <= 2 => s[c] = event[l][c]
        <5>1. s[c] \in Symbols
          <6>1. s \in Seq(Symbols) /\ c \in DOMAIN s
            BY <4>6, <4>7, <4>8
          <6> HIDE DEF event, ew, closed
          <6> QED
            BY <6>1
        <5>2. /\ s[c] = "lf" <=> c = n + width
              /\ s[c] = "cr" <=> width = 2 /\ c + 1 = n + width
              /\ c <= n => s[c] = line[c]
          BY <4>6, <4>8
        <5>3. l <= len /\ c <= 2 => line = event[l] /\ c <= n
          BY <4>4
        <5> QED
          BY <5>1, <5>2, <5>3
      <4>9. c \in 1..(n + width) => c \in 1..4
        BY <1>1, <4>2
      <4>10. e \in 1..Len(events) /\ e \in DOMAIN w
        BY <1>1, <2>2
      <4> QED
        BY <3>3, <4>2, <4>3, <4>5, <4>7, <4>8, <4>9, <4>10 DEF s, len
    <3> QED
      BY <3>2, <3>3
  <2> QED
    BY <2>1, <2>2
<1> QED
  BY <1>3 DEF w, width

\* Triples of the members of finite sets are finitely many.
LEMMA FS_Triples ==
  ASSUME NEW A, IsFiniteSet(A), NEW B, IsFiniteSet(B), NEW C, IsFiniteSet(C)
  PROVE  IsFiniteSet(A \X B \X C)
<1> DEFINE D == A \X (B \X C)
           T == A \X B \X C
           f == [q \in D |-> <<q[1], q[2][1], q[2][2]>>]
<1>1. IsFiniteSet(D)
  <2>1. IsFiniteSet(B \X C)
    BY FS_Product
  <2> DEFINE E == B \X C
  <2>2. IsFiniteSet(E)
    BY <2>1
  <2> HIDE DEF E
  <2>3. IsFiniteSet(A \X E)
    BY <2>2, FS_Product
  <2> QED
    BY <2>3 DEF E
<1>2. f \in Surjection(D, T)
  <2>1. \A q \in D : f[q] \in T
    OBVIOUS
  <2>2. ASSUME NEW t \in T
        PROVE  \E q \in D : f[q] = t
    <3> DEFINE q == <<t[1], <<t[2], t[3]>>>>
    <3>1. q \in D /\ f[q] = t
      OBVIOUS
    <3> QED
      BY <3>1
  <2> QED
    BY <2>1, <2>2 DEF Surjection
<1> HIDE DEF D, T, f
<1>3. IsFiniteSet(T)
  BY <1>1, <1>2, FS_Surjection
<1> QED
  BY <1>3 DEF T

\* The places, and their order.
LEMMA PlacesAre ==
  ASSUME NEW events, AreEvents(events), NEW eol \in LineEnds, NEW ended \in BOOLEAN
  PROVE  LET places == Places(Written(events, eol, ended))
         IN /\ IsFiniteSet(places)
            /\ \A p \in places : /\ p = <<p[1], p[2], p[3]>>
                                 /\ p[1] \in Int /\ p[2] \in Int /\ p[3] \in Int
                                 /\ HasPlace(events, Len(eol), ended, p[1], p[2], p[3])
            /\ \A e, l, c \in Int : HasPlace(events, Len(eol), ended, e, l, c) =>
                 <<e, l, c>> \in places
<1> DEFINE w == Written(events, eol, ended)
           P == Places(w)
           A == DOMAIN w
           B == 1..MaxLines + 1
           C == 1..4
           width == Len(eol)
<1>1. /\ A = 1..Len(events) /\ Len(events) \in Nat /\ MaxLines \in Nat
  BY WrittenIs, SseAssumption DEF AreEvents
<1>2. /\ \A e, l, c \in Int :
              /\ HasPlace(events, width, ended, e, l, c)
                   <=> e \in DOMAIN w /\ l \in DOMAIN w[e] /\ c \in DOMAIN w[e][l]
              /\ HasPlace(events, width, ended, e, l, c) =>
                   e \in 1..Len(events) /\ l \in 1..(MaxLines + 1) /\ c \in 1..4
  BY SymbolsAre
<1> HIDE DEF w, width
<1>3. P = {p \in A \X B \X C : p[2] \in DOMAIN w[p[1]] /\ p[3] \in DOMAIN w[p[1]][p[2]]}
  BY DEF Places
<1>4. (\A x \in A : x \in Int) /\ (\A x \in B : x \in Int) /\ (\A x \in C : x \in Int)
  BY <1>1
<1>5. IsFiniteSet(A) /\ IsFiniteSet(B) /\ IsFiniteSet(C)
  <2>1. IsFiniteSet(1..Len(events)) /\ IsFiniteSet(1..MaxLines + 1) /\ IsFiniteSet(1..4)
    <3> DEFINE n == MaxLines + 1
               m == 4
    <3>1. n \in Int /\ m \in Int /\ Len(events) \in Int
      BY <1>1
    <3> HIDE DEF n, m
    <3>2. IsFiniteSet(1..Len(events))
      BY <3>1, FS_Interval
    <3>3. IsFiniteSet(1..n)
      BY <3>1, FS_Interval
    <3>4. IsFiniteSet(1..m)
      BY <3>1, FS_Interval
    <3> QED
      BY <3>2, <3>3, <3>4 DEF n, m
  <2> QED
    BY <1>1, <2>1
<1>6. ASSUME NEW p \in P
      PROVE  /\ p = <<p[1], p[2], p[3]>> /\ p[1] \in Int /\ p[2] \in Int /\ p[3] \in Int
             /\ HasPlace(events, width, ended, p[1], p[2], p[3])
  <2>1. /\ p = <<p[1], p[2], p[3]>> /\ p[1] \in A /\ p[2] \in B /\ p[3] \in C
        /\ p[2] \in DOMAIN w[p[1]] /\ p[3] \in DOMAIN w[p[1]][p[2]]
    <3> HIDE DEF P, A, B, C
    <3> QED
      BY <1>3
  <2>2. p[1] \in Int /\ p[2] \in Int /\ p[3] \in Int
    <3> HIDE DEF A, B, C, P
    <3> QED
      BY <1>4, <2>1
  <2>3. HasPlace(events, width, ended, p[1], p[2], p[3])
    <3> HIDE DEF B, C, P
    <3> QED
      BY <1>2, <2>1, <2>2
  <2> QED
    BY <2>1, <2>2, <2>3
<1>7. ASSUME NEW e \in Int, NEW l \in Int, NEW c \in Int,
             HasPlace(events, width, ended, e, l, c)
      PROVE  <<e, l, c>> \in P
  <2>1. e \in A /\ l \in B /\ c \in C /\ l \in DOMAIN w[e] /\ c \in DOMAIN w[e][l]
    BY <1>2, <1>7
  <2> HIDE DEF A, B, C, P
  <2> QED
    BY <1>3, <2>1
<1>8. IsFiniteSet(P)
  <2> HIDE DEF A, B, C, P
  <2>1. IsFiniteSet(A \X B \X C)
    BY <1>5, FS_Triples
  <2> DEFINE D == A \X B \X C
  <2>2. P \in SUBSET D
    BY <1>3
  <2> HIDE DEF D
  <2> QED
    BY <2>1, <2>2, FS_Subset DEF D
<1> HIDE DEF P
<1>9. /\ IsFiniteSet(P)
      /\ \A p \in P : /\ p = <<p[1], p[2], p[3]>> 
                      /\ p[1] \in Int /\ p[2] \in Int /\ p[3] \in Int
                      /\ HasPlace(events, width, ended, p[1], p[2], p[3])
      /\ \A e, l, c \in Int : HasPlace(events, width, ended, e, l, c) => <<e, l, c>> \in P
  BY <1>6, <1>7, <1>8
<1> QED
  BY <1>9 DEF P, w, width

\* The order of reading is an order.
LEMMA ReadingIsOrder ==
  ASSUME NEW P, \A p \in P : /\ p = <<p[1], p[2], p[3]>>
                             /\ p[1] \in Int /\ p[2] \in Int /\ p[3] \in Int
  PROVE  IsOrder(P, {pair \in P \X P : NotAfter(pair[1], pair[2])})
<1> DEFINE rel == {pair \in P \X P : NotAfter(pair[1], pair[2])}
<1>1. ASSUME NEW p \in P, NEW q \in P
      PROVE  <<p, q>> \in rel <=> NotAfter(p, q)
  OBVIOUS
<1> HIDE DEF rel
<1>2. \A p \in P : <<p, p>> \in rel
  BY <1>1 DEF NotAfter
<1>3. ASSUME NEW p \in P, NEW q \in P
      PROVE  <<p, q>> \in rel \/ <<q, p>> \in rel
  <2>1. /\ p[1] \in Int /\ p[2] \in Int /\ p[3] \in Int
        /\ q[1] \in Int /\ q[2] \in Int /\ q[3] \in Int
    OBVIOUS
  <2>2. NotAfter(p, q) \/ NotAfter(q, p)
    BY <2>1 DEF NotAfter
  <2> QED
    BY <1>1, <2>2
<1>4. ASSUME NEW p \in P, NEW q \in P, <<p, q>> \in rel, <<q, p>> \in rel
      PROVE  p = q
  <2>1. p[1] = q[1] /\ p[2] = q[2] /\ p[3] = q[3]
    BY <1>1, <1>4 DEF NotAfter
  <2> QED
    BY <2>1
<1>5. \A p, q, r \in P : <<p, q>> \in rel /\ <<q, r>> \in rel => <<p, r>> \in rel
  BY <1>1 DEF NotAfter
<1> QED
  BY <1>2, <1>3, <1>4, <1>5 DEF IsOrder, rel

\* The body that the server writes is laid out.
LEMMA EncodedIsLaidOut ==
  ASSUME NEW events, AreEvents(events), NEW eol \in LineEnds, NEW ended \in BOOLEAN
  PROVE  LET at == InReadingOrder(Places(Written(events, eol, ended)))
         IN IsLayout(Encoded(events, eol, ended), [i \in DOMAIN at |-> at[i][1]],
                     [i \in DOMAIN at |-> at[i][2]], [i \in DOMAIN at |-> at[i][3]],
                     events, Len(eol), ended)
<1> DEFINE w == Written(events, eol, ended)
           P == Places(w)
           at == InReadingOrder(P)
           text == Encoded(events, eol, ended)
           of == [i \in DOMAIN at |-> at[i][1]]
           line == [i \in DOMAIN at |-> at[i][2]]
           column == [i \in DOMAIN at |-> at[i][3]]
           width == Len(eol)
           rel == {pair \in P \X P : NotAfter(pair[1], pair[2])}
<1>1. /\ IsFiniteSet(P)
      /\ \A p \in P : /\ p = <<p[1], p[2], p[3]>>
                      /\ p[1] \in Int /\ p[2] \in Int /\ p[3] \in Int
                      /\ HasPlace(events, width, ended, p[1], p[2], p[3])
      /\ \A e, l, c \in Int : HasPlace(events, width, ended, e, l, c) => <<e, l, c>> \in P
  BY PlacesAre
<1>2. /\ \A e, l, c \in Int :
              HasPlace(events, width, ended, e, l, c) =>
                   /\ w[e][l][c] \in Symbols
                   /\ w[e][l][c] = "lf" <=> c = LastColumn(events, width, e, l)
                   /\ w[e][l][c] = "cr" <=> /\ width = 2
                                            /\ c + 1 = LastColumn(events, width, e, l)
                   /\ l <= Len(events[e]) /\ c <= 2 => w[e][l][c] = events[e][l][c]
  BY SymbolsAre
<1>3. text = [i \in DOMAIN at |-> w[at[i][1]][at[i][2]][at[i][3]]]
  BY DEF Encoded
<1>4. width \in {1, 2}
  BY DEF LineEnds
<1> HIDE DEF w, P, text, width
<1>5. IsOrder(P, rel)
  BY <1>1, ReadingIsOrder
<1>6. at = InOrder(P, rel)
  BY DEF InReadingOrder
<1>7. \A p, q \in P : <<p, q>> \in rel <=> NotAfter(p, q)
  OBVIOUS
<1> HIDE DEF rel, at
<1> DEFINE n == Cardinality(P)
<1>8. /\ n \in Nat /\ DOMAIN at = 1..n
      /\ \A k \in DOMAIN at : at[k] \in P
      /\ \A x \in P : \E k \in DOMAIN at : at[k] = x
      /\ \A k, l \in DOMAIN at : at[k] = at[l] => k = l
      /\ \A k, l \in DOMAIN at : k <= l => <<at[k], at[l]>> \in rel
  <2> DEFINE o == InOrder(P, rel)
  <2>1. /\ n \in Nat /\ DOMAIN o = 1..n
        /\ \A k \in DOMAIN o : o[k] \in P
        /\ \A x \in P : \E k \in DOMAIN o : o[k] = x
        /\ \A k, l \in DOMAIN o : o[k] = o[l] => k = l
        /\ \A k, l \in DOMAIN o : k <= l => <<o[k], o[l]>> \in rel
    BY <1>1, <1>5, InOrderIs
  <2> HIDE DEF o
  <2>2. at = o
    BY <1>6 DEF o
  <2> QED
    BY <2>1, <2>2
<1> HIDE DEF n
<1>9. DOMAIN text = DOMAIN at
  BY <1>3
<1>10. ASSUME NEW i \in DOMAIN at
       PROVE  /\ of[i] = at[i][1] /\ line[i] = at[i][2] /\ column[i] = at[i][3]
              /\ of[i] \in Int /\ line[i] \in Int /\ column[i] \in Int
              /\ HasPlace(events, width, ended, of[i], line[i], column[i])
              /\ text[i] = w[of[i]][line[i]][column[i]]
  BY <1>1, <1>3, <1>8
<1> HIDE DEF of, line, column
<1>11. ASSUME NEW i \in DOMAIN text
       PROVE  /\ text[i] \in Symbols
              /\ text[i] = "lf" <=> column[i] = LastColumn(events, width, of[i], line[i])
              /\ text[i] = "cr" <=> /\ width = 2
                                    /\ column[i] + 1 = LastColumn(events, width, of[i], line[i])
              /\ line[i] <= Len(events[of[i]]) /\ column[i] <= 2 =>
                   text[i] = events[of[i]][line[i]][column[i]]
  <2>1. i \in DOMAIN at
    BY <1>9
  <2> DEFINE e == of[i]
             l == line[i]
             c == column[i]
  <2>2. /\ e \in Int /\ l \in Int /\ c \in Int /\ HasPlace(events, width, ended, e, l, c)
        /\ text[i] = w[e][l][c]
    BY <1>10, <2>1
  <2> HIDE DEF e, l, c
  <2>3. /\ w[e][l][c] \in Symbols
        /\ w[e][l][c] = "lf" <=> c = LastColumn(events, width, e, l)
        /\ w[e][l][c] = "cr" <=> width = 2 /\ c + 1 = LastColumn(events, width, e, l)
        /\ l <= Len(events[e]) /\ c <= 2 => w[e][l][c] = events[e][l][c]
    BY <1>2, <2>2
  <2> QED
    BY <2>2, <2>3 DEF e, l, c
<1>12. text \in Seq(Symbols)
  <2>1. text \in [1..n -> Symbols]
    <3>1. text = [i \in 1..n |-> text[i]]
      BY <1>3, <1>8, <1>9
    <3> QED
      BY <1>8, <1>9, <1>11, <3>1
  <2> QED
    BY <1>8, <2>1
<1>13. ASSUME NEW e \in Int, NEW l \in Int, NEW c \in Int,
              HasPlace(events, width, ended, e, l, c)
       PROVE  \E i \in DOMAIN text : of[i] = e /\ line[i] = l /\ column[i] = c
  <2>1. <<e, l, c>> \in P
    BY <1>1, <1>13
  <2>2. PICK i \in DOMAIN at : at[i] = <<e, l, c>>
    BY <1>8, <2>1
  <2> QED
    BY <1>9, <1>10, <2>2
<1>14. ASSUME NEW i \in DOMAIN text, NEW j \in DOMAIN text, i < j
       PROVE  Earlier(of, line, column, i, j)
  <2>1. i \in DOMAIN at /\ j \in DOMAIN at /\ i \in Int /\ j \in Int /\ i <= j /\ i # j
    BY <1>8, <1>9, <1>14
  <2>2. NotAfter(at[i], at[j]) /\ at[i] # at[j] /\ at[i] \in P /\ at[j] \in P
    BY <1>7, <1>8, <2>1
  <2>3. ~(of[i] = of[j] /\ line[i] = line[j] /\ column[i] = column[j])
    BY <1>1, <1>10, <2>1, <2>2
  <2> QED
    BY <1>10, <2>1, <2>2, <2>3 DEF NotAfter, Earlier
<1>15. \A i \in DOMAIN text : HasPlace(events, width, ended, of[i], line[i], column[i])
  BY <1>9, <1>10
<1>16. IsLayout(text, of, line, column, events, width, ended)
  BY <1>4, <1>11, <1>12, <1>13, <1>14, <1>15 DEF IsLayout
<1> QED
  BY <1>16 DEF text, of, line, column, at, P, w, width

-----------------------------------------------------------------------------
(***************************************************************************)
(* The reader: what is handed on is what was sent.                         *)
(***************************************************************************)

\* The text of the body, and the events its symbols belong to.
TextOf(eol, ended) == Encoded(sent, eol, ended)
EventAt(eol, ended) ==
  LET at == InReadingOrder(Places(Written(sent, eol, ended)))
  IN [i \in DOMAIN at |-> at[i][1]]

\* What the events say, and what the first k of them that say something say.
SaidOf(events) == [e \in DOMAIN events |-> Said(events[e])]
SaidBy(said, k) == Kept(said, {e \in 1..k : said[e] # <<>>})

\* r symbols are read, and k events framed.
Reads(text, of, n, said, r, k) ==
  /\ r \in 0..Len(text) /\ k \in 0..n /\ ReadOf(text, of, r, k)
  /\ body = Part(text, r + 1, Len(text))
  /\ buffer = Kept(text, Unframed(text, of, r, k))
  /\ yielded = SaidBy(said, k)

\* The invariant of the reader: the text is read up to some symbol and framed up to some event.
SseInv ==
  /\ AreEvents(sent) /\ sse \in {"requested", "open", "done", "thrown"}
  /\ sse # "done" =>
       \E eol \in LineEnds, ended \in BOOLEAN :
         \E r \in 0..Len(TextOf(eol, ended)), k \in 0..Len(sent) :
           Reads(TextOf(eol, ended), EventAt(eol, ended), Len(sent), SaidOf(sent), r, k)
  /\ sse = "done" => yielded = SaidBy(SaidOf(sent), Len(sent))

\* The text of the body is a body in the sense of the lemmas.
LEMMA TextIsBody ==
  ASSUME AreEvents(sent), NEW eol \in LineEnds, NEW ended \in BOOLEAN
  PROVE  IsBody(TextOf(eol, ended), EventAt(eol, ended), Len(sent), ended, SaidOf(sent))
<1> DEFINE at == InReadingOrder(Places(Written(sent, eol, ended)))
           line == [i \in DOMAIN at |-> at[i][2]]
           column == [i \in DOMAIN at |-> at[i][3]]
           of == [i \in DOMAIN at |-> at[i][1]]
<1>1. IsLayout(TextOf(eol, ended), of, line, column, sent, Len(eol), ended)
  BY EncodedIsLaidOut DEF TextOf
<1>2. of = EventAt(eol, ended)
  BY DEF EventAt
<1> HIDE DEF at, line, column, of
<1> QED
  BY <1>1, <1>2, LayoutIsBody DEF SaidOf

\* What the next event adds to what has been said.
LEMMA SaysMore ==
  ASSUME NEW V, NEW said \in Seq(V), NEW n \in Nat, Len(said) = n, NEW k \in 0..n, k < n
  PROVE  SaidBy(said, k + 1) = IF said[k + 1] = <<>> THEN SaidBy(said, k)
                               ELSE Append(SaidBy(said, k), said[k + 1])
<1> DEFINE m == k + 1
           S == {e \in 1..k : said[e] # <<>>}
           U == {e \in 1..m : said[e] # <<>>}
           T == {m}
<1>1. said \in Seq(V) /\ DOMAIN said = 1..n
  OBVIOUS
<1>2. m \in 1..n /\ m \in Int /\ m \notin S /\ S \in SUBSET DOMAIN said /\ T \in SUBSET DOMAIN said
      /\ \A x \in S, y \in T : x < y
  OBVIOUS
<1>3. CASE said[m] = <<>>
  <2>1. U = S
    BY <1>3
  <2> QED
    BY <1>3, <2>1 DEF SaidBy
<1>4. CASE said[m] # <<>>
  <2>1. U = S \cup T
    BY <1>4
  <2> DEFINE o == 1
             one == [j \in 1..o |-> m]
  <2>2. Lists(one, o, T)
    BY <1>2 DEF Lists
  <2>3. Kept(said, T) = <<said[m]>>
    <3> HIDE DEF T, one, m, o, S, U
    <3>1. Kept(said, T) = [j \in 1..o |-> said[one[j]]]
      BY <2>2, KeptListed
    <3>2. [j \in 1..o |-> said[one[j]]] = [j \in 1..o |-> said[m]]
      BY DEF one
    <3>3. [j \in 1..o |-> said[m]] = <<said[m]>>
      BY DEF o
    <3> QED
      BY <3>1, <3>2, <3>3
  <2> HIDE DEF S, T, U, m
  <2>4. Joined(Kept(said, S), Kept(said, T)) = Kept(said, S \cup T)
    BY <1>1, <1>2, KeptJoins
  <2>5. Kept(said, S) \in Seq(V) /\ said[m] \in V
    BY <1>1, <1>2, KeptIs, ElementOfSeq
  <2>6. Append(Kept(said, S), said[m]) = Kept(said, S) \o <<said[m]>>
    <3> DEFINE s == Kept(said, S)
               x == said[m]
    <3>1. s \in Seq(V) /\ x \in V
      BY <2>5
    <3> HIDE DEF s, x
    <3>2. Append(s, x) = s \o <<x>>
      BY <3>1, AppendIsConcat
    <3> QED
      BY <3>2 DEF s, x
  <2> QED
    BY <1>4, <2>1, <2>3, <2>4, <2>6 DEF SaidBy, Joined, S, U, m
<1> QED
  BY <1>3, <1>4

\* What the first events say begins what all of them say.
LEMMA SaysAPrefix ==
  ASSUME NEW V, NEW said \in Seq(V), NEW n \in Nat, Len(said) = n, NEW k \in 0..n
  PROVE  IsPrefix(SaidBy(said, k), SaidBy(said, n))
<1> DEFINE S == {e \in 1..k : said[e] # <<>>}
           T == {e \in (k + 1)..n : said[e] # <<>>}
           s == Kept(said, S)
           t == Kept(said, T)
<1>1. said \in Seq(V) /\ DOMAIN said = 1..n
  OBVIOUS
<1>2. S \in SUBSET DOMAIN said /\ T \in SUBSET DOMAIN said /\ \A x \in S, y \in T : x < y
  OBVIOUS
<1>3. {e \in 1..n : said[e] # <<>>} = S \cup T
  OBVIOUS
<1> HIDE DEF S, T
<1>4. s \in Seq(V) /\ t \in Seq(V)
  BY <1>1, <1>2, KeptIs
<1>5. Joined(s, t) = Kept(said, S \cup T)
  BY <1>1, <1>2, KeptJoins
<1>6. SaidBy(said, k) = s /\ SaidBy(said, n) = Joined(s, t)
  BY <1>3, <1>5 DEF SaidBy, S
<1> HIDE DEF s, t
<1> DEFINE u == s \o t
<1>7. /\ u \in Seq(V) /\ Len(u) = Len(s) + Len(t) /\ Len(s) \in Nat /\ Len(t) \in Nat
      /\ \A i \in 1..Len(s) : u[i] = s[i]
  BY <1>4, ConcatProperties
<1>8. u = Joined(s, t)
  BY DEF Joined
<1> HIDE DEF u
<1> DEFINE a == SubSeq(s, 1, Len(s))
           b == SubSeq(u, 1, Len(s))
<1>9. /\ a \in Seq(V) /\ Len(a) = Len(s) /\ \A i \in 1..Len(s) : a[i] = s[i]
      /\ b \in Seq(V) /\ Len(b) = Len(s) /\ \A i \in 1..Len(s) : b[i] = u[i]
  BY <1>4, <1>7
<1>10. a = b
  <2> HIDE DEF a, b
  <2> QED
    BY <1>7, <1>9
<1>11. Len(s) <= Len(u)
  BY <1>7
<1> QED
  BY <1>6, <1>8, <1>10, <1>11 DEF IsPrefix

\* The parts of what is left of a text.
LEMMA PartsOfRest ==
  ASSUME NEW T, NEW text \in Seq(T), NEW r \in 0..Len(text)
  PROVE  LET b == Part(text, r + 1, Len(text))
         IN /\ Len(b) = Len(text) - r
            /\ \A n \in 1..Len(b) :
                 /\ r + n \in 0..Len(text) /\ r < r + n
                 /\ Part(b, 1, n) = Part(text, r + 1, r + n)
                 /\ Part(b, n + 1, Len(b)) = Part(text, r + n + 1, Len(text))
<1> DEFINE b == Part(text, r + 1, Len(text))
           len == Len(text)
<1>1. len \in Nat /\ r \in Int
  OBVIOUS
<1>2. /\ b \in Seq(T) /\ Len(b) = len - r
      /\ \A i \in 1..(len - r) : b[i] = text[r + i]
  BY DEF Part
<1>3. ASSUME NEW n \in 1..Len(b)
      PROVE  /\ r + n \in 0..len /\ r < r + n
             /\ Part(b, 1, n) = Part(text, r + 1, r + n)
             /\ Part(b, n + 1, Len(b)) = Part(text, r + n + 1, len)
  <2> HIDE DEF b, len
  <2>1. n \in Int /\ 1 <= n /\ n <= len - r /\ r >= 0
    BY <1>2, <1>1 DEF len
  <2> DEFINE p == SubSeq(b, 1, n)
             q == SubSeq(text, r + 1, r + n)
             v == SubSeq(b, n + 1, Len(b))
             w == SubSeq(text, r + n + 1, Len(text))
  <2>2. p \in Seq(T) /\ Len(p) = n /\ \A i \in 1..n : p[i] = b[i]
    BY <1>1, <1>2, <2>1
  <2>3. q \in Seq(T) /\ Len(q) = n /\ \A i \in 1..n : q[i] = text[r + i]
    <3> DEFINE a == r + 1
               c == r + n
    <3>1. a \in Int /\ c \in Int /\ a >= 1 /\ c <= Len(text) /\ c - a + 1 = n /\ a <= c
      BY <1>1, <2>1 DEF len
    <3> HIDE DEF a, c
    <3>2. SubSeq(text, a, c) \in Seq(T) /\ Len(SubSeq(text, a, c)) = c - a + 1
          /\ \A i \in 1..(c - a + 1) : SubSeq(text, a, c)[i] = text[a + i - 1]
      <4>1. \A i \in a..c : text[i] \in T
        BY <3>1, ElementOfSeq
      <4> QED
        BY <3>1, <4>1, SubSeqProperties
    <3>3. \A i \in 1..n : a + i - 1 = r + i
      BY <1>1, <2>1 DEF a
    <3> QED
      BY <3>1, <3>2, <3>3 DEF a, c
  <2>4. v \in Seq(T) /\ Len(v) = len - r - n /\ \A i \in 1..(len - r - n) : v[i] = b[n + i]
    BY <1>1, <1>2, <2>1
  <2>5. w \in Seq(T) /\ Len(w) = len - r - n /\ \A i \in 1..(len - r - n) : w[i] = text[r + n + i]
    BY <1>1, <2>1 DEF len
  <2> HIDE DEF p, q, v, w
  <2>6. p = q
    <3>1. \A i \in 1..n : p[i] = q[i]
      BY <1>1, <1>2, <2>1, <2>2, <2>3
    <3> QED
      BY <2>1, <2>2, <2>3, <3>1
  <2>7. v = w
    <3>1. ASSUME NEW i \in 1..(len - r - n)
          PROVE  v[i] = w[i]
      <4>1. n + i \in 1..(len - r) /\ r + (n + i) = r + n + i
        BY <1>1, <2>1
      <4>2. b[n + i] = text[r + (n + i)]
        BY <1>2, <4>1
      <4> QED
        BY <2>4, <2>5, <4>1, <4>2
    <3> QED
      BY <1>1, <2>1, <2>4, <2>5, <3>1
  <2> QED
    BY <1>1, <2>1, <2>6, <2>7 DEF Part, p, q, v, w, len
<1> QED
  BY <1>2, <1>3

\* Init: nothing is read and nothing framed.
LEMMA ReaderInit ==
  ASSUME SseInit
  PROVE  SseInv
<1>1. AreEvents(sent)
  <2>1. sent \in SeqOf(SeqOf(Lines, MaxLines) \ {<<>>}, MaxFrames)
    BY DEF SseInit
  <2>2. PICK m \in 0..MaxFrames : sent \in [1..m -> SeqOf(Lines, MaxLines) \ {<<>>}]
    BY <2>1 DEF SeqOf
  <2>3. ASSUME NEW e \in 1..m
        PROVE  sent[e] \in Seq(Lines) /\ Len(sent[e]) \in 1..MaxLines
    <3>1. sent[e] \in SeqOf(Lines, MaxLines) /\ sent[e] # <<>>
      BY <2>2
    <3>2. PICK l \in 0..MaxLines : sent[e] \in [1..l -> Lines]
      BY <3>1 DEF SeqOf
    <3> DEFINE s == sent[e]
    <3>3. l \in Nat /\ s \in [1..l -> Lines] /\ s # <<>>
      BY <3>1, <3>2, SseAssumption
    <3> HIDE DEF s
    <3>4. s \in Seq(Lines) /\ Len(s) = l /\ l # 0
      BY <3>3
    <3> QED
      BY <3>2, <3>4, SseAssumption DEF s
  <2>4. m \in Nat
    BY SseAssumption
  <2>5. sent \in Seq(Seq(Lines)) /\ DOMAIN sent = 1..m
    BY <2>2, <2>3, <2>4
  <2> QED
    BY <2>3, <2>5 DEF AreEvents
<1>2. PICK eol \in LineEnds, ended \in BOOLEAN : body = TextOf(eol, ended)
  BY DEF SseInit, LineEnds, TextOf
<1> DEFINE text == TextOf(eol, ended)
           of == EventAt(eol, ended)
           n == Len(sent)
           said == SaidOf(sent)
<1>3. IsBody(text, of, n, ended, said)
  BY <1>1, TextIsBody
<1> HIDE DEF text, of, n, said
<1>4. text \in Seq(Symbols) /\ n \in Nat /\ \A i \in DOMAIN text : of[i] \in 1..n
  BY <1>3 DEF IsBody
<1>5. ReadOf(text, of, 0, 0)
  BY <1>4 DEF ReadOf
<1>6. body = Part(text, 1, Len(text))
  BY <1>2, <1>4, SubSeqFull DEF Part, text
<1>7. Unframed(text, of, 0, 0) = {}
  <2>1. \A i \in DOMAIN text : i >= 1 /\ i \in Int
    BY <1>4
  <2> QED
    BY <2>1 DEF Unframed
<1>8. Kept(text, {}) = <<>>
  BY <1>4, KeptIs
<1>9. SaidBy(said, 0) = <<>>
  <2>1. {e \in 1..0 : said[e] # <<>>} = {}
    OBVIOUS
  <2>2. Kept(said, {}) = <<>>
    <3> DEFINE none == [k \in 1..0 |-> k]
               Z == {}
               o == 0
    <3>1. Lists(none, o, Z)
      BY DEF Lists
    <3> HIDE DEF none, Z, o
    <3>2. Kept(said, Z) = [k \in 1..o |-> said[none[k]]]
      BY <3>1, KeptListed
    <3> QED
      BY <3>2 DEF Z, o
  <2> QED
    BY <2>1, <2>2 DEF SaidBy
<1>10. buffer = <<>> /\ yielded = <<>> /\ sse = "requested"
  BY DEF SseInit
<1>11. Reads(text, of, n, said, 0, 0)
  <2> DEFINE o == 0
  <2>1. /\ o \in 0..Len(text) /\ o \in 0..n /\ ReadOf(text, of, o, o)
        /\ body = Part(text, o + 1, Len(text))
    BY <1>4, <1>5, <1>6
  <2>2. buffer = Kept(text, Unframed(text, of, o, o))
    BY <1>7, <1>8, <1>10
  <2>3. yielded = SaidBy(said, o)
    BY <1>9, <1>10
  <2> HIDE DEF o
  <2>4. Reads(text, of, n, said, o, o)
    BY <2>1, <2>2, <2>3 DEF Reads
  <2> QED
    BY <2>4 DEF o
<1>12. 0 \in 0..Len(text) /\ 0 \in 0..n
  BY <1>4
<1> QED
  BY <1>1, <1>10, <1>11, <1>12 DEF SseInv, text, of, n, said

\* The state of a reader that has not come to the end.
LEMMA ReaderReads ==
  ASSUME SseInv, sse # "done"
  PROVE  \E eol \in LineEnds, ended \in BOOLEAN, r \in Nat, k \in Nat :
           Reads(TextOf(eol, ended), EventAt(eol, ended), Len(sent), SaidOf(sent), r, k)
BY DEF SseInv

\* What the events say is a sequence.
LEMMA SaidIs ==
  ASSUME AreEvents(sent)
  PROVE  /\ SaidOf(sent) \in Seq({Said(sent[e]) : e \in DOMAIN sent})
         /\ Len(SaidOf(sent)) = Len(sent) /\ Len(sent) \in Nat
         /\ SentData = SaidBy(SaidOf(sent), Len(sent))
<1>1. DOMAIN sent = 1..Len(sent) /\ Len(sent) \in Nat
  BY DEF AreEvents
<1>2. SaidOf(sent) \in [1..Len(sent) -> {Said(sent[e]) : e \in DOMAIN sent}]
  BY <1>1 DEF SaidOf
<1>3. SentData = SaidBy(SaidOf(sent), Len(sent))
  BY <1>1 DEF SentData, SaidBy, SaidOf
<1> QED
  BY <1>1, <1>2, <1>3

\* A step that keeps the reader in the text keeps the invariant.
LEMMA StillReads ==
  ASSUME SseInv, sent' = sent, sse' \in {"requested", "open", "thrown"},
         NEW eol \in LineEnds, NEW ended \in BOOLEAN, NEW r, NEW k,
         Reads(TextOf(eol, ended), EventAt(eol, ended), Len(sent), SaidOf(sent), r, k)'
  PROVE  SseInv'
<1>1. TextOf(eol, ended)' = TextOf(eol, ended) /\ EventAt(eol, ended)' = EventAt(eol, ended)
      /\ Len(sent)' = Len(sent) /\ SaidOf(sent)' = SaidOf(sent) /\ AreEvents(sent)'
  BY DEF TextOf, EventAt, SaidOf, AreEvents, SseInv
<1>2. (r \in 0..Len(TextOf(eol, ended)))' /\ (k \in 0..Len(sent))'
  BY DEF Reads
<1> QED
  BY <1>1, <1>2 DEF SseInv

\* The response opens, or the reading is broken off: the reader is where it was.
LEMMA ReaderStays ==
  ASSUME SseInv, sse # "done", UNCHANGED <<sent, body, buffer, yielded>>,
         sse' \in {"requested", "open", "thrown"}
  PROVE  SseInv'
<1>1. PICK eol \in LineEnds, ended \in BOOLEAN, r \in Nat, k \in Nat :
        Reads(TextOf(eol, ended), EventAt(eol, ended), Len(sent), SaidOf(sent), r, k)
  BY ReaderReads
<1>2. Reads(TextOf(eol, ended), EventAt(eol, ended), Len(sent), SaidOf(sent), r, k)'
  BY <1>1 DEF Reads, TextOf, EventAt, SaidOf
<1> QED
  BY <1>2, StillReads

\* A read brings a part of what is left, and what was framed stays framed.
LEMMA ReaderReadsOn ==
  ASSUME SseInv, ReadNext
  PROVE  SseInv'
<1>1. /\ sse = "open" /\ Breaks = {}
      /\ sent' = sent /\ yielded' = yielded /\ sse' = sse
  BY DEF ReadNext
<1>2. PICK c \in 1..Len(body) : /\ buffer' = Normalized(Joined(buffer, Part(body, 1, c)))
                                /\ body' = Part(body, c + 1, Len(body))
  BY DEF ReadNext, Joined, Part
<1>3. PICK eol \in LineEnds, ended \in BOOLEAN, r \in Nat, k \in Nat :
        Reads(TextOf(eol, ended), EventAt(eol, ended), Len(sent), SaidOf(sent), r, k)
  BY <1>1, ReaderReads
<1> DEFINE text == TextOf(eol, ended)
           of == EventAt(eol, ended)
           n == Len(sent)
           said == SaidOf(sent)
           q == r + c
<1>4. IsBody(text, of, n, ended, said)
  BY TextIsBody DEF SseInv
<1>5. text' = text /\ of' = of /\ n' = n /\ said' = said
  BY <1>1 DEF TextOf, EventAt, SaidOf
<1> HIDE DEF text, of, n, said
<1>6. Reads(text, of, n, said, r, k)
  BY <1>3 DEF text, of, n, said
<1>7. /\ r \in 0..Len(text) /\ k \in 0..n /\ k \in Nat /\ text \in Seq(Symbols) /\ n \in Nat
      /\ ReadOf(text, of, r, k) /\ body = Part(text, r + 1, Len(text))
      /\ buffer = Kept(text, Unframed(text, of, r, k)) /\ yielded = SaidBy(said, k)
  BY <1>4, <1>6 DEF Reads, IsBody
<1>8. /\ q \in 0..Len(text) /\ r < q
      /\ Part(body, 1, c) = Part(text, r + 1, q)
      /\ Part(body, c + 1, Len(body)) = Part(text, q + 1, Len(text))
  BY <1>7, PartsOfRest
<1>9. buffer' = Kept(text, Unframed(text, of, q, k))
  <2> HIDE DEF q
  <2> QED
    BY <1>2, <1>4, <1>7, <1>8, ReadIs
<1>10. ReadOf(text, of, q, k)
  <2>1. \A i \in DOMAIN text : i \in Int
    BY <1>7
  <2>2. q \in Int /\ r \in Int
    BY <1>7, <1>8
  <2> QED
    BY <1>7, <1>8, <2>1, <2>2 DEF ReadOf
<1> HIDE DEF q
<1>11. Reads(text, of, n, said, q, k)'
  BY <1>1, <1>2, <1>5, <1>7, <1>8, <1>9, <1>10 DEF Reads
<1>12. Reads(TextOf(eol, ended), EventAt(eol, ended), Len(sent), SaidOf(sent), q, k)'
  BY <1>11 DEF text, of, n, said
<1> QED
  BY <1>1, <1>12, StillReads

\* An event is framed: the next one.
LEMMA ReaderFrames ==
  ASSUME SseInv, NextEvent
  PROVE  SseInv'
<1> DEFINE end == Min(Breaks)
<1>1. /\ sse = "open" /\ Breaks # {}
      /\ Yield(EventData(Part(buffer, 1, end - 1)))
      /\ buffer' = Part(buffer, end + 2, Len(buffer))
      /\ sent' = sent /\ body' = body /\ sse' = sse
  BY DEF NextEvent, Part
<1> HIDE DEF end
<1>2. PICK eol \in LineEnds, ended \in BOOLEAN, r \in Nat, k \in Nat :
        Reads(TextOf(eol, ended), EventAt(eol, ended), Len(sent), SaidOf(sent), r, k)
  BY <1>1, ReaderReads
<1> DEFINE text == TextOf(eol, ended)
           of == EventAt(eol, ended)
           n == Len(sent)
           said == SaidOf(sent)
<1>3. IsBody(text, of, n, ended, said)
  BY TextIsBody DEF SseInv
<1>4. text' = text /\ of' = of /\ n' = n /\ said' = said
  BY <1>1 DEF TextOf, EventAt, SaidOf
<1>5. said \in Seq({Said(sent[e]) : e \in DOMAIN sent}) /\ Len(said) = n /\ n \in Nat
  BY SaidIs DEF SseInv
<1> HIDE DEF text, of, n, said
<1>6. Reads(text, of, n, said, r, k)
  BY <1>2 DEF text, of, n, said
<1>7. /\ r \in 0..Len(text) /\ k \in 0..n /\ k \in Nat
      /\ ReadOf(text, of, r, k) /\ body = Part(text, r + 1, Len(text))
      /\ buffer = Kept(text, Unframed(text, of, r, k)) /\ yielded = SaidBy(said, k)
  BY <1>5, <1>6 DEF Reads
<1>8. /\ k + 1 \in 1..n /\ ReadOf(text, of, r, k + 1)
      /\ EventData(Part(buffer, 1, end - 1)) = said[k + 1]
      /\ Part(buffer, end + 2, Len(buffer)) = Kept(text, Unframed(text, of, r, k + 1))
  BY <1>1, <1>3, <1>7, NextIs DEF end
<1>9. yielded' = SaidBy(said, k + 1)
  <2>1. k < n
    BY <1>5, <1>7, <1>8
  <2>2. SaidBy(said, k + 1) = IF said[k + 1] = <<>> THEN SaidBy(said, k)
                              ELSE Append(SaidBy(said, k), said[k + 1])
    BY <1>5, <1>7, <2>1, SaysMore
  <2> QED
    BY <1>1, <1>7, <1>8, <2>2 DEF Yield
<1> DEFINE m == k + 1
<1>10. m \in 0..n
  BY <1>5, <1>8
<1>11. /\ ReadOf(text, of, r, m) /\ buffer' = Kept(text, Unframed(text, of, r, m))
       /\ yielded' = SaidBy(said, m)
  BY <1>1, <1>8, <1>9
<1> HIDE DEF m
<1>12. Reads(text, of, n, said, r, m)'
  BY <1>1, <1>4, <1>7, <1>10, <1>11 DEF Reads
<1>13. Reads(TextOf(eol, ended), EventAt(eol, ended), Len(sent), SaidOf(sent), r, m)'
  BY <1>12 DEF text, of, n, said
<1> QED
  BY <1>1, <1>13, StillReads

\* At the end of the body what is left in the buffer is the last event, if it was not ended.
LEMMA ReaderEnds ==
  ASSUME SseInv, ReadDone
  PROVE  SseInv'
<1>1. /\ sse = "open" /\ Breaks = {} /\ body = <<>> /\ Yield(EventData(buffer))
      /\ sent' = sent /\ sse' = "done"
  BY DEF ReadDone
<1>2. PICK eol \in LineEnds, ended \in BOOLEAN, r \in Nat, k \in Nat :
        Reads(TextOf(eol, ended), EventAt(eol, ended), Len(sent), SaidOf(sent), r, k)
  BY <1>1, ReaderReads
<1> DEFINE text == TextOf(eol, ended)
           of == EventAt(eol, ended)
           n == Len(sent)
           said == SaidOf(sent)
<1>3. IsBody(text, of, n, ended, said)
  BY TextIsBody DEF SseInv
<1>4. n' = n /\ said' = said /\ AreEvents(sent)'
  BY <1>1 DEF SaidOf, AreEvents, SseInv
<1>5. said \in Seq({Said(sent[e]) : e \in DOMAIN sent}) /\ Len(said) = n /\ n \in Nat
  BY SaidIs DEF SseInv
<1> HIDE DEF text, of, n, said
<1>6. Reads(text, of, n, said, r, k)
  BY <1>2 DEF text, of, n, said
<1>7. /\ r \in 0..Len(text) /\ k \in 0..n /\ k \in Nat /\ text \in Seq(Symbols)
      /\ ReadOf(text, of, r, k) /\ body = Part(text, r + 1, Len(text))
      /\ buffer = Kept(text, Unframed(text, of, r, k)) /\ yielded = SaidBy(said, k)
  BY <1>3, <1>5, <1>6 DEF Reads, IsBody
<1>8. r = Len(text)
  <2>1. Len(Part(text, r + 1, Len(text))) = Len(text) - r
    BY <1>7, PartsOfRest
  <2>2. Len(body) = Len(text) - r /\ Len(body) = 0
    BY <1>1, <1>7, <2>1
  <2> QED
    BY <1>7, <2>2
<1>9. /\ k < n => k + 1 = n /\ EventData(buffer) = said[n]
      /\ k = n => EventData(buffer) = <<>>
  BY <1>1, <1>3, <1>7, <1>8, LastIs
<1>10. yielded' = SaidBy(said, n)
  <2>1. CASE k < n
    <3>1. SaidBy(said, k + 1) = IF said[k + 1] = <<>> THEN SaidBy(said, k)
                                ELSE Append(SaidBy(said, k), said[k + 1])
      BY <1>5, <1>7, <2>1, SaysMore
    <3> QED
      BY <1>1, <1>7, <1>9, <2>1, <3>1 DEF Yield
  <2>2. CASE k = n
    BY <1>1, <1>7, <1>9, <2>2 DEF Yield
  <2> QED
    BY <1>5, <1>7, <2>1, <2>2
<1>11. (yielded = SaidBy(SaidOf(sent), Len(sent)))'
  BY <1>4, <1>10 DEF n, said
<1> QED
  BY <1>1, <1>4, <1>11 DEF SseInv

\* Every step keeps the invariant.
LEMMA ReaderStep ==
  ASSUME SseInv, [SseNext]_sseVars
  PROVE  SseInv'
<1>1. CASE ResponseOpens
  BY <1>1, ReaderStays DEF ResponseOpens
<1>2. CASE Throws
  BY <1>2, ReaderStays DEF Throws
<1>3. CASE ReadNext
  BY <1>3, ReaderReadsOn
<1>4. CASE NextEvent
  BY <1>4, ReaderFrames
<1>5. CASE ReadDone
  BY <1>5, ReaderEnds
<1>6. CASE UNCHANGED sseVars
  <2>1. CASE sse = "done"
    BY <1>6, <2>1 DEF SseInv, sseVars, AreEvents, SaidOf, SaidBy
  <2>2. CASE sse # "done"
    BY <1>6, <2>2, ReaderStays DEF SseInv, sseVars
  <2> QED
    BY <2>1, <2>2
<1> QED
  BY <1>1, <1>2, <1>3, <1>4, <1>5, <1>6 DEF SseNext

\* The invariant says that the frames are whole.
LEMMA ReaderIsWhole ==
  ASSUME SseInv
  PROVE  FramesAreWhole
<1> DEFINE said == SaidOf(sent)
           n == Len(sent)
           V == {Said(sent[e]) : e \in DOMAIN sent}
<1>1. said \in Seq(V) /\ Len(said) = n /\ n \in Nat /\ SentData = SaidBy(said, n)
  BY SaidIs DEF SseInv
<1>2. \E k \in 0..n : yielded = SaidBy(said, k)
  <2>1. CASE sse = "done"
    <3>1. yielded = SaidBy(said, n) /\ n \in 0..n
      BY <1>1, <2>1 DEF SseInv
    <3> QED
      BY <3>1
  <2>2. CASE sse # "done"
    BY <2>2 DEF SseInv, Reads
  <2> QED
    BY <2>1, <2>2
<1>3. sse = "done" => yielded = SaidBy(said, n)
  BY DEF SseInv
<1> HIDE DEF said, n, V
<1>4. PICK k \in 0..n : yielded = SaidBy(said, k)
  BY <1>2
<1>5. IsPrefix(SaidBy(said, k), SaidBy(said, n))
  BY <1>1, SaysAPrefix
<1> QED
  BY <1>1, <1>3, <1>4, <1>5 DEF FramesAreWhole

\* The reader is somewhere in the text: the buffer is what is kept of the part that was read
\* and not framed, and what was handed on is what the framed events say.
THEOREM ReaderSafe == SseSpec => []SseInv
<1>1. SseInit => SseInv
  BY ReaderInit
<1>2. SseInv /\ [SseNext]_sseVars => SseInv'
  BY ReaderStep
<1> QED
  BY <1>1, <1>2, PTL DEF SseSpec

\* Wherever the reads cut a body, and wherever the reading breaks off, what is handed on is whole.
THEOREM FramesSafe == SseSpec => []FramesAreWhole
<1>1. SseInv => FramesAreWhole
  BY ReaderIsWhole
<1> QED
  BY <1>1, ReaderSafe, PTL

=============================================================================
