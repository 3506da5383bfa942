------------------------- MODULE DownloadEventsProofs -------------------------
(***************************************************************************)
(* Proofs about DownloadEvents and DownloadPages: the inductive invariant  *)
(* EventsInv, that what a client shows of a job only moves forward, and    *)
(* that the pages agree with the server whenever nothing is on its way.    *)
(***************************************************************************)
EXTENDS DownloadPages, FiniteSetTheorems, SequenceTheorems, WellFoundedInduction, TLAPS

(***************************************************************************)
(* The inductive invariant.                                                *)
(***************************************************************************)

\* b is the same row of a job as a, or a later one.
NotAfter(a, b) == a = b \/ Rank(a) < Rank(b)

\* A record is inserted when its job is published.
RecordInv == \A j \in JobIds : phase[j] \in {"absent", "pending", "downloading"} => j \notin records

\* What the client shows of a job, then what it will read of it, then the row of the job
\* come in this order, and nothing is on the wire twice.
ShownInv == \A j \in JobIds : shown[j] # None => HasRow(j) /\ NotAfter(shown[j], Row(j))

WireInv ==
  /\ \A n \in 1..Len(wire) : LET e == wire[n] IN
       /\ HasRow(e.id) /\ NotAfter(e.row, Row(e.id))
       /\ NotAfter(shown[e.id], e.row)
  /\ \A m, n \in 1..Len(wire) :
       m < n /\ wire[m].id = wire[n].id => Rank(wire[m].row) < Rank(wire[n].row)

\* What is on the wire was sent on this connection, and of what was sent the last is on
\* the wire or shown.
StreamInv ==
  /\ stream = "closed" => wire = <<>> /\ \A j \in JobIds : sent[j] = None
  /\ \A n \in 1..Len(wire) : sent[wire[n].id] # None
  /\ \A j \in JobIds : sent[j] # None => HasRow(j)
  /\ SentReachesClient

\* A job that failed with its record published has failed in a restart, and no stream
\* that was opened later follows it.
FollowedInv ==
  \A j \in JobIds : stream = "open" /\ phase[j] = "failed" /\ (j > newest \/ sent[j] # None) =>
    j \notin records

\* A job shown as completed is in the answer that is on its way, too.
CompletedInv ==
  \A j \in JobIds : shown[j] # None /\ shown[j].status = "completed" =>
    /\ list.fetch = "idle" => list.missed \/ j \in list.data \/ j \notin records
    /\ list.fetch = "read" => list.missed \/ j \in list.read \/ j \notin records

\* A record that has gone from under the list, or from under an answer, has a DELETE whose
\* own answer is still to come and will have the list fetched again, or was lost.
GoneInv ==
  /\ ~list.loaded => list.data = {} /\ deletes = {}
  /\ list.fetch # "read" => list.read = {}
  /\ \A j \in list.read \ records :
       j \in list.unheard \/ [job |-> j, deleted |-> TRUE] \in deletes
  /\ \A j \in list.data \ records :
       \/ list.missed \/ list.fetch = "asked" \/ (list.fetch = "read" /\ j \notin list.read)
       \/ j \in list.unheard \/ [job |-> j, deleted |-> TRUE] \in deletes

EventsInv ==
  /\ TypeOK
  /\ RecordInv
  /\ ShownInv /\ WireInv /\ StreamInv /\ FollowedInv
  /\ CompletedInv /\ GoneInv

-----------------------------------------------------------------------------
(***************************************************************************)
(* Rows and their order.                                                   *)
(***************************************************************************)

\* The ranks of no row, of a job in the queue, of one under way and of one at its end.
LEMMA RankIs ==
  /\ Rank(None) = 0
  /\ \A r \in Rows :
       /\ Rank(r) \in Nat \ {0} /\ Rank(r) <= 3 + MaxPercent
       /\ r.status = "pending" => Rank(r) = 1
       /\ r.status = "downloading" => Rank(r) = 2 + r.percent /\ r.percent \in 0..MaxPercent
       /\ r.status \in Final => Rank(r) = 3 + MaxPercent
<1>1. Rank(None) = 0
  BY DEF Rank
<1>2. ASSUME NEW r \in Rows
      PROVE  /\ Rank(r) \in Nat \ {0} /\ Rank(r) <= 3 + MaxPercent
             /\ r.status = "pending" => Rank(r) = 1
             /\ r.status = "downloading" => Rank(r) = 2 + r.percent /\ r.percent \in 0..MaxPercent
             /\ r.status \in Final => Rank(r) = 3 + MaxPercent
  <2>1. r # None /\ r.status \in Statuses /\ r.percent \in 0..MaxPercent /\ MaxPercent \in Nat
    BY NoneIsNoRow, DownloadEventsAssumption DEF Rows
  <2>2. CASE r.status = "pending"
    <3>1. Rank(r) = 1
      BY <2>1, <2>2 DEF Rank
    <3> QED BY <2>1, <2>2, <3>1 DEF Final
  <2>3. CASE r.status = "downloading"
    <3>1. Rank(r) = 2 + r.percent
      BY <2>1, <2>3 DEF Rank
    <3> QED BY <2>1, <2>3, <3>1 DEF Final
  <2>4. CASE r.status \in Final
    <3>1. Rank(r) = 3 + MaxPercent
      BY <2>1, <2>4 DEF Rank, Final
    <3> QED BY <2>1, <2>4, <3>1 DEF Final
  <2> QED BY <2>1, <2>2, <2>3, <2>4 DEF Statuses, Final
<1> QED BY <1>1, <1>2

\* The order of rows is transitive; a row after a final one is that row.
LEMMA NotAfterOrders ==
  /\ \A a, b, c \in Rows \union {None} : NotAfter(a, b) /\ NotAfter(b, c) => NotAfter(a, c)
  /\ \A a, b, c \in Rows \union {None} : NotAfter(a, b) /\ Rank(b) < Rank(c) => Rank(a) < Rank(c)
  /\ \A a, b, c \in Rows \union {None} : Rank(a) < Rank(b) /\ NotAfter(b, c) => Rank(a) < Rank(c)
  /\ \A a \in Rows \union {None} : NotAfter(None, a)
  /\ \A a, b \in Rows : a.status \in Final /\ NotAfter(a, b) => a = b
<1>1. \A a \in Rows \union {None} : Rank(a) \in Nat
  BY RankIs
<1>2. \A a \in Rows : Rank(None) < Rank(a)
  BY RankIs
<1>3. \A a, b \in Rows : a.status \in Final => ~ (Rank(a) < Rank(b))
  <2> SUFFICES ASSUME NEW a \in Rows, NEW b \in Rows, a.status \in Final PROVE ~ (Rank(a) < Rank(b))
    OBVIOUS
  <2>1. Rank(a) = 3 + MaxPercent /\ Rank(b) <= 3 + MaxPercent /\ Rank(b) \in Nat /\ MaxPercent \in Nat
    BY RankIs, DownloadEventsAssumption
  <2> HIDE DEF Rank
  <2> QED BY <2>1
<1> QED BY <1>1, <1>2, <1>3 DEF NotAfter

\* The row of a job, and what its status says of the job.
LEMMA RowIs ==
  ASSUME TypeOK, NEW j \in JobIds, HasRow(j)
  PROVE  /\ Row(j) \in Rows
         /\ Row(j).percent = percent[j]
         /\ Row(j).status = IF phase[j] = "published" THEN "downloading" ELSE phase[j]
  BY DEF TypeOK, HasRow, Row, Rows, Statuses, Table!Phases

\* What a job comes to is never a row that it has left.
TableMoves ==
  /\ phase' \in [JobIds -> Table!Phases] /\ percent' \in [JobIds -> 0..MaxPercent]
  /\ \A j \in JobIds : HasRow(j) => HasRow(j)' /\ NotAfter(Row(j), Row(j)')

\* One job goes from one row to a row of a larger rank; a move within a row is none.
LEMMA OneJobMoves ==
  ASSUME TypeOK, NEW j \in JobIds, NEW q \in Table!Phases \ {"absent"}, NEW p \in 0..MaxPercent,
         phase' = [phase EXCEPT ![j] = q], percent' = [percent EXCEPT ![j] = p],
         HasRow(j) => NotAfter(Row(j), [status |-> IF q = "published" THEN "downloading" ELSE q,
                                        percent |-> p])
  PROVE  TableMoves
<1>1. phase' \in [JobIds -> Table!Phases] /\ percent' \in [JobIds -> 0..MaxPercent]
  BY DEF TypeOK
<1>2. ASSUME NEW i \in JobIds, HasRow(i) PROVE HasRow(i)' /\ NotAfter(Row(i), Row(i)')
  <2>1. CASE i = j
    <3>1. Row(i)' = [status |-> IF q = "published" THEN "downloading" ELSE q, percent |-> p]
      BY <2>1 DEF TypeOK, Row
    <3> QED BY <1>2, <2>1, <3>1 DEF TypeOK, HasRow
  <2>2. CASE i # j
    <3>1. phase'[i] = phase[i] /\ percent'[i] = percent[i]
      BY <2>2 DEF TypeOK
    <3>2. Row(i)' = Row(i)
      BY <3>1 DEF Row
    <3> QED BY <1>2, <3>1, <3>2 DEF HasRow, NotAfter
  <2> QED BY <2>1, <2>2
<1> QED BY <1>1, <1>2 DEF TableMoves

\* Every action on the table moves the rows forward: POST, the progress of a job, what
\* becomes of it, and the start-up pass.
LEMMA EnqueueMoves ==
  ASSUME TypeOK, NEW j \in JobIds, Enqueue(j)
  PROVE  TableMoves /\ phase[j] = "absent" /\ phase' = [phase EXCEPT ![j] = "pending"]
<1>1. phase[j] = "absent" /\ phase' = [phase EXCEPT ![j] = "pending"] /\ percent' = percent
  BY DEF Enqueue, Table!Enqueue, Table!Move
<1>2. percent' = [percent EXCEPT ![j] = percent[j]] /\ percent[j] \in 0..MaxPercent
  BY <1>1 DEF TypeOK
<1>3. "pending" \in Table!Phases \ {"absent"}
  BY DEF Table!Phases
<1> QED BY <1>1, <1>2, <1>3, OneJobMoves DEF HasRow

LEMMA ProgressMoves ==
  ASSUME TypeOK, NEW j \in JobIds, Progress(j)
  PROVE  TableMoves
<1>1. phase[j] = "downloading" /\ percent[j] + 1 \in 0..MaxPercent
  BY DownloadEventsAssumption DEF Progress, TypeOK
<1>2. phase' = [phase EXCEPT ![j] = "downloading"] /\ percent' = [percent EXCEPT ![j] = percent[j] + 1]
  BY <1>1 DEF Progress, TypeOK
<1> DEFINE r == [status |-> "downloading", percent |-> percent[j] + 1]
<1>3. r \in Rows /\ Row(j) \in Rows /\ r.status = "downloading" /\ r.percent = percent[j] + 1
      /\ Row(j).status = "downloading" /\ Row(j).percent = percent[j] /\ percent[j] \in Nat
  BY <1>1, RowIs DEF Rows, Statuses, HasRow, TypeOK
<1> HIDE DEF r
<1>4. Rank(Row(j)) = 2 + percent[j] /\ Rank(r) = 2 + (percent[j] + 1)
  BY <1>3, RankIs
<1>5. NotAfter(Row(j), r)
  <2> HIDE DEF Rank
  <2> QED BY <1>3, <1>4 DEF NotAfter
<1>6. "downloading" \in Table!Phases \ {"absent"}
  BY DEF Table!Phases
<1> QED BY <1>1, <1>2, <1>5, <1>6, OneJobMoves DEF r

LEMMA SettleMoves ==
  ASSUME TypeOK, NEW j \in JobIds, Settle(j)
  PROVE  /\ TableMoves
         /\ \/ /\ phase' = [phase EXCEPT ![j] = "downloading"] /\ records' = records
            \/ /\ phase' = [phase EXCEPT ![j] = "published"] /\ records' = records \union {j}
               /\ phase[j] = "downloading"
            \/ /\ phase' = [phase EXCEPT ![j] = "completed"] /\ records' = records
               /\ phase[j] = "published"
            \/ /\ phase' = [phase EXCEPT ![j] = "failed"] /\ records' = records
               /\ phase[j] = "downloading"
<1>0. percent[j] \in 0..MaxPercent /\ percent = [percent EXCEPT ![j] = percent[j]]
      /\ MaxPercent \in Nat /\ MaxPercent \in 0..MaxPercent
  BY DownloadEventsAssumption DEF TypeOK
<1>1. {"downloading", "published", "completed", "failed"} \subseteq Table!Phases \ {"absent"}
  BY DEF Table!Phases
<1>2. \A q \in {"downloading", "completed", "failed"}, p \in 0..MaxPercent :
        [status |-> q, percent |-> p] \in Rows
  BY DEF Rows, Statuses
<1>3. HasRow(j) => Row(j) \in Rows /\ Row(j).percent = percent[j]
                   /\ Row(j).status = IF phase[j] = "published" THEN "downloading" ELSE phase[j]
  BY RowIs
<1>4. CASE Table!Start(j) /\ UNCHANGED <<percent, records>>
  <2>1. phase[j] = "pending" /\ phase' = [phase EXCEPT ![j] = "downloading"] /\ percent' = percent
    BY <1>4 DEF Table!Start, Table!Move
  <2> DEFINE r == [status |-> "downloading", percent |-> percent[j]]
  <2>2. r \in Rows /\ r.status = "downloading" /\ r.percent = percent[j] /\ percent[j] \in Nat
    BY <1>0, <1>2
  <2>3. HasRow(j) /\ Row(j).status = "pending"
    BY <1>3, <2>1 DEF HasRow
  <2> HIDE DEF r
  <2>4. Rank(Row(j)) = 1 /\ Rank(r) = 2 + percent[j]
    BY <1>3, <2>2, <2>3, RankIs
  <2>5. NotAfter(Row(j), r)
    BY <2>2, <2>4 DEF NotAfter
  <2>6. TableMoves
    BY <1>0, <1>1, <2>1, <2>5, OneJobMoves DEF r
  <2> QED BY <1>4, <2>1, <2>6
<1>5. CASE Table!Publish(j) /\ records' = records \union {j} /\ UNCHANGED percent
  <2>1. phase[j] = "downloading" /\ phase' = [phase EXCEPT ![j] = "published"] /\ percent' = percent
    BY <1>5 DEF Table!Publish, Table!Move
  <2>2. Row(j) = [status |-> "downloading", percent |-> percent[j]]
    BY <2>1 DEF Row
  <2>3. TableMoves
    BY <1>0, <1>1, <2>1, <2>2, OneJobMoves DEF NotAfter
  <2> QED BY <1>5, <2>1, <2>3
<1>6. ASSUME NEW q \in Final, NEW p \in 0..MaxPercent, phase[j] \in {"downloading", "published"},
             phase' = [phase EXCEPT ![j] = q], percent' = [percent EXCEPT ![j] = p]
      PROVE  TableMoves
  <2> DEFINE r == [status |-> q, percent |-> p]
  <2>1. r \in Rows /\ r.status \in Final
    BY <1>2, <1>6 DEF Final
  <2>2. HasRow(j) /\ Row(j).status = "downloading"
    BY <1>3, <1>6 DEF HasRow
  <2> HIDE DEF r
  <2>3. Rank(Row(j)) = 2 + percent[j] /\ Rank(r) = 3 + MaxPercent
    BY <1>3, <2>1, <2>2, RankIs
  <2>4. NotAfter(Row(j), r)
    BY <1>0, <2>3 DEF NotAfter
  <2>5. q \in Table!Phases \ {"absent"} /\ q # "published"
    BY <1>1 DEF Final
  <2> QED BY <1>6, <2>4, <2>5, OneJobMoves DEF r
<1>7. CASE Table!Complete(j) /\ percent' = [percent EXCEPT ![j] = MaxPercent] /\ UNCHANGED records
  <2>1. phase[j] = "published" /\ phase' = [phase EXCEPT ![j] = "completed"]
    BY <1>7 DEF Table!Complete, Table!Move
  <2> QED BY <1>0, <1>6, <1>7, <2>1 DEF Final
<1>8. CASE Table!Fail(j) /\ UNCHANGED <<percent, records>>
  <2>1. phase[j] = "downloading" /\ phase' = [phase EXCEPT ![j] = "failed"] /\ percent' = percent
    BY <1>8 DEF Table!Fail, Table!Move
  <2> QED BY <1>0, <1>6, <1>8, <2>1 DEF Final
<1> QED BY <1>4, <1>5, <1>7, <1>8 DEF Settle

LEMMA RestartMoves ==
  ASSUME TypeOK, Restart
  PROVE  TableMoves
<1>1. phase' = [j \in JobIds |-> IF phase[j] \in Table!Active THEN "failed" ELSE phase[j]]
      /\ percent' = percent
  BY DEF Restart, Table!Interrupt
<1>2. phase' \in [JobIds -> Table!Phases] /\ percent' \in [JobIds -> 0..MaxPercent]
  BY <1>1 DEF TypeOK, Table!Phases
<1>3. ASSUME NEW i \in JobIds, HasRow(i) PROVE HasRow(i)' /\ NotAfter(Row(i), Row(i)')
  <2>1. CASE phase[i] \in Table!Active
    <3>1. phase'[i] = "failed" /\ percent'[i] = percent[i]
      BY <1>1, <2>1
    <3>2. Row(i)' = [status |-> "failed", percent |-> percent[i]] /\ percent[i] \in 0..MaxPercent
      BY <3>1 DEF Row, TypeOK
    <3>3. Row(i)' \in Rows /\ Row(i)'.status \in Final
      BY <3>2 DEF Rows, Statuses, Final
    <3>4. Row(i) \in Rows /\ Row(i).status \in {"pending", "downloading"}
      BY <1>3, <2>1, RowIs DEF Table!Active
    <3>5. Rank(Row(i)') = 3 + MaxPercent /\ Rank(Row(i)) \in Nat /\ Rank(Row(i)) < 3 + MaxPercent
      <4> DEFINE r == Row(i)  rr == Row(i)'
      <4>1. r \in Rows /\ r.status \in {"pending", "downloading"} /\ rr \in Rows /\ rr.status \in Final
        BY <3>3, <3>4
      <4> HIDE DEF r, rr
      <4>2. Rank(rr) = 3 + MaxPercent /\ Rank(r) \in Nat /\ MaxPercent \in Nat
            /\ (Rank(r) = 1 \/ (Rank(r) = 2 + r.percent /\ r.percent \in 0..MaxPercent))
        BY <4>1, RankIs, DownloadEventsAssumption
      <4>3. Rank(r) < 3 + MaxPercent
        BY <4>2
      <4> QED BY <4>2, <4>3 DEF r, rr
    <3> QED BY <3>1, <3>5 DEF NotAfter, HasRow
  <2>2. CASE phase[i] \notin Table!Active
    <3>1. phase'[i] = phase[i] /\ percent'[i] = percent[i]
      BY <1>1, <2>2
    <3>2. Row(i)' = Row(i)
      BY <3>1 DEF Row
    <3> QED BY <1>3, <3>1, <3>2 DEF HasRow, NotAfter
  <2> QED BY <2>1, <2>2
<1> QED BY <1>2, <1>3 DEF TableMoves

\* What is on the wire.
LEMMA WireIs ==
  ASSUME TypeOK
  PROVE  /\ wire \in Seq(Events) /\ Len(wire) \in Nat
         /\ \A n \in 1..Len(wire) : wire[n] \in Events /\ wire[n].id \in JobIds /\ wire[n].row \in Rows
<1>1. wire \in Seq(Events)
  BY DEF TypeOK
<1>2. Len(wire) \in Nat /\ \A n \in 1..Len(wire) : wire[n] \in Events
  BY <1>1
<1>3. \A e \in Events : e.id \in JobIds /\ e.row \in Rows
  BY DEF Events
<1> QED BY <1>1, <1>2, <1>3

\* A job the client shows at its end has come there, and shows as it is.
LEMMA ShownFinal ==
  ASSUME TypeOK, ShownInv, NEW j \in JobIds, shown[j] # None, shown[j].status \in Final
  PROVE  shown[j] = Row(j) /\ phase[j] = shown[j].status
<1>1. HasRow(j) /\ NotAfter(shown[j], Row(j)) /\ shown[j] \in Rows
  BY DEF ShownInv, TypeOK
<1>2. shown[j] = Row(j)
  BY <1>1, RowIs, NotAfterOrders
<1> QED BY <1>1, <1>2, RowIs DEF Final

\* A move of the table leaves what is shown, and what is on the wire, behind it.
LEMMA RowsStayBehind ==
  ASSUME TypeOK, ShownInv, WireInv, TableMoves, shown' = shown, wire' \in {wire, <<>>}
  PROVE  ShownInv' /\ WireInv'
<1>1. \A j \in JobIds : HasRow(j) => Row(j) \in Rows /\ HasRow(j)' /\ Row(j)' \in Rows /\ NotAfter(Row(j), Row(j)')
  <2> SUFFICES ASSUME NEW j \in JobIds, HasRow(j)
               PROVE  Row(j) \in Rows /\ HasRow(j)' /\ Row(j)' \in Rows /\ NotAfter(Row(j), Row(j)')
    OBVIOUS
  <2>1. HasRow(j)' /\ NotAfter(Row(j), Row(j)')
    BY DEF TableMoves
  <2>2. Row(j)' \in Rows
    BY <2>1 DEF TableMoves, HasRow, Row, Rows, Statuses, Table!Phases
  <2> QED BY <2>1, <2>2, RowIs
<1>2. ShownInv'
  <2> SUFFICES ASSUME NEW j \in JobIds, shown[j] # None
               PROVE  HasRow(j)' /\ NotAfter(shown[j], Row(j)')
    BY DEF ShownInv
  <2>1. HasRow(j) /\ NotAfter(shown[j], Row(j)) /\ shown[j] \in Rows \union {None}
    BY DEF ShownInv, TypeOK
  <2> QED BY <1>1, <2>1, NotAfterOrders
<1>3. CASE wire' = <<>>
  BY <1>2, <1>3 DEF WireInv
<1>4. CASE wire' = wire
  <2>1. ASSUME NEW n \in 1..Len(wire)
        PROVE  HasRow(wire[n].id)' /\ NotAfter(wire[n].row, Row(wire[n].id)')
    <3>1. PICK j \in JobIds, r \in Rows : j = wire[n].id /\ r = wire[n].row
      BY WireIs
    <3>2. HasRow(j) /\ NotAfter(r, Row(j))
      BY <3>1 DEF WireInv
    <3>3. HasRow(j)' /\ NotAfter(r, Row(j)')
      BY <1>1, <3>2, NotAfterOrders
    <3> QED BY <1>4, <3>1, <3>3
  <2> QED BY <1>2, <1>4, <2>1 DEF WireInv
<1> QED BY <1>3, <1>4

\* A step of the table that takes no record away keeps the invariant, if it publishes only
\* jobs that were downloading and fails none that was published.
LEMMA TableStepInv ==
  ASSUME EventsInv, TableMoves, UNCHANGED <<streamVars, clientVars>>,
         records \subseteq records', records' \subseteq JobIds,
         \A j \in records' \ records : phase[j] = "downloading" /\ phase'[j] = "published",
         \A j \in JobIds : phase'[j] # phase[j] =>
            /\ phase'[j] \in {"downloading", "pending"} => phase[j] \in {"absent", "pending"}
            /\ phase'[j] = "failed" => phase[j] = "downloading"
            /\ phase'[j] # "absent"
  PROVE  EventsInv'
<1>0. UNCHANGED <<stream, newest, sent, wire, shown, list, deletes>>
  BY DEF streamVars, clientVars
<1>1. TypeOK'
  BY <1>0 DEF EventsInv, TypeOK, TableMoves
<1>2. RecordInv'
  <2> SUFFICES ASSUME NEW j \in JobIds, phase'[j] \in {"absent", "pending", "downloading"}, j \in records'
               PROVE  FALSE
    BY DEF RecordInv
  <2>1. j \in records
    OBVIOUS
  <2>2. phase[j] \notin {"absent", "pending", "downloading"}
    BY <2>1 DEF EventsInv, RecordInv
  <2> QED BY <2>2
<1>3. ShownInv' /\ WireInv'
  BY <1>0, RowsStayBehind DEF EventsInv
<1>4. StreamInv'
  <2>1. \A j \in JobIds : HasRow(j) => HasRow(j)'
    BY DEF TableMoves
  <2>2. SentReachesClient'
    BY <1>0 DEF EventsInv, StreamInv, SentReachesClient, Coming
  <2> QED BY <1>0, <2>1, <2>2 DEF EventsInv, StreamInv
<1>5. FollowedInv'
  <2> SUFFICES ASSUME NEW j \in JobIds, stream = "open", phase'[j] = "failed",
                      j > newest \/ sent[j] # None
               PROVE  j \notin records'
    BY <1>0 DEF FollowedInv
  <2>1. CASE phase[j] = "failed"
    BY <2>1 DEF EventsInv, FollowedInv
  <2>2. CASE phase[j] = "downloading"
    BY <2>2 DEF EventsInv, RecordInv
  <2> QED BY <2>1, <2>2
<1>6. CompletedInv'
  <2> SUFFICES ASSUME NEW j \in JobIds, shown[j] # None, shown[j].status = "completed"
               PROVE  /\ list.fetch = "idle" => list.missed \/ j \in list.data \/ j \notin records'
                      /\ list.fetch = "read" => list.missed \/ j \in list.read \/ j \notin records'
    BY <1>0 DEF CompletedInv
  <2>1. phase[j] = "completed"
    BY ShownFinal DEF EventsInv, Final
  <2>2. j \in records' => j \in records
    BY <2>1
  <2> QED BY <2>2 DEF EventsInv, CompletedInv
<1>7. GoneInv'
  BY <1>0 DEF EventsInv, GoneInv
<1> QED BY <1>1, <1>2, <1>3, <1>4, <1>5, <1>6, <1>7 DEF EventsInv

LEMMA EnqueueInv == ASSUME EventsInv, NEW j \in JobIds, Enqueue(j) PROVE EventsInv'
<1>1. TableMoves /\ phase[j] = "absent" /\ phase' = [phase EXCEPT ![j] = "pending"]
  BY EnqueueMoves DEF EventsInv
<1>2. UNCHANGED <<records, streamVars, clientVars>>
  BY DEF Enqueue
<1> QED BY <1>1, <1>2, TableStepInv DEF EventsInv, TypeOK

LEMMA ProgressInv == ASSUME EventsInv, NEW j \in JobIds, Progress(j) PROVE EventsInv'
<1>1. TableMoves
  BY ProgressMoves DEF EventsInv
<1>2. UNCHANGED <<phase, records, streamVars, clientVars>>
  BY DEF Progress
<1> QED BY <1>1, <1>2, TableStepInv DEF EventsInv, TypeOK

LEMMA SettleInv == ASSUME EventsInv, NEW j \in JobIds, Settle(j) PROVE EventsInv'
<1>1. UNCHANGED <<streamVars, clientVars>>
  BY DEF Settle
<1>2. phase \in [JobIds -> Table!Phases] /\ records \subseteq JobIds
  BY DEF EventsInv, TypeOK
<1>3. phase[j] = "pending" \/ phase' # [phase EXCEPT ![j] = "downloading"]
  <2>1. CASE Table!Start(j)
    BY <2>1 DEF Table!Start, Table!Move
  <2>2. CASE Table!Publish(j)
    BY <1>2, <2>2 DEF Table!Publish, Table!Move
  <2>3. CASE Table!Complete(j)
    BY <1>2, <2>3 DEF Table!Complete, Table!Move
  <2>4. CASE Table!Fail(j)
    BY <1>2, <2>4 DEF Table!Fail, Table!Move
  <2> QED BY <2>1, <2>2, <2>3, <2>4 DEF Settle
<1> QED BY <1>1, <1>2, <1>3, SettleMoves, TableStepInv DEF EventsInv

\* An answer that is lost leaves the list with a record it has not heard is gone.
LEMMA LoseAnswersKeeps ==
  ASSUME TypeOK, CompletedInv, GoneInv, NEW ds \in SUBSET deletes, LoseAnswers(ds),
         UNCHANGED <<records, shown>>
  PROVE  /\ list' \in List /\ deletes' \subseteq [job : JobIds, deleted : BOOLEAN]
         /\ CompletedInv' /\ GoneInv'
<1>1. list \in List /\ deletes \subseteq [job : JobIds, deleted : BOOLEAN]
  BY DEF TypeOK
<1> DEFINE gone == {d.job : d \in {e \in ds : e.deleted}}
<1>2. gone \subseteq JobIds /\ \A j \in JobIds : [job |-> j, deleted |-> TRUE] \in ds => j \in gone
  BY <1>1
<1>3. deletes' = deletes \ ds /\ list' = [list EXCEPT !.unheard = @ \union gone]
  BY DEF LoseAnswers
<1> HIDE DEF gone
<1>4. /\ list' \in List /\ list'.unheard = list.unheard \union gone
      /\ list'.data = list.data /\ list'.loaded = list.loaded /\ list'.missed = list.missed
      /\ list'.fetch = list.fetch /\ list'.read = list.read
  BY <1>1, <1>2, <1>3 DEF List
<1>5. CompletedInv'
  BY <1>4 DEF CompletedInv
<1>6. list.read \subseteq JobIds /\ list.data \subseteq JobIds
  BY <1>1 DEF List
<1>7. \A j \in JobIds : [job |-> j, deleted |-> TRUE] \in deletes =>
        [job |-> j, deleted |-> TRUE] \in deletes' \/ j \in list'.unheard
  BY <1>2, <1>3, <1>4
<1>8. GoneInv'
  BY <1>3, <1>4, <1>6, <1>7 DEF GoneInv
<1> QED BY <1>1, <1>3, <1>4, <1>5, <1>8

LEMMA RestartInv == ASSUME EventsInv, Restart PROVE EventsInv'
<1>0. UNCHANGED <<percent, records, shown>> /\ TableMoves
      /\ stream' = "closed" /\ wire' = <<>> /\ newest' = 0 /\ sent' = [j \in JobIds |-> None]
      /\ phase' = [j \in JobIds |-> IF phase[j] \in Table!Active THEN "failed" ELSE phase[j]]
  BY RestartMoves DEF EventsInv, Restart, Disconnect, Table!Interrupt
<1>1. /\ list' \in List /\ deletes' \subseteq [job : JobIds, deleted : BOOLEAN]
      /\ CompletedInv' /\ GoneInv'
  BY <1>0, LoseAnswersKeeps DEF EventsInv, Restart
<1>2. TypeOK'
  <2>1. <<>> \in Seq(Events) /\ Len(<<>>) <= MaxWire /\ 0 \in 0..MaxJobs
    BY DownloadEventsAssumption
  <2> QED BY <1>0, <1>1, <2>1 DEF EventsInv, TypeOK, TableMoves
<1>3. RecordInv'
  BY <1>0 DEF EventsInv, RecordInv, Table!Active
<1>4. ShownInv' /\ WireInv'
  BY <1>0, RowsStayBehind DEF EventsInv
<1>5. StreamInv' /\ FollowedInv'
  BY <1>0 DEF StreamInv, FollowedInv, SentReachesClient
<1> QED BY <1>1, <1>2, <1>3, <1>4, <1>5 DEF EventsInv

-----------------------------------------------------------------------------
(***************************************************************************)
(* The stream.                                                             *)
(***************************************************************************)

\* max(select(DownloadJob.id), default=0).
LEMMA LargestIs ==
  ASSUME NEW S \in SUBSET (0..MaxJobs), S # {}
  PROVE  Largest(S) \in S /\ \A m \in S : m <= Largest(S)
<1> DEFINE D == {n \in Nat : MaxJobs - n \in S}
<1>0. MaxJobs \in Nat /\ S \subseteq Nat /\ \A x \in S : x <= MaxJobs
  BY DownloadEventsAssumption
<1>1. D # {} /\ D \subseteq Nat
  <2>1. PICK x \in S : TRUE
    OBVIOUS
  <2>2. MaxJobs - x \in Nat /\ MaxJobs - (MaxJobs - x) = x
    BY <1>0
  <2> QED BY <2>1, <2>2
<1>2. PICK d \in D : \A e \in D : ~ (<<e, d>> \in OpToRel(<, Nat))
  BY <1>1, NatLessThanWellFounded, WFMin
<1>3. \A e \in D : ~ (e < d)
  BY <1>1, <1>2 DEF OpToRel
<1>4. \A m \in S : m <= MaxJobs - d
  <2> SUFFICES ASSUME NEW m \in S PROVE m <= MaxJobs - d
    OBVIOUS
  <2>1. MaxJobs - m \in D
    <3>1. MaxJobs - m \in Nat /\ MaxJobs - (MaxJobs - m) = m
      BY <1>0
    <3> QED BY <3>1
  <2>2. ~ (MaxJobs - m < d) /\ d \in Nat
    BY <1>3, <2>1
  <2> HIDE DEF D
  <2> QED BY <1>0, <2>2
<1>5. MaxJobs - d \in S
  OBVIOUS
<1> HIDE DEF D
<1>6. \E n \in S : \A m \in S : m <= n
  BY <1>4, <1>5
<1> QED BY <1>6 DEF Largest

LEMMA ConnectInv == ASSUME EventsInv, Connect PROVE EventsInv'
<1>0. stream = "closed" /\ stream' = "open"
      /\ UNCHANGED <<phase, percent, records, sent, wire, shown, list, deletes>>
      /\ newest' = Largest({0} \union {j \in JobIds : HasRow(j)})
  BY DEF Connect, tableVars, clientVars
<1> DEFINE S == {0} \union {j \in JobIds : HasRow(j)}
<1>1. S \in SUBSET (0..MaxJobs) /\ S # {}
  BY DownloadEventsAssumption DEF JobIds
<1>2. newest' \in S /\ \A m \in S : m <= newest'
  BY <1>0, <1>1, LargestIs
<1>3. newest' \in 0..MaxJobs
  BY <1>1, <1>2
<1>4. \A j \in JobIds : j > newest' => phase[j] = "absent"
  <2> SUFFICES ASSUME NEW j \in JobIds, j > newest', HasRow(j) PROVE FALSE
    BY DEF HasRow
  <2>1. j <= newest' /\ j \in Nat /\ newest' \in Nat
    BY <1>2, <1>3, DownloadEventsAssumption DEF JobIds
  <2> QED BY <2>1
<1>5. wire = <<>> /\ \A j \in JobIds : sent[j] = None
  BY <1>0 DEF EventsInv, StreamInv
<1>6. TypeOK'
  BY <1>0, <1>3 DEF EventsInv, TypeOK
<1>7. RecordInv' /\ ShownInv' /\ CompletedInv' /\ GoneInv'
  BY <1>0 DEF EventsInv, RecordInv, ShownInv, CompletedInv, GoneInv, HasRow, Row
<1>8. WireInv'
  BY <1>0, <1>5 DEF WireInv
<1>9. StreamInv' /\ FollowedInv'
  BY <1>0, <1>4, <1>5 DEF StreamInv, SentReachesClient, FollowedInv
<1> QED BY <1>6, <1>7, <1>8, <1>9 DEF EventsInv

LEMMA DropInv == ASSUME EventsInv, Drop PROVE EventsInv'
<1>0. UNCHANGED <<phase, percent, records, shown, list, deletes>>
      /\ stream' = "closed" /\ wire' = <<>> /\ newest' = 0 /\ sent' = [j \in JobIds |-> None]
  BY DEF Drop, Disconnect, tableVars, clientVars
<1>1. TypeOK'
  <2>1. <<>> \in Seq(Events) /\ Len(<<>>) <= MaxWire /\ 0 \in 0..MaxJobs
    BY DownloadEventsAssumption
  <2> QED BY <1>0, <2>1 DEF EventsInv, TypeOK
<1>2. RecordInv' /\ ShownInv' /\ CompletedInv' /\ GoneInv'
  BY <1>0 DEF EventsInv, RecordInv, ShownInv, CompletedInv, GoneInv, HasRow, Row
<1>3. WireInv' /\ StreamInv' /\ FollowedInv'
  BY <1>0 DEF WireInv, StreamInv, SentReachesClient, FollowedInv
<1> QED BY <1>1, <1>2, <1>3 DEF EventsInv

\* A list of jobs in order names each of them at one place.
LEMMA OrderIs ==
  ASSUME NEW jobs \in SUBSET JobIds, NEW order \in InOrder(jobs)
  PROVE  /\ Cardinality(jobs) \in Nat
         /\ order \in [1..Cardinality(jobs) -> jobs]
         /\ \A m, n \in 1..Cardinality(jobs) : order[m] = order[n] => m = n
         /\ \A j \in jobs : \E n \in 1..Cardinality(jobs) : order[n] = j
<1> DEFINE c == Cardinality(jobs)
<1>1. IsFiniteSet(jobs) /\ JobIds \subseteq Nat
  <2>1. MaxJobs \in Int /\ 1 \in Int
    BY DownloadEventsAssumption
  <2>2. IsFiniteSet(1..MaxJobs)
    BY <2>1, FS_Interval
  <2>3. jobs \in SUBSET (1..MaxJobs) /\ JobIds \subseteq Nat
    BY <2>1 DEF JobIds
  <2>4. IsFiniteSet(jobs)
    BY <2>2, <2>3, FS_Subset
  <2> QED BY <2>3, <2>4
<1>2. c \in Nat
  BY <1>1, FS_CardinalityType
<1>3. order \in [1..c -> jobs] /\ \A m, n \in 1..c : m < n => order[m] < order[n]
  BY DEF InOrder
<1>4. \A m \in 1..c : order[m] \in Nat
  BY <1>1, <1>3
<1>5. \A m, n \in 1..c : order[m] = order[n] => m = n
  <2> SUFFICES ASSUME NEW m \in 1..c, NEW n \in 1..c, order[m] = order[n], m # n PROVE FALSE
    OBVIOUS
  <2>1. m < n \/ n < m
    BY <1>2
  <2> QED BY <1>3, <1>4, <2>1
<1>6. order \in Injection(1..c, jobs)
  BY <1>3, <1>5 DEF Injection, IsInjective
<1>7. Cardinality(1..c) = c
  <2>1. \A n \in Nat : Cardinality(1..n) = n
    BY FS_Interval
  <2> QED BY <1>2, <2>1
<1>8. order \in Surjection(1..c, jobs)
  BY <1>1, <1>6, <1>7, FS_Injection
<1> QED BY <1>2, <1>3, <1>5, <1>8 DEF Surjection

\* What a round of the loop puts on the wire: the row of each changed job, at a place of
\* its own after what was there.
LEMMA PollSends ==
  ASSUME TypeOK, Poll
  PROVE  /\ wire' \in Seq(Events) /\ Len(wire') \in Nat /\ Len(wire') <= MaxWire /\ Len(wire) <= Len(wire')
         /\ \A n \in 1..Len(wire) : wire'[n] = wire[n]
         /\ \A n \in 1..Len(wire') : n > Len(wire) =>
              wire'[n].id \in Changed /\ wire'[n].row = Row(wire'[n].id)
         /\ \A m, n \in 1..Len(wire') : m > Len(wire) /\ n > Len(wire) /\ wire'[m].id = wire'[n].id => m = n
         /\ \A j \in Changed : \E n \in 1..Len(wire') : n > Len(wire) /\ wire'[n].id = j
<1> DEFINE c == Cardinality(Changed)
<1>1. Changed \in SUBSET JobIds /\ \A j \in Changed : HasRow(j) /\ Row(j) \in Rows
  <2>1. Changed \in SUBSET JobIds /\ \A j \in Changed : HasRow(j)
    BY DEF Changed, Followed
  <2> QED BY <2>1, RowIs
<1>2. PICK order \in InOrder(Changed) :
        wire' = wire \o [n \in 1..c |-> [id |-> order[n], row |-> Row(order[n])]]
  BY DEF Poll
<1>3. /\ c \in Nat
      /\ order \in [1..c -> Changed]
      /\ \A m, n \in 1..c : order[m] = order[n] => m = n
      /\ \A j \in Changed : \E n \in 1..c : order[n] = j
  BY <1>1, OrderIs
<1> DEFINE es == [n \in 1..c |-> [id |-> order[n], row |-> Row(order[n])]]
<1>4. \A n \in 1..c : es[n] \in Events /\ es[n].id = order[n] /\ es[n].row = Row(order[n])
  BY <1>1, <1>3 DEF Events
<1>5. es \in Seq(Events) /\ Len(es) = c
  <2>1. es \in [1..c -> Events]
    BY <1>4
  <2> HIDE DEF es
  <2> QED BY <1>3, <2>1
<1>6. wire \in Seq(Events) /\ Len(wire) \in Nat /\ wire' = wire \o es
  BY <1>2, WireIs
<1>7. Len(wire) + c <= MaxWire
  BY DEF Poll
<1> HIDE DEF es, c
<1>8. /\ wire' \in Seq(Events) /\ Len(wire') = Len(wire) + c
      /\ \A n \in 1..Len(wire) : wire'[n] = wire[n]
      /\ \A n \in 1..c : wire'[Len(wire) + n] = es[n]
  <2>1. wire \o es \in Seq(Events) /\ Len(wire \o es) = Len(wire) + c
        /\ \A i \in 1..(Len(wire) + c) :
             (wire \o es)[i] = IF i <= Len(wire) THEN wire[i] ELSE es[i - Len(wire)]
    BY <1>5, <1>6, ConcatProperties
  <2>2. ASSUME NEW n \in 1..c PROVE wire'[Len(wire) + n] = es[n]
    <3>1. Len(wire) + n \in 1..(Len(wire) + c) /\ ~ (Len(wire) + n <= Len(wire))
          /\ (Len(wire) + n) - Len(wire) = n
      BY <1>3, <1>6
    <3> QED BY <1>6, <2>1, <3>1
  <2>3. \A n \in 1..Len(wire) : n \in 1..(Len(wire) + c) /\ n <= Len(wire)
    BY <1>3, <1>6
  <2> QED BY <1>6, <2>1, <2>2, <2>3
<1>9. \A n \in 1..Len(wire') : n > Len(wire) => n - Len(wire) \in 1..c /\ wire'[n] = es[n - Len(wire)]
  <2> SUFFICES ASSUME NEW n \in 1..Len(wire'), n > Len(wire)
               PROVE  n - Len(wire) \in 1..c /\ wire'[n] = es[n - Len(wire)]
    OBVIOUS
  <2>1. n - Len(wire) \in 1..c /\ Len(wire) + (n - Len(wire)) = n
    BY <1>3, <1>6, <1>8
  <2> QED BY <1>8, <2>1
<1>10. \A n \in 1..Len(wire') : n > Len(wire) =>
         wire'[n].id = order[n - Len(wire)] /\ wire'[n].row = Row(wire'[n].id) /\ wire'[n].id \in Changed
  BY <1>3, <1>4, <1>9
<1>11. ASSUME NEW m \in 1..Len(wire'), NEW n \in 1..Len(wire'),
              m > Len(wire), n > Len(wire), wire'[m].id = wire'[n].id
       PROVE  m = n
  <2>1. m - Len(wire) \in 1..c /\ n - Len(wire) \in 1..c /\ order[m - Len(wire)] = order[n - Len(wire)]
    BY <1>9, <1>10, <1>11
  <2>2. m - Len(wire) = n - Len(wire)
    BY <1>3, <2>1
  <2> QED BY <1>6, <1>8, <2>2
<1>12. ASSUME NEW j \in Changed PROVE \E n \in 1..Len(wire') : n > Len(wire) /\ wire'[n].id = j
  <2>1. PICK k \in 1..c : order[k] = j
    BY <1>3
  <2>2. Len(wire) + k \in 1..Len(wire') /\ Len(wire) + k > Len(wire)
    BY <1>3, <1>6, <1>8
  <2>3. wire'[Len(wire) + k].id = j
    BY <1>4, <1>8, <2>1
  <2> QED BY <2>2, <2>3
<1> QED BY <1>3, <1>6, <1>7, <1>8, <1>10, <1>11, <1>12

\* The last place on the wire that tells of a job has what was last sent of it.
LEMMA LastComing ==
  ASSUME EventsInv, stream = "open", NEW n \in 1..Len(wire)
  PROVE  \E k \in 1..Len(wire) :
           /\ n <= k /\ wire[k].id = wire[n].id /\ wire[k].row = sent[wire[n].id]
           /\ \A m \in Coming(wire[n].id) : m <= k
<1>1. PICK j \in JobIds : j = wire[n].id
  BY WireIs DEF EventsInv
<1>2. sent[j] # None /\ n \in Coming(j)
  BY <1>1 DEF EventsInv, StreamInv, Coming
<1>3. PICK k \in Coming(j) : wire[k].row = sent[j] /\ \A m \in Coming(j) : m <= k
  BY <1>2 DEF EventsInv, StreamInv, SentReachesClient
<1> QED BY <1>1, <1>2, <1>3 DEF Coming

LEMMA PollInv == ASSUME EventsInv, Poll PROVE EventsInv'
<1> DEFINE L == Len(wire)  LL == Len(wire')
<1>0. /\ stream = "open" /\ UNCHANGED <<phase, percent, records, stream, newest, shown, list, deletes>>
      /\ sent' = [j \in JobIds |-> IF j \in Changed THEN Row(j) ELSE sent[j]]
  BY DEF Poll, tableVars, clientVars
<1>1. /\ wire' \in Seq(Events) /\ LL \in Nat /\ LL <= MaxWire /\ L <= LL
      /\ \A n \in 1..L : wire'[n] = wire[n]
      /\ \A n \in 1..LL : n > L => wire'[n].id \in Changed /\ wire'[n].row = Row(wire'[n].id)
      /\ \A m, n \in 1..LL : m > L /\ n > L /\ wire'[m].id = wire'[n].id => m = n
      /\ \A j \in Changed : \E n \in 1..LL : n > L /\ wire'[n].id = j
  BY PollSends DEF EventsInv
<1>2. L \in Nat /\ \A n \in 1..L : wire[n].id \in JobIds /\ wire[n].row \in Rows
  BY WireIs DEF EventsInv
<1>3. /\ Changed \subseteq JobIds
      /\ \A j \in Changed : HasRow(j) /\ Row(j) \in Rows /\ Row(j) # None /\ sent[j] # Row(j)
  BY RowIs, NoneIsNoRow DEF EventsInv, Changed, Followed
<1>4. \A n \in 1..LL : ~ (n > L) => n \in 1..L
  BY <1>1, <1>2
<1>5. \A j \in JobIds : HasRow(j)' = HasRow(j) /\ Row(j)' = Row(j)
  BY <1>0 DEF HasRow, Row
<1> HIDE DEF L, LL
<1>6. TypeOK'
  <2>1. sent' \in [JobIds -> Rows \union {None}]
    BY <1>0, <1>3 DEF EventsInv, TypeOK
  <2> QED BY <1>0, <1>1, <2>1 DEF EventsInv, TypeOK, LL
<1>7. RecordInv' /\ CompletedInv' /\ GoneInv'
  BY <1>0 DEF EventsInv, RecordInv, CompletedInv, GoneInv
<1>8. ShownInv'
  BY <1>0, <1>5 DEF EventsInv, ShownInv
<1>9. WireInv'
  <2>1. ASSUME NEW n \in 1..LL
        PROVE  /\ HasRow(wire'[n].id) /\ NotAfter(wire'[n].row, Row(wire'[n].id))
               /\ NotAfter(shown[wire'[n].id], wire'[n].row)
    <3>1. CASE n > L
      <4>1. PICK j \in Changed : j = wire'[n].id /\ wire'[n].row = Row(j)
        BY <1>1, <3>1
      <4>2. NotAfter(shown[j], Row(j))
        <5>1. j \in JobIds /\ HasRow(j) /\ Row(j) \in Rows
          BY <1>3
        <5>2. CASE shown[j] = None
          BY <5>1, <5>2, NotAfterOrders
        <5>3. CASE shown[j] # None
          BY <5>1, <5>3 DEF EventsInv, ShownInv
        <5> QED BY <5>2, <5>3
      <4> QED BY <1>3, <4>1, <4>2 DEF NotAfter
    <3>2. CASE ~ (n > L)
      <4>1. n \in 1..L /\ wire'[n] = wire[n]
        BY <1>1, <1>4, <3>2
      <4>2. PICK j \in JobIds : j = wire[n].id
        BY <1>2, <4>1
      <4>3. HasRow(j) /\ NotAfter(wire[n].row, Row(j)) /\ NotAfter(shown[j], wire[n].row)
        BY <4>1, <4>2 DEF EventsInv, WireInv, L
      <4> QED BY <4>1, <4>2, <4>3
    <3> QED BY <3>1, <3>2
  <2>2. ASSUME NEW m \in 1..LL, NEW n \in 1..LL, m < n, wire'[m].id = wire'[n].id
        PROVE  Rank(wire'[m].row) < Rank(wire'[n].row)
    <3>1. CASE m > L
      <4>1. n > L
        BY <1>1, <1>2, <2>2, <3>1
      <4>2. m = n
        BY <1>1, <2>2, <3>1, <4>1
      <4> QED BY <1>1, <2>2, <4>2
    <3>2. CASE ~ (n > L)
      <4>1. ~ (m > L)
        BY <1>1, <1>2, <2>2, <3>2
      <4>2. m \in 1..L /\ n \in 1..L /\ wire'[m] = wire[m] /\ wire'[n] = wire[n]
        BY <1>1, <1>4, <3>2, <4>1
      <4> QED BY <2>2, <4>2 DEF EventsInv, WireInv, L
    <3>3. CASE ~ (m > L) /\ n > L
      <4>1. m \in 1..L /\ wire'[m] = wire[m]
        BY <1>1, <1>4, <3>3
      <4>2. PICK j \in Changed : j = wire'[n].id /\ wire'[n].row = Row(j)
        BY <1>1, <3>3
      <4>3. wire[m].id = j
        BY <2>2, <4>1, <4>2
      <4>4. PICK k \in 1..L : m <= k /\ wire[k].id = j /\ wire[k].row = sent[j]
        BY <1>0, <4>1, <4>3, LastComing DEF L
      <4>5. wire[k].row \in Rows /\ wire[m].row \in Rows /\ Row(j) \in Rows
        BY <1>2, <1>3, <4>1, <4>4
      <4>6. Rank(wire[k].row) < Rank(Row(j))
        BY <1>3, <4>4 DEF EventsInv, WireInv, NotAfter, L
      <4>7. wire[m].row = wire[k].row \/ Rank(wire[m].row) < Rank(wire[k].row)
        <5>1. CASE m = k
          BY <5>1
        <5>2. CASE m # k
          <6>1. m < k
            BY <1>2, <4>1, <4>4, <5>2
          <6> QED BY <4>1, <4>3, <4>4, <6>1 DEF EventsInv, WireInv, L
        <5> QED BY <5>1, <5>2
      <4>8. Rank(wire[m].row) < Rank(Row(j))
        BY <4>5, <4>6, <4>7, NotAfterOrders DEF NotAfter
      <4> QED BY <4>1, <4>2, <4>8
    <3> QED BY <3>1, <3>2, <3>3
  <2> QED BY <1>0, <2>1, <2>2 DEF WireInv, LL, HasRow, Row
<1>10. StreamInv'
  <2>1. \A n \in 1..LL : sent'[wire'[n].id] # None
    <3> SUFFICES ASSUME NEW n \in 1..LL PROVE sent'[wire'[n].id] # None
      OBVIOUS
    <3>1. CASE n > L
      <4>1. wire'[n].id \in Changed
        BY <1>1, <3>1
      <4> QED BY <1>0, <1>3, <4>1
    <3>2. CASE ~ (n > L)
      <4>1. n \in 1..L /\ wire'[n] = wire[n]
        BY <1>1, <1>4, <3>2
      <4>2. wire[n].id \in JobIds /\ sent[wire[n].id] # None
        BY <1>2, <4>1 DEF EventsInv, StreamInv, L
      <4> QED BY <1>0, <1>3, <4>1, <4>2
    <3> QED BY <3>1, <3>2
  <2>2. \A j \in JobIds : sent'[j] # None => HasRow(j)'
    BY <1>0, <1>3, <1>5 DEF EventsInv, StreamInv
  <2>3. ASSUME NEW j \in JobIds, sent'[j] # None
        PROVE  \/ Coming(j)' = {} /\ shown'[j] = sent'[j]
               \/ \E n \in Coming(j)' : wire'[n].row = sent'[j] /\ \A m \in Coming(j)' : m <= n
    <3>0. Coming(j)' = {n \in 1..LL : wire'[n].id = j} /\ Coming(j) = {n \in 1..L : wire[n].id = j}
      BY DEF Coming, LL, L
    <3>1. CASE j \in Changed
      <4>1. PICK n \in 1..LL : n > L /\ wire'[n].id = j
        BY <1>1, <3>1
      <4>2. wire'[n].row = sent'[j] /\ n \in Coming(j)'
        BY <1>0, <1>1, <3>0, <3>1, <4>1
      <4>3. \A m \in Coming(j)' : m <= n
        <5> SUFFICES ASSUME NEW m \in 1..LL, wire'[m].id = j PROVE m <= n
          BY <3>0
        <5>1. CASE m > L
          BY <1>1, <4>1, <5>1
        <5>2. CASE ~ (m > L)
          BY <1>1, <1>2, <4>1, <5>2
        <5> QED BY <5>1, <5>2
      <4> QED BY <4>2, <4>3
    <3>2. CASE j \notin Changed
      <4>1. sent'[j] = sent[j]
        BY <1>0, <3>2
      <4>2. Coming(j)' = Coming(j)
        <5>1. \A n \in 1..LL : wire'[n].id = j => n \in 1..L /\ wire[n].id = j
          BY <1>1, <1>4, <3>2
        <5>2. \A n \in 1..L : wire[n].id = j => n \in 1..LL /\ wire'[n].id = j
          BY <1>1, <1>2
        <5> QED BY <3>0, <5>1, <5>2
      <4>3. \A n \in Coming(j) : wire'[n] = wire[n]
        BY <1>1, <3>0
      <4> QED BY <1>0, <2>3, <4>1, <4>2, <4>3 DEF EventsInv, StreamInv, SentReachesClient
    <3> QED BY <3>1, <3>2
  <2> QED BY <1>0, <2>1, <2>2, <2>3 DEF StreamInv, SentReachesClient, LL
<1>11. FollowedInv'
  <2> SUFFICES ASSUME NEW j \in JobIds, phase[j] = "failed", j > newest \/ sent'[j] # None
               PROVE  j \notin records
    BY <1>0 DEF FollowedInv
  <2>1. j > newest \/ sent[j] # None
    <3>1. CASE j \in Changed
      <4>1. Row(j).status = "failed"
        BY <1>3, <3>1, RowIs DEF EventsInv
      <4> QED BY <3>1, <4>1 DEF Changed, Followed, Final
    <3>2. CASE j \notin Changed
      BY <1>0, <3>2
    <3> QED BY <3>1, <3>2
  <2> QED BY <1>0, <2>1 DEF EventsInv, FollowedInv
<1> QED BY <1>6, <1>7, <1>8, <1>9, <1>10, <1>11 DEF EventsInv

-----------------------------------------------------------------------------
(***************************************************************************)
(* The client.                                                             *)
(***************************************************************************)

\* invalidateQueries starts a fetch, unless the first one is under way.
LEMMA InvalidateIs ==
  ASSUME TypeOK, Invalidate
  PROVE  /\ list' \in List /\ list'.data = list.data /\ list'.loaded = list.loaded
         /\ list'.unheard = list.unheard
         /\ \/ list'.fetch = "asked" /\ list'.read = {} /\ ~ list'.missed
               /\ (list.loaded \/ list.fetch = "idle")
            \/ /\ ~ list.loaded /\ list'.fetch = list.fetch /\ list'.read = list.read
               /\ list.fetch # "idle" /\ (list.missed => list'.missed)
               /\ list.fetch = "read" => list'.missed
<1>1. list \in List
  BY DEF TypeOK
<1>2. CASE ~list.loaded /\ list.fetch # "idle"
  <2>1. list' = [list EXCEPT !.missed = @ \/ list.fetch = "read"]
    BY <1>2 DEF Invalidate
  <2>2. (list.missed \/ list.fetch = "read") \in BOOLEAN
    OBVIOUS
  <2> QED BY <1>1, <1>2, <2>1, <2>2 DEF List
<1>3. CASE ~ (~list.loaded /\ list.fetch # "idle")
  <2>1. list' = [list EXCEPT !.fetch = "asked", !.read = {}, !.missed = FALSE]
    BY <1>3 DEF Invalidate
  <2> QED BY <1>1, <1>3, <2>1 DEF List
<1> QED BY <1>2, <1>3

\* As long as no record comes or goes, what the client will see of the list changes by
\* invalidating it for the better only.
LEMMA InvalidateKeeps ==
  ASSUME TypeOK, GoneInv, Invalidate \/ UNCHANGED list, UNCHANGED <<records, deletes>>
  PROVE  /\ list' \in List /\ GoneInv'
         /\ \A j \in JobIds :
              /\ list.fetch = "idle" => list.missed \/ j \in list.data \/ j \notin records
              /\ list.fetch = "read" => list.missed \/ j \in list.read \/ j \notin records
              =>
              /\ list'.fetch = "idle" => list'.missed \/ j \in list'.data \/ j \notin records
              /\ list'.fetch = "read" => list'.missed \/ j \in list'.read \/ j \notin records
<1>1. CASE UNCHANGED list
  BY <1>1 DEF TypeOK, GoneInv
<1>2. CASE Invalidate
  <2>1. CASE list'.fetch = "asked" /\ list'.read = {} /\ ~ list'.missed
    BY <1>2, <2>1, InvalidateIs DEF GoneInv
  <2>2. CASE /\ ~ list.loaded /\ list'.fetch = list.fetch /\ list'.read = list.read
             /\ list.fetch # "idle" /\ (list.missed => list'.missed)
             /\ list.fetch = "read" => list'.missed
    <3>1. /\ list' \in List /\ list'.data = list.data /\ list'.loaded = list.loaded
          /\ list'.unheard = list.unheard
      BY <1>2, InvalidateIs
    <3>2. GoneInv'
      BY <2>2, <3>1 DEF GoneInv
    <3> QED BY <2>2, <3>1, <3>2
  <2> QED BY <1>2, <2>1, <2>2, InvalidateIs
<1> QED BY <1>1, <1>2

LEMMA DeliverInv == ASSUME EventsInv, Deliver PROVE EventsInv'
<1> DEFINE L == Len(wire)  LL == Len(wire')  e == wire[1]
<1>0. /\ UNCHANGED <<phase, percent, records, stream, newest, sent, deletes>>
      /\ wire # <<>> /\ wire' = Tail(wire) /\ Head(wire) = wire[1]
      /\ shown' = [shown EXCEPT ![e.id] = e.row]
      /\ Invalidate \/ (UNCHANGED list /\ e.row.status # "completed")
      /\ e.row.status = "completed" => Invalidate
  <2>1. wire # <<>> /\ wire \in Seq(Events)
    BY WireIs DEF EventsInv, Deliver
  <2>2. Head(wire) = wire[1]
    BY <2>1
  <2>3. /\ wire' = Tail(wire)
        /\ shown' = [shown EXCEPT ![Head(wire).id] = Head(wire).row]
        /\ IF Head(wire).row.status = "completed" THEN Invalidate ELSE UNCHANGED list
        /\ UNCHANGED <<tableVars, stream, newest, sent, deletes>>
    BY DEF Deliver
  <2>4. UNCHANGED <<phase, percent, records, stream, newest, sent, deletes>>
    BY <2>3 DEF tableVars
  <2>5. (Invalidate \/ (UNCHANGED list /\ e.row.status # "completed"))
        /\ (e.row.status = "completed" => Invalidate)
    BY <2>2, <2>3
  <2> QED BY <2>1, <2>2, <2>3, <2>4, <2>5
<1>1. /\ L \in Nat /\ L > 0 /\ wire \in Seq(Events)
      /\ \A n \in 1..L : wire[n].id \in JobIds /\ wire[n].row \in Rows
  BY <1>0, WireIs DEF EventsInv
<1>2. /\ wire' \in Seq(Events) /\ LL = L - 1 /\ LL \in Nat /\ LL <= MaxWire
      /\ \A n \in 1..LL : wire'[n] = wire[n + 1] /\ n + 1 \in 1..L /\ 1 < n + 1
  <2>1. Tail(wire) \in Seq(Events) /\ Len(Tail(wire)) = L - 1
        /\ \A n \in 1..Len(Tail(wire)) : Tail(wire)[n] = wire[n + 1]
    BY <1>0, <1>1, HeadTailProperties
  <2>2. L <= MaxWire /\ MaxWire \in Nat
    BY DownloadEventsAssumption DEF EventsInv, TypeOK
  <2> HIDE DEF L
  <2> QED BY <1>0, <1>1, <2>1, <2>2
<1>3. 1 \in 1..L /\ e.id \in JobIds /\ e.row \in Rows /\ e.row # None
  <2> HIDE DEF L
  <2>1. 1 \in 1..L
    BY <1>1
  <2> QED BY <1>1, <2>1, NoneIsNoRow
<1>4. HasRow(e.id) /\ NotAfter(e.row, Row(e.id))
  BY <1>3 DEF EventsInv, WireInv
<1>5. \A j \in JobIds : shown'[j] = IF j = e.id THEN e.row ELSE shown[j]
  BY <1>0 DEF EventsInv, TypeOK
<1>6. \A j \in JobIds : HasRow(j)' = HasRow(j) /\ Row(j)' = Row(j)
  BY <1>0 DEF HasRow, Row
<1> HIDE DEF L, LL, e
<1>7. list' \in List /\ GoneInv'
  BY <1>0, InvalidateKeeps DEF EventsInv
<1>8. TypeOK'
  <2>1. shown' \in [JobIds -> Rows \union {None}]
    BY <1>0, <1>3 DEF EventsInv, TypeOK
  <2> QED BY <1>0, <1>2, <1>7, <2>1 DEF EventsInv, TypeOK, LL
<1>9. RecordInv' /\ FollowedInv'
  BY <1>0 DEF EventsInv, RecordInv, FollowedInv
<1>10. ShownInv'
  BY <1>4, <1>5, <1>6 DEF EventsInv, ShownInv
<1>11. WireInv'
  <2>1. ASSUME NEW n \in 1..LL
        PROVE  /\ HasRow(wire'[n].id) /\ NotAfter(wire'[n].row, Row(wire'[n].id))
               /\ NotAfter(shown'[wire'[n].id], wire'[n].row)
    <3>1. n + 1 \in 1..L /\ wire'[n] = wire[n + 1] /\ 1 < n + 1
      BY <1>2
    <3>2. HasRow(wire[n + 1].id) /\ NotAfter(wire[n + 1].row, Row(wire[n + 1].id))
          /\ NotAfter(shown[wire[n + 1].id], wire[n + 1].row)
      BY <3>1 DEF EventsInv, WireInv, L
    <3>3. CASE wire[n + 1].id = e.id
      <4>1. Rank(e.row) < Rank(wire[n + 1].row)
        BY <1>3, <3>1, <3>3 DEF EventsInv, WireInv, L, e
      <4> QED BY <1>3, <1>5, <3>1, <3>2, <3>3, <4>1 DEF NotAfter
    <3>4. CASE wire[n + 1].id # e.id
      <4>1. shown'[wire[n + 1].id] = shown[wire[n + 1].id]
        BY <1>1, <1>5, <3>1, <3>4
      <4> QED BY <3>1, <3>2, <4>1
    <3> QED BY <3>3, <3>4
  <2>2. ASSUME NEW m \in 1..LL, NEW n \in 1..LL, m < n, wire'[m].id = wire'[n].id
        PROVE  Rank(wire'[m].row) < Rank(wire'[n].row)
    <3>1. m + 1 \in 1..L /\ n + 1 \in 1..L /\ m + 1 < n + 1 /\ wire'[m] = wire[m + 1] /\ wire'[n] = wire[n + 1]
      BY <1>2, <2>2
    <3> QED BY <2>2, <3>1 DEF EventsInv, WireInv, L
  <2> QED BY <1>0, <2>1, <2>2 DEF WireInv, LL, HasRow, Row
<1>12. StreamInv'
  <2>1. stream # "closed"
    BY <1>0 DEF EventsInv, StreamInv
  <2>2. \A n \in 1..LL : sent'[wire'[n].id] # None
    BY <1>0, <1>2 DEF EventsInv, StreamInv, L
  <2>3. \A j \in JobIds : sent'[j] # None => HasRow(j)'
    BY <1>0, <1>6 DEF EventsInv, StreamInv
  <2>4. ASSUME NEW j \in JobIds, stream = "open", sent[j] # None
        PROVE  \/ Coming(j)' = {} /\ shown'[j] = sent[j]
               \/ \E n \in Coming(j)' : wire'[n].row = sent[j] /\ \A m \in Coming(j)' : m <= n
    <3>0. Coming(j)' = {n \in 1..LL : wire'[n].id = j} /\ Coming(j) = {n \in 1..L : wire[n].id = j}
      BY DEF Coming, LL, L
    <3>1. \A n \in Coming(j)' : n + 1 \in Coming(j)
      BY <1>2, <3>0
    <3>2. CASE Coming(j) = {} /\ shown[j] = sent[j]
      <4>1. Coming(j)' = {}
        BY <3>1, <3>2
      <4>2. j # e.id
        BY <1>3, <3>0, <3>2 DEF e
      <4> QED BY <1>5, <3>2, <4>1, <4>2
    <3>3. ASSUME NEW n \in Coming(j), wire[n].row = sent[j], \A m \in Coming(j) : m <= n
          PROVE  \/ Coming(j)' = {} /\ shown'[j] = sent[j]
                 \/ \E k \in Coming(j)' : wire'[k].row = sent[j] /\ \A m \in Coming(j)' : m <= k
      <4>0. n \in 1..L
        BY <3>0
      <4>1. CASE n = 1
        <5>1. Coming(j)' = {}
          <6> SUFFICES ASSUME NEW m \in Coming(j)' PROVE FALSE
            OBVIOUS
          <6>1. m \in Nat /\ m >= 1 /\ m + 1 <= 1
            BY <1>2, <3>0, <3>1, <3>3, <4>1
          <6> QED BY <6>1
        <5>2. e.id = j /\ e.row = sent[j]
          BY <3>0, <3>3, <4>1 DEF e
        <5> QED BY <1>5, <5>1, <5>2
      <4>2. CASE n # 1
        <5>1. n - 1 \in 1..LL /\ (n - 1) + 1 = n
          BY <1>1, <1>2, <4>0, <4>2
        <5>2. wire'[n - 1] = wire[n] /\ n - 1 \in Coming(j)'
          BY <1>2, <3>0, <5>1
        <5>3. \A m \in Coming(j)' : m <= n - 1
          <6> SUFFICES ASSUME NEW m \in Coming(j)' PROVE m <= n - 1
            OBVIOUS
          <6>1. m \in 1..LL /\ m + 1 <= n
            BY <3>0, <3>1, <3>3
          <6> QED BY <1>2, <4>0, <6>1
        <5> QED BY <3>3, <5>2, <5>3
      <4> QED BY <4>1, <4>2
    <3> QED BY <2>4, <3>2, <3>3 DEF EventsInv, StreamInv, SentReachesClient
  <2> QED BY <1>0, <2>1, <2>2, <2>3, <2>4 DEF StreamInv, SentReachesClient, LL
<1>13. CompletedInv'
  <2> SUFFICES ASSUME NEW j \in JobIds, shown'[j] # None, shown'[j].status = "completed"
               PROVE  /\ list'.fetch = "idle" => list'.missed \/ j \in list'.data \/ j \notin records
                      /\ list'.fetch = "read" => list'.missed \/ j \in list'.read \/ j \notin records
    BY <1>0 DEF CompletedInv
  <2>1. CASE j = e.id
    <3>1. Invalidate
      BY <1>0, <1>5, <2>1
    <3>2. list'.fetch = "asked" \/ (list'.fetch = "read" /\ list'.missed) \/ list'.fetch \notin {"idle", "read"}
      BY <3>1, InvalidateIs DEF EventsInv
    <3> QED BY <3>2
  <2>2. CASE j # e.id
    <3>1. shown[j] # None /\ shown[j].status = "completed"
      BY <1>5, <2>2
    <3>2. /\ list.fetch = "idle" => list.missed \/ j \in list.data \/ j \notin records
          /\ list.fetch = "read" => list.missed \/ j \in list.read \/ j \notin records
      BY <3>1 DEF EventsInv, CompletedInv
    <3> QED BY <1>0, <3>2, InvalidateKeeps DEF EventsInv
  <2> QED BY <2>1, <2>2
<1> QED BY <1>7, <1>8, <1>9, <1>10, <1>11, <1>12, <1>13 DEF EventsInv

\* A step of the list or of a DELETE leaves the stream and what is shown of the jobs alone.
LEMMA ListStepKeeps ==
  ASSUME EventsInv, UNCHANGED <<phase, percent, streamVars, shown>>, records' \subseteq records,
         list' \in List, deletes' \subseteq [job : JobIds, deleted : BOOLEAN]
  PROVE  TypeOK' /\ RecordInv' /\ ShownInv' /\ WireInv' /\ StreamInv' /\ FollowedInv'
<1>0. UNCHANGED <<phase, percent, stream, newest, sent, wire, shown>>
  BY DEF streamVars
<1>1. TypeOK'
  BY <1>0 DEF EventsInv, TypeOK
<1>2. RecordInv' /\ FollowedInv'
  BY <1>0 DEF EventsInv, RecordInv, FollowedInv
<1>3. ShownInv' /\ WireInv'
  <2>1. \A j \in JobIds : Row(j)' = Row(j) /\ HasRow(j)' = HasRow(j)
    BY <1>0 DEF Row, HasRow
  <2>2. TableMoves
    BY <1>1, <2>1 DEF TableMoves, NotAfter, TypeOK
  <2> QED BY <1>0, <2>2, RowsStayBehind DEF EventsInv
<1>4. StreamInv'
  <2>1. SentReachesClient'
    BY <1>0 DEF EventsInv, StreamInv, SentReachesClient, Coming
  <2> QED BY <1>0, <2>1 DEF EventsInv, StreamInv, HasRow
<1> QED BY <1>1, <1>2, <1>3, <1>4

LEMMA FetchInv ==
  ASSUME EventsInv, FetchList \/ ListArrives \/ ListFails
  PROVE  EventsInv'
<1>0. UNCHANGED <<phase, percent, records, streamVars, shown, deletes>>
  BY DEF FetchList, ListArrives, ListFails, tableVars
<1>1. list \in List /\ records \subseteq JobIds
  BY DEF EventsInv, TypeOK
<1>2. /\ list' \in List
      /\ \/ /\ list.fetch = "asked" /\ list'.fetch = "read" /\ list'.read = records
            /\ list'.data = list.data /\ list'.loaded = list.loaded /\ list'.missed = list.missed
         \/ /\ list.fetch = "read" /\ list'.fetch = "idle" /\ list'.read = {}
            /\ list'.data = list.read /\ list'.loaded /\ list'.missed = list.missed
            /\ list'.unheard = list.unheard
         \/ /\ list'.fetch = "idle" /\ list'.read = {} /\ list'.missed
            /\ list'.data = list.data /\ list'.loaded = list.loaded
  <2>1. CASE FetchList
    BY <1>1, <2>1 DEF FetchList, List
  <2>2. CASE ListArrives
    BY <1>1, <2>2 DEF ListArrives, List
  <2>3. CASE ListFails
    BY <1>1, <2>3 DEF ListFails, List
  <2> QED BY <2>1, <2>2, <2>3
<1>3. TypeOK' /\ RecordInv' /\ ShownInv' /\ WireInv' /\ StreamInv' /\ FollowedInv'
  <2>1. deletes' \subseteq [job : JobIds, deleted : BOOLEAN]
    BY <1>0 DEF EventsInv, TypeOK
  <2> QED BY <1>0, <1>2, <2>1, ListStepKeeps
<1>4. CompletedInv'
  BY <1>0, <1>2 DEF EventsInv, CompletedInv
<1>5. GoneInv'
  BY <1>0, <1>2 DEF EventsInv, GoneInv
<1> QED BY <1>3, <1>4, <1>5 DEF EventsInv

LEMMA HandleDeleteInv == ASSUME EventsInv, NEW j \in JobIds, HandleDelete(j) PROVE EventsInv'
<1>0. /\ UNCHANGED <<phase, percent, streamVars, shown, list>> /\ records' = records \ {j}
      /\ deletes' = deletes \union {[job |-> j, deleted |-> j \in records]} /\ j \in list.data
  BY DEF HandleDelete
<1>1. TypeOK' /\ RecordInv' /\ ShownInv' /\ WireInv' /\ StreamInv' /\ FollowedInv'
  <2>1. [job |-> j, deleted |-> j \in records] \in [job : JobIds, deleted : BOOLEAN]
    <3>1. CASE j \in records
      <4>1. (j \in records) = TRUE
        BY <3>1
      <4> QED BY <4>1
    <3>2. CASE j \notin records
      <4>1. (j \in records) = FALSE
        BY <3>2
      <4> QED BY <4>1
    <3> QED BY <3>1, <3>2
  <2>2. deletes' \subseteq [job : JobIds, deleted : BOOLEAN] /\ list' \in List
    BY <1>0, <2>1 DEF EventsInv, TypeOK
  <2> QED BY <1>0, <2>2, ListStepKeeps
<1>2. CompletedInv'
  BY <1>0 DEF EventsInv, CompletedInv
<1>3. GoneInv'
  <2>1. list.loaded
    BY <1>0 DEF EventsInv, GoneInv
  <2>2. j \in records => [job |-> j, deleted |-> TRUE] \in deletes'
    <3>1. j \in records => (j \in records) = TRUE
      OBVIOUS
    <3> QED BY <1>0, <3>1
  <2>3. deletes \subseteq deletes' /\ \A i : i \notin records' => i \notin records \/ (i = j /\ j \in records)
    BY <1>0
  <2> QED BY <1>0, <2>1, <2>2, <2>3 DEF EventsInv, GoneInv
<1> QED BY <1>1, <1>2, <1>3 DEF EventsInv

LEMMA DeletedInv == ASSUME EventsInv, NEW d \in deletes, Deleted(d) PROVE EventsInv'
<1>0. /\ UNCHANGED <<phase, percent, records, streamVars, shown>> /\ deletes' = deletes \ {d}
      /\ d.deleted => Invalidate
      /\ ~ d.deleted => UNCHANGED list
  BY DEF Deleted, tableVars
<1>1. list.loaded /\ d.deleted \in BOOLEAN
  BY DEF EventsInv, TypeOK, GoneInv
<1>2. CASE d.deleted
  <2>1. /\ list' \in List /\ list'.data = list.data /\ list'.loaded
        /\ list'.fetch = "asked" /\ list'.read = {}
    BY <1>0, <1>1, <1>2, InvalidateIs DEF EventsInv
  <2>2. deletes' \subseteq [job : JobIds, deleted : BOOLEAN]
    BY <1>0 DEF EventsInv, TypeOK
  <2>3. TypeOK' /\ RecordInv' /\ ShownInv' /\ WireInv' /\ StreamInv' /\ FollowedInv'
    BY <1>0, <2>1, <2>2, ListStepKeeps
  <2>4. CompletedInv' /\ GoneInv'
    BY <2>1 DEF CompletedInv, GoneInv
  <2> QED BY <2>3, <2>4 DEF EventsInv
<1>3. CASE ~ d.deleted
  <2>1. UNCHANGED list /\ list' \in List /\ deletes' \subseteq [job : JobIds, deleted : BOOLEAN]
    BY <1>0, <1>3 DEF EventsInv, TypeOK
  <2>2. TypeOK' /\ RecordInv' /\ ShownInv' /\ WireInv' /\ StreamInv' /\ FollowedInv'
    BY <1>0, <2>1, ListStepKeeps
  <2>3. \A j \in JobIds : [job |-> j, deleted |-> TRUE] # d
    BY <1>3
  <2>4. \A j \in JobIds : [job |-> j, deleted |-> TRUE] \in deletes => [job |-> j, deleted |-> TRUE] \in deletes'
    BY <1>0, <2>3
  <2>5. list.read \subseteq JobIds /\ list.data \subseteq JobIds
    BY DEF EventsInv, TypeOK, List
  <2>6. CompletedInv' /\ GoneInv'
    BY <1>0, <1>1, <2>1, <2>4, <2>5 DEF EventsInv, CompletedInv, GoneInv
  <2> QED BY <2>2, <2>6 DEF EventsInv
<1> QED BY <1>1, <1>2, <1>3

LEMMA AnswerLostInv == ASSUME EventsInv, NEW d \in deletes, AnswerLost(d) PROVE EventsInv'
<1>1. UNCHANGED <<phase, percent, records, streamVars, shown>> /\ LoseAnswers({d})
  BY DEF AnswerLost, tableVars
<1>2. /\ list' \in List /\ deletes' \subseteq [job : JobIds, deleted : BOOLEAN]
      /\ CompletedInv' /\ GoneInv'
  BY <1>1, LoseAnswersKeeps DEF EventsInv
<1>3. TypeOK' /\ RecordInv' /\ ShownInv' /\ WireInv' /\ StreamInv' /\ FollowedInv'
  BY <1>1, <1>2, ListStepKeeps
<1> QED BY <1>2, <1>3 DEF EventsInv

-----------------------------------------------------------------------------
(***************************************************************************)
(* The theorems.                                                           *)
(***************************************************************************)

LEMMA InitInv == Init => EventsInv
<1> SUFFICES ASSUME Init PROVE EventsInv
  OBVIOUS
<1>0. /\ phase = [j \in JobIds |-> "absent"] /\ percent = [j \in JobIds |-> 0]
      /\ stream = "closed" /\ newest = 0 /\ sent = [j \in JobIds |-> None] /\ wire = <<>>
      /\ records = {} /\ deletes = {} /\ shown = [j \in JobIds |-> None]
      /\ list = [data |-> {}, loaded |-> FALSE, fetch |-> "asked", read |-> {},
                 missed |-> FALSE, unheard |-> {}]
  BY DEF Init, Table!Init
<1>1. TypeOK
  <2>1. <<>> \in Seq(Events) /\ Len(<<>>) <= MaxWire /\ 0 \in 0..MaxJobs /\ 0 \in 0..MaxPercent
    BY DownloadEventsAssumption
  <2> QED BY <1>0, <2>1 DEF TypeOK, Table!Phases, List
<1>2. RecordInv /\ ShownInv /\ WireInv /\ StreamInv /\ FollowedInv /\ CompletedInv /\ GoneInv
  BY <1>0 DEF RecordInv, ShownInv, WireInv, StreamInv, SentReachesClient, FollowedInv, CompletedInv, GoneInv
<1> QED BY <1>1, <1>2 DEF EventsInv

LEMMA StepInv == EventsInv /\ [Next]_vars => EventsInv'
<1> SUFFICES ASSUME EventsInv, [Next]_vars PROVE EventsInv'
  OBVIOUS
<1>1. ASSUME NEW j \in JobIds, Enqueue(j) \/ Progress(j) \/ Settle(j) PROVE EventsInv'
  BY <1>1, EnqueueInv, ProgressInv, SettleInv
<1>2. CASE Connect \/ Poll \/ Drop \/ Restart
  BY <1>2, ConnectInv, PollInv, DropInv, RestartInv
<1>3. CASE Deliver \/ FetchList \/ ListArrives \/ ListFails
  BY <1>3, DeliverInv, FetchInv
<1>4. ASSUME NEW j \in JobIds, HandleDelete(j) PROVE EventsInv'
  BY <1>4, HandleDeleteInv
<1>5. ASSUME NEW d \in deletes, Deleted(d) \/ AnswerLost(d) PROVE EventsInv'
  BY <1>5, DeletedInv, AnswerLostInv
<1>6. CASE UNCHANGED vars
  <2>1. UNCHANGED <<phase, percent, records, stream, newest, sent, wire, shown, list, deletes>>
    BY <1>6 DEF vars, tableVars, streamVars, clientVars
  <2> QED BY <2>1 DEF EventsInv, TypeOK, RecordInv, ShownInv, WireInv, StreamInv, SentReachesClient, Coming,
                      FollowedInv, CompletedInv, GoneInv, HasRow, Row
<1> QED BY <1>1, <1>2, <1>3, <1>4, <1>5, <1>6 DEF Next

\* The table, the connection, the wire and the client's view of the jobs and of the list
\* stay in step, whatever is lost, restarted or deleted.
THEOREM EventsSafe == Spec => []EventsInv
<1> QED BY InitInv, StepInv, PTL DEF Spec

\* Rows, events, the list and its fetches keep their types.
THEOREM EventsTypeCorrect == Spec => []TypeOK
<1>1. EventsInv => TypeOK
  BY DEF EventsInv
<1> QED BY <1>1, EventsSafe, PTL

\* What a connection takes for sent is shown or on its way.
THEOREM SentRowsReachClient == Spec => []SentReachesClient
<1>1. EventsInv => SentReachesClient
  BY DEF EventsInv, StreamInv
<1> QED BY <1>1, EventsSafe, PTL

\* A model whose job is shown as completed is listed when its fetch is over.
THEOREM CompletedAreListed == Spec => []CompletedIsListed
<1>1. EventsInv => CompletedIsListed
  BY DEF EventsInv, CompletedInv, CompletedIsListed
<1> QED BY <1>1, EventsSafe, PTL

\* No late event of an old stream undoes what a newer one has shown.
THEOREM ShownNeverGoesBack == Spec => ShownMovesForward
<1>1. ASSUME EventsInv, [Next]_vars, NEW j \in JobIds, shown'[j] # shown[j]
      PROVE  Rank(shown'[j]) > Rank(shown[j])
  <2>1. CASE Deliver
    <3>1. wire # <<>> /\ shown' = [shown EXCEPT ![Head(wire).id] = Head(wire).row]
      BY <2>1 DEF Deliver
    <3>2. Head(wire) = wire[1] /\ 1 \in 1..Len(wire)
      BY <1>1, <3>1, WireIs DEF EventsInv
    <3>3. j = wire[1].id /\ shown'[j] = wire[1].row
      BY <1>1, <3>1, <3>2 DEF EventsInv, TypeOK
    <3>4. NotAfter(shown[j], wire[1].row)
      BY <1>1, <3>2, <3>3 DEF EventsInv, WireInv
    <3>5. Rank(shown[j]) < Rank(wire[1].row)
      BY <1>1, <3>3, <3>4 DEF NotAfter
    <3>6. Rank(shown[j]) \in Nat /\ Rank(wire[1].row) \in Nat
      BY <1>1, <3>2, RankIs, WireIs DEF EventsInv, TypeOK
    <3> HIDE DEF Rank
    <3> QED BY <3>3, <3>5, <3>6
  <2>2. CASE ~ Deliver
    <3>1. UNCHANGED shown
      BY <1>1, <2>2 DEF Next, vars, clientVars, Enqueue, Progress, Settle, Connect, Poll, Drop, Restart,
                        FetchList, ListArrives, ListFails, HandleDelete, Deleted, AnswerLost
    <3> QED BY <1>1, <3>1
  <2> QED BY <2>1, <2>2
<1> DEFINE Forward == \A j \in JobIds : shown'[j] # shown[j] => Rank(shown'[j]) > Rank(shown[j])
<1>2. EventsInv /\ [Next]_vars => Forward
  BY <1>1
<1>3. ShownMovesForward <=> [][Forward]_vars
  BY DEF ShownMovesForward
<1> HIDE DEF Forward
<1> QED BY <1>2, <1>3, EventsSafe, PTL DEF Spec

\* When nothing is on its way, a job that the stream follows shows as it is, and is listed
\* exactly if its record is there, unless the answer of its DELETE was lost.
LEMMA QuietAgrees ==
  ASSUME EventsInv, Quiet, NEW j \in JobIds, sent[j] # None, phase[j] # "published",
         j \notin list.unheard
  PROVE  /\ shown[j] # None /\ shown[j].status = phase[j]
         /\ j \in list.data <=> j \in records
<1>1. stream = "open" /\ wire = <<>> /\ Changed = {} /\ deletes = {} /\ list.fetch = "idle" /\ ~list.missed
  BY DEF Quiet
<1>2. Coming(j) = {}
  BY <1>1 DEF Coming
<1>3. shown[j] = sent[j]
  BY <1>1, <1>2 DEF EventsInv, StreamInv, SentReachesClient
<1>4. HasRow(j) /\ sent[j] = Row(j)
  BY <1>1 DEF EventsInv, StreamInv, Changed, Followed
<1>5. shown[j] # None /\ shown[j].status = phase[j]
  BY <1>3, <1>4, RowIs DEF EventsInv
<1>6. j \in list.data => j \in records
  BY <1>1 DEF EventsInv, GoneInv
<1>7. j \in records => j \in list.data
  <2> SUFFICES ASSUME j \in records PROVE j \in list.data
    OBVIOUS
  <2>1. phase[j] \notin {"absent", "pending", "downloading", "published", "failed"}
    BY <1>1 DEF EventsInv, RecordInv, FollowedInv
  <2>2. phase[j] = "completed"
    BY <2>1 DEF EventsInv, TypeOK, Table!Phases
  <2> QED BY <1>1, <1>5, <2>2 DEF EventsInv, CompletedInv
<1> QED BY <1>5, <1>6, <1>7

\* The Library and the model page tell the truth as soon as nothing is on its way, for
\* every model but those whose DELETE went without an answer.
THEOREM PagesAreRight == Spec => []PagesTellTheTruth
<1>1. ASSUME EventsInv, Quiet,
             NEW repo \in SUBSET {j \in JobIds : /\ sent[j] # None /\ phase[j] # "published"
                                                /\ j \notin list.unheard}
      PROVE  LET running == {j \in repo : phase[j] \in Table!Active} IN
             /\ ModelPage(repo) =
                  [ways  |-> [failed |-> {j \in repo : phase[j] = "failed"},
                              row    |-> IF repo \intersect records # {} THEN "chat"
                                         ELSE IF running # {} THEN "downloading" ELSE "download"],
                   aside |-> [rendered |-> running # {}, rows |-> running]]
             /\ \A snapshots \in SUBSET repo :
                  PlaygroundLink(repo, snapshots) = "api" <=> repo \intersect records = {}
             /\ Library.nothing => repo \intersect records = {} /\ running = {}
  <2> DEFINE running == {j \in repo : phase[j] \in Table!Active}
             failed  == {j \in repo : phase[j] = "failed"}
  <2>1. \A j \in repo : /\ j \in JobIds /\ shown[j] # None /\ shown[j].status = phase[j]
                        /\ phase[j] # "published" /\ (j \in list.data <=> j \in records)
    BY <1>1, QuietAgrees
  <2>2. repo \intersect list.data = repo \intersect records
    BY <2>1
  <2>3. RepoJobs(repo, {"failed"}) = failed
    BY <2>1 DEF RepoJobs, JobsShown
  <2>4. RepoJobs(repo, {"pending", "downloading"}) = running
    BY <2>1 DEF RepoJobs, JobsShown, Table!Active
  <2>5. repo \intersect ActiveJobs = running
    BY <2>4 DEF ActiveJobs, RepoJobs
  <2>6. OptionRow(repo) = IF repo \intersect records # {} THEN "chat"
                          ELSE IF running # {} THEN "downloading" ELSE "download"
    <3> HIDE DEF running
    <3>1. CASE repo \intersect records # {}
      BY <2>2, <3>1 DEF OptionRow, OnDisk
    <3>2. CASE repo \intersect records = {} /\ running # {}
      BY <2>2, <2>5, <3>2 DEF OptionRow, OnDisk, ActiveJob
    <3>3. CASE repo \intersect records = {} /\ running = {}
      BY <2>2, <2>5, <3>3 DEF OptionRow, OnDisk, ActiveJob
    <3> QED BY <3>1, <3>2, <3>3
  <2>7. ASSUME NEW snapshots \in SUBSET repo
        PROVE  PlaygroundLink(repo, snapshots) = "api" <=> repo \intersect records = {}
    <3> DEFINE local == repo \intersect list.data
    <3>1. CASE local \ snapshots # {}
      <4>1. PlaygroundLink(repo, snapshots) = "gguf"
        BY <3>1 DEF PlaygroundLink
      <4> QED BY <2>2, <3>1, <4>1
    <3>2. CASE local # {} /\ local \ snapshots = {}
      <4>1. local \subseteq snapshots /\ ~ (local \ snapshots # {})
        BY <3>2
      <4>2. PlaygroundLink(repo, snapshots) = "transformers"
        BY <3>2, <4>1 DEF PlaygroundLink
      <4> QED BY <2>2, <3>2, <4>2
    <3>3. CASE local = {}
      <4>1. PlaygroundLink(repo, snapshots) = "api"
        BY <3>3 DEF PlaygroundLink
      <4> QED BY <2>2, <3>3, <4>1
    <3> QED BY <3>1, <3>2, <3>3
  <2>8. Library.nothing => repo \intersect records = {} /\ running = {}
    BY <2>2, <2>5 DEF Library
  <2> HIDE DEF running, failed
  <2>9. ModelPage(repo) =
          [ways  |-> [failed |-> failed,
                      row    |-> IF repo \intersect records # {} THEN "chat"
                                 ELSE IF running # {} THEN "downloading" ELSE "download"],
           aside |-> [rendered |-> running # {}, rows |-> running]]
    BY <2>3, <2>4, <2>6 DEF ModelPage, WaysToRunIt, DownloadingCard
  <2> QED BY <2>7, <2>8, <2>9 DEF running, failed
<1>2. EventsInv => PagesTellTheTruth
  BY <1>1 DEF PagesTellTheTruth, EventsInv
<1> QED BY <1>2, EventsSafe, PTL

==============================================================================
