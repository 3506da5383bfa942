-------------------------- MODULE ChatSessionsProofs --------------------------
(***************************************************************************)
(* Proofs about ChatSessions: its types, the inductive invariant ChatInv   *)
(* with the two safety properties it contains, and that a DELETE takes     *)
(* exactly the messages of its own session.                                *)
(***************************************************************************)
EXTENDS ChatSessions, FiniteSetTheorems, WellFoundedInduction, TLAPS

(***************************************************************************)
(* The inductive invariant.                                                *)
(***************************************************************************)

\* A turn under way is in a session; it files a reply only when that is whole.
TurnInv ==
  \A t \in Turns :
    /\ InFlight(t) => turn[t].session \in SessionIds
    /\ turn[t].pc = "replying" => turn[t].finished /\ ~ turn[t].error

\* A message was stored by its turn, in the session of the turn; a reply is the last
\* thing a turn stores, is whole, and is stored once.
MessageInv ==
  \A m \in MessageIds : message[m] # None =>
    LET t == message[m].turn IN
    /\ turn[t].session = message[m].session
    /\ turn[t].pc \notin {"new", "entered", "counted"}
    /\ message[m].role = "assistant" =>
         /\ turn[t].pc \in {"measuring", "done"} /\ turn[t].finished /\ ~ turn[t].error
         /\ \A n \in MessageIds :
              message[n] # None /\ message[n].role = "assistant" /\ message[n].turn = t => n = m

\* As long as no two DELETEs of one session have overlapped, the session of a DELETE
\* exists, and what it has listed is still there.
DeletionInv(d) ==
  /\ deletion[d].pc = "idle" <=> deletion[d].session = 0
  /\ deletion[d].pc # "idle" /\ deletion[d].alone =>
       \A t \in Turns : InFlight(t) => turn[t].session # deletion[d].session
  /\ deletion[d].pc # "idle" /\ ~ overlap =>
       /\ deletion[d].session \in sessions
       /\ \A e \in Deletes : e # d => deletion[e].session # deletion[d].session
  /\ deletion[d].pc = "listed" /\ ~ overlap =>
       /\ deletion[d].seen \subseteq MessagesOf(deletion[d].session)
       /\ deletion[d].alone => deletion[d].seen = MessagesOf(deletion[d].session)

DeleteInv == \A d \in Deletes : DeletionInv(d)

\* n is the largest sequence number of session s, or 0.
IsLast(s, n) ==
  /\ n \in Nat
  /\ \A m \in MessagesOf(s) : message[m].sequence <= n
  /\ n > 0 => \E m \in MessagesOf(s) : message[m].sequence = n

\* A session nothing has spoiled has one turn at a time: what the turn has counted is
\* still the last number, and its prompt is the last message.
SessionInv(s) ==
  /\ \A t, u \in Turns : InFlight(t) /\ InFlight(u) /\ turn[t].session = s /\ turn[u].session = s => t = u
  /\ \A t \in Turns : turn[t].session = s /\ turn[t].pc \in {"counted", "replying"} => IsLast(s, turn[t].last)
  /\ \A t \in Turns : turn[t].session = s /\ turn[t].pc \in {"streaming", "closing", "replying"} =>
       \A m, k \in MessagesOf(s) : message[m].turn = t => message[k].sequence <= message[m].sequence
  /\ \A m, n \in MessagesOf(s) : m < n => message[m].sequence < message[n].sequence
  /\ \A m \in MessagesOf(s) : message[m].sequence > 1 =>
       \E n \in MessagesOf(s) : message[n].sequence = message[m].sequence - 1
  /\ \A m, n \in MessagesOf(s) :
       message[m].role = "user" /\ message[n].role = "assistant" /\ message[n].turn = message[m].turn
       => message[n].sequence = message[m].sequence + 1

SessionsInv == ~ overlap => \A s \in sessions \ spoiled : SessionInv(s)

ChatInv == TypeOK /\ TurnInv /\ MessageInv /\ DeleteInv /\ SessionsInv

-----------------------------------------------------------------------------
(***************************************************************************)
(* The operators.                                                          *)
(***************************************************************************)

\* A finite set of numbers that is not empty has a largest one: the element with the
\* fewest elements above it.
LEMMA LargestExists ==
  ASSUME NEW S \in SUBSET Nat, IsFiniteSet(S), S # {}
  PROVE  \E x \in S : \A y \in S : y <= x
<1> DEFINE Above(x) == {y \in S : x < y}
           T == {Above(x) : x \in S}
<1>1. IsWellFoundedOn(StrictSubsetOrdering(S), SUBSET S)
  BY FS_StrictSubsetOrderingWellFounded, FS_FiniteSubsetsOfFinite
<1>2. T \subseteq SUBSET S /\ T # {}
  OBVIOUS
<1>3. PICK U \in T : \A V \in T : ~ (<<V, U>> \in StrictSubsetOrdering(S))
  BY <1>1, <1>2, WFMin
<1>4. PICK x \in S : U = Above(x)
  OBVIOUS
<1>5. ASSUME NEW y \in S, x < y PROVE FALSE
  <2>0. x \in Nat /\ y \in Nat /\ \A z \in S : z \in Nat /\ (y < z => x < z)
    BY <1>5
  <2>1. Above(y) \subseteq Above(x) /\ y \in Above(x) /\ y \notin Above(y)
    <3>1. Above(y) \subseteq Above(x)
      BY <2>0
    <3>2. y \in Above(x)
      BY <1>5
    <3>3. y \notin Above(y)
      BY <2>0
    <3> QED BY <3>1, <3>2, <3>3
  <2>2. Above(y) \in SUBSET S /\ Above(x) \in SUBSET S /\ Above(y) \in T
    OBVIOUS
  <2> HIDE DEF Above, T
  <2>3. <<Above(y), Above(x)>> \in StrictSubsetOrdering(S)
    BY <2>1, <2>2 DEF StrictSubsetOrdering
  <2> QED BY <1>3, <1>4, <2>2, <2>3
<1> QED BY <1>5

\* _next_sequence returns the largest sequence number of the session.
LEMMA LastSequenceIs ==
  ASSUME TypeOK, NEW s \in SessionIds
  PROVE  IsLast(s, LastSequence(s))
<1> DEFINE used == {message[m].sequence : m \in MessagesOf(s)}
<1>1. \A m \in MessagesOf(s) : m \in MessageIds /\ message[m].sequence \in Nat \ {0}
  BY DEF MessagesOf, TypeOK, Message
<1>2. IsFiniteSet(used)
  <2>1. IsFiniteSet(MessageIds)
    BY FS_Interval, ChatSessionsAssumption DEF MessageIds
  <2>2. IsFiniteSet(MessagesOf(s))
    BY <2>1, FS_Subset DEF MessagesOf
  <2> DEFINE f == [m \in MessagesOf(s) |-> message[m].sequence]
  <2>3. f \in Surjection(MessagesOf(s), used)
    BY DEF Surjection
  <2> HIDE DEF f, used
  <2> QED BY <2>2, <2>3, FS_Surjection
<1>3. CASE used = {}
  BY <1>3 DEF IsLast, LastSequence
<1>4. CASE used # {}
  <2>1. used \in SUBSET Nat
    BY <1>1
  <2> DEFINE top == CHOOSE n \in used : \A k \in used : k <= n
  <2>2. LastSequence(s) = top
    BY <1>4 DEF LastSequence
  <2>3. top \in used /\ \A k \in used : k <= top
    <3> HIDE DEF used
    <3> QED BY <1>2, <1>4, <2>1, LargestExists
  <2> HIDE DEF top
  <2>4. top \in Nat /\ \A m \in MessagesOf(s) : message[m].sequence <= top
    BY <2>1, <2>3
  <2>5. \E m \in MessagesOf(s) : message[m].sequence = top
    BY <2>3
  <2> QED BY <2>2, <2>4, <2>5 DEF IsLast
<1> QED BY <1>3, <1>4

\* What a commit of _store_message writes: row i, behind all others.
Stored(t, role, i) ==
  /\ message[i] = None /\ \A m \in MessageIds : message[m] # None => m < i
  /\ message' \in [MessageIds -> Message \union {None}]
  /\ \A m \in MessageIds : m # i => message'[m] = message[m]
  /\ message'[i] \in Message /\ message'[i] # None
  /\ message'[i].session = turn[t].session /\ message'[i].role = role
  /\ message'[i].sequence = turn[t].last + 1 /\ message'[i].turn = t

\* Store writes such a row.
LEMMA StoreWrites ==
  ASSUME TypeOK, TurnInv, NEW t \in Turns, InFlight(t), NEW role \in {"user", "assistant"}, Store(t, role)
  PROVE  \E i \in MessageIds : Stored(t, role, i)
<1> DEFINE w == [session |-> turn[t].session, role |-> role, sequence |-> turn[t].last + 1, turn |-> t]
<1>1. PICK i \in MessageIds :
        /\ IsNext(i, {m \in MessageIds : message[m] # None})
        /\ message' = [message EXCEPT ![i] = w]
  BY DEF Store
<1>2. \A m \in MessageIds : message[m] # None => m < i
  BY <1>1 DEF IsNext
<1>3. message[i] = None
  BY <1>2 DEF MessageIds
<1>4. w \in Message
  <2>1. turn[t].last \in Nat /\ turn[t].session \in SessionIds
    BY DEF TypeOK, TurnInv, Turn
  <2> QED BY <2>1 DEF Message
<1>5. w # None
  BY <1>4, ChatSessionsAssumption
<1>6. w.session = turn[t].session /\ w.role = role /\ w.sequence = turn[t].last + 1 /\ w.turn = t
  OBVIOUS
<1> HIDE DEF w
<1> QED BY <1>1, <1>2, <1>3, <1>4, <1>5, <1>6 DEF TypeOK, Stored

\* The messages of a session depend on nothing else.
LEMMA SameMessages ==
  ASSUME UNCHANGED message, NEW s
  PROVE  MessagesOf(s)' = MessagesOf(s) /\ \A n : IsLast(s, n)' <=> IsLast(s, n)
  BY DEF MessagesOf, IsLast

\* The initial state satisfies the invariant.
LEMMA InitInv == Init => ChatInv
<1> SUFFICES ASSUME Init PROVE ChatInv
  OBVIOUS
<1>1. NoTurn \in Turn /\ NoDeletion \in Deletion
  BY DEF NoTurn, NoDeletion, Turn, Deletion
<1>2. TypeOK
  BY <1>1 DEF Init, TypeOK
<1>3. TurnInv
  BY DEF Init, TurnInv, InFlight, NoTurn
<1>4. DeleteInv
  BY DEF Init, DeleteInv, DeletionInv, NoDeletion
<1>5. MessageInv /\ SessionsInv
  BY DEF Init, MessageInv, SessionsInv
<1> QED BY <1>2, <1>3, <1>4, <1>5 DEF ChatInv

-----------------------------------------------------------------------------
(***************************************************************************)
(* Steps of a turn that store nothing.                                     *)
(***************************************************************************)

\* What they have in common.
QuietTurn(t) ==
  /\ UNCHANGED <<sessions, message, deletion, spoiled, overlap>>
  /\ turn' \in [Turns -> Turn] /\ \A u \in Turns : u # t => turn'[u] = turn[u]
  /\ InFlight(t) /\ turn'[t].session = turn[t].session /\ turn'[t].pc # "new"
  /\ turn'[t].pc \in {"entered", "counted"} => turn[t].pc = "entered"
  /\ turn[t].pc \in {"measuring", "replying"} =>
       turn'[t].pc = "done" /\ turn'[t].finished = turn[t].finished /\ turn'[t].error = turn[t].error
  /\ turn'[t].pc = "replying" => turn'[t].finished /\ ~ turn'[t].error
  /\ turn'[t].pc \in {"counted", "replying"} => turn'[t].last = LastSequence(turn[t].session)
  /\ turn'[t].pc \in {"streaming", "closing", "replying"} =>
       turn[t].pc \in {"entered", "streaming", "closing"}

\* Writing the record w of a turn.
LEMMA TurnWrite ==
  ASSUME TypeOK, NEW t \in Turns, NEW w \in Turn, turn' = [turn EXCEPT ![t] = w]
  PROVE  turn' \in [Turns -> Turn] /\ turn'[t] = w /\ \A u \in Turns : u # t => turn'[u] = turn[u]
  BY DEF TypeOK

\* All of them are such steps.
LEMMA QuietTurns ==
  ASSUME ChatInv, NEW t \in Turns,
         \/ NoPrompt(t) \/ CountPrompt(t) \/ ErrorChunk(t) \/ Exhausted(t) \/ CutShort(t)
         \/ CountReply(t) \/ SkipReply(t) \/ Measure(t)
  PROVE  QuietTurn(t)
<1>0. TypeOK /\ turn[t] \in Turn
  BY DEF ChatInv, TypeOK
<1>1. UNCHANGED <<sessions, message, deletion, spoiled, overlap>>
  BY DEF NoPrompt, CountPrompt, ErrorChunk, Exhausted, CutShort, CountReply, SkipReply, Measure
<1>2. ASSUME turn[t].pc \in {"entered", "streaming", "closing", "measuring"},
             NEW pc \in {"streaming", "closing", "measuring", "done"},
             NEW finished \in BOOLEAN, NEW error \in BOOLEAN,
             turn' = [turn EXCEPT ![t].pc = pc, ![t].finished = finished, ![t].error = error],
             turn[t].pc = "measuring" =>
               pc = "done" /\ finished = turn[t].finished /\ error = turn[t].error,
             pc \in {"streaming", "closing"} => turn[t].pc \in {"entered", "streaming"}
      PROVE  QuietTurn(t)
  <2> DEFINE w == [turn[t] EXCEPT !.pc = pc, !.finished = finished, !.error = error]
  <2>1. w \in Turn /\ w.pc = pc /\ w.session = turn[t].session /\ w.finished = finished /\ w.error = error
    BY <1>0, <1>2 DEF Turn
  <2>2. turn' = [turn EXCEPT ![t] = w]
    BY <1>0, <1>2 DEF TypeOK
  <2> HIDE DEF w
  <2>3. turn' \in [Turns -> Turn] /\ turn'[t] = w /\ \A u \in Turns : u # t => turn'[u] = turn[u]
    BY <1>0, <2>1, <2>2, TurnWrite
  <2> QED BY <1>1, <1>2, <2>1, <2>3 DEF QuietTurn, InFlight
<1>3. ASSUME turn[t].pc \in {"entered", "closing"}, NEW pc \in {"counted", "replying"},
             turn' = [turn EXCEPT ![t].pc = pc, ![t].last = LastSequence(turn[t].session)],
             pc = "counted" => turn[t].pc = "entered",
             pc = "replying" => turn[t].pc = "closing" /\ turn[t].finished /\ ~ turn[t].error
      PROVE  QuietTurn(t)
  <2> DEFINE n == LastSequence(turn[t].session)
             w == [turn[t] EXCEPT !.pc = pc, !.last = n]
  <2>1. turn[t].session \in SessionIds
    BY <1>3 DEF ChatInv, TurnInv, InFlight
  <2>2. n \in Nat
    BY <1>0, <2>1, LastSequenceIs DEF IsLast
  <2> HIDE DEF n
  <2>3. w \in Turn /\ w.pc = pc /\ w.session = turn[t].session /\ w.last = n
        /\ w.finished = turn[t].finished /\ w.error = turn[t].error
    BY <1>0, <1>3, <2>2 DEF Turn
  <2>4. turn' = [turn EXCEPT ![t] = w]
    BY <1>0, <1>3 DEF TypeOK, n
  <2> HIDE DEF w
  <2>5. turn' \in [Turns -> Turn] /\ turn'[t] = w /\ \A u \in Turns : u # t => turn'[u] = turn[u]
    BY <1>0, <2>3, <2>4, TurnWrite
  <2> QED BY <1>1, <1>3, <2>3, <2>5 DEF QuietTurn, InFlight, n
<1>4. turn[t].finished \in BOOLEAN /\ turn[t].error \in BOOLEAN
  BY <1>0 DEF Turn
<1>5. \A pc : Go(t, pc) =>
        turn' = [turn EXCEPT ![t].pc = pc, ![t].finished = turn[t].finished, ![t].error = turn[t].error]
  BY <1>0 DEF Go, TypeOK, Turn
<1>6. CASE NoPrompt(t)
  BY <1>2, <1>4, <1>5, <1>6 DEF NoPrompt
<1>7. CASE CutShort(t)
  BY <1>2, <1>4, <1>5, <1>7 DEF CutShort
<1>8. CASE SkipReply(t)
  BY <1>2, <1>4, <1>5, <1>8 DEF SkipReply
<1>9. CASE Measure(t)
  BY <1>2, <1>4, <1>5, <1>9 DEF Measure
<1>10. CASE ErrorChunk(t)
  <2>1. turn' = [turn EXCEPT ![t].pc = "streaming", ![t].finished = turn[t].finished, ![t].error = TRUE]
    BY <1>0, <1>10 DEF ErrorChunk, TypeOK, Turn
  <2> QED BY <1>2, <1>4, <1>10, <2>1 DEF ErrorChunk
<1>11. CASE Exhausted(t)
  <2>1. turn' = [turn EXCEPT ![t].pc = "closing", ![t].finished = TRUE, ![t].error = turn[t].error]
    BY <1>0, <1>11 DEF Exhausted, TypeOK, Turn
  <2> QED BY <1>2, <1>4, <1>11, <2>1 DEF Exhausted
<1>12. CASE CountPrompt(t)
  BY <1>3, <1>12 DEF CountPrompt
<1>13. CASE CountReply(t)
  BY <1>3, <1>13 DEF CountReply
<1> QED BY <1>6, <1>7, <1>8, <1>9, <1>10, <1>11, <1>12, <1>13

\* They keep the invariant.
LEMMA QuietInv ==
  ASSUME ChatInv, NEW t \in Turns, QuietTurn(t)
  PROVE  ChatInv'
<1>0. TypeOK /\ TurnInv /\ MessageInv /\ DeleteInv /\ SessionsInv
  BY DEF ChatInv
<1>1. TypeOK'
  BY <1>0 DEF QuietTurn, TypeOK
<1>2. \A u \in Turns : turn'[u].session = turn[u].session /\ (InFlight(u)' => InFlight(u))
  BY DEF QuietTurn, InFlight
<1>3. TurnInv'
  BY <1>0, <1>2 DEF QuietTurn, TurnInv
<1>4. MessageInv'
  <2> SUFFICES ASSUME NEW m \in MessageIds, message[m] # None, NEW u \in Turns, u = message[m].turn
               PROVE  /\ turn'[u].session = message[m].session
                      /\ turn'[u].pc \notin {"new", "entered", "counted"}
                      /\ message[m].role = "assistant" =>
                           turn'[u].pc \in {"measuring", "done"} /\ turn'[u].finished /\ ~ turn'[u].error
    <3>1. \A m \in MessageIds : message[m] # None => message[m].turn \in Turns
      BY <1>0 DEF TypeOK, Message
    <3> QED BY <1>0, <3>1 DEF QuietTurn, MessageInv
  <2>1. /\ turn[u].session = message[m].session
        /\ turn[u].pc \notin {"new", "entered", "counted"}
        /\ message[m].role = "assistant" =>
             turn[u].pc \in {"measuring", "done"} /\ turn[u].finished /\ ~ turn[u].error
    BY <1>0 DEF MessageInv
  <2>2. CASE u # t
    BY <2>1, <2>2 DEF QuietTurn
  <2>3. CASE u = t
    BY <2>1, <2>3 DEF QuietTurn, InFlight
  <2> QED BY <2>2, <2>3
<1>5. DeleteInv'
  <2>1. \A s : MessagesOf(s)' = MessagesOf(s)
    BY SameMessages DEF QuietTurn
  <2> QED BY <1>0, <1>2, <2>1 DEF QuietTurn, DeleteInv, DeletionInv
<1>6. SessionsInv'
  <2> SUFFICES ASSUME ~ overlap, NEW s \in sessions \ spoiled PROVE SessionInv(s)'
    BY DEF QuietTurn, SessionsInv
  <2>1. SessionInv(s) /\ s \in SessionIds
    BY <1>0 DEF SessionsInv, TypeOK
  <2>2. /\ UNCHANGED message /\ MessagesOf(s)' = MessagesOf(s)
        /\ \A n : IsLast(s, n)' <=> IsLast(s, n)
    BY SameMessages DEF QuietTurn
  <2>3. \A u, v \in Turns : InFlight(u)' /\ InFlight(v)' /\ turn'[u].session = s /\ turn'[v].session = s => u = v
    BY <1>2, <2>1 DEF SessionInv
  <2>4. \A u \in Turns : turn'[u].session = s /\ turn'[u].pc \in {"counted", "replying"} => IsLast(s, turn'[u].last)
    <3>1. IsLast(s, LastSequence(s))
      BY <1>0, <2>1, LastSequenceIs
    <3> QED BY <2>1, <3>1 DEF QuietTurn, SessionInv
  <2>5. ASSUME NEW u \in Turns, turn'[u].session = s, turn'[u].pc \in {"streaming", "closing", "replying"},
               NEW m \in MessagesOf(s), NEW k \in MessagesOf(s), message[m].turn = u
        PROVE  message[k].sequence <= message[m].sequence
    <3>1. turn[u].session = s
      BY <1>2, <2>5
    <3>2. turn[u].pc \in {"entered", "streaming", "closing", "replying"}
      BY <2>5 DEF QuietTurn
    <3>3. turn[u].pc # "entered"
      BY <1>0, <2>5 DEF MessageInv, MessagesOf
    <3> QED BY <2>1, <2>5, <3>1, <3>2, <3>3 DEF SessionInv
  <2> QED BY <2>1, <2>2, <2>3, <2>4, <2>5 DEF SessionInv
<1> QED BY <1>1, <1>3, <1>4, <1>5, <1>6 DEF ChatInv

-----------------------------------------------------------------------------
(***************************************************************************)
(* Steps of a turn that store a message.                                   *)
(***************************************************************************)

\* What the two have in common: a prompt is stored after its count, and so is a reply.
Stores(t, role, i) ==
  /\ Stored(t, role, i)
  /\ UNCHANGED <<sessions, deletion, spoiled, overlap>>
  /\ turn' \in [Turns -> Turn] /\ \A u \in Turns : u # t => turn'[u] = turn[u]
  /\ turn'[t].session = turn[t].session
  /\ turn'[t].finished = turn[t].finished /\ turn'[t].error = turn[t].error
  /\ \/ role = "user" /\ turn[t].pc = "counted" /\ turn'[t].pc = "streaming"
     \/ role = "assistant" /\ turn[t].pc = "replying" /\ turn'[t].pc = "measuring"

\* StorePrompt and StoreReply are such steps.
LEMMA TurnStores ==
  ASSUME ChatInv, NEW t \in Turns, StorePrompt(t) \/ StoreReply(t)
  PROVE  \E role \in {"user", "assistant"}, i \in MessageIds : Stores(t, role, i)
<1>0. TypeOK /\ TurnInv /\ turn[t] \in Turn
  BY DEF ChatInv, TypeOK
<1>1. PICK role \in {"user", "assistant"}, pc \in {"streaming", "measuring"} :
        /\ Store(t, role) /\ Go(t, pc) /\ UNCHANGED <<sessions, deletion, spoiled, overlap>>
        /\ \/ role = "user" /\ turn[t].pc = "counted" /\ pc = "streaming"
           \/ role = "assistant" /\ turn[t].pc = "replying" /\ pc = "measuring"
  BY DEF StorePrompt, StoreReply
<1>2. PICK i \in MessageIds : Stored(t, role, i)
  BY <1>0, <1>1, StoreWrites DEF InFlight
<1>3. /\ turn' \in [Turns -> Turn] /\ \A u \in Turns : u # t => turn'[u] = turn[u]
      /\ turn'[t].session = turn[t].session /\ turn'[t].pc = pc
      /\ turn'[t].finished = turn[t].finished /\ turn'[t].error = turn[t].error
  BY <1>0, <1>1 DEF Go, TypeOK, Turn
<1> QED BY <1>1, <1>2, <1>3 DEF Stores

\* A new message joins its own session.
LEMMA JoinsSession ==
  ASSUME TypeOK, NEW t \in Turns, NEW role, NEW i \in MessageIds, Stored(t, role, i), NEW s
  PROVE  /\ MessagesOf(s)' = IF s = turn[t].session THEN MessagesOf(s) \union {i} ELSE MessagesOf(s)
         /\ i \notin MessagesOf(s)
         /\ \A m \in MessagesOf(s) : message'[m] = message[m] /\ m < i
  BY DEF Stored, MessagesOf

\* They keep the types, and what is known of turns, messages and DELETEs.
LEMMA StoreKeeps ==
  ASSUME ChatInv, NEW t \in Turns, NEW role \in {"user", "assistant"}, NEW i \in MessageIds,
         Stores(t, role, i)
  PROVE  TypeOK' /\ TurnInv' /\ MessageInv' /\ DeleteInv'
<1>0. TypeOK /\ TurnInv /\ MessageInv /\ DeleteInv
  BY DEF ChatInv
<1>1. TypeOK'
  BY <1>0 DEF Stores, Stored, TypeOK
<1>2. \A u \in Turns : turn'[u].session = turn[u].session /\ (InFlight(u)' => InFlight(u))
  BY DEF Stores, InFlight
<1>3. TurnInv'
  BY <1>0, <1>2 DEF Stores, TurnInv
<1>4. MessageInv'
  <2>1. \A m \in MessageIds : message[m] # None /\ message[m].turn = t =>
          role = "assistant" /\ message[m].role # "assistant"
    BY <1>0 DEF Stores, MessageInv
  <2>2. ASSUME NEW m \in MessageIds, m # i, message'[m] # None
        PROVE  LET u == message'[m].turn IN
               /\ turn'[u].session = message'[m].session
               /\ turn'[u].pc \notin {"new", "entered", "counted"}
               /\ message'[m].role = "assistant" =>
                    /\ turn'[u].pc \in {"measuring", "done"} /\ turn'[u].finished /\ ~ turn'[u].error
                    /\ \A n \in MessageIds :
                         message'[n] # None /\ message'[n].role = "assistant" /\ message'[n].turn = u => n = m
    <3> DEFINE u == message[m].turn
    <3>1. message'[m] = message[m] /\ message[m] # None /\ u \in Turns
      BY <1>0, <2>2 DEF Stores, Stored, TypeOK, Message
    <3>2. /\ turn[u].session = message[m].session
          /\ turn[u].pc \notin {"new", "entered", "counted"}
          /\ message[m].role = "assistant" =>
               /\ turn[u].pc \in {"measuring", "done"} /\ turn[u].finished /\ ~ turn[u].error
               /\ \A n \in MessageIds :
                    message[n] # None /\ message[n].role = "assistant" /\ message[n].turn = u => n = m
      BY <1>0, <3>1 DEF MessageInv
    <3>3. message[m].role = "assistant" => u # t
      BY <2>1, <3>1
    <3>4. message[m].role = "assistant" =>
            \A n \in MessageIds :
              message'[n] # None /\ message'[n].role = "assistant" /\ message'[n].turn = u => n = m
      BY <3>1, <3>2, <3>3 DEF Stores, Stored
    <3>5. CASE u # t
      BY <3>1, <3>2, <3>4, <3>5 DEF Stores
    <3>6. CASE u = t
      BY <1>2, <2>1, <3>1, <3>2, <3>3, <3>6 DEF Stores
    <3> QED BY <3>5, <3>6
  <2>3. /\ turn'[t].session = message'[i].session
        /\ turn'[t].pc \notin {"new", "entered", "counted"}
        /\ message'[i].role = "assistant" =>
             /\ turn'[t].pc \in {"measuring", "done"} /\ turn'[t].finished /\ ~ turn'[t].error
             /\ \A n \in MessageIds :
                  message'[n] # None /\ message'[n].role = "assistant" /\ message'[n].turn = t => n = i
    <3>1. message'[i].session = turn[t].session /\ message'[i].role = role
      BY DEF Stores, Stored
    <3>2. role = "assistant" => turn[t].finished /\ ~ turn[t].error
      BY <1>0 DEF Stores, TurnInv
    <3>3. \A n \in MessageIds : n # i /\ message'[n] # None /\ message'[n].turn = t =>
            message'[n].role # "assistant"
      BY <2>1 DEF Stores, Stored
    <3> QED BY <3>1, <3>2, <3>3 DEF Stores
  <2>4. message'[i].turn = t
    BY DEF Stores, Stored
  <2> QED BY <2>2, <2>3, <2>4 DEF MessageInv
<1>5. DeleteInv'
  <2>1. \A s : MessagesOf(s) \subseteq MessagesOf(s)'
                /\ (s # turn[t].session => MessagesOf(s)' = MessagesOf(s))
    BY <1>0, JoinsSession DEF Stores
  <2>2. InFlight(t)
    BY DEF Stores, InFlight
  <2>3. ASSUME NEW d \in Deletes
        PROVE  /\ deletion[d].pc # "idle" /\ deletion[d].alone =>
                    \A u \in Turns : InFlight(u)' => turn'[u].session # deletion[d].session
               /\ deletion[d].pc = "listed" /\ ~ overlap =>
                    /\ deletion[d].seen \subseteq MessagesOf(deletion[d].session)'
                    /\ deletion[d].alone => deletion[d].seen = MessagesOf(deletion[d].session)'
    <3> DEFINE s == deletion[d].session
    <3>1. deletion[d].pc # "idle" /\ deletion[d].alone =>
            \A u \in Turns : InFlight(u) => turn[u].session # s
      BY <1>0 DEF DeleteInv, DeletionInv
    <3>2. deletion[d].pc = "listed" /\ ~ overlap =>
            /\ deletion[d].seen \subseteq MessagesOf(s)
            /\ deletion[d].alone => deletion[d].seen = MessagesOf(s)
      BY <1>0 DEF DeleteInv, DeletionInv
    <3>3. deletion[d].pc = "listed" /\ deletion[d].alone => MessagesOf(s)' = MessagesOf(s)
      BY <2>1, <2>2, <3>1 DEF Stores
    <3>4. UNCHANGED deletion
      BY DEF Stores
    <3> QED BY <1>2, <2>1, <3>1, <3>2, <3>3, <3>4
  <2> QED BY <1>0, <2>3 DEF Stores, DeleteInv, DeletionInv
<1> QED BY <1>1, <1>3, <1>4, <1>5

\* Behind the last message of an unspoiled session the new one is in its place.
LEMMA StoreInOrder ==
  ASSUME ChatInv, NEW t \in Turns, NEW role \in {"user", "assistant"}, NEW i \in MessageIds,
         Stores(t, role, i), NEW s \in sessions \ spoiled, ~ overlap
  PROVE  SessionInv(s)'
<1>0. TypeOK /\ TurnInv /\ MessageInv /\ DeleteInv /\ SessionInv(s)
  BY DEF ChatInv, SessionsInv
<1>1. \A u \in Turns : turn'[u].session = turn[u].session /\ (InFlight(u)' => InFlight(u)) /\ InFlight(t)
  BY DEF Stores, InFlight
<1>2. \A u, v \in Turns : InFlight(u)' /\ InFlight(v)' /\ turn'[u].session = s /\ turn'[v].session = s => u = v
  BY <1>0, <1>1 DEF SessionInv
<1>3. /\ MessagesOf(s)' = IF s = turn[t].session THEN MessagesOf(s) \union {i} ELSE MessagesOf(s)
      /\ i \notin MessagesOf(s)
      /\ \A m \in MessagesOf(s) : message'[m] = message[m] /\ m < i
  BY <1>0, JoinsSession DEF Stores
<1>4. CASE s # turn[t].session
  <2>1. MessagesOf(s)' = MessagesOf(s) /\ \A n : IsLast(s, n)' <=> IsLast(s, n)
    BY <1>3, <1>4 DEF IsLast
  <2>2. \A u \in Turns : turn'[u].session = s => turn'[u] = turn[u]
    BY <1>1, <1>4 DEF Stores
  <2> QED BY <1>0, <1>2, <1>3, <2>1, <2>2 DEF SessionInv
<1>5. CASE s = turn[t].session
  <2>1. MessagesOf(s)' = MessagesOf(s) \union {i}
    BY <1>3, <1>5
  <2>2. /\ message'[i].role = role /\ message'[i].sequence = turn[t].last + 1 /\ message'[i].turn = t
        /\ turn[t].last \in Nat
    BY <1>0 DEF Stores, Stored, TypeOK, Turn
  <2>3. IsLast(s, turn[t].last)
    BY <1>0, <1>5 DEF Stores, SessionInv
  <2>4. \A m \in MessagesOf(s) : message[m].sequence \in Nat \ {0} /\ message[m].sequence <= turn[t].last
                                 /\ m \in MessageIds /\ message[m] # None
    BY <1>0, <2>3 DEF MessagesOf, TypeOK, Message, IsLast
  <2>5. \A u \in Turns : turn'[u].session = s /\ turn'[u].pc \notin {"new", "done"} => u = t
    BY <1>0, <1>1, <1>5 DEF SessionInv, InFlight
  <2>6. \A m \in MessagesOf(s) : message[m].turn = t =>
          role = "assistant" /\ message[m].role # "assistant"
    BY <1>0, <2>4 DEF Stores, MessageInv
  <2>7. \A u \in Turns : turn'[u].session = s => turn'[u].pc \notin {"counted", "replying"}
    BY <2>5 DEF Stores
  <2>8. ASSUME NEW u \in Turns, turn'[u].session = s, turn'[u].pc \in {"streaming", "closing", "replying"},
               NEW m \in MessagesOf(s)', NEW k \in MessagesOf(s)', message'[m].turn = u
        PROVE  message'[k].sequence <= message'[m].sequence
    <3>1. u = t /\ role = "user"
      BY <2>5, <2>8 DEF Stores
    <3>2. m = i
      BY <1>3, <2>1, <2>6, <2>8, <3>1
    <3> QED BY <1>3, <2>1, <2>2, <2>4, <3>2
  <2>9. \A m, n \in MessagesOf(s)' : m < n => message'[m].sequence < message'[n].sequence
    <3>1. \A m, n \in MessagesOf(s) : m < n => message[m].sequence < message[n].sequence
      BY <1>0 DEF SessionInv
    <3>2. i \in Nat /\ \A m \in MessagesOf(s) : m \in Nat
      BY <2>4 DEF MessageIds
    <3> QED BY <1>3, <2>1, <2>2, <2>4, <3>1, <3>2
  <2>10. ASSUME NEW m \in MessagesOf(s)', message'[m].sequence > 1
         PROVE  \E n \in MessagesOf(s)' : message'[n].sequence = message'[m].sequence - 1
    <3>1. CASE m = i
      <4>1. PICK n \in MessagesOf(s) : message[n].sequence = turn[t].last
        BY <2>2, <2>3, <2>10, <3>1 DEF IsLast
      <4> QED BY <1>3, <2>1, <2>2, <3>1, <4>1
    <3>2. CASE m # i
      <4>1. m \in MessagesOf(s) /\ message'[m] = message[m]
        BY <1>3, <2>1, <3>2
      <4>2. PICK n \in MessagesOf(s) : message[n].sequence = message[m].sequence - 1
        BY <1>0, <2>10, <4>1 DEF SessionInv
      <4> QED BY <1>3, <2>1, <4>1, <4>2
    <3> QED BY <3>1, <3>2
  <2>11. ASSUME NEW m \in MessagesOf(s)', NEW n \in MessagesOf(s)',
                message'[m].role = "user", message'[n].role = "assistant", message'[n].turn = message'[m].turn
         PROVE  message'[n].sequence = message'[m].sequence + 1
    <3>1. CASE m # i /\ n # i
      <4>1. m \in MessagesOf(s) /\ n \in MessagesOf(s) /\ message'[m] = message[m] /\ message'[n] = message[n]
        BY <1>3, <2>1, <3>1
      <4> QED BY <1>0, <2>11, <4>1 DEF SessionInv
    <3>2. CASE m = i
      <4>1. n # i /\ n \in MessagesOf(s) /\ message'[n] = message[n]
        BY <1>3, <2>1, <2>11, <3>2
      <4> QED BY <2>2, <2>6, <2>11, <3>2, <4>1
    <3>3. CASE n = i
      <4>1. m \in MessagesOf(s) /\ message'[m] = message[m] /\ message[m].turn = t /\ role = "assistant"
        BY <1>3, <2>1, <2>2, <2>11, <3>3
      <4>2. \A k \in MessagesOf(s) : message[k].sequence <= message[m].sequence
        BY <1>0, <1>5, <4>1 DEF Stores, SessionInv
      <4>3. PICK k \in MessagesOf(s) : message[k].sequence = turn[t].last
        BY <2>3, <2>4, <4>1 DEF IsLast
      <4>4. message[m].sequence = turn[t].last
        BY <2>2, <2>4, <4>1, <4>2, <4>3
      <4> QED BY <2>2, <3>3, <4>1, <4>4
    <3> QED BY <3>1, <3>2, <3>3
  <2> QED BY <1>2, <2>7, <2>8, <2>9, <2>10, <2>11 DEF SessionInv
<1> QED BY <1>4, <1>5

\* Storing a message keeps the invariant.
LEMMA StoreInv ==
  ASSUME ChatInv, NEW t \in Turns, StorePrompt(t) \/ StoreReply(t)
  PROVE  ChatInv'
<1>1. PICK role \in {"user", "assistant"}, i \in MessageIds : Stores(t, role, i)
  BY TurnStores
<1>2. SessionsInv'
  BY <1>1, StoreInOrder DEF Stores, SessionsInv
<1> QED BY <1>1, <1>2, StoreKeeps DEF ChatInv

-----------------------------------------------------------------------------
(***************************************************************************)
(* Sessions, DELETEs and restarts.                                         *)
(***************************************************************************)

\* A session keeps its order as long as its messages stay and no turn joins it.
LEMMA SessionKept ==
  ASSUME NEW s, SessionInv(s), MessagesOf(s)' = MessagesOf(s),
         \A m \in MessagesOf(s) : message'[m] = message[m],
         \A u \in Turns : turn'[u] = turn[u] \/ turn'[u].session # s \/ turn'[u].pc \in {"new", "done"}
  PROVE  SessionInv(s)'
<1>1. \A n : IsLast(s, n)' <=> IsLast(s, n)
  BY DEF IsLast
<1>2. \A u \in Turns : turn'[u].session = s /\ turn'[u].pc \notin {"new", "done"} => turn'[u] = turn[u]
  OBVIOUS
<1>3. \A u \in Turns : turn'[u].session = s /\ InFlight(u)' => turn'[u] = turn[u] /\ InFlight(u)
  BY <1>2 DEF InFlight
<1>4. \A u, v \in Turns : InFlight(u)' /\ InFlight(v)' /\ turn'[u].session = s /\ turn'[v].session = s => u = v
  BY <1>3 DEF SessionInv
<1>5. \A u \in Turns : turn'[u].session = s /\ turn'[u].pc \in {"counted", "replying"} => IsLast(s, turn'[u].last)
  BY <1>2 DEF SessionInv
<1>6. \A u \in Turns : turn'[u].session = s /\ turn'[u].pc \in {"streaming", "closing", "replying"} =>
        \A m, k \in MessagesOf(s) : message[m].turn = u => message[k].sequence <= message[m].sequence
  BY <1>2 DEF SessionInv
<1> QED BY <1>1, <1>4, <1>5, <1>6 DEF SessionInv

\* A DELETE keeps what it knows as long as no turn joins its session and no message moves.
LEMMA DeletesKept ==
  ASSUME DeleteInv, overlap' = overlap, sessions \subseteq sessions',
         \A d \in Deletes : /\ deletion'[d].pc = deletion[d].pc /\ deletion'[d].session = deletion[d].session
                            /\ deletion'[d].seen = deletion[d].seen
                            /\ deletion'[d].alone => deletion[d].alone,
         \A x : MessagesOf(x)' = MessagesOf(x),
         \A d \in Deletes : deletion'[d].pc # "idle" /\ deletion'[d].alone =>
           \A u \in Turns : InFlight(u)' => turn'[u].session # deletion'[d].session
  PROVE  DeleteInv'
<1> SUFFICES ASSUME NEW d \in Deletes PROVE DeletionInv(d)'
  BY DEF DeleteInv
<1>1. DeletionInv(d)
  BY DEF DeleteInv
<1>2. MessagesOf(deletion[d].session)' = MessagesOf(deletion[d].session)
  <2>1. deletion'[d].session = deletion[d].session
    OBVIOUS
  <2>2. \A x : {m \in MessageIds : message'[m] # None /\ message'[m].session = x} = MessagesOf(x)
    BY DEF MessagesOf
  <2> QED BY <2>1, <2>2 DEF MessagesOf
<1>3. ~ overlap' => ~ overlap
  OBVIOUS
<1> QED BY <1>1, <1>2, <1>3 DEF DeletionInv

\* POST /chat/sessions: the new session is empty, or spoiled.
LEMMA CreateSessionInv ==
  ASSUME ChatInv, NEW s \in SessionIds, CreateSession(s)
  PROVE  ChatInv'
<1>0. TypeOK /\ TurnInv /\ MessageInv /\ DeleteInv /\ SessionsInv
  BY DEF ChatInv
<1>1. /\ sessions' = sessions \union {s} /\ UNCHANGED <<message, turn, deletion, overlap>>
      /\ spoiled' = IF MessagesOf(s) # {} \/ \E t \in Turns : InFlight(t) /\ turn[t].session = s
                    THEN spoiled \union {s} ELSE spoiled \ {s}
  BY DEF CreateSession
<1>2. TypeOK'
  BY <1>0, <1>1 DEF TypeOK
<1>3. TurnInv' /\ MessageInv'
  BY <1>0, <1>1 DEF TurnInv, MessageInv, InFlight
<1>4. \A x : MessagesOf(x)' = MessagesOf(x)
  BY <1>1, SameMessages
<1>5. DeleteInv'
  <2>1. \A t \in Turns : InFlight(t)' <=> InFlight(t)
    BY <1>1 DEF InFlight
  <2>2. \A d \in Deletes : deletion'[d].pc # "idle" /\ deletion'[d].alone =>
          \A u \in Turns : InFlight(u)' => turn'[u].session # deletion'[d].session
    BY <1>0, <1>1, <2>1 DEF DeleteInv, DeletionInv
  <2> QED BY <1>0, <1>1, <1>4, <2>2, DeletesKept
<1>6. SessionsInv'
  <2> SUFFICES ASSUME ~ overlap, NEW x \in sessions' \ spoiled' PROVE SessionInv(x)'
    BY <1>1 DEF SessionsInv
  <2>1. SessionInv(x)
    <3>1. CASE x = s
      <4>1. MessagesOf(s) = {} /\ \A t \in Turns : InFlight(t) => turn[t].session # s
        BY <1>1, <3>1
      <4> QED BY <3>1, <4>1 DEF SessionInv, InFlight
    <3>2. CASE x # s
      BY <1>0, <1>1, <3>2 DEF SessionsInv
    <3> QED BY <3>1, <3>2
  <2> QED BY <1>1, <1>4, <2>1, SessionKept
<1> QED BY <1>2, <1>3, <1>5, <1>6 DEF ChatInv

\* The check of a turn: the session exists, and is spoiled if another turn is in it.
LEMMA EnterInv ==
  ASSUME ChatInv, NEW t \in Turns, NEW s \in SessionIds, Enter(t, s)
  PROVE  ChatInv'
<1>0. TypeOK /\ TurnInv /\ MessageInv /\ DeleteInv /\ SessionsInv
  BY DEF ChatInv
<1>1. /\ turn[t].pc = "new" /\ UNCHANGED <<sessions, message, overlap>>
      /\ turn' = [turn EXCEPT ![t].pc = "entered", ![t].session = s]
      /\ spoiled' = IF \E u \in Turns : InFlight(u) /\ turn[u].session = s
                    THEN spoiled \union {s} ELSE spoiled
      /\ deletion' = [d \in Deletes |-> [deletion[d] EXCEPT !.alone = @ /\ deletion[d].session # s]]
  BY DEF Enter
<1>2. /\ turn' \in [Turns -> Turn] /\ turn'[t].pc = "entered" /\ turn'[t].session = s
      /\ \A u \in Turns : u # t => turn'[u] = turn[u]
  BY <1>0, <1>1 DEF TypeOK, Turn
<1>3. ASSUME NEW d \in Deletes
      PROVE  /\ deletion'[d] \in Deletion
             /\ deletion'[d].pc = deletion[d].pc /\ deletion'[d].session = deletion[d].session
             /\ deletion'[d].seen = deletion[d].seen
             /\ deletion'[d].alone => deletion[d].alone /\ deletion[d].session # s
  <2>1. deletion[d] \in Deletion /\ deletion'[d] = [deletion[d] EXCEPT !.alone = @ /\ deletion[d].session # s]
    BY <1>0, <1>1 DEF TypeOK
  <2> QED BY <2>1 DEF Deletion
<1>4. TypeOK'
  BY <1>0, <1>1, <1>2, <1>3 DEF TypeOK
<1>5. TurnInv'
  BY <1>0, <1>2 DEF TurnInv, InFlight
<1>6. MessageInv'
  <2>1. \A m \in MessageIds : message[m] # None => message[m].turn \in Turns /\ message[m].turn # t
    BY <1>0, <1>1 DEF MessageInv, TypeOK, Message
  <2> QED BY <1>0, <1>1, <1>2, <2>1 DEF MessageInv
<1>7. \A x : MessagesOf(x)' = MessagesOf(x)
  BY <1>1, SameMessages
<1>8. DeleteInv'
  <2>1. \A d \in Deletes : deletion'[d].pc # "idle" /\ deletion'[d].alone =>
          \A u \in Turns : InFlight(u)' => turn'[u].session # deletion'[d].session
    <3>1. \A d \in Deletes : deletion[d].pc # "idle" /\ deletion[d].alone =>
            \A u \in Turns : InFlight(u) => turn[u].session # deletion[d].session
      BY <1>0 DEF DeleteInv, DeletionInv
    <3>2. \A u \in Turns : u # t /\ InFlight(u)' => InFlight(u)
      BY <1>2 DEF InFlight
    <3> QED BY <1>2, <1>3, <3>1, <3>2
  <2> QED BY <1>0, <1>1, <1>3, <1>7, <2>1, DeletesKept
<1>9. SessionsInv'
  <2> SUFFICES ASSUME ~ overlap, NEW x \in sessions \ spoiled' PROVE SessionInv(x)'
    BY <1>1 DEF SessionsInv
  <2>1. SessionInv(x)
    BY <1>0, <1>1 DEF SessionsInv
  <2>2. CASE x # s
    BY <1>1, <1>2, <1>7, <2>1, <2>2, SessionKept
  <2>3. CASE x = s
    <3>1. \A u \in Turns : InFlight(u) => turn[u].session # s
      BY <1>1, <2>3
    <3>2. \A u \in Turns : turn'[u].session = s => u = t \/ turn'[u].pc \in {"new", "done"}
      BY <1>2, <3>1 DEF InFlight
    <3>3. \A u, v \in Turns : InFlight(u)' /\ InFlight(v)' /\ turn'[u].session = s /\ turn'[v].session = s => u = v
      BY <3>2 DEF InFlight
    <3>4. \A u \in Turns : turn'[u].session = s =>
            turn'[u].pc \notin {"counted", "streaming", "closing", "replying"}
      BY <1>2, <3>2
    <3>5. SessionInv(s) /\ UNCHANGED message /\ MessagesOf(s)' = MessagesOf(s)
      BY <1>1, <1>7, <2>1, <2>3
    <3>6. SessionInv(s)'
      BY <3>3, <3>4, <3>5 DEF SessionInv
    <3> QED BY <2>3, <3>6
  <2> QED BY <2>2, <2>3
<1> QED BY <1>4, <1>5, <1>6, <1>8, <1>9 DEF ChatInv

\* What a DELETE is started with, and what it lists.
LEMMA DeletionWrite ==
  ASSUME TypeOK, NEW d \in Deletes, NEW w \in Deletion, deletion' = [deletion EXCEPT ![d] = w]
  PROVE  deletion' \in [Deletes -> Deletion] /\ deletion'[d] = w
         /\ \A e \in Deletes : e # d => deletion'[e] = deletion[e]
  BY DEF TypeOK

\* Only the DELETEs move: the rest of the invariant stays.
LEMMA QuietDelete ==
  ASSUME ChatInv, UNCHANGED <<sessions, message, turn, spoiled>>, overlap => overlap',
         overlap' \in BOOLEAN, deletion' \in [Deletes -> Deletion], DeleteInv'
  PROVE  ChatInv'
<1>0. TypeOK /\ TurnInv /\ MessageInv /\ DeleteInv /\ SessionsInv
  BY DEF ChatInv
<1>1. TypeOK' /\ TurnInv' /\ MessageInv'
  BY <1>0 DEF TypeOK, TurnInv, MessageInv, InFlight
<1>2. SessionsInv'
  <2> SUFFICES ASSUME ~ overlap', NEW x \in sessions \ spoiled PROVE SessionInv(x)'
    BY DEF SessionsInv
  <2>1. SessionInv(x)
    BY <1>0 DEF SessionsInv
  <2> QED BY <2>1, SameMessages, SessionKept
<1> QED BY <1>1, <1>2 DEF ChatInv

\* The check of a DELETE.
LEMMA FindSessionInv ==
  ASSUME ChatInv, NEW d \in Deletes, NEW s \in SessionIds, FindSession(d, s)
  PROVE  ChatInv'
<1> DEFINE isAlone == \A t \in Turns : ~ (InFlight(t) /\ turn[t].session = s)
           w == [pc |-> "found", session |-> s, seen |-> {}, alone |-> isAlone]
           others == {e \in Deletes : deletion[e].session = s}
<1>0. TypeOK /\ TurnInv /\ MessageInv /\ DeleteInv /\ SessionsInv
  BY DEF ChatInv
<1>1. /\ deletion[d].pc = "idle" /\ s \in sessions /\ UNCHANGED <<sessions, message, turn, spoiled>>
      /\ deletion' = [deletion EXCEPT ![d] = w] /\ overlap' = (overlap \/ others # {})
  BY DEF FindSession
<1>2. isAlone \in BOOLEAN
  OBVIOUS
<1>3. w.pc = "found" /\ w.session = s /\ w.seen = {} /\ w.alone = isAlone
  OBVIOUS
<1>4. w \in Deletion
  <2> HIDE DEF isAlone
  <2> QED BY <1>2 DEF Deletion
<1>5. isAlone => \A t \in Turns : InFlight(t) => turn[t].session # s
  OBVIOUS
<1> HIDE DEF isAlone, w
<1>6. deletion' \in [Deletes -> Deletion] /\ deletion'[d] = w
      /\ \A e \in Deletes : e # d => deletion'[e] = deletion[e]
  BY <1>0, <1>1, <1>4, DeletionWrite
<1>7. /\ \A x : MessagesOf(x)' = MessagesOf(x) /\ \A t \in Turns : InFlight(t)' <=> InFlight(t)
      /\ overlap' \in BOOLEAN /\ (overlap => overlap')
      /\ ~ overlap' => \A e \in Deletes : deletion[e].session # s
  BY <1>0, <1>1, SameMessages DEF InFlight, TypeOK
<1>8. s # 0
  BY DEF SessionIds
<1>9. DeletionInv(d)'
  BY <1>0, <1>1, <1>3, <1>5, <1>6, <1>7, <1>8 DEF DeletionInv
<1>10. ASSUME NEW e \in Deletes, e # d PROVE DeletionInv(e)'
  <2>1. DeletionInv(e) /\ deletion'[e] = deletion[e]
    BY <1>0, <1>6, <1>10 DEF DeleteInv
  <2>2. ~ overlap' => deletion'[d].session # deletion[e].session
    BY <1>3, <1>6, <1>7
  <2>3. MessagesOf(deletion[e].session)' = MessagesOf(deletion[e].session)
    BY <1>7, <2>1
  <2> QED BY <1>1, <1>6, <1>7, <2>1, <2>2, <2>3 DEF DeletionInv
<1> QED BY <1>0, <1>1, <1>6, <1>7, <1>9, <1>10, QuietDelete DEF DeleteInv

\* The listing of a DELETE.
LEMMA ListMessagesInv ==
  ASSUME ChatInv, NEW d \in Deletes, ListMessages(d)
  PROVE  ChatInv'
<1> DEFINE w == [deletion[d] EXCEPT !.pc = "listed", !.seen = MessagesOf(deletion[d].session)]
<1>0. TypeOK /\ TurnInv /\ MessageInv /\ DeleteInv /\ SessionsInv /\ DeletionInv(d)
  BY DEF ChatInv, DeleteInv
<1>1. deletion[d].pc = "found" /\ UNCHANGED <<sessions, message, turn, spoiled, overlap>>
      /\ deletion' = [deletion EXCEPT ![d] = w]
  BY <1>0 DEF ListMessages, TypeOK
<1>2. deletion[d] \in Deletion /\ MessagesOf(deletion[d].session) \subseteq MessageIds
  BY <1>0 DEF TypeOK, MessagesOf
<1>3. w \in Deletion /\ w.pc = "listed" /\ w.session = deletion[d].session /\ w.alone = deletion[d].alone
      /\ w.seen = MessagesOf(deletion[d].session)
  BY <1>2 DEF Deletion
<1> HIDE DEF w
<1>4. deletion' \in [Deletes -> Deletion] /\ deletion'[d] = w
      /\ \A e \in Deletes : e # d => deletion'[e] = deletion[e]
  BY <1>0, <1>1, <1>3, DeletionWrite
<1>5. \A t \in Turns : InFlight(t)' <=> InFlight(t)
  BY <1>1 DEF InFlight
<1>6. \A e \in Deletes : deletion'[e].session = deletion[e].session
  BY <1>3, <1>4
<1>7. \A e \in Deletes : MessagesOf(deletion[e].session)' = MessagesOf(deletion[e].session)
  BY <1>1, <1>6 DEF MessagesOf
<1>8. DeletionInv(d)'
  BY <1>0, <1>1, <1>3, <1>4, <1>5, <1>6, <1>7 DEF DeletionInv
<1>9. ASSUME NEW e \in Deletes, e # d PROVE DeletionInv(e)'
  <2>1. DeletionInv(e) /\ deletion'[e] = deletion[e]
    BY <1>0, <1>4, <1>9 DEF DeleteInv
  <2> QED BY <1>1, <1>5, <1>6, <1>7, <2>1 DEF DeletionInv
<1> QED BY <1>0, <1>1, <1>4, <1>8, <1>9, QuietDelete DEF DeleteInv, TypeOK

\* The COMMIT of a DELETE: unless two DELETEs of the session have overlapped, what it had
\* listed is of its own session.
LEMMA DropSessionInv ==
  ASSUME ChatInv, NEW d \in Deletes, DropSession(d)
  PROVE  ChatInv'
<1> DEFINE s == deletion[d].session
<1>0. TypeOK /\ TurnInv /\ MessageInv /\ DeleteInv /\ SessionsInv /\ DeletionInv(d)
  BY DEF ChatInv, DeleteInv
<1>1. /\ deletion[d].pc = "listed" /\ UNCHANGED <<turn, spoiled, overlap>>
      /\ sessions' = sessions \ {s} /\ deletion' = [deletion EXCEPT ![d] = NoDeletion]
      /\ message' = [m \in MessageIds |-> IF m \in deletion[d].seen THEN None ELSE message[m]]
  BY DEF DropSession
<1>2. NoDeletion \in Deletion /\ NoDeletion.pc = "idle" /\ NoDeletion.session = 0
  BY DEF NoDeletion, Deletion
<1>3. deletion' \in [Deletes -> Deletion] /\ deletion'[d] = NoDeletion
      /\ \A e \in Deletes : e # d => deletion'[e] = deletion[e]
  BY <1>0, <1>1, <1>2, DeletionWrite
<1>4. /\ message' \in [MessageIds -> Message \union {None}]
      /\ \A m \in MessageIds : message'[m] = IF m \in deletion[d].seen THEN None ELSE message[m]
  BY <1>0, <1>1 DEF TypeOK
<1>5. TypeOK'
  BY <1>0, <1>1, <1>3, <1>4 DEF TypeOK
<1>6. TurnInv'
  BY <1>0, <1>1 DEF TurnInv, InFlight
<1>7. MessageInv'
  <2>1. \A m \in MessageIds : message'[m] # None => message'[m] = message[m]
    BY <1>4
  <2> QED BY <1>0, <1>1, <2>1 DEF MessageInv
<1>8. ~ overlap => deletion[d].seen \subseteq MessagesOf(s)
  BY <1>0, <1>1 DEF DeletionInv
<1>9. ASSUME ~ overlap, NEW x, x # s
      PROVE  /\ \A m \in MessagesOf(x) : message'[m] = message[m]
             /\ {m \in MessageIds : message'[m] # None /\ message'[m].session = x} = MessagesOf(x)
  <2>1. \A m \in MessageIds : message[m] # None /\ message[m].session = x => m \notin deletion[d].seen
    BY <1>8, <1>9 DEF MessagesOf
  <2> QED BY <1>4, <2>1 DEF MessagesOf
<1>10. DeleteInv'
  <2> SUFFICES ASSUME NEW e \in Deletes PROVE DeletionInv(e)'
    BY DEF DeleteInv
  <2>1. CASE e = d
    BY <1>2, <1>3, <2>1 DEF DeletionInv
  <2>2. CASE e # d
    <3>1. DeletionInv(e) /\ deletion'[e] = deletion[e]
      BY <1>0, <1>3, <2>2 DEF DeleteInv
    <3>2. \A t \in Turns : InFlight(t)' <=> InFlight(t)
      BY <1>1 DEF InFlight
    <3>3. deletion[e].pc # "idle" /\ ~ overlap => deletion[e].session # s
      BY <2>2, <3>1 DEF DeletionInv
    <3>4. deletion[e].pc # "idle" /\ ~ overlap =>
            MessagesOf(deletion[e].session)' = MessagesOf(deletion[e].session)
      BY <1>9, <3>1, <3>3 DEF MessagesOf
    <3>5. \A f \in Deletes : deletion'[f].session \in {deletion[f].session, 0}
      BY <1>2, <1>3
    <3>6. deletion[e].pc # "idle" => deletion[e].session # 0
      BY <3>1 DEF DeletionInv
    <3>7. deletion[e].pc # "idle" /\ ~ overlap =>
            \A f \in Deletes : f # e => deletion'[f].session # deletion[e].session
      BY <3>1, <3>5, <3>6 DEF DeletionInv
    <3> QED BY <1>1, <3>1, <3>2, <3>3, <3>4, <3>7 DEF DeletionInv
  <2> QED BY <2>1, <2>2
<1>11. SessionsInv'
  <2> SUFFICES ASSUME ~ overlap, NEW x \in sessions' \ spoiled PROVE SessionInv(x)'
    BY <1>1 DEF SessionsInv
  <2>1. x # s /\ SessionInv(x)
    BY <1>0, <1>1 DEF SessionsInv
  <2>2. MessagesOf(x)' = MessagesOf(x)
    BY <1>9, <2>1 DEF MessagesOf
  <2> QED BY <1>1, <1>9, <2>1, <2>2, SessionKept
<1> QED BY <1>5, <1>6, <1>7, <1>10, <1>11 DEF ChatInv

\* A restart: every turn and DELETE is over.
LEMMA RestartInv ==
  ASSUME ChatInv, Restart
  PROVE  ChatInv'
<1>0. TypeOK /\ TurnInv /\ MessageInv /\ DeleteInv /\ SessionsInv
  BY DEF ChatInv
<1>1. /\ turn' = [t \in Turns |-> IF InFlight(t) THEN [turn[t] EXCEPT !.pc = "done"] ELSE turn[t]]
      /\ deletion' = [d \in Deletes |-> NoDeletion]
      /\ UNCHANGED <<sessions, message, spoiled, overlap>>
  BY DEF Restart
<1>2. ASSUME NEW t \in Turns
      PROVE  /\ turn'[t] \in Turn /\ turn'[t].pc \in {"new", "done"}
             /\ turn'[t].pc = "new" => turn[t].pc = "new"
             /\ turn'[t].session = turn[t].session
             /\ turn'[t].finished = turn[t].finished /\ turn'[t].error = turn[t].error
  BY <1>0, <1>1 DEF TypeOK, Turn, InFlight
<1>3. NoDeletion \in Deletion
  BY DEF NoDeletion, Deletion
<1>4. TypeOK'
  BY <1>0, <1>1, <1>2, <1>3 DEF TypeOK
<1>5. TurnInv'
  BY <1>2 DEF TurnInv, InFlight
<1>6. MessageInv'
  <2>1. \A m \in MessageIds : message[m] # None => message[m].turn \in Turns
    BY <1>0 DEF TypeOK, Message
  <2> QED BY <1>0, <1>1, <1>2, <2>1 DEF MessageInv
<1>7. DeleteInv'
  BY <1>1 DEF DeleteInv, DeletionInv, NoDeletion
<1>8. SessionsInv'
  <2> SUFFICES ASSUME ~ overlap, NEW x \in sessions \ spoiled PROVE SessionInv(x)'
    BY <1>1 DEF SessionsInv
  <2>1. SessionInv(x)
    BY <1>0 DEF SessionsInv
  <2> QED BY <1>1, <1>2, <2>1, SameMessages, SessionKept
<1> QED BY <1>4, <1>5, <1>6, <1>7, <1>8 DEF ChatInv

\* The invariant is inductive.
LEMMA StepInv == ChatInv /\ [Next]_vars => ChatInv'
<1> SUFFICES ASSUME ChatInv, [Next]_vars PROVE ChatInv'
  OBVIOUS
<1>1. ASSUME NEW t \in Turns, TurnStep(t) PROVE ChatInv'
  BY <1>1, EnterInv, QuietTurns, QuietInv, StoreInv DEF TurnStep
<1>2. ASSUME NEW d \in Deletes, DeleteStep(d) PROVE ChatInv'
  BY <1>2, FindSessionInv, ListMessagesInv, DropSessionInv DEF DeleteStep
<1>3. CASE UNCHANGED vars
  <2>1. UNCHANGED <<sessions, message, turn, deletion, spoiled, overlap>>
    BY <1>3 DEF vars
  <2>2. \A t \in Turns : InFlight(t)' <=> InFlight(t)
    BY <2>1 DEF InFlight
  <2>3. DeleteInv'
    BY <2>1, <2>2 DEF ChatInv, DeleteInv, DeletionInv, MessagesOf
  <2> QED BY <2>1, <2>3, QuietDelete DEF ChatInv, TypeOK
<1> QED BY <1>1, <1>2, <1>3, CreateSessionInv, RestartInv DEF Next

-----------------------------------------------------------------------------
(***************************************************************************)
(* The theorems.                                                           *)
(***************************************************************************)

\* The inductive invariant holds.
THEOREM ChatSafe == Spec => []ChatInv
  BY InitInv, StepInv, PTL DEF Spec

\* Sessions, messages, turns and DELETEs keep their types, whatever sequence numbers a
\* session reaches.
THEOREM ChatTypeCorrect == Spec => []TypeOK
<1>1. ChatInv => TypeOK
  BY DEF ChatInv
<1> QED BY <1>1, ChatSafe, PTL

\* A session nothing has spoiled reads like a conversation.
THEOREM SessionsReadInOrder == Spec => []ReadsInOrder
<1>1. ChatInv => ReadsInOrder
  BY DEF ChatInv, SessionsInv, SessionInv, ReadsInOrder
<1> QED BY <1>1, ChatSafe, PTL

\* A filed reply is whole, and the only one of its turn.
THEOREM FiledRepliesAreWhole == Spec => []RepliesAreWhole
<1>1. ChatInv => RepliesAreWhole
  BY DEF ChatInv, MessageInv, RepliesAreWhole
<1> QED BY <1>1, ChatSafe, PTL

\* A DELETE leaves "listed" for "idle" by its own COMMIT, or because the process died.
LEMMA DeletionEnds ==
  ASSUME ChatInv, [Next]_vars, NEW d \in Deletes, deletion[d].pc = "listed", deletion'[d].pc = "idle"
  PROVE  DropSession(d) \/ Restart
<1>0. TypeOK /\ deletion[d] \in Deletion /\ NoDeletion \in Deletion
  BY DEF ChatInv, TypeOK, NoDeletion, Deletion
<1>1. ASSUME UNCHANGED deletion PROVE FALSE
  BY <1>1
<1>2. ASSUME NEW t \in Turns, TurnStep(t) PROVE FALSE
  <2>1. ASSUME NEW s \in SessionIds, Enter(t, s) PROVE FALSE
    <3>1. deletion'[d] = [deletion[d] EXCEPT !.alone = @ /\ deletion[d].session # s]
      BY <2>1 DEF Enter
    <3> QED BY <1>0, <3>1 DEF Deletion
  <2>2. CASE StorePrompt(t) \/ StoreReply(t)
    BY <1>1, <2>2 DEF StorePrompt, StoreReply
  <2>3. ASSUME QuietTurn(t) PROVE FALSE
    BY <1>1, <2>3 DEF QuietTurn
  <2> QED BY <1>2, <2>1, <2>2, <2>3, QuietTurns DEF TurnStep
<1>3. ASSUME NEW e \in Deletes, DeleteStep(e) PROVE DropSession(d)
  <2>1. ASSUME NEW s \in SessionIds, FindSession(e, s) PROVE FALSE
    BY <1>0, <2>1 DEF FindSession, TypeOK
  <2>2. CASE ListMessages(e)
    BY <1>0, <2>2 DEF ListMessages, TypeOK, Deletion
  <2>3. CASE DropSession(e)
    BY <1>0, <2>3 DEF DropSession, TypeOK
  <2> QED BY <1>3, <2>1, <2>2, <2>3 DEF DeleteStep
<1>4. ASSUME NEW s \in SessionIds, CreateSession(s) PROVE FALSE
  BY <1>1, <1>4 DEF CreateSession
<1> QED BY <1>1, <1>2, <1>3, <1>4 DEF Next, vars

\* A DELETE takes the messages of its own session, and all of them when it was alone.
THEOREM DeletesAreExact == Spec => DeleteIsExact
<1>1. ASSUME ChatInv, [Next]_vars, NEW d \in Deletes, deletion[d].pc = "listed",
             deletion'[d].pc = "idle", ~ overlap
      PROVE  /\ \A m \in MessageIds : message[m] # None /\ message'[m] = None =>
                  message[m].session = deletion[d].session
             /\ deletion[d].alone /\ deletion[d].session \notin sessions' =>
                  \A m \in MessageIds : message'[m] # None => message'[m].session # deletion[d].session
  <2>0. DeletionInv(d)
    BY <1>1 DEF ChatInv, DeleteInv
  <2>1. DropSession(d) \/ Restart
    BY <1>1, DeletionEnds
  <2>2. CASE DropSession(d)
    <3>1. \A m \in MessageIds : message'[m] = IF m \in deletion[d].seen THEN None ELSE message[m]
      BY <2>2 DEF DropSession
    <3> QED BY <1>1, <2>0, <3>1 DEF DeletionInv, MessagesOf
  <2>3. CASE Restart
    <3>1. UNCHANGED <<message, sessions>>
      BY <2>3 DEF Restart
    <3>2. deletion[d].session \in sessions
      BY <1>1, <2>0 DEF DeletionInv
    <3> QED BY <3>1, <3>2
  <2> QED BY <2>1, <2>2, <2>3
<1> DEFINE Exact == \A d \in Deletes :
       deletion[d].pc = "listed" /\ deletion'[d].pc = "idle" /\ ~ overlap =>
       /\ \A m \in MessageIds : message[m] # None /\ message'[m] = None =>
            message[m].session = deletion[d].session
       /\ deletion[d].alone /\ deletion[d].session \notin sessions' =>
            \A m \in MessageIds : message'[m] # None =>
              message'[m].session # deletion[d].session
<1>2. ChatInv /\ [Next]_vars => Exact
  BY <1>1
<1>3. DeleteIsExact <=> [][Exact]_vars
  BY DEF DeleteIsExact
<1> HIDE DEF Exact
<1> QED BY <1>2, <1>3, ChatSafe, PTL DEF Spec
==============================================================================
