----------------------------- MODULE ChatSessions -----------------------------
(***************************************************************************)
(* Chat sessions: POST /chat/stream with a session_id, POST and DELETE     *)
(* /chat/sessions (chat/router.py, models/chat.py).                        *)
(*                                                                         *)
(* The endpoints are sync functions in the thread pool and interleave      *)
(* between any two statements; the stream of a reply runs in the event     *)
(* loop, so what a stream does at its end is never interleaved with the    *)
(* end of another stream, but still with the endpoints.  Every SELECT and  *)
(* every COMMIT is one step.  Neither table has AUTOINCREMENT ids.         *)
(***************************************************************************)
EXTENDS Naturals

CONSTANTS
  Turns,        \* the chat requests with a session_id, each made once
  Deletes,      \* threads serving DELETE /chat/sessions/{id}
  MaxSessions,  \* bound: ids of chat_sessions rows
  MaxMessages,  \* bound: ids of chat_messages rows
  None          \* no message

SessionIds == 1..MaxSessions
MessageIds == 1..MaxMessages

\* A deleted message's id is given out again, its sequence number need not be: a turn that
\* has counted may store behind a DELETE, so sequence numbers have no bound.
Message == [session : SessionIds, role : {"user", "assistant"}, sequence : Nat \ {0},
            turn : Turns]

ASSUME ChatSessionsAssumption ==
  /\ MaxSessions \in Nat \ {0}
  /\ MaxMessages \in Nat \ {0}
  /\ None \notin Message


VARIABLES
  sessions,   \* the ids in chat_sessions
  message,    \* chat_messages: the row of each id, or None
  turn,       \* the chat requests
  deletion,   \* the DELETE threads
  spoiled,    \* ghost: the sessions that had two turns at once, or that inherited a
              \* turn or a message of a deleted session with the same id
  overlap     \* ghost: two DELETEs of one session have overlapped

vars == <<sessions, message, turn, deletion, spoiled, overlap>>

NoTurn     == [pc |-> "new", session |-> 0, last |-> 0, error |-> FALSE, finished |-> FALSE]
NoDeletion == [pc |-> "idle", session |-> 0, seen |-> {}, alone |-> TRUE]

Turn == [pc : {"new", "entered", "counted", "streaming", "closing", "replying", "measuring", "done"},
         session : SessionIds \union {0}, last : Nat, error : BOOLEAN, finished : BOOLEAN]
Deletion == [pc : {"idle", "found", "listed"}, session : SessionIds \union {0},
             seen : SUBSET MessageIds, alone : BOOLEAN]

TypeOK ==
  /\ sessions \in SUBSET SessionIds
  /\ message \in [MessageIds -> Message \union {None}]
  /\ turn \in [Turns -> Turn]
  /\ deletion \in [Deletes -> Deletion]
  /\ spoiled \in SUBSET SessionIds
  /\ overlap \in BOOLEAN

Init ==
  /\ sessions = {}
  /\ message = [m \in MessageIds |-> None]
  /\ turn = [t \in Turns |-> NoTurn]
  /\ deletion = [d \in Deletes |-> NoDeletion]
  /\ spoiled = {}
  /\ overlap = FALSE

-----------------------------------------------------------------------------
InFlight(t) == turn[t].pc \notin {"new", "done"}

MessagesOf(s) == {m \in MessageIds : message[m] # None /\ message[m].session = s}

\* The id SQLite gives the next row of a table that holds the ids S.
IsNext(i, S) == (\A k \in S : k < i) /\ (i = 1 \/ i - 1 \in S)

\* Mutant: the messages of all sessions are counted.
LastSequenceAnywhere(s) ==
  LET used == {message[m].sequence : m \in {n \in MessageIds : message[n] # None}} IN
  IF used = {} THEN 0 ELSE CHOOSE n \in used : \A k \in used : k <= n

\* _next_sequence: the largest sequence of the session, 0 when it is empty.
LastSequence(s) ==
  LET used == {message[m].sequence : m \in MessagesOf(s)} IN
  IF used = {} THEN 0 ELSE CHOOSE n \in used : \A k \in used : k <= n

\* The INSERT and COMMIT of _store_message, after last was read.
Store(t, role) ==
  \E i \in MessageIds :
    /\ IsNext(i, {m \in MessageIds : message[m] # None})
    /\ message' = [message EXCEPT ![i] =
         [session |-> turn[t].session, role |-> role, sequence |-> turn[t].last + 1, turn |-> t]]

Go(t, pc) == turn' = [turn EXCEPT ![t].pc = pc]

\* POST /chat/sessions.
CreateSession(s) ==
  /\ IsNext(s, sessions)
  /\ sessions' = sessions \union {s}
  /\ spoiled' = IF MessagesOf(s) # {} \/ \E t \in Turns : InFlight(t) /\ turn[t].session = s
                THEN spoiled \union {s} ELSE spoiled \ {s}
  /\ UNCHANGED <<message, turn, deletion, overlap>>

-----------------------------------------------------------------------------
\* POST /chat/stream: the endpoint.

\* _get_session_or_404 found the session.
Enter(t, s) ==
  /\ turn[t].pc = "new" /\ s \in sessions
  /\ turn' = [turn EXCEPT ![t].pc = "entered", ![t].session = s]
  /\ spoiled' = IF \E u \in Turns : InFlight(u) /\ turn[u].session = s
                THEN spoiled \union {s} ELSE spoiled
  /\ deletion' = [d \in Deletes |-> [deletion[d] EXCEPT !.alone = @ /\ deletion[d].session # s]]
  /\ UNCHANGED <<sessions, message, overlap>>

\* A request without a user message stores none.
NoPrompt(t) ==
  /\ turn[t].pc = "entered"
  /\ Go(t, "streaming")
  /\ UNCHANGED <<sessions, message, deletion, spoiled, overlap>>

CountPrompt(t) ==
  /\ turn[t].pc = "entered"
  /\ turn' = [turn EXCEPT ![t].pc = "counted", ![t].last = LastSequence(turn[t].session)]
  /\ UNCHANGED <<sessions, message, deletion, spoiled, overlap>>

StorePrompt(t) ==
  /\ turn[t].pc = "counted"
  /\ Store(t, "user")
  /\ Go(t, "streaming")
  /\ UNCHANGED <<sessions, deletion, spoiled, overlap>>

-----------------------------------------------------------------------------
\* _sse_events: the stream.

\* A chunk with an error; the backend may still go on to its last chunk.
ErrorChunk(t) ==
  /\ turn[t].pc = "streaming"
  /\ turn' = [turn EXCEPT ![t].error = TRUE]
  /\ UNCHANGED <<sessions, message, deletion, spoiled, overlap>>

Exhausted(t) ==
  /\ turn[t].pc = "streaming"
  /\ turn' = [turn EXCEPT ![t].pc = "closing", ![t].finished = TRUE]
  /\ UNCHANGED <<sessions, message, deletion, spoiled, overlap>>

\* The backend raised, or the client has gone.
CutShort(t) ==
  /\ turn[t].pc = "streaming"
  /\ Go(t, "closing")
  /\ UNCHANGED <<sessions, message, deletion, spoiled, overlap>>

\* The end of another stream does not interleave: one event loop, no await.
LoopIsFree == \A u \in Turns : turn[u].pc \notin {"replying", "measuring"}

\* Mutant: whatever was received is filed as the reply.
CountAnyReply(t) ==
  /\ turn[t].pc = "closing" /\ LoopIsFree
  /\ turn' = [turn EXCEPT ![t].pc = "replying", ![t].last = LastSequence(turn[t].session)]
  /\ UNCHANGED <<sessions, message, deletion, spoiled, overlap>>

CountReply(t) ==
  /\ turn[t].pc = "closing" /\ LoopIsFree
  /\ turn[t].finished /\ ~ turn[t].error
  /\ turn' = [turn EXCEPT ![t].pc = "replying", ![t].last = LastSequence(turn[t].session)]
  /\ UNCHANGED <<sessions, message, deletion, spoiled, overlap>>

StoreReply(t) ==
  /\ turn[t].pc = "replying"
  /\ Store(t, "assistant")
  /\ Go(t, "measuring")
  /\ UNCHANGED <<sessions, deletion, spoiled, overlap>>

\* A partial reply is not filed.
SkipReply(t) ==
  /\ turn[t].pc = "closing" /\ LoopIsFree
  /\ ~ turn[t].finished \/ turn[t].error
  /\ Go(t, "measuring")
  /\ UNCHANGED <<sessions, message, deletion, spoiled, overlap>>

\* The metric of the turn is committed last.
Measure(t) ==
  /\ turn[t].pc = "measuring"
  /\ Go(t, "done")
  /\ UNCHANGED <<sessions, message, deletion, spoiled, overlap>>

-----------------------------------------------------------------------------
\* DELETE /chat/sessions/{id}.

FindSession(d, s) ==
  LET others == {e \in Deletes : deletion[e].session = s} IN
  /\ deletion[d].pc = "idle" /\ s \in sessions
  /\ deletion' = [deletion EXCEPT ![d] =
       [pc |-> "found", session |-> s, seen |-> {},
        alone |-> \A t \in Turns : ~ (InFlight(t) /\ turn[t].session = s)]]
  /\ overlap' = (overlap \/ others # {})
  /\ UNCHANGED <<sessions, message, turn, spoiled>>

ListMessages(d) ==
  /\ deletion[d].pc = "found"
  /\ deletion' = [deletion EXCEPT ![d].pc = "listed", ![d].seen = MessagesOf(deletion[d].session)]
  /\ UNCHANGED <<sessions, message, turn, spoiled, overlap>>

\* Mutant: the messages are left to the cascade, which SQLite does not enforce.
DropSessionOnly(d) ==
  /\ deletion[d].pc = "listed"
  /\ sessions' = sessions \ {deletion[d].session}
  /\ deletion' = [deletion EXCEPT ![d] = NoDeletion]
  /\ UNCHANGED <<message, turn, spoiled, overlap>>

\* One COMMIT deletes the listed messages and the session, each by id.
DropSession(d) ==
  /\ deletion[d].pc = "listed"
  /\ sessions' = sessions \ {deletion[d].session}
  /\ message' = [m \in MessageIds |-> IF m \in deletion[d].seen THEN None ELSE message[m]]
  /\ deletion' = [deletion EXCEPT ![d] = NoDeletion]
  /\ UNCHANGED <<turn, spoiled, overlap>>

-----------------------------------------------------------------------------
\* The process dies and starts again: every thread and stream is lost.
Restart ==
  /\ turn' = [t \in Turns |-> IF InFlight(t) THEN [turn[t] EXCEPT !.pc = "done"] ELSE turn[t]]
  /\ deletion' = [d \in Deletes |-> NoDeletion]
  /\ UNCHANGED <<sessions, message, spoiled, overlap>>

TurnStep(t) ==
  \/ \E s \in SessionIds : Enter(t, s)
  \/ NoPrompt(t) \/ CountPrompt(t) \/ StorePrompt(t)
  \/ ErrorChunk(t) \/ Exhausted(t) \/ CutShort(t)
  \/ CountReply(t) \/ StoreReply(t) \/ SkipReply(t) \/ Measure(t)

DeleteStep(d) ==
  \/ \E s \in SessionIds : FindSession(d, s)
  \/ ListMessages(d) \/ DropSession(d)

Next ==
  \/ \E s \in SessionIds : CreateSession(s)
  \/ \E t \in Turns : TurnStep(t)
  \/ \E d \in Deletes : DeleteStep(d)
  \/ Restart

Spec == Init /\ [][Next]_vars

-----------------------------------------------------------------------------
(***************************************************************************)
(* Properties.                                                             *)
(***************************************************************************)

\* A session nothing has spoiled reads like a conversation: its
\* sequence numbers count the messages in the order they were committed, and the
\* message before a reply is the prompt of the same turn, if it had one.
ReadsInOrder ==
  /\ TypeOK
  /\ \A s \in sessions \ spoiled : ~ overlap =>
      /\ \A m, n \in MessagesOf(s) : m < n => message[m].sequence < message[n].sequence
      /\ \A m \in MessagesOf(s) : message[m].sequence > 1 =>
           \E n \in MessagesOf(s) : message[n].sequence = message[m].sequence - 1
      /\ \A m, n \in MessagesOf(s) :
           message[m].role = "user" /\ message[n].role = "assistant" /\ message[n].turn = message[m].turn
           => message[n].sequence = message[m].sequence + 1

\* A filed reply is a whole one, and it is the only one of its turn -- also across
\* restarts and in spoiled sessions.
RepliesAreWhole ==
  \A m \in MessageIds : message[m] # None /\ message[m].role = "assistant" =>
    LET t == message[m].turn IN
    /\ turn[t].finished /\ ~ turn[t].error
    /\ \A n \in MessageIds :
         message[n] # None /\ message[n].role = "assistant" /\ message[n].turn = t => n = m

\* A DELETE takes the messages of its own session only, although ids are given out
\* again, and all of them if no turn of the session was under way meanwhile --
\* provided no two DELETEs of one session have overlapped.
DeleteIsExact ==
  [][\A d \in Deletes : deletion[d].pc = "listed" /\ deletion'[d].pc = "idle" /\ ~ overlap =>
       /\ \A m \in MessageIds : message[m] # None /\ message'[m] = None =>
            message[m].session = deletion[d].session
       /\ deletion[d].alone /\ deletion[d].session \notin sessions' =>
            \A m \in MessageIds : message'[m] # None =>
              message'[m].session # deletion[d].session]_vars

\* What the router promises of session_id: the turn is filed in an existing session.
MessagesHaveASession ==
  \A m \in MessageIds : message[m] # None => message[m].session \in sessions
=============================================================================
