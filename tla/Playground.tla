----------------------------- MODULE Playground -----------------------------
(***************************************************************************)
(* The Playground's conversation: PlaygroundPage, useChatStream (one POST  *)
(* /chat/stream per message), chatReducer and what Composer and Transcript *)
(* make of their state.                                                    *)
(*                                                                         *)
(* A send is numbered; its reader is the asynchronous loop of sendMessage, *)
(* which outlives clicks made while it waits.  A reply is the sequence of  *)
(* its deltas, each standing for the send it was generated for, so text of *)
(* one stream that lands in another turn can be told apart.  The inputs of *)
(* the page (draft, model, schema text) are read at the click and are free *)
(* until then, so they are parameters of Send.                             *)
(***************************************************************************)
EXTENDS Integers, Sequences, FiniteSets, SequencesExt

CONSTANTS Sends,      \* the messages sent in a session, 1 .. n
          MaxDeltas,  \* bound: deltas of one reply
          MaxCalls,   \* bound: tool calls of one reply
          MaxWire     \* bound: chunks on the way from the server

ASSUME PlaygroundAssumption ==
  /\ IsFiniteSet(Sends) /\ Sends = 1 .. Cardinality(Sends)
  /\ MaxDeltas \in Nat \ {0} /\ MaxCalls \in Nat /\ MaxWire \in Nat \ {0}

VARIABLES
  turns,        \* the transcript: useReducer(chatReducer, [])
  isStreaming,  \* useState: a send is under way
  controller,   \* controllerRef: the send whose stream Stop would abort
  reader,       \* per send: the loop reading its stream, and the server's side
  request       \* the messages of the last request sent

playVars == <<turns, isStreaming, controller, reader, request>>

NoSend == 0
UserId(s) == 2 * s - 1
AssistantId(s) == 2 * s

(* What the user has entered when a button is pressed. *)
Inputs == [draft : {"blank", "text"}, model : {"none", "loadable", "unloadable"},
           schema : {"off", "object", "invalid"}]

ParsedSchema(text) == [ok |-> text = "object"]

SchemaError(in) == in.schema # "off" /\ ~ParsedSchema(in.schema).ok

SendDisabled(in) ==
  \/ in.model \in {"none", "unloadable"}
  \/ in.draft = "blank"
  \/ SchemaError(in)

Composer(in) == [button   |-> IF isStreaming THEN "Stop" ELSE "Send",
                 disabled |-> ~isStreaming /\ SendDisabled(in)]

(* ---- chatReducer ------------------------------------------------------ *)

NewTurn(id, role, content, streaming, hadSchema) ==
  [id |-> id, role |-> role, content |-> content, streaming |-> streaming,
   stopped |-> FALSE, failed |-> FALSE, calls |-> 0, running |-> FALSE,
   metrics |-> FALSE, hadSchema |-> hadSchema]

OnTurn(id, Change(_)) ==
  [i \in DOMAIN turns |-> IF turns[i].id = id THEN Change(turns[i]) ELSE turns[i]]

Delta(id, text)  == OnTurn(id, LAMBDA t : [t EXCEPT !.content = Append(@, text)])
ToolStarted(id)  == OnTurn(id, LAMBDA t : [t EXCEPT !.running = TRUE])
ToolFinished(id) == OnTurn(id, LAMBDA t : [t EXCEPT !.running = FALSE, !.calls = @ + 1])
Done(id, calls)  == OnTurn(id, LAMBDA t : [t EXCEPT !.streaming = FALSE, !.running = FALSE,
                                                    !.calls = calls, !.metrics = TRUE])
Failed(id)  == OnTurn(id, LAMBDA t : [t EXCEPT !.streaming = FALSE, !.running = FALSE,
                                               !.failed = TRUE])
Stopped(id) == OnTurn(id, LAMBDA t : [t EXCEPT !.streaming = FALSE, !.running = FALSE,
                                               !.stopped = TRUE])

Message(t) == [role |-> t.role, content |-> t.content, of |-> (t.id + 1) \div 2]

(* The numbers in a set, the smallest first. *)
Ascending(S) ==
  CHOOSE f \in [1 .. Cardinality(S) -> S] :
    \A i, j \in 1 .. Cardinality(S) : i < j => f[i] < f[j]

(* The messages of the pairs that end at the given positions, in order. *)
HistoryOf(ts, replies) ==
  [n \in 1 .. 2 * Cardinality(replies) |->
     Message(ts[Ascending(replies)[(n + 1) \div 2] - (n % 2)])]

(* Mutant: a stopped reply is sent again, as far as it came. *)
TurnsToHistoryWithStopped(ts) ==
  HistoryOf(ts, {i \in 1 .. Len(ts) : i % 2 = 0 /\ ~ts[i].failed})

(* Pair by pair, without those that failed or were stopped. *)
TurnsToHistory(ts) ==
  HistoryOf(ts, {i \in 1 .. Len(ts) : i % 2 = 0 /\ ~ts[i].failed /\ ~ts[i].stopped})

BuildChatRequest(history, s, in) ==
  [messages |-> Append(history, [role |-> "user", content |-> <<s>>, of |-> s]),
   schema   |-> in.schema = "object"]

(* ---- the page --------------------------------------------------------- *)

Idle == [phase |-> "unsent", aborted |-> FALSE, settled |-> FALSE, wire |-> <<>>,
         stream |-> "open", called |-> 0, calling |-> FALSE,
         said |-> 0, complete |-> FALSE]   \* the deltas generated, and whether to the end

Over(r) == [Idle EXCEPT !.phase = "over", !.said = r.said, !.complete = r.complete]

PlayInit ==
  /\ turns = <<>>
  /\ isStreaming = FALSE
  /\ controller = NoSend
  /\ reader = [s \in Sends |-> Idle]
  /\ request = <<>>

(* handleSend and sendMessage up to their first await; ids come from a     *)
(* module-level counter, so sends are made in the order of their numbers.  *)
Send(s, in) ==
  /\ Composer(in) = [button |-> "Send", disabled |-> FALSE]
  /\ reader[s].phase = "unsent"
  /\ \A r \in Sends : r < s => reader[r].phase # "unsent"
  /\ LET body == BuildChatRequest(TurnsToHistory(turns), s, in)
     IN /\ turns' = turns \o
               <<NewTurn(UserId(s), "user", <<s>>, FALSE, FALSE),
                 NewTurn(AssistantId(s), "assistant", <<>>, TRUE, body.schema)>>
        /\ request' = body.messages
  /\ reader' = [reader EXCEPT ![s].phase = "requesting"]
  /\ controller' = s
  /\ isStreaming' = TRUE

Abort(r) == IF controller = NoSend THEN r ELSE [r EXCEPT ![controller].aborted = TRUE]

(* controllerRef.current?.abort() *)
Stop ==
  /\ isStreaming
  /\ reader' = Abort(reader)
  /\ UNCHANGED <<turns, isStreaming, controller, request>>

(* "New chat": abort the stream under way and empty the transcript. *)
NewChat ==
  /\ turns # <<>>
  /\ reader' = Abort(reader)
  /\ turns' = <<>>
  /\ UNCHANGED <<isStreaming, controller, request>>

(* The page is left and opened again: its state is gone, and what an old   *)
(* reader still dispatches or sets goes to a component that is no more.    *)
Remount ==
  /\ turns # <<>> \/ isStreaming
  /\ turns' = <<>>
  /\ isStreaming' = FALSE
  /\ controller' = NoSend
  /\ reader' = [s \in Sends |-> IF reader[s].phase = "unsent" THEN reader[s]
                                ELSE Over(reader[s])]
  /\ UNCHANGED request

(* ---- the reader of send s --------------------------------------------- *)

(* the finally clause *)
Finally(s) ==
  /\ isStreaming' = FALSE
  /\ controller' = NoSend
  /\ reader' = [reader EXCEPT ![s] = Over(@)]
  /\ UNCHANGED request

Responded(s) ==
  /\ reader[s].phase = "requesting" /\ ~reader[s].aborted
  /\ reader' = [reader EXCEPT ![s].phase = "reading"]
  /\ UNCHANGED <<turns, isStreaming, controller, request>>

(* A status that is not 2xx, or no answer at all: fetch or toApiError throws. *)
Refused(s) ==
  /\ reader[s].phase = "requesting" /\ ~reader[s].aborted
  /\ turns' = Failed(AssistantId(s))
  /\ Finally(s)

(* The signal was aborted: fetch rejects, or the read after it throws,     *)
(* whatever is left on the wire.                                           *)
Aborted(s) ==
  /\ reader[s].phase \in {"requesting", "reading"} /\ reader[s].aborted
  /\ turns' = Stopped(AssistantId(s))
  /\ Finally(s)

Reading(s) == reader[s].phase = "reading" /\ ~reader[s].aborted

ReadChunk(s) ==
  /\ Reading(s)
  /\ reader[s].wire # <<>>
  /\ LET chunk == Head(reader[s].wire)
         id == AssistantId(s)
     IN \/ /\ chunk.kind # "error"
           /\ turns' = CASE chunk.kind = "started"  -> ToolStarted(id)
                         [] chunk.kind = "finished" -> ToolFinished(id)
                         [] chunk.kind = "delta"    -> Delta(id, s)
                         [] chunk.kind = "done"     -> Done(id, chunk.calls)
           /\ reader' = [reader EXCEPT ![s].wire = Tail(@),
                                       ![s].settled = @ \/ chunk.kind = "done"]
           /\ UNCHANGED <<isStreaming, controller, request>>
        \/ /\ chunk.kind = "error"
           /\ turns' = Failed(id)
           /\ Finally(s)

(* Mutant: the end of the body is the end of the turn. *)
StreamEndedQuietly(s) ==
  /\ Reading(s)
  /\ reader[s].wire = <<>> /\ reader[s].stream = "ended"
  /\ UNCHANGED turns
  /\ Finally(s)

(* The body ended: a turn that was not settled by "done" becomes an error. *)
StreamEnded(s) ==
  /\ Reading(s)
  /\ reader[s].wire = <<>> /\ reader[s].stream = "ended"
  /\ turns' = IF reader[s].settled THEN turns ELSE Failed(AssistantId(s))
  /\ Finally(s)

(* The connection broke: the read throws something other than AbortError. *)
StreamBroke(s) ==
  /\ Reading(s)
  /\ reader[s].stream = "broken"
  /\ turns' = Failed(AssistantId(s))
  /\ Finally(s)

(* ---- the server's side of send s -------------------------------------- *)

Serving(s) == reader[s].phase = "reading" /\ reader[s].stream = "open"

(* A tool call is announced when it starts and again when it has run. *)
ServerCalls(s) ==
  /\ Serving(s) /\ Len(reader[s].wire) < MaxWire
  /\ reader[s].said = 0
  /\ \/ /\ ~reader[s].calling /\ reader[s].called < MaxCalls
        /\ reader' = [reader EXCEPT ![s].wire = Append(@, [kind |-> "started", calls |-> 0]),
                                    ![s].calling = TRUE]
     \/ /\ reader[s].calling
        /\ reader' = [reader EXCEPT ![s].wire = Append(@, [kind |-> "finished", calls |-> 0]),
                                    ![s].calling = FALSE, ![s].called = @ + 1]
  /\ UNCHANGED <<turns, isStreaming, controller, request>>

ServerSays(s) ==
  /\ Serving(s) /\ Len(reader[s].wire) < MaxWire
  /\ ~reader[s].calling /\ reader[s].said < MaxDeltas
  /\ reader' = [reader EXCEPT ![s].wire = Append(@, [kind |-> "delta", calls |-> 0]),
                              ![s].said = @ + 1]
  /\ UNCHANGED <<turns, isStreaming, controller, request>>

(* The terminal chunk, after which the response ends: done, or an error.   *)
(* The stream may also end or break without one.                           *)
ServerEnds(s) ==
  /\ Serving(s) /\ Len(reader[s].wire) < MaxWire
  /\ \E kind \in {"done", "error"} :
       /\ kind = "done" => ~reader[s].calling
       /\ reader' = [reader EXCEPT
            ![s].wire = Append(@, [kind |-> kind, calls |-> reader[s].called]),
            ![s].stream = IF kind = "done" THEN "done" ELSE "ended",
            ![s].complete = kind = "done"]
  /\ UNCHANGED <<turns, isStreaming, controller, request>>

ConnectionCloses(s) ==
  /\ reader[s].phase = "reading" /\ reader[s].stream \in {"open", "done"}
  /\ \E how \in {"ended", "broken"} : reader' = [reader EXCEPT ![s].stream = how]
  /\ UNCHANGED <<turns, isStreaming, controller, request>>

Reads(s) == Responded(s) \/ Aborted(s) \/ ReadChunk(s) \/ StreamEnded(s) \/ StreamBroke(s)
Serves(s) == ServerCalls(s) \/ ServerSays(s) \/ ServerEnds(s) \/ ConnectionCloses(s)

PlayNext ==
  \/ \E s \in Sends, in \in Inputs : Send(s, in)
  \/ Stop \/ NewChat \/ Remount
  \/ \E s \in Sends : Reads(s) \/ Refused(s) \/ Serves(s)

PlaySpec == PlayInit /\ [][PlayNext]_playVars

(* ---- what Transcript shows of an assistant's turn --------------------- *)

AssistantTurn(t) ==
  LET settled == ~t.streaming /\ ~t.failed
  IN [live       |-> t.streaming,
      toolCards  |-> t.calls + IF t.running THEN 1 ELSE 0,
      spinning   |-> t.running,
      structured |-> t.hadSchema /\ settled,
      reply      |-> ~t.hadSchema,
      announced  |-> settled /\ ~t.hadSchema,
      metrics    |-> settled,
      error      |-> t.failed]

(* ---- properties ------------------------------------------------------- *)

PlayTypeOK ==
  /\ \A i \in DOMAIN turns :
       /\ turns[i].id \in {UserId(s) : s \in Sends} \cup {AssistantId(s) : s \in Sends}
       /\ turns[i].content \in Seq(Sends)
  /\ isStreaming \in BOOLEAN
  /\ controller \in Sends \cup {NoSend}
  /\ \A s \in Sends : /\ reader[s].phase \in {"unsent", "requesting", "reading", "over"}
                      /\ Len(reader[s].wire) <= MaxWire

Active(s) == reader[s].phase \in {"requesting", "reading"}

FixedPairs ==
  /\ Len(turns) % 2 = 0
  /\ \A i \in DOMAIN turns :
       LET s == (turns[i].id + 1) \div 2
       IN IF i % 2 = 1 THEN turns[i].role = "user" /\ turns[i].id = UserId(s)
          ELSE turns[i].role = "assistant" /\ turns[i - 1].id = UserId(s)

(* At most one reply is under way, and it is the one Stop reaches; a turn  *)
(* that looks live has a reader that will settle it; a settled turn shows  *)
(* no running tool; user and assistant turns alternate in pairs, which is  *)
(* what turnsToHistory counts on (useChatStream, chatReducer, Transcript). *)
PlayInv ==
  /\ PlayTypeOK
  /\ FixedPairs
  /\ \A s \in Sends : Active(s) <=> isStreaming /\ controller = s
  /\ \A i \in DOMAIN turns :
       LET view == AssistantTurn(turns[i])
       IN /\ view.live => turns[i].id = AssistantId(controller) /\ Active(controller)
          /\ view.spinning => view.live

(* A request resends whole replies only: every assistant message in it is  *)
(* all the text, and only the text, that its own stream generated, and the *)
(* stream said "done" - whatever was stopped, failed, reset or arrived     *)
(* late before.                                                            *)
HistoryIsWhole ==
  \A k \in DOMAIN request :
    LET m == request[k]
        p == reader[m.of]
    IN m.role = "assistant" =>
         /\ p.complete
         /\ m.content = [i \in 1 .. p.said |-> m.of]
         /\ request[k - 1].of = m.of

=============================================================================
