------------------------------ MODULE SseStream ------------------------------
(***************************************************************************)
(* The reader of server-sent events under every stream of the browser      *)
(* (api/sse): the body of a response arrives in reads cut anywhere and is  *)
(* framed into events again.                                               *)
(*                                                                         *)
(* A body is a sequence of symbols: "cr", "lf", the head of a line and     *)
(* what follows it.  The payload of a data line is one symbol.             *)
(***************************************************************************)
EXTENDS Arrays, SequencesExt, FiniteSetsExt

CONSTANTS Payloads,    \* what a data line may carry
          MaxFrames,   \* bound: events of one body
          MaxLines     \* bound: lines of one event

(* The marks of the format are none of the payloads. *)
ASSUME SseAssumption ==
  /\ MaxFrames \in Nat /\ MaxLines \in Nat
  /\ Payloads \cap {"data:", "cr", "lf"} = {}

VARIABLES
  sent,      \* history: the events of the body, each a sequence of lines
  body,      \* what has not been read of it
  buffer,    \* what has been read and not framed
  yielded,   \* the data of the events handed on
  sse        \* "requested", "open", and how it ended: "done" or "thrown"

sseVars == <<sent, body, buffer, yielded, sse>>

Heartbeat == <<":", "ping">>
Lines == {<<"data:", p>> : p \in Payloads} \cup {Heartbeat}

(* The server ends its lines with \r\n or \n, and an event with an empty   *)
(* line, which the last one may lack (ended = FALSE).                      *)
Written(events, eol, ended) ==
  [e \in DOMAIN events |->
     LET lines == IF ended \/ e < Len(events) THEN Append(events[e], <<>>) ELSE events[e]
     IN [l \in DOMAIN lines |-> lines[l] \o eol]]

(* The places of the symbols: event, line and column. *)
Places(written) ==
  {p \in (DOMAIN written) \X (1 .. MaxLines + 1) \X (1 .. 4) :
     p[2] \in DOMAIN written[p[1]] /\ p[3] \in DOMAIN written[p[1]][p[2]]}

NotAfter(p, q) ==
  \/ p[1] < q[1]
  \/ p[1] = q[1] /\ p[2] < q[2]
  \/ p[1] = q[1] /\ p[2] = q[2] /\ p[3] <= q[3]

InReadingOrder(places) ==
  InOrder(places, {pair \in places \X places : NotAfter(pair[1], pair[2])})

Encoded(events, eol, ended) ==
  LET written == Written(events, eol, ended)
      at      == InReadingOrder(Places(written))
  IN [i \in DOMAIN at |-> written[at[i][1]][at[i][2]][at[i][3]]]

(* .replace(/\r\n/g, '\n') *)
Normalized(text) ==
  Kept(text, {i \in DOMAIN text :
                ~(text[i] = "cr" /\ i < Len(text) /\ text[i + 1] = "lf")})

(* The joined data lines of an event; empty when it has none. *)
EventData(event) == Kept(event, {i \in DOMAIN event : i > 1 /\ event[i - 1] = "data:"})

Yield(data) == yielded' = IF data = <<>> THEN yielded ELSE Append(yielded, data)

Breaks == {i \in 1 .. Len(buffer) - 1 : buffer[i] = "lf" /\ buffer[i + 1] = "lf"}

SseInit ==
  /\ sent \in SeqOf(SeqOf(Lines, MaxLines) \ {<<>>}, MaxFrames)
  /\ \E eol \in {<<"lf">>, <<"cr", "lf">>}, ended \in BOOLEAN : body = Encoded(sent, eol, ended)
  /\ buffer = <<>> /\ yielded = <<>>
  /\ sse = "requested"

(* fetch resolves with a 2xx status and a body. *)
ResponseOpens ==
  /\ sse = "requested"
  /\ sse' = "open"
  /\ UNCHANGED <<sent, body, buffer, yielded>>

(* No answer, another status, no body, a broken connection, or the signal  *)
(* aborted while a read is awaited: the iteration throws.                  *)
Throws ==
  /\ sse = "requested" \/ (sse = "open" /\ Breaks = {})
  /\ sse' = "thrown"
  /\ UNCHANGED <<sent, body, buffer, yielded>>

(* Mutant: each read is normalised by itself. *)
ReadNextAlone ==
  /\ sse = "open" /\ Breaks = {}
  /\ \E n \in 1 .. Len(body) :
       /\ buffer' = buffer \o Normalized(SubSeq(body, 1, n))
       /\ body' = SubSeq(body, n + 1, Len(body))
  /\ UNCHANGED <<sent, yielded, sse>>

(* The next read brings any part of what is left. *)
ReadNext ==
  /\ sse = "open" /\ Breaks = {}
  /\ \E n \in 1 .. Len(body) :
       /\ buffer' = Normalized(buffer \o SubSeq(body, 1, n))
       /\ body' = SubSeq(body, n + 1, Len(body))
  /\ UNCHANGED <<sent, yielded, sse>>

(* One round of the inner loop: the events of a read are handed on before  *)
(* the next read, and before an abort is looked at.                        *)
NextEvent ==
  /\ sse = "open" /\ Breaks # {}
  /\ LET end == Min(Breaks)
     IN /\ Yield(EventData(SubSeq(buffer, 1, end - 1)))
        /\ buffer' = SubSeq(buffer, end + 2, Len(buffer))
  /\ UNCHANGED <<sent, body, sse>>

ReadDone ==
  /\ sse = "open" /\ Breaks = {} /\ body = <<>>
  /\ Yield(EventData(buffer))
  /\ sse' = "done"
  /\ UNCHANGED <<sent, body, buffer>>

SseNext == ResponseOpens \/ Throws \/ ReadNext \/ NextEvent \/ ReadDone

SseSpec == SseInit /\ [][SseNext]_sseVars

(* ---- properties ------------------------------------------------------- *)

(* The payloads of the events that have any. *)
Said(event) ==
  Kept([l \in DOMAIN event |-> event[l][2]], {l \in DOMAIN event : event[l][1] = "data:"})
SentData ==
  LET said == [e \in DOMAIN sent |-> Said(sent[e])]
  IN Kept(said, {e \in DOMAIN sent : said[e] # <<>>})

(* What is handed on is what was sent: the data of each event, whole and   *)
(* in order, heartbeats left out, wherever the reads cut the body - even   *)
(* inside a line or a \r\n.  A reader that comes to the end has handed on  *)
(* every event, the last one too when its empty line is missing (readSse). *)
FramesAreWhole ==
  /\ IsPrefix(yielded, SentData)
  /\ sse = "done" => yielded = SentData

=============================================================================
