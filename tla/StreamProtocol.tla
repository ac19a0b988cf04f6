--------------------------- MODULE StreamProtocol ---------------------------
(***************************************************************************)
(* What a client of WebhookStream may rely on, with nothing said about     *)
(* tasks, queues or flags: the order of the events on each call            *)
(* (docstring of WebhookStream, rasa_sdk/grpc_server.py:244-258), the      *)
(* silence after a barge-in and the silence after a disconnect.            *)
(* WebhookStream is shown to implement it.                                 *)
(***************************************************************************)
EXTENDS Naturals, Sequences

CONSTANTS
  RPC,         \* the calls
  ResponseIds  \* the ids responses are given, positive; 0 is the empty id

VARIABLES
  sent,    \* per call, the events the client has received
  hushed,  \* per call, whether a barge-in is being served
  gone     \* per call, whether the client has left

vars == <<sent, hushed, gone>>

Init ==
  /\ sent = [r \in RPC |-> <<>>]
  /\ hushed = [r \in RPC |-> FALSE]
  /\ gone = [r \in RPC |-> FALSE]

Closing == {"final_result", "empty_result", "error", "aborted"}

Closed(s) == \E i \in DOMAIN s : s[i].event \in Closing

Starts(s) == {i \in DOMAIN s : s[i].event = "chunk_start"}

Used(id) == \E r \in RPC : \E i \in Starts(sent[r]) : sent[r][i].id = id

\* The response announced last; 0 stands for the empty id before the first one.
IsLatest(s, id) ==
  \/ Starts(s) = {} /\ id = 0
  \/ \E i \in Starts(s) :
       s[i].id = id /\ \A j \in Starts(s) : j <= i

\* The response announced last is `id` and has not been ended.
IsOpen(s, id) ==
  \E i \in Starts(s) :
    s[i].id = id /\ \A j \in i + 1 .. Len(s) : s[j].event = "chunk"

ChunkNumbers(s) == {s[i].chunk : i \in {j \in DOMAIN s : s[j].event = "chunk"}}

\* The chunks so far are numbered 1 to n - 1.
IsNext(s, n) == ChunkNumbers(s) = 1 .. n - 1

Receive(r, e) ==
  /\ ~Closed(sent[r]) /\ ~gone[r]
  /\ sent' = [sent EXCEPT ![r] = Append(@, e)]
  /\ UNCHANGED <<hushed, gone>>

\* A response begins under an id no call has used.
Open(r) ==
  /\ ~hushed[r]
  /\ \E id \in ResponseIds :
       ~Used(id) /\ Receive(r, [event |-> "chunk_start", id |-> id])

\* A chunk belongs to the open response, and chunks come in order.
Chunk(r) ==
  /\ ~hushed[r]
  /\ \E id \in ResponseIds, n \in 1 .. Len(sent[r]) + 1 :
       /\ IsOpen(sent[r], id) /\ IsNext(sent[r], n)
       /\ Receive(r, [event |-> "chunk", id |-> id, chunk |-> n])

\* chunk_end names the latest response.  An action may end a response that it
\* has ended already or never began: the dispatcher does not object.
End(r) ==
  /\ ~hushed[r]
  /\ \E id \in ResponseIds \cup {0} :
       IsLatest(sent[r], id) /\ Receive(r, [event |-> "chunk_end", id |-> id])

\* One event closes the stream; the empty result only serves a barge-in.
Close(r) ==
  \E kind \in Closing :
    /\ kind = "empty_result" => hushed[r]
    /\ Receive(r, [event |-> kind])

BargeIn(r) ==
  /\ ~hushed[r] /\ ~Closed(sent[r])
  /\ hushed' = [hushed EXCEPT ![r] = TRUE]
  /\ UNCHANGED <<sent, gone>>

Leave(r) ==
  /\ gone' = [gone EXCEPT ![r] = TRUE]
  /\ UNCHANGED <<sent, hushed>>

Next ==
  \E r \in RPC :
    Open(r) \/ Chunk(r) \/ End(r) \/ Close(r) \/ BargeIn(r) \/ Leave(r)

Spec == Init /\ [][Next]_vars

=============================================================================
