----------------------------- MODULE ActionCall -----------------------------
(***************************************************************************)
(* One action call as each transport answers it: the HTTP route /webhook   *)
(* (rasa_sdk/endpoint.py), the unary RPC Webhook and the streaming RPC     *)
(* WebhookStream (rasa_sdk/grpc_server.py), over ActionExecutor.run        *)
(* (rasa_sdk/executor.py).                                                 *)
(*                                                                         *)
(* The same request and the same action are run on all transports in       *)
(* lockstep, so that their answers can be compared.  The executor knows    *)
(* two paths only: without a sink, which HTTP and the unary RPC share, and *)
(* with one.  Barge-ins, disconnects and time-outs of the stream are the   *)
(* subject of WebhookStream; here its handler forwards the sink as it is.  *)
(***************************************************************************)
EXTENDS Dispatcher

CONSTANTS
  MaxSaid,    \* bound: calls an action makes on its dispatcher
  MaxEvents   \* bound: events an action returns

ASSUME BoundsAssumption == MaxSaid \in Nat /\ MaxEvents \in Nat

Paths == {"unary", "stream"}

Transports == {"http", "grpc", "stream"}

PathOf(t) == IF t = "stream" THEN "stream" ELSE "unary"

\* A request: whether it names an action the executor has, carries a tracker
\* and leaves the executor with a domain; whether the tracker's latest_message
\* is null, which only JSON can say; and how an HTTP client encoded the body.
Requests ==
  [action : {"registered", "unregistered", "none"}, tracker : BOOLEAN,
   domain : BOOLEAN, message : {"dict", "null"}, body : {"json", "deflate"}]

\* What an action returns in its list: an event of rasa_sdk.events or one of
\* rasa.core.events, such an event with a value JSON cannot represent, a dict
\* without `event`, and anything else.
EventKinds == {"event", "opaque", "untyped", "foreign"}

EventLists == UNION {[1 .. n -> EventKinds] : n \in 0 .. MaxEvents}

\* What the action says: complete messages and chunks, numbered in order.
Payloads == [kind : {"message", "chunk"}, n : 1 .. MaxSaid]

DoneEvent  == [event |-> "stream_done"]
ErrorEvent == [event |-> "stream_error"]

SinkEvents == StreamEvents(Payloads) \cup {DoneEvent, ErrorEvent}

\* How run ended, as the code that called it sees it.
Refusals == {"rejected", "not_found", "missing_domain"}
Outcomes == {"pending", "ok", "nothing", "failed"} \cup Refusals

\* An answer: its status, what it says of an error's origin, the events and
\* the messages it carries.
Statuses == {"none", "200", "400", "404", "449", "500",
             "OK", "INTERNAL", "NOT_FOUND", "UNKNOWN"}
Details  == {"none", "action", "resource ACTION", "resource DOMAIN", "text", "body"}

NoAnswer == [status |-> "none", detail |-> "none",
             events |-> <<>>, messages |-> <<>>]

Answer(status, detail) ==
  [NoAnswer EXCEPT !.status = status, !.detail = detail]

VARIABLES
  call,    \* the request
  phase,   \* "received", "running" or "over"
  made,    \* number of calls the action has made on its dispatcher
  said,    \* history: what it has said
  disp,    \* per path, its CollectingDispatcher and the sink
  lost,    \* history: chunks a second stream_start has thrown away
  outcome, \* how run ended
  events,  \* the validated events of the result
  answer   \* per transport, the answer

callVars == <<call, phase, made, said, disp, lost, outcome, events, answer>>

CallInit ==
  /\ call \in Requests
  /\ phase = "received"
  /\ made = 0
  /\ said = {}
  /\ disp = [p \in Paths |-> NewDispatcher]
  /\ lost = {}
  /\ outcome = "pending"
  /\ events = <<>>
  /\ answer = [t \in Transports |-> NoAnswer]

CallTypeOK ==
  /\ call \in Requests
  /\ phase \in {"received", "running", "over"}
  /\ made \in 0 .. MaxSaid
  /\ said \in SUBSET Payloads
  /\ disp \in [Paths -> Dispatchers(Payloads, SinkEvents)]
  /\ lost \in SUBSET Payloads
  /\ outcome \in Outcomes
  /\ events \in Seq(EventKinds)
  /\ answer \in [Transports -> [status : Statuses, detail : Details,
                                events : Seq(EventKinds),
                                messages : Seq(Payloads)]]

-----------------------------------------------------------------------------
(* ActionExecutor.run.                                                     *)

\* run tries these in order: the action's name, the action, the tracker's
\* key, the domain.
NotRunnable(c) ==
  \/ c.action # "registered"
  \/ ~c.tracker
  \/ ~c.domain

Refusal(c) ==
  CASE c.action = "none" -> "nothing"
    [] c.action = "unregistered" -> "not_found"
    [] c.action = "registered" /\ ~c.tracker -> "failed"
    [] OTHER -> "missing_domain"

\* The end of run on both paths: the sink gets its last item.
EndRun(ds, result, last) ==
  /\ phase' = "over"
  /\ outcome' = result
  /\ disp' = [ds EXCEPT !["stream"] = Put(@, last)]

\* No action is called.  Without a name run returns None and the stream's
\* task places stream_done itself.
Refuse ==
  /\ phase = "received" /\ NotRunnable(call)
  /\ EndRun(disp, Refusal(call),
            IF Refusal(call) = "nothing" THEN DoneEvent ELSE ErrorEvent)
  /\ UNCHANGED <<call, made, said, lost, events, answer>>

Run ==
  /\ phase = "received" /\ ~NotRunnable(call)
  /\ phase' = "running"
  /\ disp' = [disp EXCEPT !["stream"].attached = TRUE]
  /\ UNCHANGED <<call, made, said, lost, outcome, events, answer>>

\* The action's code calls its dispatcher, any method at any time.
Speaks ==
  /\ phase = "running" /\ made < MaxSaid
  /\ made' = made + 1
  /\ UNCHANGED <<call, phase, outcome, events, answer>>

Payload(kind) == [kind |-> kind, n |-> made + 1]

UtterMessage ==
  /\ Speaks
  /\ said' = said \cup {Payload("message")}
  /\ disp' = [p \in Paths |-> utter_message(disp[p], Payload("message"))]
  /\ UNCHANGED lost

Values(s) == {s[i] : i \in DOMAIN s}

StreamStart ==
  /\ Speaks
  /\ disp' = [p \in Paths |-> stream_start(disp[p])]
  /\ lost' = lost \cup Values(disp["unary"].accumulated)
  /\ UNCHANGED said

StreamChunk ==
  /\ Speaks
  /\ said' = said \cup {Payload("chunk")}
  /\ disp' = [p \in Paths |-> stream_chunk(disp[p], Payload("chunk"))]
  /\ UNCHANGED lost

StreamEnd ==
  /\ Speaks
  /\ disp' = [p \in Paths |-> stream_end(disp[p])]
  /\ UNCHANGED <<said, lost>>

\* SelectSeq, for membership in S, in a form that the provers can expand.
Filter(s, S) ==
  LET f[n \in 0 .. Len(s)] ==
        IF n = 0 THEN <<>>
        ELSE IF s[n] \in S THEN Append(f[n - 1], s[n]) ELSE f[n - 1]
  IN f[Len(s)]

\* Events that are no dicts or have no type are left out.
validate_events(es) == Filter(es, {"event", "opaque"})

\* Mutant: a stream that was left open is not closed.
ReturnLeavingStreamOpen(es) ==
  /\ phase = "running"
  /\ EndRun(disp, "ok", DoneEvent)
  /\ events' = validate_events(es)
  /\ UNCHANGED <<call, made, said, lost, answer>>

\* Mutant: the stream is closed after the result has been placed.
ReturnThenClose(es) ==
  /\ phase = "running" /\ phase' = "over" /\ outcome' = "ok"
  /\ disp' = [p \in Paths |->
                AutoClose(IF p = "stream" THEN Put(disp[p], DoneEvent)
                          ELSE disp[p])]
  /\ events' = validate_events(es)
  /\ UNCHANGED <<call, made, said, lost, answer>>

\* The action returns its events (None counts as no events); a stream it has
\* left open is closed before the result is placed.
Return(es) ==
  /\ phase = "running"
  /\ EndRun([p \in Paths |-> AutoClose(disp[p])], "ok", DoneEvent)
  /\ events' = validate_events(es)
  /\ UNCHANGED <<call, made, said, lost, answer>>

\* What it returns cannot be iterated over: the stream is closed all the same.
ReturnNoList ==
  /\ phase = "running"
  /\ EndRun([p \in Paths |-> AutoClose(disp[p])], "failed", ErrorEvent)
  /\ UNCHANGED <<call, made, said, lost, events, answer>>

\* The action raises ActionExecutionRejection or another exception.
Raise(result) ==
  /\ phase = "running"
  /\ EndRun(disp, result, ErrorEvent)
  /\ UNCHANGED <<call, made, said, lost, events, answer>>

Calling == UtterMessage \/ StreamStart \/ StreamChunk \/ StreamEnd

Returning == (\E es \in EventLists : Return(es)) \/ ReturnNoList

Raising == \E result \in {"rejected", "failed"} : Raise(result)

-----------------------------------------------------------------------------
(* The transports.                                                         *)

Answering(t, a) ==
  /\ phase = "over" /\ answer[t] = NoAnswer
  /\ answer' = [answer EXCEPT ![t] = a]
  /\ UNCHANGED <<call, phase, made, said, disp, lost, outcome, events>>

HasResult == outcome \in {"ok", "nothing"}

\* A result that cannot be turned into JSON or into protobuf messages.
Unencodable == "opaque" \in Values(events)

\* The attributes of the request's span are computed, traced or not:
\* set_span_attributes calls latest_message.get.
AttributesFail(c) == c.tracker /\ c.message = "null"

Result(t, status) ==
  [status |-> status, detail |-> "none", events |-> events,
   messages |-> disp[PathOf(t)].messages]

HttpResult ==
  /\ HasResult /\ ~AttributesFail(call) /\ ~Unencodable
  /\ Answering("http", Result("http", "200"))

HttpStatus ==
  [rejected |-> "400", not_found |-> "404", missing_domain |-> "449"]

HttpRefusal ==
  /\ outcome \in Refusals
  /\ Answering("http", Answer(HttpStatus[outcome], "action"))

\* exception_handler repeats the request's JSON.  When the body was compressed
\* request.json raises in turn, and Sanic answers with that error's status.
HttpException ==
  /\ \/ outcome = "failed"
     \/ HasResult /\ (AttributesFail(call) \/ Unencodable)
  /\ Answering("http", IF call.body = "json" THEN Answer("500", "text")
                       ELSE Answer("400", "body"))

GrpcResult ==
  /\ HasResult /\ ~Unencodable
  /\ Answering("grpc", Result("grpc", "OK"))

GrpcStatus == [rejected |-> "INTERNAL", not_found |-> "NOT_FOUND",
               missing_domain |-> "NOT_FOUND"]

\* Mutant: both resources are reported as an action.
DetailNamesAction == [rejected |-> "action", not_found |-> "resource ACTION",
                      missing_domain |-> "resource ACTION"]

GrpcDetail == [rejected |-> "action", not_found |-> "resource ACTION",
               missing_domain |-> "resource DOMAIN"]

GrpcRefusal ==
  /\ outcome \in Refusals
  /\ Answering("grpc", Answer(GrpcStatus[outcome], GrpcDetail[outcome]))

\* No handler: grpc.aio answers UNKNOWN with the exception's text.
GrpcException ==
  /\ \/ outcome = "failed"
     \/ HasResult /\ Unencodable
  /\ Answering("grpc", Answer("UNKNOWN", "text"))

\* final_result, or no event at all when there is no result.
StreamResult ==
  /\ HasResult /\ ~Unencodable
  /\ Answering("stream", Result("stream", "OK"))

\* An error event with the status and detail of the unary RPC, or INTERNAL.
StreamError ==
  /\ outcome \in Refusals \cup {"failed"}
  /\ Answering("stream",
               IF outcome = "failed" THEN Answer("INTERNAL", "text")
               ELSE Answer(GrpcStatus[outcome], GrpcDetail[outcome]))

StreamAborts ==
  /\ HasResult /\ Unencodable
  /\ Answering("stream", Answer("UNKNOWN", "text"))

Reply ==
  \/ HttpResult \/ HttpRefusal \/ HttpException
  \/ GrpcResult \/ GrpcRefusal \/ GrpcException
  \/ StreamResult \/ StreamError \/ StreamAborts

=============================================================================
