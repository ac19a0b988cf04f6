--------------------------- MODULE WebhookStream ---------------------------
(***************************************************************************)
(* The streaming side of the action server: the WebhookStream and          *)
(* AckStreamChunks handlers of GRPCActionServerWebhook                     *)
(* (rasa_sdk/grpc_server.py) together with ActionExecutor.run              *)
(* (rasa_sdk/executor.py), which runs the custom action as a task of its   *)
(* own and feeds the sink the handler consumes.                            *)
(*                                                                         *)
(* Everything runs in one asyncio event loop, so a step is what happens    *)
(* between two suspension points.  Three kinds of coroutine interleave:    *)
(* for each call the handler and the action's task, and the barge-in       *)
(* acknowledgements, which reach a call through _dispatcher_registry.      *)
(***************************************************************************)
EXTENDS Dispatcher, FiniteSets

CONSTANTS
  RPC,      \* the WebhookStream calls
  MaxCalls  \* bound: how many streaming methods one action calls

ASSUME CallsAssumption == MaxCalls \in Nat

VARIABLES
  disp,      \* per call, its CollectingDispatcher and the content of its sink
  task,      \* per call, the state of run_task
  pc,        \* per call, where the handler is suspended
  rid,       \* per call, current_response_id
  graceful,  \* per call, graceful_cancel
  deadline,  \* per call, barge_in_deadline: unarmed, armed or passed
  ctx,       \* per call, whether the client is gone (see Disconnect)
  registry,  \* _dispatcher_registry: response id -> call
  issued,    \* how many response ids uuid4 has produced
  sent,      \* per call, what the client has been sent
  calls,     \* per call, how many streaming methods its action has called
  accepted,  \* per call, how many chunks its dispatcher did not drop
  acked,     \* history: the response ids whose ack reached a dispatcher
  revoked    \* history: those of them an explicit stream_start called off

actionVars  == <<calls, accepted>>
handlerVars == <<pc, rid, graceful, deadline, registry, issued, sent>>
history     == <<acked, revoked>>
vars == <<disp, task, ctx, actionVars, handlerVars, history>>

NoId == 0  \* current_response_id = ""

Finished == {"returned", "idled", "raised", "cancelled"}
Live     == {"get", "drain", "finally"}

TaskStates == {"none", "scheduled", "running", "cancelling"} \cup Finished
Places     == {"idle", "await", "reap", "done"} \cup Live

\* What the executor places in the sink last; `result` is FALSE for None.
DoneEvent(result) == [event |-> "stream_done", result |-> result]
ErrorEvent        == [event |-> "stream_error"]
Terminal(e)       == e.event \in {"stream_done", "stream_error"}

\* What the client is sent (WebhookStreamEvent).  "aborted" is the status the
\* client gets when the handler itself raises.
ChunkStart(id)  == [event |-> "chunk_start", id |-> id]
Chunk(id, c)    == [event |-> "chunk", id |-> id, chunk |-> c]
ChunkEnd(id)    == [event |-> "chunk_end", id |-> id]
FinalResult     == [event |-> "final_result"]
EmptyResult     == [event |-> "empty_result"]
StreamError     == [event |-> "error"]
Aborted         == [event |-> "aborted"]

SinkEvents ==
  StreamEvents(Nat) \cup [event : {"stream_done"}, result : BOOLEAN]
                    \cup [event : {"stream_error"}]

ClientEvents ==
  [event : {"chunk_start", "chunk_end"}, id : Nat]
    \cup [event : {"chunk"}, id : Nat, chunk : Nat]
    \cup [event : {"final_result", "empty_result", "error", "aborted"}]

\* Every variable keeps its type; in particular only protocol events are sent,
\* never the missing result of a call without an action (grpc_server.py:399-401).
TypeOK ==
  /\ disp \in [RPC -> Dispatchers(Nat, SinkEvents)]
  /\ sent \in [RPC -> Seq(ClientEvents)]
  /\ task \in [RPC -> TaskStates]
  /\ pc \in [RPC -> Places]
  /\ rid \in [RPC -> 0 .. issued]
  /\ graceful \in [RPC -> BOOLEAN]
  /\ deadline \in [RPC -> {"unarmed", "armed", "passed"}]
  /\ ctx \in [RPC -> {"open", "cancelled", "injected"}]
  /\ registry \in [DOMAIN registry -> RPC]
  /\ DOMAIN registry \subseteq 1 .. issued
  /\ issued \in Nat
  /\ calls \in [RPC -> 0 .. MaxCalls]
  /\ accepted \in [RPC -> Nat]
  /\ acked \subseteq 1 .. issued
  /\ revoked \subseteq acked

Init ==
  /\ disp = [r \in RPC |-> NewDispatcher]
  /\ task = [r \in RPC |-> "none"]
  /\ pc = [r \in RPC |-> "idle"]
  /\ rid = [r \in RPC |-> NoId]
  /\ graceful = [r \in RPC |-> FALSE]
  /\ deadline = [r \in RPC |-> "unarmed"]
  /\ ctx = [r \in RPC |-> "open"]
  /\ registry = [id \in {} |-> 0]
  /\ issued = 0
  /\ sent = [r \in RPC |-> <<>>]
  /\ calls = [r \in RPC |-> 0]
  /\ accepted = [r \in RPC |-> 0]
  /\ acked = {}
  /\ revoked = {}

-----------------------------------------------------------------------------
(* The client.                                                             *)

\* A call arrives: the sink and the dispatcher exist, run_task is scheduled.
BeginStream(r) ==
  /\ pc[r] = "idle"
  /\ pc' = [pc EXCEPT ![r] = "get"]
  /\ task' = [task EXCEPT ![r] = "scheduled"]
  /\ UNCHANGED <<disp, ctx, rid, graceful, deadline, registry, issued, sent,
                 actionVars, history>>

\* The client goes away.  From now on context.cancelled() is true; grpc.aio
\* injects a CancelledError into the handler a moment later (see Interrupt).
Disconnect(r) ==
  /\ pc[r] \notin {"idle", "done"}
  /\ ctx[r] = "open"
  /\ ctx' = [ctx EXCEPT ![r] = "cancelled"]
  /\ UNCHANGED <<disp, task, handlerVars, actionVars, history>>

\* AckStreamChunks: the user interrupted the response `id`.  An id that is no
\* longer registered is ignored.
AckStreamChunks(id) ==
  /\ IF id \in DOMAIN registry
       THEN /\ disp' = [disp EXCEPT ![registry[id]] = cancel_stream(@)]
            /\ acked' = acked \cup {id}
       ELSE UNCHANGED <<disp, acked>>
  /\ UNCHANGED <<task, ctx, handlerVars, actionVars, revoked>>

-----------------------------------------------------------------------------
(* The action's task: _run and ActionExecutor.run.                         *)

\* Mutant: _run leaves out the stream_done that executor.run did not place.
NoNextActionUnannounced(r) ==
  /\ task[r] = "scheduled"
  /\ task' = [task EXCEPT ![r] = "idled"]
  /\ UNCHANGED disp

\* The request names no action: executor.run returns None and _run closes.
NoNextAction(r) ==
  /\ task[r] = "scheduled"
  /\ disp' = [disp EXCEPT ![r] = Put(@, DoneEvent(FALSE))]
  /\ task' = [task EXCEPT ![r] = "idled"]

\* Unknown action, missing domain or malformed request.
LookupFails(r) ==
  /\ task[r] = "scheduled"
  /\ disp' = [disp EXCEPT ![r] = Put(@, ErrorEvent)]
  /\ task' = [task EXCEPT ![r] = "raised"]

\* The sink is attached and the action is entered.
ActionStarts(r) ==
  /\ task[r] = "scheduled"
  /\ disp' = [disp EXCEPT ![r].attached = TRUE]
  /\ task' = [task EXCEPT ![r] = "running"]

TaskStarts(r) ==
  /\ NoNextAction(r) \/ LookupFails(r) \/ ActionStarts(r)
  /\ UNCHANGED <<ctx, handlerVars, actionVars, history>>

\* Code of the action runs between its suspension points; also after a
\* CancelledError, in its exception handlers and finally blocks.
ActionRuns(r) ==
  /\ task[r] \in {"running", "cancelling"}
  /\ disp[r].attached

ActionCalls(r) ==
  /\ ActionRuns(r)
  /\ calls[r] < MaxCalls
  /\ calls' = [calls EXCEPT ![r] = @ + 1]
  /\ UNCHANGED <<task, ctx, handlerVars, acked>>

CallsStreamStart(r) ==
  /\ ActionCalls(r)
  /\ disp' = [disp EXCEPT ![r] = stream_start(@)]
  /\ revoked' = IF disp[r].cancelled THEN revoked \cup (acked \cap {rid[r]})
                                     ELSE revoked
  /\ UNCHANGED accepted

CallsStreamChunk(r) ==
  /\ ActionCalls(r)
  /\ disp' = [disp EXCEPT ![r] = stream_chunk(@, accepted[r] + 1)]
  /\ accepted' = IF disp[r].cancelled THEN accepted
                 ELSE [accepted EXCEPT ![r] = @ + 1]
  /\ UNCHANGED revoked

CallsStreamEnd(r) ==
  /\ ActionCalls(r)
  /\ disp' = [disp EXCEPT ![r] = stream_end(@)]
  /\ UNCHANGED <<accepted, revoked>>

\* The action returns: a stream left open is closed, stream_done follows.
ActionReturns(r) ==
  /\ ActionRuns(r)
  /\ disp' = [disp EXCEPT ![r] = Put(AutoClose(@), DoneEvent(TRUE))]
  /\ task' = [task EXCEPT ![r] = "returned"]
  /\ UNCHANGED <<ctx, handlerVars, actionVars, history>>

\* The action raises an Exception; its stream is left as it is.
ActionRaises(r) ==
  /\ ActionRuns(r)
  /\ disp' = [disp EXCEPT ![r] = Put(@, ErrorEvent)]
  /\ task' = [task EXCEPT ![r] = "raised"]
  /\ UNCHANGED <<ctx, handlerVars, actionVars, history>>

\* A CancelledError leaves the action, because the handler cancelled run_task
\* or because something the action awaited was cancelled.  It is no Exception:
\* neither executor.run nor _run places a terminal event.
TaskCancelled(r) ==
  /\ task[r] = "cancelling"
  /\ task' = [task EXCEPT ![r] = "cancelled"]
  /\ UNCHANGED <<disp, ctx, handlerVars, actionVars, history>>

ActionCancelsItself(r) ==
  /\ task[r] = "running"
  /\ task' = [task EXCEPT ![r] = "cancelled"]
  /\ UNCHANGED <<disp, ctx, handlerVars, actionVars, history>>

CancelTask(r) ==
  task' = IF task[r] \in Finished THEN task
          ELSE [task EXCEPT ![r] = "cancelling"]

-----------------------------------------------------------------------------
(* The consumer loop of WebhookStream.  A yield leaves pc as it is: until  *)
(* the client has taken the event the handler just does not move.          *)

NewResponseId(r) == issued + 1

\* Mutant: a registry entry is never removed.
KeepEntry(reg, id) == reg

Pop(reg, id) == [i \in DOMAIN reg \ {id} |-> reg[i]]

\* Mutant: the entry is made before current_response_id is set.
RegisterUnderOld(reg, id, r) ==
  [i \in DOMAIN reg \cup {rid[r]} |-> IF i = rid[r] THEN r ELSE reg[i]]

Register(reg, id, r) ==
  [i \in DOMAIN reg \cup {id} |-> IF i = id THEN r ELSE reg[i]]

\* Mutant: the missing result of a call without an action is sent all the same.
FinalEventsUnchecked(e) ==
  IF e.event = "stream_error" THEN <<StreamError>>
  ELSE IF e.result THEN <<FinalResult>> ELSE <<[event |-> "None"]>>

\* What a terminal event of the sink becomes.
FinalEvents(e) ==
  IF e.event = "stream_error" THEN <<StreamError>>
  ELSE IF e.result THEN <<FinalResult>> ELSE <<>>

Deliver(r, events) == sent' = [sent EXCEPT ![r] = @ \o events]

Consume(r) ==
  /\ disp[r].queue # <<>>
  /\ disp' = [disp EXCEPT ![r].queue = Tail(@)]

First(r) == Head(disp[r].queue)
Goto(r, label) == pc' = [pc EXCEPT ![r] = label]
Gone(r) == ctx[r] # "open"

\* Mutant: terminal events are not exempt from the cancellation guard.
GuardEverything(r) == disp[r].cancelled

\* The pre-yield guard for an acknowledged barge-in.
BargedIn(r) == ~Terminal(First(r)) /\ disp[r].cancelled

\* Mutant: the handler stops at once instead of draining.
StopOnBargeIn(r) ==
  /\ pc[r] = "get"
  /\ Consume(r)
  /\ BargedIn(r)
  /\ graceful' = [graceful EXCEPT ![r] = TRUE]
  /\ deadline' = [deadline EXCEPT ![r] = "armed"]
  /\ Goto(r, "finally")
  /\ UNCHANGED <<task, ctx, rid, registry, issued, sent, actionVars, history>>

\* The barge-in is noticed: the deadline is armed and the drain begins.
DetectBargeIn(r) ==
  /\ pc[r] = "get"
  /\ Consume(r)
  /\ BargedIn(r)
  /\ graceful' = [graceful EXCEPT ![r] = TRUE]
  /\ deadline' = [deadline EXCEPT ![r] = "armed"]
  /\ Goto(r, IF Gone(r) THEN "finally" ELSE "drain")
  /\ UNCHANGED <<task, ctx, rid, registry, issued, sent, actionVars, history>>

\* The client is gone and the event is not terminal: leave the loop.
DetectDisconnect(r) ==
  /\ pc[r] = "get"
  /\ Consume(r)
  /\ ~BargedIn(r) /\ ~Terminal(First(r)) /\ Gone(r)
  /\ Goto(r, "finally")
  /\ UNCHANGED <<task, ctx, rid, graceful, deadline, registry, issued, sent,
                 actionVars, history>>

\* An event of the response itself passes both guards.
Forward(r, event) ==
  /\ pc[r] = "get"
  /\ Consume(r)
  /\ First(r).event = event
  /\ ~BargedIn(r) /\ ~Gone(r)

\* stream_start: a fresh id replaces the old one in the registry.
ForwardStart(r) ==
  /\ Forward(r, "stream_start")
  /\ LET id == NewResponseId(r) IN
       /\ rid' = [rid EXCEPT ![r] = id]
       /\ registry' = Register(Pop(registry, rid[r]), id, r)
       /\ Deliver(r, <<ChunkStart(id)>>)
  /\ issued' = issued + 1
  /\ UNCHANGED <<task, pc, ctx, graceful, deadline, actionVars, history>>

ForwardChunk(r) ==
  /\ Forward(r, "stream_chunk")
  /\ Deliver(r, <<Chunk(rid[r], First(r).chunk)>>)
  /\ UNCHANGED <<task, pc, ctx, rid, graceful, deadline, registry, issued,
                 actionVars, history>>

\* The id leaves the registry but stays the handler's current one.
ForwardEnd(r) ==
  /\ Forward(r, "stream_end")
  /\ registry' = Pop(registry, rid[r])
  /\ Deliver(r, <<ChunkEnd(rid[r])>>)
  /\ UNCHANGED <<task, pc, ctx, rid, graceful, deadline, issued, actionVars,
                 history>>

\* stream_done and stream_error end the loop; a client that is gone gets nothing.
ForwardTerminal(r) ==
  /\ pc[r] = "get"
  /\ Consume(r)
  /\ ~BargedIn(r) /\ Terminal(First(r))
  /\ IF Gone(r) THEN UNCHANGED sent ELSE Deliver(r, FinalEvents(First(r)))
  /\ Goto(r, "finally")
  /\ UNCHANGED <<task, ctx, rid, graceful, deadline, registry, issued,
                 actionVars, history>>

\* The chunk or the result has no protobuf form: ParseDict raises and the
\* exception leaves the handler through its finally block.
EncodingFails(r) ==
  /\ pc[r] \in {"get", "drain"}
  /\ Consume(r)
  /\ ~Gone(r)
  /\ \/ First(r) = DoneEvent(TRUE) /\ (pc[r] = "drain" => deadline[r] # "passed")
     \/ First(r).event = "stream_chunk" /\ pc[r] = "get" /\ ~BargedIn(r)
  /\ Deliver(r, <<Aborted>>)
  /\ Goto(r, "finally")
  /\ UNCHANGED <<task, ctx, rid, graceful, deadline, registry, issued,
                 actionVars, history>>

Loop(r) ==
  \/ DetectBargeIn(r) \/ DetectDisconnect(r)
  \/ ForwardStart(r) \/ ForwardChunk(r) \/ ForwardEnd(r) \/ ForwardTerminal(r)
  \/ EncodingFails(r)

-----------------------------------------------------------------------------
(* After a barge-in: _drain_to_terminal.                                   *)

\* Mutant: chunks are still forwarded while draining.
DrainForwarding(r) ==
  /\ pc[r] = "drain"
  /\ deadline[r] # "passed"
  /\ Consume(r)
  /\ IF Gone(r) THEN Goto(r, "finally") /\ UNCHANGED sent
     ELSE IF Terminal(First(r))
       THEN Goto(r, "finally") /\ Deliver(r, FinalEvents(First(r)))
     ELSE IF First(r).event = "stream_chunk"
       THEN UNCHANGED pc /\ Deliver(r, <<Chunk(rid[r], First(r).chunk)>>)
     ELSE UNCHANGED <<pc, sent>>
  /\ UNCHANGED <<task, ctx, rid, graceful, deadline, registry, issued,
                 actionVars, history>>

\* One event is taken before the deadline: chunks are discarded, a terminal
\* event is sent, and the drain stops once the client is gone.
DrainEvent(r) ==
  /\ pc[r] = "drain"
  /\ deadline[r] # "passed"
  /\ Consume(r)
  /\ IF Terminal(First(r)) /\ ~Gone(r) THEN Deliver(r, FinalEvents(First(r)))
                                       ELSE UNCHANGED sent
  /\ IF Terminal(First(r)) \/ Gone(r) THEN Goto(r, "finally") ELSE UNCHANGED pc
  /\ UNCHANGED <<task, ctx, rid, graceful, deadline, registry, issued,
                 actionVars, history>>

\* Mutant: the empty result is sent without looking at the connection.
DrainTimeoutUnchecked(r) ==
  /\ pc[r] = "drain"
  /\ deadline[r] = "passed"
  /\ Deliver(r, <<EmptyResult>>)
  /\ Goto(r, "finally")
  /\ UNCHANGED <<disp, task, ctx, rid, graceful, deadline, registry, issued,
                 actionVars, history>>

\* Mutant: the drain waits without a timeout.
DrainForever(r) == FALSE /\ UNCHANGED vars

\* The deadline passes first: an empty result ends the stream.
DrainTimeout(r) ==
  /\ pc[r] = "drain"
  /\ deadline[r] = "passed"
  /\ IF Gone(r) THEN UNCHANGED sent ELSE Deliver(r, <<EmptyResult>>)
  /\ Goto(r, "finally")
  /\ UNCHANGED <<disp, task, ctx, rid, graceful, deadline, registry, issued,
                 actionVars, history>>

\* The clock reaches barge_in_deadline.
Expire(r) ==
  /\ deadline[r] = "armed"
  /\ deadline' = [deadline EXCEPT ![r] = "passed"]
  /\ UNCHANGED <<disp, task, ctx, pc, rid, graceful, registry, issued, sent,
                 actionVars, history>>

-----------------------------------------------------------------------------
(* The finally block and _await_barge_in_run_task.                         *)

\* Mutant: the task is cancelled but not awaited.
CancelWithoutAwait(r) ==
  /\ pc[r] = "finally"
  /\ registry' = Pop(registry, rid[r])
  /\ CancelTask(r)
  /\ Goto(r, "done")
  /\ UNCHANGED <<disp, ctx, rid, graceful, deadline, issued, sent, actionVars,
                 history>>

\* Mutant: the task is awaited but not cancelled.
AwaitWithoutCancel(r) ==
  /\ pc[r] = "finally"
  /\ registry' = Pop(registry, rid[r])
  /\ Goto(r, IF task[r] \in Finished THEN "done" ELSE "reap")
  /\ UNCHANGED <<disp, task, ctx, rid, graceful, deadline, issued, sent,
                 actionVars, history>>

\* The registry entry goes first.  A task still running is given the rest of
\* the barge-in window, or is cancelled.  (A step of its own because the loop
\* may have been left while the client was still taking the last event.)
Finally(r) ==
  /\ pc[r] = "finally"
  /\ registry' = Pop(registry, rid[r])
  /\ \/ /\ task[r] \in Finished
        /\ Goto(r, "done")
        /\ UNCHANGED task
     \/ /\ task[r] \notin Finished
        /\ graceful[r] /\ deadline[r] # "passed"
        /\ Goto(r, "await")
        /\ UNCHANGED task
     \/ /\ task[r] \notin Finished
        /\ ~(graceful[r] /\ deadline[r] # "passed")
        /\ Goto(r, "reap")
        /\ CancelTask(r)
  /\ UNCHANGED <<disp, ctx, rid, graceful, deadline, issued, sent, actionVars,
                 history>>

\* The window closes on a task that is still running.
AwaitTimeout(r) ==
  /\ pc[r] = "await"
  /\ deadline[r] = "passed"
  /\ CancelTask(r)
  /\ Goto(r, "reap")
  /\ UNCHANGED <<disp, ctx, rid, graceful, deadline, registry, issued, sent,
                 actionVars, history>>

\* The awaited task has ended, by itself or cancelled.
TaskAwaited(r) ==
  /\ pc[r] \in {"await", "reap"}
  /\ task[r] \in Finished
  /\ Goto(r, "done")
  /\ UNCHANGED <<disp, task, ctx, rid, graceful, deadline, registry, issued,
                 sent, actionVars, history>>

\* grpc.aio's CancelledError reaches the handler where it is suspended.  In the
\* await it cancels run_task; in the reap it cancels it once more.
Interrupt(r) ==
  /\ ctx[r] = "cancelled"
  /\ pc[r] \notin {"idle", "done"}
  /\ ctx' = [ctx EXCEPT ![r] = "injected"]
  /\ \/ pc[r] \in {"get", "drain"} /\ Goto(r, "finally") /\ UNCHANGED task
     \/ pc[r] \in {"finally", "reap"} /\ UNCHANGED <<pc, task>>
     \/ pc[r] = "await" /\ Goto(r, "reap") /\ CancelTask(r)
  /\ UNCHANGED <<disp, rid, graceful, deadline, registry, issued, sent,
                 actionVars, history>>

-----------------------------------------------------------------------------
Action(r) ==
  \/ CallsStreamStart(r) \/ CallsStreamChunk(r) \/ CallsStreamEnd(r)
  \/ ActionReturns(r) \/ ActionRaises(r) \/ ActionCancelsItself(r)

Handler(r) ==
  \/ Loop(r) \/ DrainEvent(r) \/ DrainTimeout(r)
  \/ Finally(r) \/ AwaitTimeout(r) \/ TaskAwaited(r)

\* Every call has been served; the server waits for calls beyond the bound.
AllServed == (\A r \in RPC : pc[r] = "done") /\ UNCHANGED vars

Next ==
  \/ \E r \in RPC :
       \/ BeginStream(r) \/ Disconnect(r) \/ Interrupt(r) \/ Expire(r)
       \/ TaskStarts(r) \/ Action(r) \/ TaskCancelled(r)
       \/ Handler(r)
  \/ \E id \in 1 .. issued : AckStreamChunks(id)
  \/ AllServed

Spec == Init /\ [][Next]_vars

\* The event loop runs whatever is ready, the clock advances, a CancelledError
\* is delivered and a cancelled task ends.  Nothing makes an action finish.
ServerFairness ==
  \A r \in RPC :
    /\ WF_vars(Handler(r)) /\ WF_vars(TaskStarts(r))
    /\ WF_vars(Expire(r)) /\ WF_vars(Interrupt(r)) /\ WF_vars(TaskCancelled(r))

ServerSpec == Spec /\ ServerFairness

-----------------------------------------------------------------------------
(* Safety.                                                                 *)

StartIds(s) == {s[i].id : i \in {j \in DOMAIN s : s[j].event = "chunk_start"}}

ChunkPositions(s) == {i \in DOMAIN s : s[i].event = "chunk"}

\* The chunks of `s` are numbered 1 to n, in this order.
InOrder(s, n) ==
  /\ {s[i].chunk : i \in ChunkPositions(s)} = 1 .. n
  /\ \A i, j \in ChunkPositions(s) : i < j => s[i].chunk < s[j].chunk

\* A registered id is the current response of the call it leads to, and that
\* call is still being served: an acknowledgement can never reach a response
\* that was replaced, a response that was ended or a call that is over
\* (grpc_server.py:369-377, 386, 416).
RegistryIsCurrent ==
  \A id \in DOMAIN registry :
    /\ rid[registry[id]] = id
    /\ pc[registry[id]] \in Live

\* When the handler has returned, whichever way the stream ended, no action is
\* left running behind it (grpc_server.py:414-425, 532-568).
NoOrphanTask == \A r \in RPC : pc[r] = "done" => task[r] \in Finished

\* A response that was announced, is not ended and is still being forwarded.
OpenResponse(r) ==
  /\ pc[r] = "get"
  /\ \E i \in DOMAIN sent[r] :
       /\ sent[r][i] = ChunkStart(rid[r])
       /\ \A j \in i + 1 .. Len(sent[r]) : sent[r][j].event = "chunk"

\* The user can interrupt whatever response is being streamed: as long as it is
\* open its id is registered and leads to its own call, however many other
\* calls come and go (grpc_server.py:369-391, 457).
OpenResponsesAreReachable ==
  \A r \in RPC :
    OpenResponse(r) => rid[r] \in DOMAIN registry /\ registry[rid[r]] = r

\* The client sees the chunks in the order the action produced them and without
\* a gap, and sees all of them when the call ends with the result outside a
\* barge-in (executor.py:253-264, grpc_server.py:331-405).
ChunksArriveInOrder ==
  \A r \in RPC :
    \E n \in 0 .. accepted[r] :
      /\ InOrder(sent[r], n)
      /\ (sent[r] # <<>> /\ sent[r][Len(sent[r])] = FinalResult /\ ~graceful[r])
           => n = accepted[r]

\* While the handler waits for the sink and the task has ended other than by
\* cancellation, the terminal event is still in the sink: neither the loop nor
\* the drain can wait for a terminal event that has been consumed already
\* (grpc_server.py:335-340).
TerminalEventPending ==
  \A r \in RPC :
    (pc[r] \in {"get", "drain"} /\ task[r] \in Finished \ {"cancelled"})
      => \E i \in DOMAIN disp[r].queue : Terminal(disp[r].queue[i])

\* An action that returned has its result delivered, barge-in or not, unless
\* the client left, the barge-in window closed or the result cannot be encoded
\* (grpc_server.py:343-361, 392-405, 511-514).
ResultReachesClient ==
  \A r \in RPC :
    (pc[r] = "done" /\ task[r] = "returned" /\ ctx[r] = "open"
       /\ deadline[r] # "passed")
      => /\ sent[r] # <<>>
         /\ sent[r][Len(sent[r])] \in {FinalResult, Aborted}

\* Nothing is sent on a call whose client is gone, in the loop, in the drain or
\* at the deadline (grpc_server.py:362, 398, 408, 493, 509, 526).
SilentAfterDisconnect ==
  [][\A r \in RPC : Gone(r) => sent'[r] = sent[r]]_vars

LastSent(r) == sent'[r][Len(sent'[r])]

\* After an acknowledgement that reached its call, nothing more of that
\* response is sent, unless the action itself called stream_start again before
\* the handler noticed (executor.py:176, grpc_server.py:335-361).
BargeInSilencesResponse ==
  [][\A r \in RPC :
       (sent'[r] # sent[r] /\ LastSent(r).event \in {"chunk", "chunk_end"})
         => LastSent(r).id \notin acked \ revoked]_vars

\* The promise without the exception: AckStreamChunks "stop[s] the action from
\* producing further chunks" (grpc_server.py:442-446, changelog/1320.feature.md:7).
AckStopsChunks ==
  [][\A r \in RPC :
       (sent'[r] # sent[r] /\ LastSent(r).event = "chunk")
         => LastSent(r).id \notin acked]_vars

\* "Guarantees the consumer loop receives either stream_done or stream_error"
\* (_run, grpc_server.py:291-296): a handler in its loop whose task has ended
\* finds a terminal event in the sink.
TerminalEventGuaranteed ==
  \A r \in RPC :
    (pc[r] = "get" /\ task[r] \in Finished)
      => \E i \in DOMAIN disp[r].queue : Terminal(disp[r].queue[i])

-----------------------------------------------------------------------------
(* Liveness.                                                               *)

\* Once a barge-in has been noticed the call ends, whatever the action does:
\* the drain and the await are both bounded (grpc_server.py:496-503, 538-549).
BargeInIsBounded == \A r \in RPC : graceful[r] ~> pc[r] = "done"

\* A client that leaves frees the call and its task, even when the action hangs
\* (grpc_server.py:362-367, 414-425).
DisconnectFreesCall == \A r \in RPC : Gone(r) ~> pc[r] = "done"

\* Nothing will ever be put in the sink again and the loop is waiting for it.
Starved(r) ==
  pc[r] = "get" /\ task[r] = "cancelled" /\ disp[r].queue = <<>>

\* Actions that return or raise sooner or later.
ActionsFinish == \A r \in RPC : WF_vars(ActionReturns(r) \/ ActionRaises(r))

\* With actions that finish, every call ends, except where the action ended in
\* a CancelledError of its own (grpc_server.py:290-332).
CallsEnd ==
  ActionsFinish => \A r \in RPC : pc[r] = "get" ~> (pc[r] = "done" \/ Starved(r))

\* "... the task is cancelled so a hung action cannot block the stream
\* indefinitely" (changelog/1320.feature.md:16): a call with a response that was
\* acknowledged, and not reopened by the action, ends.
AckedCallsEnd ==
  \A r \in RPC :
    StartIds(sent[r]) \cap (acked \ revoked) # {}
      ~> (pc[r] = "done" \/ Starved(r))

=============================================================================
