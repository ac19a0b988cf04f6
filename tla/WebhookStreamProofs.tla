------------------------ MODULE WebhookStreamProofs ------------------------
(***************************************************************************)
(* Proofs about WebhookStream, for every set of calls and every bound on   *)
(* what their actions do.                                                  *)
(***************************************************************************)
EXTENDS MCWebhookStream, DispatcherProofs, FiniteSetTheorems, FunctionTheorems

-----------------------------------------------------------------------------
(* Types.                                                                  *)

\* The stream events of the dispatcher are among those the sink may hold.
LEMMA StreamEventsInSink == StreamEvents(Nat) \subseteq SinkEvents
BY DEF SinkEvents

\* So are the terminal events.
LEMMA TerminalEventsInSink ==
  /\ \A b \in BOOLEAN : DoneEvent(b) \in SinkEvents
  /\ ErrorEvent \in SinkEvents
BY DEF SinkEvents, DoneEvent, ErrorEvent

\* Replacing the dispatcher of one call keeps the type of disp.
LEMMA DispUpdate ==
  ASSUME TypeOK, NEW r \in RPC, NEW d \in Dispatchers(Nat, SinkEvents),
         disp' = [disp EXCEPT ![r] = d]
  PROVE  disp' \in [RPC -> Dispatchers(Nat, SinkEvents)]
BY DEF TypeOK

\* Taking the first event of a sink keeps the type of disp.
LEMMA ConsumeType ==
  ASSUME TypeOK, NEW r \in RPC, Consume(r)
  PROVE  /\ disp' \in [RPC -> Dispatchers(Nat, SinkEvents)]
         /\ First(r) \in SinkEvents
<1>1. disp[r] \in Dispatchers(Nat, SinkEvents)
  BY DEF TypeOK
<1>2. disp[r].queue \in Seq(SinkEvents) /\ disp[r].queue # <<>>
  BY <1>1 DEF Dispatchers, Consume
<1>3. Tail(disp[r].queue) \in Seq(SinkEvents) /\ First(r) \in SinkEvents
  BY <1>2 DEF First
<1>4. [disp[r] EXCEPT !.queue = Tail(@)] \in Dispatchers(Nat, SinkEvents)
  BY <1>1, <1>3 DEF Dispatchers
<1> QED
  BY <1>3, <1>4, DispUpdate DEF Consume, TypeOK

\* Sending events of the protocol keeps the type of sent.
LEMMA DeliverType ==
  ASSUME TypeOK, NEW r \in RPC, NEW events \in Seq(ClientEvents),
         Deliver(r, events)
  PROVE  sent' \in [RPC -> Seq(ClientEvents)]
<1>1. sent[r] \o events \in Seq(ClientEvents)
  BY DEF TypeOK
<1> QED
  BY <1>1 DEF TypeOK, Deliver

\* What a terminal event becomes is of the protocol.
LEMMA FinalEventsType ==
  ASSUME NEW e \in SinkEvents, Terminal(e)
  PROVE  FinalEvents(e) \in Seq(ClientEvents)
<1>1. StreamError \in ClientEvents /\ FinalResult \in ClientEvents
  BY DEF StreamError, FinalResult, ClientEvents
<1>2. <<StreamError>> \in Seq(ClientEvents) /\ <<FinalResult>> \in Seq(ClientEvents)
  BY <1>1
<1> QED
  BY <1>2, <<>> \in Seq(ClientEvents) DEF FinalEvents

\* A registry without an entry, and with a new one, is a registry.
LEMMA RegistryType ==
  ASSUME TypeOK, NEW id, NEW r \in RPC, NEW new
  PROVE  /\ Pop(registry, id) \in [DOMAIN Pop(registry, id) -> RPC]
         /\ DOMAIN Pop(registry, id) \subseteq DOMAIN registry
         /\ Register(Pop(registry, id), new, r)
              \in [DOMAIN Register(Pop(registry, id), new, r) -> RPC]
         /\ DOMAIN Register(Pop(registry, id), new, r)
              \subseteq DOMAIN registry \cup {new}
<1>1. \A i \in DOMAIN registry : registry[i] \in RPC
  BY DEF TypeOK
<1> QED
  BY <1>1 DEF Pop, Register

\* Moving the handler keeps it in one of its places.
LEMMA GotoType ==
  ASSUME TypeOK, NEW r \in RPC, NEW label \in Places, Goto(r, label)
  PROVE  pc' \in [RPC -> Places]
BY DEF TypeOK, Goto

\* Moving a task on, and cancelling it, keeps it in one of its states.
LEMMA TaskType ==
  ASSUME TypeOK, NEW r \in RPC, NEW state \in TaskStates,
         task' = [task EXCEPT ![r] = state]
  PROVE  task' \in [RPC -> TaskStates]
BY DEF TypeOK

\* See TaskType.
LEMMA CancelTaskType ==
  ASSUME TypeOK, NEW r \in RPC, CancelTask(r)
  PROVE  task' \in [RPC -> TaskStates]
BY DEF TypeOK, CancelTask, TaskStates

\* The labels and the states the actions use.
LEMMA Labels ==
  /\ "get" \in Places /\ "drain" \in Places /\ "finally" \in Places
  /\ "await" \in Places /\ "reap" \in Places /\ "done" \in Places
  /\ "scheduled" \in TaskStates /\ "running" \in TaskStates
  /\ "returned" \in TaskStates /\ "idled" \in TaskStates
  /\ "raised" \in TaskStates /\ "cancelled" \in TaskStates
BY DEF Places, Live, TaskStates, Finished

-----------------------------------------------------------------------------
\* Every step of the program keeps the types.
LEMMA TypeStep == TypeOK /\ [Next]_vars => TypeOK'
<1> SUFFICES ASSUME TypeOK, [Next]_vars PROVE TypeOK'
  OBVIOUS
<1> USE Labels
<1>1. ASSUME NEW r \in RPC, BeginStream(r) PROVE TypeOK'
  BY <1>1 DEF TypeOK, BeginStream, actionVars, history
<1>2. ASSUME NEW r \in RPC, Disconnect(r) PROVE TypeOK'
  BY <1>2 DEF TypeOK, Disconnect, handlerVars, actionVars, history
<1>3. ASSUME NEW r \in RPC, Interrupt(r) PROVE TypeOK'
  <2>1. pc' \in [RPC -> Places]
    BY <1>3, GotoType DEF Interrupt, TypeOK
  <2>2. task' \in [RPC -> TaskStates]
    BY <1>3, CancelTaskType DEF Interrupt, TypeOK
  <2> QED
    BY <1>3, <2>1, <2>2 DEF TypeOK, Interrupt, actionVars, history
<1>4. ASSUME NEW r \in RPC, Expire(r) PROVE TypeOK'
  BY <1>4 DEF TypeOK, Expire, actionVars, history
<1>5. ASSUME NEW r \in RPC, TaskStarts(r) PROVE TypeOK'
  <2>1. disp' \in [RPC -> Dispatchers(Nat, SinkEvents)]
    <3>1. disp[r] \in Dispatchers(Nat, SinkEvents)
      BY DEF TypeOK
    <3>2. /\ Put(disp[r], DoneEvent(FALSE)) \in Dispatchers(Nat, SinkEvents)
          /\ Put(disp[r], ErrorEvent) \in Dispatchers(Nat, SinkEvents)
      BY <3>1, PutType, TerminalEventsInSink
    <3>3. [disp[r] EXCEPT !.attached = TRUE] \in Dispatchers(Nat, SinkEvents)
      BY <3>1 DEF Dispatchers
    <3>4. CASE NoNextAction(r)
      BY <3>2, <3>4, DispUpdate DEF NoNextAction
    <3>5. CASE LookupFails(r)
      BY <3>2, <3>5, DispUpdate DEF LookupFails
    <3>6. CASE ActionStarts(r)
      BY <3>3, <3>6 DEF ActionStarts, TypeOK
    <3> QED
      BY <1>5, <3>4, <3>5, <3>6 DEF TaskStarts
  <2>2. task' \in [RPC -> TaskStates]
    BY <1>5, TaskType DEF TaskStarts, NoNextAction, LookupFails, ActionStarts
  <2> QED
    BY <1>5, <2>1, <2>2 DEF TypeOK, TaskStarts, handlerVars, actionVars, history
<1>6. ASSUME NEW r \in RPC, Action(r) PROVE TypeOK'
  <2>1. disp[r] \in Dispatchers(Nat, SinkEvents) /\ accepted[r] + 1 \in Nat
    BY DEF TypeOK
  <2>2. ASSUME ActionCalls(r) PROVE calls' \in [RPC -> 0 .. MaxCalls]
    BY <2>2, CallsAssumption DEF TypeOK, ActionCalls
  <2>3. CASE CallsStreamStart(r)
    <3>1. stream_start(disp[r]) \in Dispatchers(Nat, SinkEvents)
      BY <2>1, StartType, StreamEventsInSink
    <3>2. disp' \in [RPC -> Dispatchers(Nat, SinkEvents)]
      BY <2>3, <3>1, DispUpdate DEF CallsStreamStart
    <3> QED
      BY <2>2, <2>3, <3>2 DEF TypeOK, CallsStreamStart, ActionCalls, handlerVars
  <2>4. CASE CallsStreamChunk(r)
    <3>1. stream_chunk(disp[r], accepted[r] + 1) \in Dispatchers(Nat, SinkEvents)
      BY <2>1, ChunkType, StreamEventsInSink
    <3>2. disp' \in [RPC -> Dispatchers(Nat, SinkEvents)]
      BY <2>4, <3>1, DispUpdate DEF CallsStreamChunk
    <3> QED
      BY <2>2, <2>4, <3>2 DEF TypeOK, CallsStreamChunk, ActionCalls, handlerVars
  <2>5. CASE CallsStreamEnd(r)
    <3>1. stream_end(disp[r]) \in Dispatchers(Nat, SinkEvents)
      BY <2>1, EndType, StreamEventsInSink
    <3>2. disp' \in [RPC -> Dispatchers(Nat, SinkEvents)]
      BY <2>5, <3>1, DispUpdate DEF CallsStreamEnd
    <3> QED
      BY <2>2, <2>5, <3>2 DEF TypeOK, CallsStreamEnd, ActionCalls, handlerVars
  <2>6. CASE ActionReturns(r)
    <3>1. Put(AutoClose(disp[r]), DoneEvent(TRUE)) \in Dispatchers(Nat, SinkEvents)
      BY <2>1, AutoCloseType, PutType, StreamEventsInSink, TerminalEventsInSink
    <3>2. disp' \in [RPC -> Dispatchers(Nat, SinkEvents)]
      BY <2>6, <3>1, DispUpdate DEF ActionReturns
    <3> QED
      BY <2>6, <3>2 DEF TypeOK, ActionReturns, handlerVars, actionVars, history
  <2>7. CASE ActionRaises(r)
    <3>1. Put(disp[r], ErrorEvent) \in Dispatchers(Nat, SinkEvents)
      BY <2>1, PutType, TerminalEventsInSink
    <3>2. disp' \in [RPC -> Dispatchers(Nat, SinkEvents)]
      BY <2>7, <3>1, DispUpdate DEF ActionRaises
    <3> QED
      BY <2>7, <3>2 DEF TypeOK, ActionRaises, handlerVars, actionVars, history
  <2>8. CASE ActionCancelsItself(r)
    BY <2>8 DEF TypeOK, ActionCancelsItself, handlerVars, actionVars, history
  <2> QED
    BY <1>6, <2>3, <2>4, <2>5, <2>6, <2>7, <2>8 DEF Action
<1>7. ASSUME NEW r \in RPC, TaskCancelled(r) PROVE TypeOK'
  BY <1>7 DEF TypeOK, TaskCancelled, handlerVars, actionVars, history
<1>8. ASSUME NEW r \in RPC, Loop(r) PROVE TypeOK'
  <2>1. Consume(r)
    BY <1>8 DEF Loop, DetectBargeIn, DetectDisconnect, ForwardStart, ForwardChunk,
                ForwardEnd, ForwardTerminal, EncodingFails, Forward
  <2>2. /\ disp' \in [RPC -> Dispatchers(Nat, SinkEvents)]
        /\ First(r) \in SinkEvents
    BY <2>1, ConsumeType
  <2>3. CASE DetectBargeIn(r)
    BY <2>2, <2>3 DEF TypeOK, DetectBargeIn, Goto, actionVars, history
  <2>4. CASE DetectDisconnect(r)
    BY <2>2, <2>4 DEF TypeOK, DetectDisconnect, Goto, actionVars, history
  <2>5. CASE ForwardStart(r)
    <3>1. issued + 1 \in Nat /\ issued + 1 \in 1 .. issued'
          /\ 1 .. issued \subseteq 1 .. issued' /\ 0 .. issued \subseteq 0 .. issued'
      BY <2>5 DEF TypeOK, ForwardStart
    <3>2. sent' \in [RPC -> Seq(ClientEvents)]
      <4>1. <<ChunkStart(issued + 1)>> \in Seq(ClientEvents)
        BY <3>1 DEF ChunkStart, ClientEvents
      <4> QED
        BY <2>5, <4>1, DeliverType DEF ForwardStart, NewResponseId
    <3>3. rid' \in [RPC -> 0 .. issued']
      BY <2>5, <3>1 DEF TypeOK, ForwardStart, NewResponseId
    <3>4. registry' \in [DOMAIN registry' -> RPC] /\ DOMAIN registry' \subseteq 1 .. issued'
      <4>1. registry' = Register(Pop(registry, rid[r]), issued + 1, r)
        BY <2>5 DEF ForwardStart, NewResponseId
      <4> QED
        BY <3>1, <4>1, RegistryType DEF TypeOK
    <3>5. acked' \subseteq 1 .. issued' /\ revoked' \subseteq acked'
      BY <2>5, <3>1 DEF TypeOK, ForwardStart, history
    <3> QED
      BY <2>2, <2>5, <3>1, <3>2, <3>3, <3>4, <3>5 DEF TypeOK, ForwardStart, actionVars
  <2>6. CASE ForwardChunk(r)
    <3>1. First(r).chunk \in Nat /\ rid[r] \in Nat
      BY <2>2, <2>6 DEF ForwardChunk, Forward, SinkEvents, StreamEvents, TypeOK
    <3>2. <<Chunk(rid[r], First(r).chunk)>> \in Seq(ClientEvents)
      BY <3>1 DEF Chunk, ClientEvents
    <3>3. sent' \in [RPC -> Seq(ClientEvents)]
      BY <2>6, <3>2, DeliverType DEF ForwardChunk
    <3> QED
      BY <2>2, <2>6, <3>3 DEF TypeOK, ForwardChunk, actionVars, history
  <2>7. CASE ForwardEnd(r)
    <3>1. <<ChunkEnd(rid[r])>> \in Seq(ClientEvents)
      BY DEF ChunkEnd, ClientEvents, TypeOK
    <3>2. sent' \in [RPC -> Seq(ClientEvents)]
      BY <2>7, <3>1, DeliverType DEF ForwardEnd
    <3>3. registry' \in [DOMAIN registry' -> RPC] /\ DOMAIN registry' \subseteq 1 .. issued
      BY <2>7, RegistryType DEF ForwardEnd, TypeOK
    <3> QED
      BY <2>2, <2>7, <3>2, <3>3 DEF TypeOK, ForwardEnd, actionVars, history
  <2>8. CASE ForwardTerminal(r)
    <3>1. sent' \in [RPC -> Seq(ClientEvents)]
      BY <2>2, <2>8, FinalEventsType, DeliverType DEF ForwardTerminal, TypeOK
    <3> QED
      BY <2>2, <2>8, <3>1 DEF TypeOK, ForwardTerminal, Goto, actionVars, history
  <2>9. CASE EncodingFails(r)
    <3>1. <<Aborted>> \in Seq(ClientEvents)
      BY DEF Aborted, ClientEvents
    <3>2. sent' \in [RPC -> Seq(ClientEvents)]
      BY <2>9, <3>1, DeliverType DEF EncodingFails
    <3> QED
      BY <2>2, <2>9, <3>2 DEF TypeOK, EncodingFails, Goto, actionVars, history
  <2> QED
    BY <1>8, <2>3, <2>4, <2>5, <2>6, <2>7, <2>8, <2>9 DEF Loop
<1>9. ASSUME NEW r \in RPC, DrainEvent(r) PROVE TypeOK'
  <2>1. /\ disp' \in [RPC -> Dispatchers(Nat, SinkEvents)]
        /\ First(r) \in SinkEvents
    BY <1>9, ConsumeType DEF DrainEvent
  <2>2. sent' \in [RPC -> Seq(ClientEvents)]
    BY <1>9, <2>1, FinalEventsType, DeliverType DEF DrainEvent, TypeOK
  <2>3. pc' \in [RPC -> Places]
    BY <1>9, GotoType DEF DrainEvent, TypeOK
  <2> QED
    BY <1>9, <2>1, <2>2, <2>3 DEF TypeOK, DrainEvent, actionVars, history
<1>10. ASSUME NEW r \in RPC, DrainTimeout(r) PROVE TypeOK'
  <2>1. <<EmptyResult>> \in Seq(ClientEvents)
    BY DEF EmptyResult, ClientEvents
  <2>2. sent' \in [RPC -> Seq(ClientEvents)]
    BY <1>10, <2>1, DeliverType DEF DrainTimeout, TypeOK
  <2> QED
    BY <1>10, <2>2 DEF TypeOK, DrainTimeout, Goto, actionVars, history
<1>11. ASSUME NEW r \in RPC, Finally(r) PROVE TypeOK'
  <2>1. registry' \in [DOMAIN registry' -> RPC] /\ DOMAIN registry' \subseteq 1 .. issued
    BY <1>11, RegistryType DEF Finally, TypeOK
  <2>2. task' \in [RPC -> TaskStates]
    BY <1>11, CancelTaskType DEF Finally, TypeOK
  <2>3. pc' \in [RPC -> Places]
    BY <1>11, GotoType DEF Finally
  <2> QED
    BY <1>11, <2>1, <2>2, <2>3 DEF TypeOK, Finally, actionVars, history
<1>12. ASSUME NEW r \in RPC, AwaitTimeout(r) PROVE TypeOK'
  <2>1. task' \in [RPC -> TaskStates]
    BY <1>12, CancelTaskType DEF AwaitTimeout
  <2>2. pc' \in [RPC -> Places]
    BY <1>12, GotoType DEF AwaitTimeout
  <2> QED
    BY <1>12, <2>1, <2>2 DEF TypeOK, AwaitTimeout, actionVars, history
<1>13. ASSUME NEW r \in RPC, TaskAwaited(r) PROVE TypeOK'
  BY <1>13 DEF TypeOK, TaskAwaited, Goto, actionVars, history
<1>14. ASSUME NEW id \in 1 .. issued, AckStreamChunks(id) PROVE TypeOK'
  <2>1. disp' \in [RPC -> Dispatchers(Nat, SinkEvents)]
    <3>1. CASE id \in DOMAIN registry
      <4>1. registry[id] \in RPC
        BY <3>1 DEF TypeOK
      <4>2. cancel_stream(disp[registry[id]]) \in Dispatchers(Nat, SinkEvents)
        <5>1. disp[registry[id]] \in Dispatchers(Nat, SinkEvents)
          BY <4>1 DEF TypeOK
        <5> QED
          BY <5>1 DEF cancel_stream, Dispatchers
      <4> QED
        BY <1>14, <3>1, <4>1, <4>2, DispUpdate DEF AckStreamChunks
    <3>2. CASE id \notin DOMAIN registry
      BY <1>14, <3>2 DEF AckStreamChunks, TypeOK
    <3> QED
      BY <3>1, <3>2
  <2>2. acked' \subseteq 1 .. issued /\ acked \subseteq acked'
    BY <1>14 DEF AckStreamChunks, TypeOK
  <2> QED
    BY <1>14, <2>1, <2>2 DEF TypeOK, AckStreamChunks, handlerVars, actionVars
<1>15. CASE UNCHANGED vars
  BY <1>15 DEF TypeOK, vars, handlerVars, actionVars, history
<1> QED
  BY <1>1, <1>2, <1>3, <1>4, <1>5, <1>6, <1>7, <1>8, <1>9, <1>10, <1>11, <1>12,
     <1>13, <1>14, <1>15 DEF Next, Handler, AllServed

\* The types hold from the start.
LEMMA TypeInit == Init => TypeOK
<1> SUFFICES ASSUME Init PROVE TypeOK
  OBVIOUS
<1>1. NewDispatcher \in Dispatchers(Nat, SinkEvents)
  BY <<>> \in Seq(Nat), <<>> \in Seq(SinkEvents) DEF NewDispatcher, Dispatchers
<1> QED
  BY <1>1, <<>> \in Seq(ClientEvents), CallsAssumption
  DEF Init, TypeOK, NoId, Places, TaskStates

\* Every state of the program is well typed: the sink holds stream and terminal
\* events only, the client is sent protocol events only, and the registry leads
\* to calls.
THEOREM TypeCorrect == Spec => []TypeOK
BY TypeInit, TypeStep, PTL DEF Spec

-----------------------------------------------------------------------------
(* No task is left behind.                                                 *)

\* A task that has ended stays ended, and the handler is done only then.
LEMMA NoOrphanStep == TypeOK /\ NoOrphanTask /\ [Next]_vars => NoOrphanTask'
<1> SUFFICES ASSUME TypeOK, NoOrphanTask, [Next]_vars,
                    NEW q \in RPC, pc'[q] = "done"
             PROVE  task'[q] \in Finished
  BY DEF NoOrphanTask
<1>1. ASSUME pc[q] = "done" PROVE task[q] \in Finished
  BY <1>1 DEF NoOrphanTask
<1>2. ASSUME NEW r \in RPC, BeginStream(r) PROVE task'[q] \in Finished
  BY <1>1, <1>2 DEF BeginStream, TypeOK
<1>3. ASSUME NEW r \in RPC, Interrupt(r) PROVE task'[q] \in Finished
  BY <1>1, <1>3 DEF Interrupt, Goto, CancelTask, TypeOK
<1>4. ASSUME NEW r \in RPC, TaskStarts(r) PROVE task'[q] \in Finished
  BY <1>1, <1>4 DEF TaskStarts, NoNextAction, LookupFails, ActionStarts, TypeOK,
                    handlerVars, Finished
<1>5. ASSUME NEW r \in RPC, Action(r) PROVE task'[q] \in Finished
  BY <1>1, <1>5 DEF Action, CallsStreamStart, CallsStreamChunk, CallsStreamEnd,
                    ActionCalls, ActionReturns, ActionRaises, ActionCancelsItself,
                    TypeOK, handlerVars, Finished
<1>6. ASSUME NEW r \in RPC, TaskCancelled(r) PROVE task'[q] \in Finished
  BY <1>1, <1>6 DEF TaskCancelled, TypeOK, handlerVars, Finished
<1>7. ASSUME NEW r \in RPC, Loop(r) PROVE task'[q] \in Finished
  BY <1>1, <1>7 DEF Loop, DetectBargeIn, DetectDisconnect, ForwardStart, ForwardChunk,
                    ForwardEnd, ForwardTerminal, EncodingFails, Goto, TypeOK
<1>8. ASSUME NEW r \in RPC, DrainEvent(r) \/ DrainTimeout(r) PROVE task'[q] \in Finished
  BY <1>1, <1>8 DEF DrainEvent, DrainTimeout, Goto, TypeOK
<1>9. ASSUME NEW r \in RPC, Finally(r) \/ AwaitTimeout(r) \/ TaskAwaited(r)
      PROVE task'[q] \in Finished
  BY <1>1, <1>9 DEF Finally, AwaitTimeout, TaskAwaited, Goto, CancelTask, TypeOK
<1>10. ASSUME UNCHANGED <<pc, task>> PROVE task'[q] \in Finished
  BY <1>1, <1>10
<1> QED
  BY <1>2, <1>3, <1>4, <1>5, <1>6, <1>7, <1>8, <1>9, <1>10
  DEF Next, Handler, Disconnect, Expire, AckStreamChunks, AllServed, vars, handlerVars

\* When the handler of a call is done, its action's task has ended.
THEOREM NoOrphanTaskHolds == Spec => []NoOrphanTask
<1>1. Init => NoOrphanTask
  BY DEF Init, NoOrphanTask
<1> QED
  BY <1>1, TypeCorrect, NoOrphanStep, PTL DEF Spec

-----------------------------------------------------------------------------
(* Nothing is sent to a client that is gone.                               *)

\* A delivery concerns one call.
LEMMA DeliverElsewhere ==
  ASSUME TypeOK, NEW r \in RPC, NEW q \in RPC, NEW events, Deliver(r, events),
         q # r
  PROVE  sent'[q] = sent[q]
BY DEF TypeOK, Deliver

\* The only steps that send are those of the loop and of the drain.
LEMMA SendingSteps ==
  ASSUME TypeOK, [Next]_vars, NEW q \in RPC, sent'[q] # sent[q]
  PROVE  \/ ForwardStart(q) \/ ForwardChunk(q) \/ ForwardEnd(q)
         \/ ForwardTerminal(q) /\ ~Gone(q)
         \/ EncodingFails(q)
         \/ DrainEvent(q) /\ Terminal(First(q)) /\ ~Gone(q)
         \/ DrainTimeout(q) /\ ~Gone(q)
<1> USE DeliverElsewhere
<1>1. ASSUME NEW r \in RPC,
             BeginStream(r) \/ Disconnect(r) \/ Interrupt(r) \/ Expire(r)
               \/ TaskStarts(r) \/ TaskCancelled(r) \/ Finally(r)
               \/ AwaitTimeout(r) \/ TaskAwaited(r)
      PROVE  FALSE
  BY <1>1 DEF BeginStream, Disconnect, Interrupt, Expire, TaskStarts, TaskCancelled,
              Finally, AwaitTimeout, TaskAwaited, handlerVars
<1>2. ASSUME NEW r \in RPC, Action(r) PROVE FALSE
  BY <1>2 DEF Action, CallsStreamStart, CallsStreamChunk, CallsStreamEnd, ActionCalls,
              ActionReturns, ActionRaises, ActionCancelsItself, handlerVars
<1>3. ASSUME NEW r \in RPC, Loop(r)
      PROVE  \/ ForwardStart(q) \/ ForwardChunk(q) \/ ForwardEnd(q)
             \/ ForwardTerminal(q) /\ ~Gone(q)
             \/ EncodingFails(q)
  <2>1. CASE DetectBargeIn(r) \/ DetectDisconnect(r)
    BY <2>1 DEF DetectBargeIn, DetectDisconnect
  <2>2. CASE ForwardStart(r)
    BY <2>2 DEF ForwardStart
  <2>3. CASE ForwardChunk(r)
    BY <2>3 DEF ForwardChunk
  <2>4. CASE ForwardEnd(r)
    BY <2>4 DEF ForwardEnd
  <2>5. CASE ForwardTerminal(r)
    <3>1. ~Gone(r) /\ Deliver(r, FinalEvents(First(r)))
      BY <2>5 DEF ForwardTerminal
    <3> QED
      BY <2>5, <3>1
  <2>6. CASE EncodingFails(r)
    BY <2>6 DEF EncodingFails
  <2> QED
    BY <1>3, <2>1, <2>2, <2>3, <2>4, <2>5, <2>6 DEF Loop
<1>4. ASSUME NEW r \in RPC, DrainEvent(r)
      PROVE  DrainEvent(q) /\ Terminal(First(q)) /\ ~Gone(q)
  <2>1. Terminal(First(r)) /\ ~Gone(r) /\ Deliver(r, FinalEvents(First(r)))
    BY <1>4 DEF DrainEvent
  <2> QED
    BY <1>4, <2>1
<1>5. ASSUME NEW r \in RPC, DrainTimeout(r) PROVE DrainTimeout(q) /\ ~Gone(q)
  <2>1. ~Gone(r) /\ Deliver(r, <<EmptyResult>>)
    BY <1>5 DEF DrainTimeout
  <2> QED
    BY <1>5, <2>1
<1>6. ASSUME UNCHANGED sent PROVE FALSE
  BY <1>6
<1> QED
  BY <1>1, <1>2, <1>3, <1>4, <1>5, <1>6
  DEF Next, Handler, AckStreamChunks, AllServed, vars, handlerVars

\* Nothing is sent on a call whose client is gone: each of the steps that send
\* has looked at the connection.
THEOREM SilentAfterDisconnectHolds == Spec => SilentAfterDisconnect
<1>1. ASSUME TypeOK, [Next]_vars, NEW q \in RPC, Gone(q)
      PROVE  sent'[q] = sent[q]
  BY <1>1, SendingSteps DEF ForwardStart, ForwardChunk, ForwardEnd, Forward, EncodingFails
<1>2. TypeOK /\ [Next]_vars => [\A r \in RPC : Gone(r) => sent'[r] = sent[r]]_vars
  BY <1>1
<1> QED
  BY <1>2, TypeCorrect, PTL DEF Spec, SilentAfterDisconnect

-----------------------------------------------------------------------------
(* The registry, and what an acknowledgement reaches.                      *)

\* No two calls stream under the same id.
IdsAreUnique ==
  \A r1, r2 \in RPC : rid[r1] = rid[r2] /\ rid[r1] # NoId => r1 = r2

\* The flag of a call whose current response was acknowledged is up, unless
\* the action called stream_start again.
FlagFollowsAck ==
  \A r \in RPC : rid[r] \in acked \ revoked => disp[r].cancelled

\* Inductive: an ack finds its call through the registry, so the flag it raises
\* is that of the call streaming under the id it names; ids must be unique for
\* the registration of one call to survive the moves of the others.
AckInv == RegistryIsCurrent /\ IdsAreUnique /\ FlagFollowsAck

\* Steps that leave the ids, the acks and the flag alone and close no live call
\* keep the invariant.
LEMMA AckInvUntouched ==
  ASSUME TypeOK, AckInv, UNCHANGED <<rid, registry, acked, revoked>>,
         \A q \in RPC : disp'[q].cancelled = disp[q].cancelled,
         \A q \in RPC : pc[q] \in Live => pc'[q] \in Live
  PROVE  AckInv'
<1>1. \A id \in DOMAIN registry : registry[id] \in RPC
  BY DEF TypeOK
<1> QED
  BY <1>1 DEF AckInv, RegistryIsCurrent, IdsAreUnique, FlagFollowsAck

\* Taking an event from a sink leaves every flag alone.
LEMMA ConsumeKeepsFlags ==
  ASSUME TypeOK, NEW r \in RPC, Consume(r), NEW q \in RPC
  PROVE  disp'[q].cancelled = disp[q].cancelled
<1>1. disp[q] \in Dispatchers(Nat, SinkEvents)
  BY DEF TypeOK
<1> QED
  BY <1>1 DEF Consume, TypeOK, Dispatchers

\* Every step keeps the invariant.
LEMMA AckInvStep == TypeOK /\ AckInv /\ [Next]_vars => AckInv'
<1> SUFFICES ASSUME TypeOK, AckInv, [Next]_vars PROVE AckInv'
  OBVIOUS
<1> USE DEF Live
<1>0. \A q \in RPC : disp[q] \in Dispatchers(Nat, SinkEvents)
  BY DEF TypeOK
<1>1. ASSUME NEW r \in RPC, BeginStream(r) PROVE AckInv'
  BY <1>1, AckInvUntouched DEF BeginStream, TypeOK, history
<1>2. ASSUME NEW r \in RPC, Disconnect(r) \/ Expire(r) \/ TaskCancelled(r) PROVE AckInv'
  BY <1>2, AckInvUntouched DEF Disconnect, Expire, TaskCancelled, handlerVars, history
<1>3. ASSUME NEW r \in RPC, Interrupt(r) PROVE AckInv'
  BY <1>3, AckInvUntouched DEF Interrupt, Goto, TypeOK, history
<1>4. ASSUME NEW r \in RPC, TaskStarts(r) PROVE AckInv'
  <2> DEFINE d == disp[r]
  <2>0. d \in Dispatchers(Nat, SinkEvents)
    BY <1>0
  <2>1. \A q \in RPC : disp'[q].cancelled = disp[q].cancelled
    <3>1. CASE NoNextAction(r)
      <4>1. Put(d, DoneEvent(FALSE)).cancelled = d.cancelled
        BY <2>0 DEF Put, Dispatchers
      <4> QED
        BY <3>1, <4>1 DEF NoNextAction, TypeOK
    <3>2. CASE LookupFails(r)
      <4>1. Put(d, ErrorEvent).cancelled = d.cancelled
        BY <2>0 DEF Put, Dispatchers
      <4> QED
        BY <3>2, <4>1 DEF LookupFails, TypeOK
    <3>3. CASE ActionStarts(r)
      <4>1. [d EXCEPT !.attached = TRUE].cancelled = d.cancelled
        BY <2>0 DEF Dispatchers
      <4> QED
        BY <2>0, <3>3, <4>1 DEF ActionStarts, TypeOK, Dispatchers
    <3> QED
      BY <1>4, <3>1, <3>2, <3>3 DEF TaskStarts
  <2> QED
    BY <1>4, <2>1, AckInvUntouched DEF TaskStarts, handlerVars, history
<1>5. ASSUME NEW r \in RPC, CallsStreamStart(r) PROVE AckInv'
  <2>1. CASE disp[r].cancelled
    <3>1. rid[r] \notin acked' \ revoked'
      BY <1>5, <2>1 DEF CallsStreamStart, ActionCalls
    <3>2. \A q \in RPC : q # r => disp'[q] = disp[q]
      BY <1>5 DEF CallsStreamStart, TypeOK
    <3>3. UNCHANGED <<rid, registry, pc>> /\ acked' \ revoked' \subseteq acked \ revoked
      BY <1>5 DEF CallsStreamStart, ActionCalls, handlerVars
    <3> QED
      BY <3>1, <3>2, <3>3 DEF AckInv, RegistryIsCurrent, IdsAreUnique, FlagFollowsAck
  <2>2. CASE ~disp[r].cancelled
    <3>1. stream_start(disp[r]).cancelled = disp[r].cancelled
      BY <1>0, <2>2 DEF stream_start, Emit, Put, Dispatchers
    <3>2. \A q \in RPC : disp'[q].cancelled = disp[q].cancelled
      BY <1>5, <3>1 DEF CallsStreamStart, TypeOK
    <3> QED
      BY <1>5, <2>2, <3>2, AckInvUntouched DEF CallsStreamStart, ActionCalls, handlerVars
  <2> QED
    BY <2>1, <2>2
<1>6. ASSUME NEW r \in RPC, CallsStreamChunk(r) PROVE AckInv'
  <2>1. \A q \in RPC : disp'[q].cancelled = disp[q].cancelled
    BY <1>0, <1>6, ChunkKeepsFlag DEF CallsStreamChunk, TypeOK
  <2> QED
    BY <1>6, <2>1, AckInvUntouched DEF CallsStreamChunk, ActionCalls, handlerVars
<1>7. ASSUME NEW r \in RPC, CallsStreamEnd(r) PROVE AckInv'
  <2>0. stream_end(disp[r]).cancelled = disp[r].cancelled
    BY <1>0, EndKeepsFlag
  <2>1. \A q \in RPC : disp'[q].cancelled = disp[q].cancelled
    BY <1>7, <2>0 DEF CallsStreamEnd, TypeOK
  <2> QED
    BY <1>7, <2>1, AckInvUntouched DEF CallsStreamEnd, ActionCalls, handlerVars
<1>8. ASSUME NEW r \in RPC, ActionReturns(r) \/ ActionRaises(r) \/ ActionCancelsItself(r)
      PROVE  AckInv'
  <2>0. disp[r] \in Dispatchers(Nat, SinkEvents)
    BY <1>0
  <2>1. \A q \in RPC : disp'[q].cancelled = disp[q].cancelled
    <3>1. CASE ActionReturns(r)
      <4>1. AutoClose(disp[r]) \in Dispatchers(Nat, SinkEvents)
        BY <2>0, AutoCloseType DEF SinkEvents
      <4>2. Put(AutoClose(disp[r]), DoneEvent(TRUE)).cancelled = AutoClose(disp[r]).cancelled
        BY <4>1 DEF Put, Dispatchers
      <4>3. AutoClose(disp[r]).cancelled = disp[r].cancelled
        BY <2>0, EndKeepsFlag
      <4> QED
        BY <3>1, <4>2, <4>3 DEF ActionReturns, TypeOK
    <3>2. CASE ActionRaises(r)
      <4>1. Put(disp[r], ErrorEvent).cancelled = disp[r].cancelled
        BY <2>0 DEF Put, Dispatchers
      <4> QED
        BY <3>2, <4>1 DEF ActionRaises, TypeOK
    <3>3. CASE ActionCancelsItself(r)
      BY <3>3 DEF ActionCancelsItself
    <3> QED
      BY <1>8, <3>1, <3>2, <3>3
  <2> QED
    BY <1>8, <2>1, AckInvUntouched
    DEF ActionReturns, ActionRaises, ActionCancelsItself, handlerVars, history
<1>9. ASSUME NEW r \in RPC, ForwardStart(r) PROVE AckInv'
  <2> DEFINE id == issued + 1
  <2>1. /\ rid' = [rid EXCEPT ![r] = id]
        /\ registry' = Register(Pop(registry, rid[r]), id, r)
        /\ pc[r] = "get" /\ UNCHANGED <<pc, acked, revoked>>
    BY <1>9 DEF ForwardStart, Forward, NewResponseId, history
  <2>2. /\ \A q \in RPC : rid[q] # id
        /\ id \notin acked /\ id \notin DOMAIN registry /\ id # NoId
    BY DEF TypeOK, NoId
  <2>3. \A q \in RPC : rid'[q] = IF q = r THEN id ELSE rid[q]
    BY <2>1 DEF TypeOK
  <2>4. RegistryIsCurrent'
    <3> SUFFICES ASSUME NEW i \in DOMAIN registry'
                 PROVE  rid'[registry'[i]] = i /\ pc'[registry'[i]] \in Live
      BY DEF RegistryIsCurrent
    <3>1. CASE i = id
      BY <2>1, <2>3, <3>1 DEF Register
    <3>2. CASE i # id
      <4>1. i \in DOMAIN registry /\ i # rid[r] /\ registry'[i] = registry[i]
        BY <2>1, <3>2 DEF Register, Pop
      <4>2. registry[i] \in RPC /\ rid[registry[i]] = i /\ pc[registry[i]] \in Live
        BY <4>1 DEF TypeOK, AckInv, RegistryIsCurrent
      <4> QED
        BY <2>1, <2>3, <4>1, <4>2
    <3> QED
      BY <3>1, <3>2
  <2>5. IdsAreUnique'
    BY <2>2, <2>3 DEF AckInv, IdsAreUnique
  <2>6. FlagFollowsAck'
    BY <1>9, <2>1, <2>2, <2>3, ConsumeKeepsFlags
    DEF AckInv, FlagFollowsAck, ForwardStart, Forward
  <2> QED
    BY <2>4, <2>5, <2>6 DEF AckInv
<1>10. ASSUME NEW r \in RPC, ForwardEnd(r) \/ Finally(r) PROVE AckInv'
  <2>1. /\ registry' = Pop(registry, rid[r])
        /\ UNCHANGED <<rid, acked, revoked>>
        /\ \A q \in RPC : q # r => pc'[q] = pc[q]
    BY <1>10 DEF ForwardEnd, Finally, Goto, TypeOK, history
  <2>2. \A q \in RPC : disp'[q].cancelled = disp[q].cancelled
    BY <1>10, ConsumeKeepsFlags DEF ForwardEnd, Forward, Finally
  <2>3. RegistryIsCurrent'
    <3> SUFFICES ASSUME NEW i \in DOMAIN registry'
                 PROVE  rid[registry'[i]] = i /\ pc'[registry'[i]] \in Live
      BY <2>1 DEF RegistryIsCurrent
    <3>1. i \in DOMAIN registry /\ i # rid[r] /\ registry'[i] = registry[i]
      BY <2>1 DEF Pop
    <3>2. registry[i] \in RPC /\ rid[registry[i]] = i /\ pc[registry[i]] \in Live
      BY <3>1 DEF TypeOK, AckInv, RegistryIsCurrent
    <3> QED
      BY <2>1, <3>1, <3>2
  <2> QED
    BY <2>1, <2>2, <2>3 DEF AckInv, IdsAreUnique, FlagFollowsAck
<1>11. ASSUME NEW r \in RPC,
              \/ DetectBargeIn(r) \/ DetectDisconnect(r) \/ ForwardChunk(r)
              \/ ForwardTerminal(r) \/ EncodingFails(r) \/ DrainEvent(r)
       PROVE  AckInv'
  <2>1. Consume(r) /\ UNCHANGED <<rid, registry, acked, revoked>>
    BY <1>11 DEF DetectBargeIn, DetectDisconnect, ForwardChunk, Forward, ForwardTerminal,
                 EncodingFails, DrainEvent, history
  <2>2. \A q \in RPC : pc[q] \in Live => pc'[q] \in Live
    BY <1>11 DEF DetectBargeIn, DetectDisconnect, ForwardChunk, ForwardTerminal,
                 EncodingFails, DrainEvent, Goto, TypeOK
  <2> QED
    BY <2>1, <2>2, ConsumeKeepsFlags, AckInvUntouched
<1>12. ASSUME NEW r \in RPC, DrainTimeout(r) \/ AwaitTimeout(r) \/ TaskAwaited(r)
       PROVE  AckInv'
  <2>1. \A q \in RPC : pc[q] \in Live => pc'[q] \in Live
    BY <1>12 DEF DrainTimeout, AwaitTimeout, TaskAwaited, Goto, TypeOK
  <2> QED
    BY <1>12, <2>1, AckInvUntouched DEF DrainTimeout, AwaitTimeout, TaskAwaited, history
<1>13. ASSUME NEW id \in 1 .. issued, AckStreamChunks(id) PROVE AckInv'
  <2>1. CASE id \in DOMAIN registry
    <3>1. registry[id] \in RPC /\ rid[registry[id]] = id
      BY <2>1 DEF TypeOK, AckInv, RegistryIsCurrent
    <3>2. /\ disp'[registry[id]].cancelled
          /\ \A q \in RPC : q # registry[id] => disp'[q] = disp[q]
      <4>1. cancel_stream(disp[registry[id]]).cancelled
        BY <1>0, <3>1 DEF cancel_stream, Dispatchers
      <4> QED
        BY <1>13, <2>1, <3>1, <4>1 DEF AckStreamChunks, TypeOK
    <3>3. /\ UNCHANGED <<rid, registry, pc, revoked>>
          /\ acked' = acked \cup {id} /\ id # NoId
      BY <1>13, <2>1 DEF AckStreamChunks, handlerVars, NoId
    <3>4. FlagFollowsAck'
      <4> SUFFICES ASSUME NEW q \in RPC, rid[q] \in acked' \ revoked
                   PROVE  disp'[q].cancelled
        BY <3>3 DEF FlagFollowsAck
      <4>1. CASE q = registry[id]
        BY <3>2, <4>1
      <4>2. CASE q # registry[id]
        <5>1. rid[q] # id
          BY <3>1, <3>3, <4>2 DEF AckInv, IdsAreUnique
        <5> QED
          BY <3>2, <3>3, <4>2, <5>1 DEF AckInv, FlagFollowsAck
      <4> QED
        BY <4>1, <4>2
    <3> QED
      BY <3>3, <3>4 DEF AckInv, RegistryIsCurrent, IdsAreUnique
  <2>2. CASE id \notin DOMAIN registry
    BY <1>13, <2>2, AckInvUntouched DEF AckStreamChunks, handlerVars
  <2> QED
    BY <2>1, <2>2
<1>14. CASE UNCHANGED vars
  BY <1>14, AckInvUntouched DEF vars, handlerVars, history
<1> QED
  BY <1>1, <1>2, <1>3, <1>4, <1>5, <1>6, <1>7, <1>8, <1>9, <1>10, <1>11, <1>12,
     <1>13, <1>14
  DEF Next, Action, Loop, Handler, AllServed

\* The invariant holds in every state.
LEMMA AckInvHolds == Spec => []AckInv
<1>1. Init => AckInv
  BY DEF Init, AckInv, RegistryIsCurrent, IdsAreUnique, FlagFollowsAck
<1> QED
  BY <1>1, TypeCorrect, AckInvStep, PTL DEF Spec

\* A registered id is the current response of a call that is being served.
THEOREM RegistryIsCurrentHolds == Spec => []RegistryIsCurrent
BY AckInvHolds, PTL DEF AckInv

\* A delivered event is the last of what the client has been sent.
LEMMA DeliverLast ==
  ASSUME TypeOK, NEW r \in RPC, NEW e, Deliver(r, <<e>>)
  PROVE  LastSent(r) = e
<1>1. sent[r] \in Seq(ClientEvents)
  BY DEF TypeOK
<1> QED
  BY <1>1 DEF TypeOK, Deliver, LastSent

\* After an acknowledgement that reached its call nothing more of the response
\* is sent, unless the action called stream_start again.
THEOREM BargeInSilencesResponseHolds == Spec => BargeInSilencesResponse
<1>1. ASSUME TypeOK, AckInv, [Next]_vars, NEW q \in RPC, sent'[q] # sent[q],
             LastSent(q).event \in {"chunk", "chunk_end"}
      PROVE  LastSent(q).id \notin acked \ revoked
  <2>1. CASE ForwardStart(q)
    BY <1>1, <2>1, DeliverLast DEF ForwardStart, ChunkStart
  <2>2. CASE ForwardChunk(q)
    <3>1. LastSent(q).id = rid[q]
      BY <1>1, <2>2, DeliverLast DEF ForwardChunk, Chunk
    <3>2. ~disp[q].cancelled
      BY <2>2 DEF ForwardChunk, Forward, BargedIn, Terminal
    <3> QED
      BY <1>1, <3>1, <3>2 DEF AckInv, FlagFollowsAck
  <2>3. CASE ForwardEnd(q)
    <3>1. LastSent(q).id = rid[q]
      BY <1>1, <2>3, DeliverLast DEF ForwardEnd, ChunkEnd
    <3>2. ~disp[q].cancelled
      BY <2>3 DEF ForwardEnd, Forward, BargedIn, Terminal
    <3> QED
      BY <1>1, <3>1, <3>2 DEF AckInv, FlagFollowsAck
  <2>4. CASE EncodingFails(q)
    BY <1>1, <2>4, DeliverLast DEF EncodingFails, Aborted
  <2>5. CASE DrainTimeout(q) /\ ~Gone(q)
    BY <1>1, <2>5, DeliverLast DEF DrainTimeout, EmptyResult
  <2>6. ASSUME Deliver(q, FinalEvents(First(q))) PROVE FALSE
    <3>1. CASE FinalEvents(First(q)) = <<>>
      BY <1>1, <2>6, <3>1 DEF Deliver, TypeOK
    <3>2. CASE FinalEvents(First(q)) = <<StreamError>>
      BY <1>1, <2>6, <3>2, DeliverLast DEF StreamError
    <3>3. CASE FinalEvents(First(q)) = <<FinalResult>>
      BY <1>1, <2>6, <3>3, DeliverLast DEF FinalResult
    <3> QED
      BY <3>1, <3>2, <3>3 DEF FinalEvents
  <2> QED
    BY <1>1, <2>1, <2>2, <2>3, <2>4, <2>5, <2>6, SendingSteps DEF ForwardTerminal, DrainEvent
<1>2. TypeOK /\ AckInv /\ [Next]_vars
        => [\A r \in RPC :
              (sent'[r] # sent[r] /\ LastSent(r).event \in {"chunk", "chunk_end"})
                => LastSent(r).id \notin acked \ revoked]_vars
  BY <1>1
<1> QED
  BY <1>2, TypeCorrect, AckInvHolds, PTL DEF Spec, BargeInSilencesResponse

-----------------------------------------------------------------------------
(* Open responses can be interrupted.                                      *)

\* Nothing is sent before a call begins.
IdleIsSilent == \A r \in RPC : pc[r] = "idle" => sent[r] = <<>>

\* Inductive, together with AckInv: that ids are unique keeps the entry of one
\* call when another call removes its own.
ReachInv == OpenResponsesAreReachable /\ IdleIsSilent

\* An open response that was open before is still reachable when only the
\* entry of another call's response has been removed.
LEMMA ReachKept ==
  ASSUME TypeOK, AckInv, OpenResponsesAreReachable, NEW q \in RPC, NEW r \in RPC,
         q # r, OpenResponse(q)
  PROVE  /\ rid[q] \in DOMAIN Pop(registry, rid[r])
         /\ Pop(registry, rid[r])[rid[q]] = q
         /\ rid[q] \in 1 .. issued
<1>1. rid[q] \in DOMAIN registry /\ registry[rid[q]] = q /\ rid[q] \in 1 .. issued
  BY DEF OpenResponsesAreReachable, TypeOK
<1>2. rid[r] # rid[q]
  BY <1>1 DEF AckInv, IdsAreUnique, NoId
<1> QED
  BY <1>1, <1>2 DEF Pop

\* Steps that send nothing while the handler stays in its loop, and leave ids
\* and registry alone, keep the invariant.
LEMMA ReachUntouched ==
  ASSUME ReachInv, UNCHANGED <<rid, registry>>,
         \A q \in RPC : pc'[q] \in {"get", "idle"}
                          => pc'[q] = pc[q] /\ sent'[q] = sent[q]
  PROVE  ReachInv'
BY DEF ReachInv, OpenResponsesAreReachable, OpenResponse, IdleIsSilent

\* A response whose last event is not of its own stream's opening is not open.
LEMMA DeliverOpens ==
  ASSUME TypeOK, NEW r \in RPC, NEW e, Deliver(r, <<e>>),
         e.event # "chunk_start", OpenResponse(r)', rid'[r] = rid[r], pc[r] = "get"
  PROVE  e.event = "chunk" /\ OpenResponse(r)
<1> DEFINE n == Len(sent[r])
<1>1. sent[r] \in Seq(ClientEvents) /\ sent'[r] = Append(sent[r], e) /\ n \in Nat
  BY DEF TypeOK, Deliver
<1>2. /\ DOMAIN sent'[r] = 1 .. n + 1 /\ Len(sent'[r]) = n + 1
      /\ sent'[r][n + 1] = e
      /\ \A i \in 1 .. n : sent'[r][i] = sent[r][i]
  BY <1>1
<1>3. PICK i \in 1 .. n + 1 :
        /\ sent'[r][i] = ChunkStart(rid[r])
        /\ \A j \in i + 1 .. n + 1 : sent'[r][j].event = "chunk"
  BY <1>2 DEF OpenResponse
<1>4. i # n + 1
  BY <1>2, <1>3 DEF ChunkStart
<1>5. i \in 1 .. n /\ n + 1 \in i + 1 .. n + 1
  BY <1>1, <1>3, <1>4
<1>6. sent[r][i] = ChunkStart(rid[r])
  BY <1>2, <1>3, <1>5
<1>7. \A j \in i + 1 .. n : sent[r][j].event = "chunk"
  BY <1>1, <1>2, <1>3, <1>5
<1> QED
  BY <1>1, <1>2, <1>3, <1>5, <1>6, <1>7 DEF OpenResponse

\* Every step keeps the invariant.
LEMMA ReachInvStep == TypeOK /\ AckInv /\ ReachInv /\ [Next]_vars => ReachInv'
<1> SUFFICES ASSUME TypeOK, AckInv, ReachInv, [Next]_vars PROVE ReachInv'
  OBVIOUS
<1>0. OpenResponsesAreReachable /\ IdleIsSilent
  BY DEF ReachInv
<1>1. ASSUME NEW r \in RPC, BeginStream(r) PROVE ReachInv'
  <2>1. sent[r] = <<>>
    BY <1>0, <1>1 DEF BeginStream, IdleIsSilent
  <2>2. ~OpenResponse(r)'
    BY <1>1, <2>1 DEF BeginStream, OpenResponse
  <2>3. ASSUME NEW q \in RPC, q # r PROVE OpenResponse(q)' => OpenResponse(q)
    BY <1>1, <2>3 DEF BeginStream, OpenResponse, TypeOK
  <2> QED
    BY <1>0, <1>1, <2>2, <2>3
    DEF ReachInv, OpenResponsesAreReachable, IdleIsSilent, BeginStream, TypeOK
<1>2. ASSUME NEW r \in RPC,
             \/ Disconnect(r) \/ Expire(r) \/ TaskStarts(r) \/ Action(r)
             \/ TaskCancelled(r)
      PROVE  ReachInv'
  BY <1>0, <1>2, ReachUntouched
  DEF Disconnect, Expire, TaskStarts, Action, CallsStreamStart, CallsStreamChunk,
      CallsStreamEnd, ActionCalls, ActionReturns, ActionRaises, ActionCancelsItself,
      TaskCancelled, handlerVars
<1>3. ASSUME NEW r \in RPC, Interrupt(r) PROVE ReachInv'
  BY <1>0, <1>3, ReachUntouched DEF Interrupt, Goto, TypeOK
<1>4. ASSUME NEW r \in RPC,
             \/ DetectBargeIn(r) \/ DetectDisconnect(r) \/ ForwardTerminal(r)
             \/ EncodingFails(r) \/ DrainEvent(r) \/ DrainTimeout(r)
             \/ AwaitTimeout(r) \/ TaskAwaited(r)
      PROVE  ReachInv'
  <2>1. UNCHANGED <<rid, registry>>
    BY <1>4 DEF DetectBargeIn, DetectDisconnect, ForwardTerminal, EncodingFails,
                DrainEvent, DrainTimeout, AwaitTimeout, TaskAwaited
  <2>2. pc'[r] \notin {"get", "idle"}
    BY <1>4 DEF DetectBargeIn, DetectDisconnect, ForwardTerminal, EncodingFails,
                DrainEvent, DrainTimeout, AwaitTimeout, TaskAwaited, Goto, TypeOK
  <2>3. \A q \in RPC : q # r => pc'[q] = pc[q] /\ sent'[q] = sent[q]
    BY <1>4 DEF DetectBargeIn, DetectDisconnect, ForwardTerminal, EncodingFails,
                DrainEvent, DrainTimeout, AwaitTimeout, TaskAwaited, Goto, Deliver, TypeOK
  <2> QED
    BY <1>0, <2>1, <2>2, <2>3, ReachUntouched
<1>5. ASSUME NEW r \in RPC, ForwardStart(r) PROVE ReachInv'
  <2> DEFINE id == issued + 1
  <2>1. /\ rid' = [rid EXCEPT ![r] = id]
        /\ registry' = Register(Pop(registry, rid[r]), id, r)
        /\ pc[r] = "get" /\ UNCHANGED pc
        /\ \A q \in RPC : q # r => sent'[q] = sent[q]
    BY <1>5 DEF ForwardStart, Forward, NewResponseId, Deliver, TypeOK
  <2>2. rid'[r] = id /\ \A q \in RPC : q # r => rid'[q] = rid[q]
    BY <2>1 DEF TypeOK
  <2>3. id \in DOMAIN registry' /\ registry'[id] = r
    BY <2>1 DEF Register
  <2>4. ASSUME NEW q \in RPC, q # r, OpenResponse(q)'
        PROVE  rid'[q] \in DOMAIN registry' /\ registry'[rid'[q]] = q
    <3>1. OpenResponse(q)
      BY <2>1, <2>2, <2>4 DEF OpenResponse
    <3>2. rid[q] # id
      BY <1>0, <2>4, <3>1, ReachKept DEF TypeOK
    <3> QED
      BY <1>0, <2>1, <2>2, <2>4, <3>1, <3>2, ReachKept DEF Register
  <2> QED
    BY <1>0, <2>1, <2>2, <2>3, <2>4 DEF ReachInv, OpenResponsesAreReachable, IdleIsSilent
<1>6. ASSUME NEW r \in RPC, ForwardChunk(r) PROVE ReachInv'
  <2>1. /\ UNCHANGED <<rid, registry, pc>> /\ pc[r] = "get"
        /\ Deliver(r, <<Chunk(rid[r], First(r).chunk)>>)
        /\ \A q \in RPC : q # r => sent'[q] = sent[q]
    BY <1>6 DEF ForwardChunk, Forward, Deliver, TypeOK
  <2>2. OpenResponse(r)' => OpenResponse(r)
    BY <2>1, DeliverOpens DEF Chunk
  <2>3. ASSUME NEW q \in RPC, q # r PROVE OpenResponse(q)' => OpenResponse(q)
    BY <2>1, <2>3 DEF OpenResponse
  <2> QED
    BY <1>0, <2>1, <2>2, <2>3 DEF ReachInv, OpenResponsesAreReachable, IdleIsSilent
<1>7. ASSUME NEW r \in RPC, ForwardEnd(r) \/ Finally(r) PROVE ReachInv'
  <2>1. /\ registry' = Pop(registry, rid[r]) /\ UNCHANGED rid
        /\ \A q \in RPC : q # r => pc'[q] = pc[q] /\ sent'[q] = sent[q]
        /\ pc'[r] # "idle"
    BY <1>7 DEF ForwardEnd, Forward, Finally, Goto, Deliver, TypeOK
  <2>2. ~OpenResponse(r)'
    <3>1. CASE ForwardEnd(r)
      <4>1. pc[r] = "get" /\ Deliver(r, <<ChunkEnd(rid[r])>>) /\ rid'[r] = rid[r]
        BY <3>1 DEF ForwardEnd, Forward
      <4> QED
        BY <4>1, DeliverOpens DEF ChunkEnd
    <3>2. CASE Finally(r)
      BY <3>2 DEF Finally, Goto, OpenResponse, TypeOK
    <3> QED
      BY <1>7, <3>1, <3>2
  <2>3. ASSUME NEW q \in RPC, q # r, OpenResponse(q)' PROVE OpenResponse(q)
    BY <2>1, <2>3 DEF OpenResponse
  <2> QED
    BY <1>0, <2>1, <2>2, <2>3, ReachKept
    DEF ReachInv, OpenResponsesAreReachable, IdleIsSilent
<1>8. ASSUME NEW id \in 1 .. issued, AckStreamChunks(id) PROVE ReachInv'
  BY <1>0, <1>8, ReachUntouched DEF AckStreamChunks, handlerVars
<1>9. CASE UNCHANGED vars
  BY <1>0, <1>9, ReachUntouched DEF vars, handlerVars
<1> QED
  BY <1>1, <1>2, <1>3, <1>4, <1>5, <1>6, <1>7, <1>8, <1>9
  DEF Next, Loop, Handler, AllServed

\* Whatever response is being streamed, its id leads to its own call, for any
\* number of concurrent calls.
THEOREM OpenResponsesAreReachableHolds == Spec => []OpenResponsesAreReachable
<1>1. Init => ReachInv
  BY DEF Init, ReachInv, OpenResponsesAreReachable, OpenResponse, IdleIsSilent
<1>2. ReachInv => OpenResponsesAreReachable
  BY DEF ReachInv
<1> QED
  BY <1>1, <1>2, TypeCorrect, AckInvHolds, ReachInvStep, PTL DEF Spec

-----------------------------------------------------------------------------
(* The terminal event and the result.                                      *)

Ended == Finished \ {"cancelled"}
Left  == {"finally", "await", "reap", "done"}

\* The dispatchers whose sinks hold events of responses only, and those whose
\* sinks may hold a result as well.
Quiet      == Dispatchers(Nat, StreamEvents(Nat))
WithResult == Dispatchers(Nat, StreamEvents(Nat) \cup {DoneEvent(TRUE)})

Pending(queue) == \E i \in DOMAIN queue : Terminal(queue[i])

Served(r) == sent[r] # <<>> /\ sent[r][Len(sent[r])] \in {FinalResult, Aborted}

\* Inductive: a terminal event is placed when the task ends and not before, the
\* one of an action that returned is its result, and the handler leaves its
\* loops with that event or for a reason the property names.
DeliveryOf(r) ==
  /\ pc[r] = "idle" => task[r] = "none"
  /\ task[r] \notin Ended => disp[r] \in Quiet
  /\ task[r] = "returned" => disp[r] \in WithResult
  /\ pc[r] \in {"get", "drain"} /\ task[r] \in Ended => Pending(disp[r].queue)
  /\ pc[r] \in Left /\ ctx[r] = "open" /\ deadline[r] # "passed"
       => Served(r) \/ task[r] \in {"idled", "raised"}

DeliveryInv == \A r \in RPC : DeliveryOf(r)

\* The events of a response are not terminal; the terminal ones are what they
\* are called.
LEMMA TerminalNames ==
  /\ \A e \in StreamEvents(Nat) : ~Terminal(e)
  /\ \A b \in BOOLEAN : Terminal(DoneEvent(b))
  /\ Terminal(ErrorEvent)
BY DEF StreamEvents, Terminal, DoneEvent, ErrorEvent

\* A sink of fewer events is a sink of more.
LEMMA WiderSinks ==
  ASSUME NEW E, NEW F, E \subseteq F, NEW d \in Dispatchers(Nat, E)
  PROVE  d \in Dispatchers(Nat, F)
<1>1. d.queue \in Seq(E)
  BY DEF Dispatchers
<1>2. d.queue \in Seq(F)
  BY <1>1
<1> QED
  BY <1>2 DEF Dispatchers

\* Placing an event in a sink makes it pending if it is terminal, and a sink
\* keeps its pending event.
LEMMA PutPending ==
  ASSUME NEW E, NEW d \in Dispatchers(Nat, E), NEW e
  PROVE  Terminal(e) => Pending(Put(d, e).queue)
<1>1. d.queue \in Seq(E) /\ Put(d, e).queue = Append(d.queue, e)
  BY DEF Dispatchers, Put
<1>2. Len(d.queue) + 1 \in DOMAIN Append(d.queue, e)
      /\ Append(d.queue, e)[Len(d.queue) + 1] = e
  BY <1>1
<1> QED
  BY <1>1, <1>2 DEF Pending

\* Taking the first event of a sink keeps what is known of its events, and a
\* pending event unless it is the one taken.
LEMMA ConsumeFrom ==
  ASSUME NEW r \in RPC, NEW E, disp[r] \in Dispatchers(Nat, E), TypeOK, Consume(r)
  PROVE  /\ disp'[r] \in Dispatchers(Nat, E)
         /\ First(r) \in E
         /\ Pending(disp[r].queue) /\ ~Terminal(First(r)) => Pending(disp'[r].queue)
         /\ \A q \in RPC : q # r => disp'[q] = disp[q]
<1> DEFINE queue == disp[r].queue
<1>1. queue \in Seq(E) /\ queue # <<>>
  BY DEF Dispatchers, Consume
<1>2. Tail(queue) \in Seq(E) /\ First(r) \in E
  BY <1>1 DEF First
<1>3. disp'[r] = [disp[r] EXCEPT !.queue = Tail(queue)]
  BY DEF Consume, TypeOK
<1>4. disp'[r].queue = Tail(queue) /\ disp'[r] \in Dispatchers(Nat, E)
  BY <1>2, <1>3 DEF Dispatchers
<1>5. ASSUME NEW i \in DOMAIN queue, Terminal(queue[i]), ~Terminal(First(r))
      PROVE  Pending(Tail(queue))
  <2>1. First(r) = queue[1] /\ i \in 1 .. Len(queue)
    BY <1>1 DEF First
  <2>2. i # 1
    BY <1>5, <2>1
  <2>3. i - 1 \in DOMAIN Tail(queue) /\ Tail(queue)[i - 1] = queue[i]
    BY <1>1, <2>1, <2>2
  <2> QED
    BY <1>5, <2>3 DEF Pending
<1> QED
  BY <1>2, <1>4, <1>5 DEF Consume, Pending, TypeOK

\* A delivered event is the last of what the client has been sent.
LEMMA DeliverServes ==
  ASSUME TypeOK, NEW r \in RPC, NEW e, Deliver(r, <<e>>), e \in {FinalResult, Aborted}
  PROVE  Served(r)'
<1>1. sent[r] \in Seq(ClientEvents) /\ sent'[r] = Append(sent[r], e)
  BY DEF TypeOK, Deliver
<1>2. Len(sent'[r]) = Len(sent[r]) + 1 /\ sent'[r][Len(sent[r]) + 1] = e
  BY <1>1
<1>3. sent'[r] # <<>>
  BY <1>1
<1> QED
  BY <1>2, <1>3 DEF Served

\* A call that a step leaves alone keeps the invariant.
LEMMA DeliveryUntouched ==
  ASSUME NEW q, DeliveryOf(q),
         disp'[q] = disp[q], task'[q] = task[q], pc'[q] = pc[q],
         ctx'[q] = ctx[q], deadline'[q] = deadline[q], sent'[q] = sent[q]
  PROVE  DeliveryOf(q)'
BY DEF DeliveryOf, Served

\* Every step of the call's task keeps the invariant.
LEMMA DeliveryTaskStep ==
  ASSUME TypeOK, NEW r \in RPC, DeliveryOf(r),
         TaskStarts(r) \/ Action(r) \/ TaskCancelled(r)
  PROVE  DeliveryOf(r)'
<1> USE DEF Quiet, WithResult
<1>1. UNCHANGED <<pc, ctx, deadline, sent>>
  BY DEF TaskStarts, Action, TaskCancelled, CallsStreamStart, CallsStreamChunk,
         CallsStreamEnd, ActionCalls, ActionReturns, ActionRaises, ActionCancelsItself,
         handlerVars
<1>2. /\ task[r] \notin Ended /\ task[r] # "none" /\ disp[r] \in Quiet
      /\ pc[r] # "idle" /\ task[r] # "idled" /\ task[r] # "raised"
  BY DEF TaskStarts, NoNextAction, LookupFails, ActionStarts, Action, TaskCancelled,
         CallsStreamStart, CallsStreamChunk, CallsStreamEnd, ActionCalls, ActionRuns,
         ActionReturns, ActionRaises, ActionCancelsItself, DeliveryOf, Ended, Finished
<1>3. ASSUME task'[r] \notin Ended, disp'[r] \in Quiet PROVE DeliveryOf(r)'
  BY <1>1, <1>2, <1>3 DEF DeliveryOf, Served, Ended, Finished
<1>4. ASSUME NEW d \in Quiet, NEW e, Terminal(e), disp'[r] = Put(d, e),
             \/ task'[r] \in {"idled", "raised"}
             \/ task'[r] = "returned" /\ e = DoneEvent(TRUE)
      PROVE  DeliveryOf(r)'
  <2>1. Pending(disp'[r].queue)
    BY <1>4, PutPending
  <2>2. task'[r] = "returned" => disp'[r] \in WithResult
    <3>1. d \in WithResult
      <4>1. d \in Dispatchers(Nat, StreamEvents(Nat))
        OBVIOUS
      <4>2. StreamEvents(Nat) \subseteq StreamEvents(Nat) \cup {DoneEvent(TRUE)}
        OBVIOUS
      <4> HIDE DEF Quiet, WithResult
      <4>3. d \in Dispatchers(Nat, StreamEvents(Nat) \cup {DoneEvent(TRUE)})
        BY <4>1, <4>2, WiderSinks
      <4> QED
        BY <4>3 DEF WithResult
    <3>2. ASSUME task'[r] = "returned"
          PROVE  e \in StreamEvents(Nat) \cup {DoneEvent(TRUE)}
      BY <1>4, <3>2
    <3>3. ASSUME e \in StreamEvents(Nat) \cup {DoneEvent(TRUE)}
          PROVE  Put(d, e) \in WithResult
      <4> HIDE DEF Quiet, WithResult
      <4>1. d \in Dispatchers(Nat, StreamEvents(Nat) \cup {DoneEvent(TRUE)})
        BY <3>1 DEF WithResult
      <4>2. Put(d, e) \in Dispatchers(Nat, StreamEvents(Nat) \cup {DoneEvent(TRUE)})
        BY <3>3, <4>1, PutType
      <4> QED
        BY <4>2 DEF WithResult
    <3> QED
      BY <1>4, <3>2, <3>3
  <2> QED
    BY <1>1, <1>2, <1>4, <2>1, <2>2 DEF DeliveryOf, Served, Ended, Finished
<1>5. ASSUME TaskStarts(r) PROVE DeliveryOf(r)'
  <2>1. CASE NoNextAction(r)
    <3>1. disp'[r] = Put(disp[r], DoneEvent(FALSE)) /\ task'[r] = "idled"
      BY <2>1 DEF NoNextAction, TypeOK
    <3> QED
      BY <1>2, <1>4, <3>1, TerminalNames
  <2>2. CASE LookupFails(r)
    <3>1. disp'[r] = Put(disp[r], ErrorEvent) /\ task'[r] = "raised"
      BY <2>2 DEF LookupFails, TypeOK
    <3> QED
      BY <1>2, <1>4, <3>1, TerminalNames
  <2>3. CASE ActionStarts(r)
    <3>1. disp'[r] = [disp[r] EXCEPT !.attached = TRUE] /\ task'[r] = "running"
      BY <2>3 DEF ActionStarts, TypeOK
    <3>2. disp'[r] \in Quiet
      BY <1>2, <3>1 DEF Dispatchers
    <3> QED
      BY <1>3, <3>1, <3>2 DEF Ended, Finished
  <2> QED
    BY <1>5, <2>1, <2>2, <2>3 DEF TaskStarts
<1>6. ASSUME CallsStreamStart(r) \/ CallsStreamChunk(r) \/ CallsStreamEnd(r)
      PROVE  DeliveryOf(r)'
  <2>1. /\ task'[r] \notin Ended
        /\ \/ disp'[r] = stream_start(disp[r])
           \/ disp'[r] = stream_chunk(disp[r], accepted[r] + 1)
           \/ disp'[r] = stream_end(disp[r])
    BY <1>2, <1>6 DEF CallsStreamStart, CallsStreamChunk, CallsStreamEnd, ActionCalls, TypeOK
  <2>2. accepted[r] + 1 \in Nat
    BY DEF TypeOK
  <2>3. disp'[r] \in Quiet
    BY <1>2, <2>1, <2>2, StartType, ChunkType, EndType
  <2> QED
    BY <1>3, <2>1, <2>3
<1>7. ASSUME ActionReturns(r) PROVE DeliveryOf(r)'
  <2>1. /\ disp'[r] = Put(AutoClose(disp[r]), DoneEvent(TRUE))
        /\ task'[r] = "returned"
    BY <1>7 DEF ActionReturns, TypeOK
  <2>2. AutoClose(disp[r]) \in Quiet
    BY <1>2, AutoCloseType
  <2> QED
    BY <1>4, <2>1, <2>2, TerminalNames
<1>8. ASSUME ActionRaises(r) PROVE DeliveryOf(r)'
  <2>1. disp'[r] = Put(disp[r], ErrorEvent) /\ task'[r] = "raised"
    BY <1>8 DEF ActionRaises, TypeOK
  <2> QED
    BY <1>2, <1>4, <2>1, TerminalNames
<1>9. ASSUME ActionCancelsItself(r) \/ TaskCancelled(r) PROVE DeliveryOf(r)'
  <2>1. disp'[r] = disp[r] /\ task'[r] = "cancelled"
    BY <1>9 DEF ActionCancelsItself, TaskCancelled, TypeOK
  <2> QED
    BY <1>2, <1>3, <2>1 DEF Ended
<1> QED
  BY <1>5, <1>6, <1>7, <1>8, <1>9 DEF Action

\* Every step of the handler that takes an event keeps the invariant.
LEMMA DeliveryLoopStep ==
  ASSUME TypeOK, NEW r \in RPC, DeliveryOf(r), Loop(r) \/ DrainEvent(r)
  PROVE  DeliveryOf(r)'
<1> USE DEF Quiet, WithResult
<1>0. /\ Consume(r) /\ pc[r] \in {"get", "drain"}
      /\ UNCHANGED <<task, ctx>>
  BY DEF Loop, DrainEvent, DetectBargeIn, DetectDisconnect, ForwardStart, ForwardChunk,
         ForwardEnd, Forward, ForwardTerminal, EncodingFails
<1>1. disp[r] \in Dispatchers(Nat, SinkEvents)
  BY DEF TypeOK
<1>2. /\ task[r] \notin Ended => disp'[r] \in Quiet /\ ~Terminal(First(r))
      /\ task[r] = "returned" =>
           disp'[r] \in WithResult /\ (Terminal(First(r)) => First(r) = DoneEvent(TRUE))
      /\ Pending(disp[r].queue) /\ ~Terminal(First(r)) => Pending(disp'[r].queue)
  <2>1. task[r] \notin Ended => disp'[r] \in Quiet /\ ~Terminal(First(r))
    BY <1>0, ConsumeFrom, TerminalNames DEF DeliveryOf
  <2>2. task[r] = "returned" =>
          disp'[r] \in WithResult /\ (Terminal(First(r)) => First(r) = DoneEvent(TRUE))
    <3>1. ASSUME task[r] = "returned"
          PROVE  /\ disp'[r] \in WithResult
                 /\ First(r) \in StreamEvents(Nat) \cup {DoneEvent(TRUE)}
      <4>1. disp[r] \in Dispatchers(Nat, StreamEvents(Nat) \cup {DoneEvent(TRUE)})
        BY <3>1 DEF DeliveryOf
      <4> QED
        BY <1>0, <4>1, ConsumeFrom
    <3> QED
      BY <3>1, TerminalNames
  <2> QED
    BY <1>0, <1>1, <2>1, <2>2, ConsumeFrom
<1>3. ASSUME pc'[r] \in {"get", "drain"}, ~Terminal(First(r)) PROVE DeliveryOf(r)'
  BY <1>0, <1>2, <1>3 DEF DeliveryOf, Left
<1>4. ASSUME pc'[r] = "finally", Gone(r) \/ Served(r)' \/ task[r] \in {"idled", "raised"}
      PROVE  DeliveryOf(r)'
  BY <1>0, <1>2, <1>4 DEF DeliveryOf, Gone
<1>5. ASSUME pc'[r] = "finally", Terminal(First(r)),
             ~Gone(r) => Deliver(r, FinalEvents(First(r)))
      PROVE  DeliveryOf(r)'
  <2>1. task[r] \in {"idled", "raised"} \/ task[r] = "returned"
    BY <1>2, <1>5 DEF Ended, Finished
  <2>2. ASSUME task[r] = "returned", ~Gone(r) PROVE Served(r)'
    <3>1. FinalEvents(First(r)) = <<FinalResult>>
      BY <1>2, <1>5, <2>2 DEF FinalEvents, DoneEvent
    <3> QED
      BY <1>5, <2>2, <3>1, DeliverServes
  <2> QED
    BY <1>4, <1>5, <2>1, <2>2
<1>6. CASE DetectBargeIn(r)
  <2>1. ~Terminal(First(r)) /\ pc'[r] = IF Gone(r) THEN "finally" ELSE "drain"
    BY <1>6 DEF DetectBargeIn, BargedIn, Goto, TypeOK
  <2> QED
    BY <1>3, <1>4, <2>1
<1>7. CASE DetectDisconnect(r)
  BY <1>4, <1>7 DEF DetectDisconnect, Goto, TypeOK
<1>8. CASE ForwardStart(r) \/ ForwardChunk(r) \/ ForwardEnd(r)
  BY <1>3, <1>8 DEF ForwardStart, ForwardChunk, ForwardEnd, Forward, Terminal
<1>9. CASE ForwardTerminal(r)
  BY <1>5, <1>9 DEF ForwardTerminal, Goto, TypeOK
<1>10. CASE EncodingFails(r)
  BY <1>4, <1>10, DeliverServes DEF EncodingFails, Goto, TypeOK
<1>11. CASE DrainEvent(r)
  <2>1. CASE Terminal(First(r))
    BY <1>5, <1>11, <2>1 DEF DrainEvent, Goto, TypeOK
  <2>2. CASE ~Terminal(First(r)) /\ Gone(r)
    BY <1>4, <1>11, <2>2 DEF DrainEvent, Goto, TypeOK
  <2>3. CASE ~Terminal(First(r)) /\ ~Gone(r)
    BY <1>0, <1>3, <1>11, <2>3 DEF DrainEvent
  <2> QED
    BY <2>1, <2>2, <2>3
<1> QED
  BY <1>6, <1>7, <1>8, <1>9, <1>10, <1>11 DEF Loop

\* Every step keeps the invariant.
LEMMA DeliveryInvStep == TypeOK /\ DeliveryInv /\ [Next]_vars => DeliveryInv'
<1> SUFFICES ASSUME TypeOK, DeliveryInv, [Next]_vars, NEW q \in RPC PROVE DeliveryOf(q)'
  BY DEF DeliveryInv
<1>0. DeliveryOf(q)
  BY DEF DeliveryInv
<1>1. ASSUME NEW r \in RPC, BeginStream(r) PROVE DeliveryOf(q)'
  <2>1. q = r => pc'[q] = "get" /\ task'[q] = "scheduled" /\ task[q] = "none"
    BY <1>0, <1>1 DEF BeginStream, DeliveryOf, TypeOK
  <2>2. q # r => pc'[q] = pc[q] /\ task'[q] = task[q]
    BY <1>1 DEF BeginStream, TypeOK
  <2>3. UNCHANGED <<disp, ctx, deadline, sent>>
    BY <1>1 DEF BeginStream
  <2> QED
    BY <1>0, <2>1, <2>2, <2>3, DeliveryUntouched DEF DeliveryOf, Ended, Finished, Left
<1>2. ASSUME NEW r \in RPC, Disconnect(r) \/ Expire(r) PROVE DeliveryOf(q)'
  <2>1. /\ UNCHANGED <<disp, task, pc, sent>>
        /\ ctx'[q] = "open" => ctx[q] = "open"
        /\ deadline'[q] # "passed" => deadline[q] # "passed"
    BY <1>2 DEF Disconnect, Expire, handlerVars, TypeOK
  <2> QED
    BY <1>0, <2>1 DEF DeliveryOf, Served
<1>3. ASSUME NEW r \in RPC, TaskStarts(r) \/ Action(r) \/ TaskCancelled(r)
      PROVE  DeliveryOf(q)'
  <2>1. CASE q = r
    BY <1>0, <1>3, <2>1, DeliveryTaskStep
  <2>2. CASE q # r
    BY <1>0, <1>3, <2>2, DeliveryUntouched
    DEF TaskStarts, NoNextAction, LookupFails, ActionStarts, Action, TaskCancelled,
        CallsStreamStart, CallsStreamChunk, CallsStreamEnd, ActionCalls, ActionReturns,
        ActionRaises, ActionCancelsItself, handlerVars, TypeOK
  <2> QED
    BY <2>1, <2>2
<1>4. ASSUME NEW r \in RPC, Loop(r) \/ DrainEvent(r) PROVE DeliveryOf(q)'
  <2>1. CASE q = r
    BY <1>0, <1>4, <2>1, DeliveryLoopStep
  <2>2. CASE q # r
    <3>1. disp'[q] = disp[q] /\ task'[q] = task[q] /\ ctx'[q] = ctx[q]
      BY <1>4, <2>2
      DEF Loop, DrainEvent, DetectBargeIn, DetectDisconnect, ForwardStart, ForwardChunk,
          ForwardEnd, Forward, ForwardTerminal, EncodingFails, Consume, TypeOK
    <3>2. pc'[q] = pc[q] /\ deadline'[q] = deadline[q] /\ sent'[q] = sent[q]
      BY <1>4, <2>2
      DEF Loop, DrainEvent, DetectBargeIn, DetectDisconnect, ForwardStart, ForwardChunk,
          ForwardEnd, Forward, ForwardTerminal, EncodingFails, Goto, Deliver, TypeOK
    <3> QED
      BY <1>0, <3>1, <3>2, DeliveryUntouched
  <2> QED
    BY <2>1, <2>2
<1>5. ASSUME NEW r \in RPC,
             \/ DrainTimeout(r) \/ Finally(r) \/ AwaitTimeout(r) \/ TaskAwaited(r)
             \/ Interrupt(r)
      PROVE  DeliveryOf(q)'
  <2>1. /\ UNCHANGED <<disp, deadline>>
        /\ ctx'[q] = "open" => ctx[q] = "open"
    BY <1>5 DEF DrainTimeout, Finally, AwaitTimeout, TaskAwaited, Interrupt, TypeOK
  <2>2. \/ task'[q] = task[q]
        \/ task[q] \notin Ended /\ task'[q] = "cancelling" /\ pc'[q] # "idle"
    BY <1>5 DEF DrainTimeout, Finally, AwaitTimeout, TaskAwaited, Interrupt, CancelTask,
                Goto, Ended, TypeOK
  <2>3. CASE q # r
    BY <1>0, <1>5, <2>1, <2>3, DeliveryUntouched
    DEF DrainTimeout, Finally, AwaitTimeout, TaskAwaited, Interrupt, CancelTask, Goto,
        Deliver, TypeOK
  <2>4. CASE q = r
    <3>1. pc[q] # "idle" /\ pc'[q] \in Left
      BY <1>5, <2>4 DEF DrainTimeout, Finally, AwaitTimeout, TaskAwaited, Interrupt, Goto,
                        Left, Places, Live, TypeOK
    <3>2. ASSUME ctx'[q] = "open", deadline[q] # "passed"
          PROVE  pc[q] \in Left /\ sent'[q] = sent[q]
      BY <1>5, <2>4, <3>2 DEF DrainTimeout, Finally, AwaitTimeout, TaskAwaited, Interrupt,
                              Left, TypeOK
    <3> QED
      BY <1>0, <2>1, <2>2, <3>1, <3>2 DEF DeliveryOf, Served, Left, Ended, Finished
  <2> QED
    BY <2>3, <2>4
<1>6. ASSUME NEW id \in 1 .. issued, AckStreamChunks(id) PROVE DeliveryOf(q)'
  <2>1. UNCHANGED <<task, pc, ctx, deadline, sent>>
    BY <1>6 DEF AckStreamChunks, handlerVars
  <2>2. disp'[q] = disp[q] \/ disp'[q] = cancel_stream(disp[q])
    BY <1>6 DEF AckStreamChunks, TypeOK
  <2>3. ASSUME NEW E, disp[q] \in Dispatchers(Nat, E)
        PROVE  cancel_stream(disp[q]) \in Dispatchers(Nat, E)
               /\ cancel_stream(disp[q]).queue = disp[q].queue
    BY <2>3 DEF cancel_stream, Dispatchers
  <2>4. disp'[q].queue = disp[q].queue
    BY <2>2, <2>3 DEF TypeOK
  <2> QED
    BY <1>0, <2>1, <2>2, <2>3, <2>4 DEF DeliveryOf, Served, Quiet, WithResult
<1>7. CASE UNCHANGED vars
  BY <1>0, <1>7, DeliveryUntouched DEF vars, handlerVars
<1> QED
  BY <1>1, <1>2, <1>3, <1>4, <1>5, <1>6, <1>7 DEF Next, Handler, AllServed

\* The invariant holds in every state.
LEMMA DeliveryInvHolds == Spec => []DeliveryInv
<1>1. Init => DeliveryInv
  <2>1. NewDispatcher \in Quiet
    BY <<>> \in Seq(Nat), <<>> \in Seq(StreamEvents(Nat))
    DEF NewDispatcher, Quiet, Dispatchers
  <2> QED
    BY <2>1 DEF Init, DeliveryInv, DeliveryOf, Left
<1> QED
  BY <1>1, TypeCorrect, DeliveryInvStep, PTL DEF Spec

\* A handler that waits for its sink while the task has ended, other than by
\* cancellation, has the terminal event still before it.
THEOREM TerminalEventPendingHolds == Spec => []TerminalEventPending
<1>1. DeliveryInv => TerminalEventPending
  BY DEF DeliveryInv, DeliveryOf, TerminalEventPending, Pending, Ended
<1> QED
  BY <1>1, DeliveryInvHolds, PTL

\* The result of an action that returned reaches its client, unless the client
\* left, the barge-in window closed or it cannot be encoded.
THEOREM ResultReachesClientHolds == Spec => []ResultReachesClient
<1>1. DeliveryInv => ResultReachesClient
  BY DEF DeliveryInv, DeliveryOf, ResultReachesClient, Served, Left
<1> QED
  BY <1>1, DeliveryInvHolds, PTL

-----------------------------------------------------------------------------
(* The chunks arrive in order.                                            *)

\* Anything but a chunk leaves the order of the chunks alone.
LEMMA InOrderOther ==
  ASSUME NEW s \in Seq(ClientEvents), NEW e, e.event # "chunk", NEW n, InOrder(s, n)
  PROVE  InOrder(Append(s, e), n)
<1> DEFINE t == Append(s, e)
           C == ChunkPositions(s)
<1>1. ChunkPositions(t) = C /\ \A i \in C : t[i] = s[i]
  BY DEF ChunkPositions
<1> HIDE DEF t, C
<1>2. {t[i].chunk : i \in C} = {s[i].chunk : i \in C}
  BY <1>1
<1>3. {s[i].chunk : i \in C} = 1 .. n /\ \A i, j \in C : i < j => s[i].chunk < s[j].chunk
  BY DEF InOrder, C
<1>4. \A i, j \in C : i < j => t[i].chunk < t[j].chunk
  BY <1>1, <1>3
<1> QED
  BY <1>1, <1>2, <1>3, <1>4 DEF InOrder, t

\* The next chunk keeps them in order.
LEMMA InOrderChunk ==
  ASSUME NEW s \in Seq(ClientEvents), NEW e, e.event = "chunk", NEW n \in Nat,
         InOrder(s, n), e.chunk = n + 1
  PROVE  InOrder(Append(s, e), n + 1)
<1> DEFINE t == Append(s, e)
           C == ChunkPositions(s)
           k == Len(s) + 1
<1>1. ChunkPositions(t) = C \cup {k} /\ C \subseteq 1 .. Len(s) /\ k \in Nat
  BY DEF ChunkPositions
<1>2. t[k] = e /\ \A i \in C : t[i] = s[i] /\ i < k
  BY <1>1
<1>3. \A i \in C : s[i].chunk \in 1 .. n
  BY DEF InOrder
<1>4. {t[i].chunk : i \in C \cup {k}} = {s[i].chunk : i \in C} \cup {n + 1}
  BY <1>2
<1>5. 1 .. n + 1 = (1 .. n) \cup {n + 1}
  OBVIOUS
<1>6. \A i, j \in C \cup {k} : i < j => t[i].chunk < t[j].chunk
  BY <1>1, <1>2, <1>3 DEF InOrder
<1> QED
  BY <1>1, <1>4, <1>5, <1>6 DEF InOrder

\* The chunks a sink holds.
QueuedChunks(q) == {i \in DOMAIN q : q[i].event = "stream_chunk"}

\* A sink holds the chunks n + 1 to a, in this order.
Waiting(q, n, a) ==
  /\ {q[i].chunk : i \in QueuedChunks(q)} = n + 1 .. a
  /\ \A i, j \in QueuedChunks(q) : i < j => q[i].chunk < q[j].chunk

\* Anything but a chunk leaves the waiting chunks alone.
LEMMA WaitingOther ==
  ASSUME NEW q \in Seq(SinkEvents), NEW e, e.event # "stream_chunk", NEW n, NEW a,
         Waiting(q, n, a)
  PROVE  Waiting(Append(q, e), n, a)
<1> DEFINE t == Append(q, e)
           C == QueuedChunks(q)
<1>1. QueuedChunks(t) = C /\ \A i \in C : t[i] = q[i]
  BY DEF QueuedChunks
<1> HIDE DEF t, C
<1>2. {t[i].chunk : i \in C} = {q[i].chunk : i \in C}
  BY <1>1
<1>3. {q[i].chunk : i \in C} = n + 1 .. a /\ \A i, j \in C : i < j => q[i].chunk < q[j].chunk
  BY DEF Waiting, C
<1>4. \A i, j \in C : i < j => t[i].chunk < t[j].chunk
  BY <1>1, <1>3
<1> QED
  BY <1>1, <1>2, <1>3, <1>4 DEF Waiting, t

\* The next chunk joins the waiting ones.
LEMMA WaitingChunk ==
  ASSUME NEW q \in Seq(SinkEvents), NEW n \in Nat, NEW a \in Nat, n <= a,
         Waiting(q, n, a)
  PROVE  Waiting(Append(q, ChunkEvent(a + 1)), n, a + 1)
<1> DEFINE e == ChunkEvent(a + 1)
           t == Append(q, e)
           C == QueuedChunks(q)
           k == Len(q) + 1
<1>0. e.event = "stream_chunk" /\ e.chunk = a + 1
  BY DEF ChunkEvent
<1> HIDE DEF e
<1>1. QueuedChunks(t) = C \cup {k} /\ C \subseteq 1 .. Len(q) /\ k \in Nat
  BY <1>0 DEF QueuedChunks
<1>2. t[k] = e /\ \A i \in C : t[i] = q[i] /\ i < k
  BY <1>1
<1>3. \A i \in C : q[i].chunk \in n + 1 .. a
  BY DEF Waiting
<1>4. {t[i].chunk : i \in C \cup {k}} = {q[i].chunk : i \in C} \cup {a + 1}
  BY <1>0, <1>2
<1>5. n + 1 .. a + 1 = (n + 1 .. a) \cup {a + 1}
  OBVIOUS
<1>6. \A i, j \in C \cup {k} : i < j => t[i].chunk < t[j].chunk
  BY <1>0, <1>1, <1>2, <1>3 DEF Waiting
<1> QED
  BY <1>1, <1>4, <1>5, <1>6 DEF Waiting, e

\* The handler takes from the sink the lowest of the waiting chunks.
LEMMA WaitingTail ==
  ASSUME NEW q \in Seq(SinkEvents), q # <<>>, NEW n \in Nat, NEW a \in Nat,
         Waiting(q, n, a)
  PROVE  /\ Head(q).event # "stream_chunk" => Waiting(Tail(q), n, a)
         /\ Head(q).event = "stream_chunk" =>
              /\ Head(q).chunk = n + 1 /\ n + 1 <= a
              /\ Waiting(Tail(q), n + 1, a)
<1> DEFINE t == Tail(q)
           C == QueuedChunks(q)
           D == QueuedChunks(t)
<1>0. q[1] = Head(q) /\ 1 \in DOMAIN q /\ C \subseteq Nat /\ D \subseteq Nat \ {0}
      /\ Len(q) \in Nat /\ \A i \in C : i = 1 \/ i > 1
  BY DEF QueuedChunks
<1>1. \A i \in D : i + 1 \in C /\ q[i + 1] = t[i]
  BY <1>0 DEF QueuedChunks
<1>2. \A i \in C : i # 1 => i - 1 \in D /\ t[i - 1] = q[i]
  BY <1>0 DEF QueuedChunks
<1>3. 1 \in C <=> Head(q).event = "stream_chunk"
  BY <1>0 DEF QueuedChunks
<1>4. {q[i].chunk : i \in C} = n + 1 .. a /\ \A i, j \in C : i < j => q[i].chunk < q[j].chunk
  BY DEF Waiting
<1> HIDE DEF C, D, t
<1>5. \A i, j \in D : i < j => t[i].chunk < t[j].chunk
  <2> TAKE i, j \in D
  <2>1. i + 1 \in C /\ j + 1 \in C /\ i \in Nat /\ j \in Nat
    BY <1>0, <1>1
  <2> QED
    BY <1>1, <1>4, <2>1
<1>6. ASSUME 1 \notin C PROVE {t[i].chunk : i \in D} = {q[i].chunk : i \in C}
  <2>1. \A i \in D : t[i].chunk \in {q[k].chunk : k \in C}
    BY <1>1
  <2>2. \A i \in C : q[i].chunk \in {t[k].chunk : k \in D}
    BY <1>2, <1>6
  <2> QED
    BY <2>1, <2>2
<1>7. ASSUME 1 \in C
      PROVE  /\ q[1].chunk = n + 1 /\ n + 1 <= a
             /\ {t[i].chunk : i \in D} = n + 2 .. a
  <2>1. q[1].chunk \in n + 1 .. a
    BY <1>4, <1>7
  <2>2. \A i \in C : i # 1 => q[i].chunk \in n + 1 .. a /\ q[1].chunk < q[i].chunk
    BY <1>0, <1>4, <1>7
  <2>3. PICK k \in C : q[k].chunk = n + 1
    <3>1. n + 1 \in n + 1 .. a
      BY <2>1
    <3> QED
      BY <3>1, <1>4
  <2>4. q[1].chunk = n + 1
    BY <2>1, <2>2, <2>3
  <2>5. \A i \in D : t[i].chunk \in n + 2 .. a
    <3> TAKE i \in D
    <3>1. i + 1 \in C /\ i + 1 # 1 /\ q[i + 1] = t[i]
      BY <1>0, <1>1
    <3>2. t[i].chunk \in n + 1 .. a /\ n + 1 < t[i].chunk
      BY <2>2, <2>4, <3>1
    <3> QED
      BY <3>2
  <2>6. \A m \in n + 2 .. a : m \in {t[i].chunk : i \in D}
    <3> TAKE m \in n + 2 .. a
    <3>1. PICK i \in C : q[i].chunk = m
      <4>1. m \in n + 1 .. a
        OBVIOUS
      <4> QED
        BY <4>1, <1>4
    <3>2. i # 1
      BY <3>1, <2>4
    <3> QED
      BY <3>1, <3>2, <1>2
  <2> QED
    BY <2>1, <2>4, <2>5, <2>6
<1>8. (n + 1) + 1 = n + 2
  OBVIOUS
<1>9. CASE 1 \in C
  BY <1>0, <1>3, <1>5, <1>7, <1>8, <1>9 DEF Waiting, D, t
<1>10. CASE 1 \notin C
  BY <1>3, <1>4, <1>5, <1>6, <1>10 DEF Waiting, D, t
<1> QED
  BY <1>9, <1>10
\* What a step of the task of call `r` does to its sink.
SinkGrows(r) ==
  LET q == disp[r].queue
      a == accepted[r]
      opens == disp'[r].active /\ calls'[r] = calls[r] + 1
  IN
    \/ disp'[r].queue = q /\ accepted'[r] = a /\ disp'[r].active = disp[r].active
    \/ disp'[r].queue = Append(q, StartEvent) /\ accepted'[r] = a /\ opens
    \/ disp'[r].queue = Append(q, EndEvent) /\ accepted'[r] = a /\ ~disp'[r].active
    \/ disp'[r].queue = Append(q, ChunkEvent(a + 1)) /\ accepted'[r] = a + 1 /\ disp[r].active
    \/ /\ disp'[r].queue = Append(Append(q, StartEvent), ChunkEvent(a + 1))
       /\ accepted'[r] = a + 1 /\ opens
    \/ /\ task'[r] \in Ended /\ accepted'[r] = a
       /\ \E e \in SinkEvents :
            /\ Terminal(e)
            /\ \/ disp'[r].queue = Append(q, e) /\ disp'[r].active = disp[r].active
               \/ disp'[r].queue = Append(Append(q, EndEvent), e) /\ ~disp'[r].active

\* A step of the task appends to the sink of its own call and touches no other call.
LEMMA TaskStepGrows ==
  ASSUME TypeOK, NEW r \in RPC, TaskStarts(r) \/ Action(r) \/ TaskCancelled(r)
  PROVE  /\ SinkGrows(r) /\ calls'[r] >= calls[r] /\ task[r] \notin Ended
         /\ task'[r] \notin Ended =>
              disp'[r] \in Dispatchers(Nat, SinkEvents)
         /\ \A q \in RPC : q # r => /\ disp'[q] = disp[q] /\ task'[q] = task[q]
                                    /\ accepted'[q] = accepted[q] /\ calls'[q] = calls[q]
         /\ UNCHANGED <<pc, rid, graceful, issued, sent>>
<1> DEFINE d == disp[r]
           a == accepted[r]
<1>1. d \in Dispatchers(Nat, SinkEvents) /\ a \in Nat /\ a + 1 \in Nat
      /\ calls[r] \in Nat /\ StreamEvents(Nat) \subseteq SinkEvents
  BY StreamEventsInSink DEF TypeOK
<1>2. UNCHANGED <<pc, rid, graceful, issued, sent>>
  BY DEF TaskStarts, Action, TaskCancelled, CallsStreamStart, CallsStreamChunk,
         CallsStreamEnd, ActionCalls, ActionReturns, ActionRaises, ActionCancelsItself,
         handlerVars
<1>3. task[r] \notin Ended
  BY DEF TaskStarts, NoNextAction, LookupFails, ActionStarts, Action, TaskCancelled,
         CallsStreamStart, CallsStreamChunk, CallsStreamEnd, ActionCalls, ActionRuns,
         ActionReturns, ActionRaises, ActionCancelsItself, Ended, Finished
<1>4. \A q \in RPC : q # r => /\ disp'[q] = disp[q] /\ task'[q] = task[q]
                             /\ accepted'[q] = accepted[q] /\ calls'[q] = calls[q]
  BY DEF TaskStarts, NoNextAction, LookupFails, ActionStarts, Action, TaskCancelled,
         CallsStreamStart, CallsStreamChunk, CallsStreamEnd, ActionCalls, ActionRuns,
         ActionReturns, ActionRaises, ActionCancelsItself, actionVars, TypeOK
<1>5. TypeOK'
  BY TypeStep DEF Next
<1>6. calls'[r] >= calls[r]
  <2>1. calls' = calls \/ calls' = [calls EXCEPT ![r] = @ + 1]
    BY DEF TaskStarts, Action, TaskCancelled, CallsStreamStart, CallsStreamChunk,
           CallsStreamEnd, ActionCalls, ActionReturns, ActionRaises, ActionCancelsItself,
           actionVars
  <2> QED
    BY <1>1, <2>1 DEF TypeOK
<1>7. ASSUME NEW x \in Dispatchers(Nat, SinkEvents), NEW e
      PROVE  Put(x, e).queue = Append(x.queue, e) /\ Put(x, e).active = x.active
  BY DEF Put, Dispatchers
<1>13. ASSUME NEW e \in SinkEvents, Terminal(e), disp'[r] = Put(d, e), task'[r] \in Ended,
              accepted'[r] = a
       PROVE  SinkGrows(r)
  <2>1. disp'[r].queue = Append(d.queue, e) /\ disp'[r].active = d.active
    BY <1>1, <1>7, <1>13
  <2> QED
    BY <1>13, <2>1 DEF SinkGrows
<1>14. d.attached =>
         /\ stream_start(d).queue = Append(d.queue, StartEvent)
         /\ stream_start(d).active
         /\ stream_end(d).queue = Append(d.queue, EndEvent)
         /\ ~stream_end(d).active
  BY <1>1, AttachedStartEnd
<1>15. d.attached =>
         /\ d.cancelled => stream_chunk(d, a + 1) = d
         /\ ~d.cancelled =>
              /\ stream_chunk(d, a + 1).active
              /\ stream_chunk(d, a + 1).queue =
                   IF d.active THEN Append(d.queue, ChunkEvent(a + 1))
                   ELSE Append(Append(d.queue, StartEvent), ChunkEvent(a + 1))
  BY <1>1, AttachedChunk
<1>8. ASSUME TaskStarts(r) PROVE SinkGrows(r)
  <2>0. accepted'[r] = a
    BY <1>8 DEF TaskStarts, actionVars
  <2>1. CASE NoNextAction(r)
    <3>1. disp'[r] = Put(d, DoneEvent(FALSE)) /\ task'[r] \in Ended
      BY <2>1 DEF NoNextAction, TypeOK, Ended, Finished
    <3>2. DoneEvent(FALSE) \in SinkEvents /\ Terminal(DoneEvent(FALSE))
      BY TerminalNames, TerminalEventsInSink
    <3> QED
      BY <1>13, <2>0, <3>1, <3>2
  <2>2. CASE LookupFails(r)
    <3>1. disp'[r] = Put(d, ErrorEvent) /\ task'[r] \in Ended
      BY <2>2 DEF LookupFails, TypeOK, Ended, Finished
    <3> QED
      BY <1>13, <2>0, <3>1, TerminalNames, TerminalEventsInSink
  <2>3. CASE ActionStarts(r)
    <3>1. disp'[r] = [d EXCEPT !.attached = TRUE]
      BY <2>3 DEF ActionStarts, TypeOK
    <3>2. disp'[r].queue = d.queue /\ disp'[r].active = d.active
      BY <1>1, <3>1 DEF Dispatchers
    <3> QED
      BY <2>0, <3>2 DEF SinkGrows
  <2> QED
    BY <1>8, <2>1, <2>2, <2>3 DEF TaskStarts
<1>9. ASSUME CallsStreamStart(r) \/ CallsStreamChunk(r) \/ CallsStreamEnd(r)
      PROVE  SinkGrows(r)
  <2>1. d.attached /\ calls'[r] = calls[r] + 1
    BY <1>9 DEF CallsStreamStart, CallsStreamChunk, CallsStreamEnd, ActionCalls,
                ActionRuns, TypeOK
  <2>2. CASE CallsStreamStart(r)
    <3>1. disp'[r] = stream_start(d) /\ accepted'[r] = a
      BY <2>2 DEF CallsStreamStart, TypeOK
    <3> QED
      BY <1>14, <1>15, <2>1, <3>1 DEF SinkGrows
  <2>3. CASE CallsStreamChunk(r)
    <3>1. disp'[r] = stream_chunk(d, a + 1)
          /\ accepted'[r] = IF d.cancelled THEN a ELSE a + 1
      BY <2>3 DEF CallsStreamChunk, TypeOK
    <3> QED
      BY <1>14, <1>15, <2>1, <3>1 DEF SinkGrows
  <2>4. CASE CallsStreamEnd(r)
    <3>1. disp'[r] = stream_end(d) /\ accepted'[r] = a
      BY <2>4 DEF CallsStreamEnd, TypeOK
    <3> QED
      BY <1>14, <1>15, <2>1, <3>1 DEF SinkGrows
  <2> QED
    BY <1>9, <2>2, <2>3, <2>4
<1>10. ASSUME ActionReturns(r) PROVE SinkGrows(r)
  <2>1. /\ disp'[r] = Put(AutoClose(d), DoneEvent(TRUE)) /\ accepted'[r] = a
        /\ task'[r] \in Ended /\ d.attached
    BY <1>10 DEF ActionReturns, ActionRuns, TypeOK, Ended, Finished, actionVars
  <2>2. AutoClose(d) \in Dispatchers(Nat, SinkEvents)
    BY <1>1, AutoCloseType
  <2>3. /\ Put(AutoClose(d), DoneEvent(TRUE)).queue
             = Append(AutoClose(d).queue, DoneEvent(TRUE))
        /\ Put(AutoClose(d), DoneEvent(TRUE)).active = AutoClose(d).active
    BY <1>7, <2>2
  <2>4. \/ AutoClose(d).queue = d.queue /\ AutoClose(d).active = d.active
        \/ AutoClose(d).queue = Append(d.queue, EndEvent) /\ ~AutoClose(d).active
    BY <1>14, <2>1 DEF AutoClose
  <2>5. DoneEvent(TRUE) \in SinkEvents /\ Terminal(DoneEvent(TRUE))
    BY TerminalNames, TerminalEventsInSink
  <2> QED
    BY <2>1, <2>3, <2>4, <2>5 DEF SinkGrows
<1>11. ASSUME ActionRaises(r) PROVE SinkGrows(r)
  <2>1. /\ disp'[r] = Put(d, ErrorEvent) /\ accepted'[r] = a /\ task'[r] \in Ended
    BY <1>11 DEF ActionRaises, TypeOK, Ended, Finished, actionVars
  <2> QED
    BY <1>13, <2>1, TerminalNames, TerminalEventsInSink
<1>12. ASSUME ActionCancelsItself(r) \/ TaskCancelled(r) PROVE SinkGrows(r)
  BY <1>12 DEF ActionCancelsItself, TaskCancelled, actionVars, SinkGrows
<1> QED
  BY <1>2, <1>3, <1>4, <1>5, <1>6, <1>8, <1>9, <1>10, <1>11, <1>12 DEF Action, TypeOK

\* The handler of call `r` has not left its loop and has noticed no barge-in.
Waits(r) == pc[r] \in {"idle", "get"}

\* What ends a stream.
Closing == {"final_result", "empty_result", "error", "aborted"}

\* The last event is the result.
EndsWithResult(s) == s # <<>> /\ s[Len(s)] = FinalResult

\* Nothing follows a terminal event in a sink.
TerminalIsLast(q) == \A i \in DOMAIN q : Terminal(q[i]) => i = Len(q)

\* The chunks sent are the first n accepted, and while the handler is in its loop
\* the sink holds all the others; a result is sent when the sink is empty.
OrderOf(r) ==
  /\ \E n \in 0 .. accepted[r] :
       /\ InOrder(sent[r], n)
       /\ Waits(r) => Waiting(disp[r].queue, n, accepted[r])
       /\ EndsWithResult(sent[r]) /\ ~graceful[r] => n = accepted[r]
  /\ \A i \in ChunkPositions(sent[r]) : sent[r][i].chunk <= i
  /\ Waits(r) => ~graceful[r]
  /\ pc[r] = "drain" => graceful[r]
  /\ TerminalIsLast(disp[r].queue)
  /\ pc[r] \in {"idle", "get", "drain"} =>
       \A i \in DOMAIN sent[r] : sent[r][i].event \notin Closing
  /\ EndsWithResult(sent[r]) => task[r] \in Ended

\* The invariant behind the order of the chunks.
OrderInv == \A r \in RPC : OrderOf(r)

\* What the events of a sink are called.
LEMMA EventNames ==
  /\ StartEvent.event = "stream_start" /\ EndEvent.event = "stream_end"
  /\ \A c \in Nat : ChunkEvent(c).event = "stream_chunk"
  /\ \A e : Terminal(e) => e.event \notin {"stream_start", "stream_end", "stream_chunk"}
  /\ StartEvent \in SinkEvents /\ EndEvent \in SinkEvents
  /\ \A c \in Nat : ChunkEvent(c) \in SinkEvents
BY DEF StartEvent, EndEvent, ChunkEvent, Terminal, SinkEvents, StreamEvents

\* A terminal event that follows none is the last.
LEMMA LastAppended ==
  ASSUME NEW q \in Seq(SinkEvents), \A i \in DOMAIN q : ~Terminal(q[i]), NEW e
  PROVE  /\ TerminalIsLast(Append(q, e))
         /\ ~Terminal(e) => \A i \in DOMAIN Append(q, e) : ~Terminal(Append(q, e)[i])
BY DEF TerminalIsLast

\* Taking an event leaves a terminal event the last.
LEMMA LastInTail ==
  ASSUME NEW q \in Seq(SinkEvents), q # <<>>, TerminalIsLast(q)
  PROVE  TerminalIsLast(Tail(q)) /\ (Terminal(Head(q)) => Len(q) = 1)
<1>1. Head(q) = q[1] /\ 1 \in DOMAIN q
  OBVIOUS
<1>2. \A i \in DOMAIN Tail(q) : i + 1 \in DOMAIN q /\ Tail(q)[i] = q[i + 1] /\ i \in Nat
  OBVIOUS
<1>3. Len(Tail(q)) = Len(q) - 1
  OBVIOUS
<1> QED
  BY <1>1, <1>2, <1>3 DEF TerminalIsLast

\* What a step that leaves a call alone preserves.
LEMMA OrderUntouched ==
  ASSUME NEW r, OrderOf(r), disp'[r].queue = disp[r].queue, accepted'[r] = accepted[r],
         sent'[r] = sent[r], task[r] \in Ended => task'[r] \in Ended,
         /\ pc'[r] = pc[r] /\ graceful'[r] = graceful[r]
  PROVE  OrderOf(r)'
BY DEF OrderOf, Waits

\* A step of the task keeps the chunks in order.
LEMMA OrderTaskStep ==
  ASSUME TypeOK, NEW r \in RPC, OrderOf(r), DeliveryOf(r),
         TaskStarts(r) \/ Action(r) \/ TaskCancelled(r)
  PROVE  OrderOf(r)'
<1> DEFINE q == disp[r].queue
           a == accepted[r]
<1>1. /\ SinkGrows(r) /\ task[r] \notin Ended
      /\ UNCHANGED <<pc, graceful, sent>>
  BY TaskStepGrows
<1>2. q \in Seq(SinkEvents) /\ a \in Nat /\ a + 1 \in Nat
  BY DEF TypeOK, Dispatchers
<1>3. \A i \in DOMAIN q : ~Terminal(q[i])
  <2>1. disp[r] \in Dispatchers(Nat, StreamEvents(Nat))
    BY <1>1 DEF DeliveryOf, Quiet
  <2>2. q \in Seq(StreamEvents(Nat))
    BY <2>1 DEF Dispatchers
  <2> QED
    BY <2>2, TerminalNames
<1>4. ~EndsWithResult(sent[r])
  BY <1>1 DEF OrderOf
<1>5. PICK n \in 0 .. a : InOrder(sent[r], n) /\ (Waits(r) => Waiting(q, n, a))
  BY DEF OrderOf
<1> DEFINE Kept(x, b) == TerminalIsLast(x) /\ (Waits(r) => Waiting(x, n, b))
<1>6. n \in Nat /\ n <= a /\ n \in 0 .. a + 1
  BY <1>2
<1>7. Kept(q, a)
  BY <1>5 DEF OrderOf
<1>8. ASSUME NEW e, ~Terminal(e), e.event # "stream_chunk"
      PROVE  Kept(Append(q, e), a) /\ (\A i \in DOMAIN Append(q, e) : ~Terminal(Append(q, e)[i]))
  BY <1>2, <1>3, <1>5, <1>8, WaitingOther, LastAppended
<1>9. Kept(Append(q, ChunkEvent(a + 1)), a + 1)
  BY <1>2, <1>3, <1>5, <1>6, WaitingChunk, LastAppended
<1>10. Kept(Append(Append(q, StartEvent), ChunkEvent(a + 1)), a + 1)
  <2> DEFINE p == Append(q, StartEvent)
  <2>1. p \in Seq(SinkEvents)
    BY <1>2, EventNames
  <2>2. Kept(p, a) /\ \A i \in DOMAIN p : ~Terminal(p[i])
    BY <1>8, EventNames
  <2> HIDE DEF p
  <2> QED
    BY <1>2, <1>6, <2>1, <2>2, WaitingChunk, LastAppended DEF p
<1>11. ASSUME NEW e \in SinkEvents, Terminal(e)
       PROVE  Kept(Append(q, e), a) /\ Kept(Append(Append(q, EndEvent), e), a)
  <2> DEFINE p == Append(q, EndEvent)
  <2>1. p \in Seq(SinkEvents)
    BY <1>2, EventNames
  <2>2. Kept(p, a) /\ \A i \in DOMAIN p : ~Terminal(p[i])
    BY <1>8, EventNames
  <2>3. Kept(Append(q, e), a)
    BY <1>2, <1>3, <1>5, <1>11, WaitingOther, LastAppended, EventNames
  <2> HIDE DEF p
  <2>4. Kept(Append(p, e), a)
    BY <1>11, <2>1, <2>2, WaitingOther, LastAppended, EventNames
  <2> QED
    BY <2>3, <2>4 DEF p
<1>12. Kept(disp'[r].queue, accepted'[r]) /\ n \in 0 .. accepted'[r]
  <2> HIDE DEF Kept
  <2>1. Kept(Append(q, StartEvent), a) /\ Kept(Append(q, EndEvent), a)
    BY <1>8, EventNames
  <2> QED
    BY <1>1, <1>6, <1>7, <1>9, <1>10, <1>11, <2>1 DEF SinkGrows
<1> QED
  BY <1>1, <1>4, <1>5, <1>12 DEF OrderOf, Waits

\* A client has received no more chunks than events.
LEMMA PositionBound ==
  ASSUME NEW s \in Seq(ClientEvents), NEW n \in Nat, InOrder(s, n),
         \A i \in ChunkPositions(s) : s[i].chunk <= i
  PROVE  n <= Len(s)
<1>1. CASE n = 0
  BY <1>1
<1>2. CASE n # 0
  <2>1. n \in 1 .. n
    BY <1>2
  <2>2. PICK i \in ChunkPositions(s) : s[i].chunk = n
    BY <2>1 DEF InOrder
  <2>3. i \in Nat /\ i <= Len(s)
    BY DEF ChunkPositions
  <2> QED
    BY <2>2, <2>3
<1> QED
  BY <1>1, <1>2

\* Delivering one event appends it.
LEMMA DeliverAppends ==
  ASSUME TypeOK, NEW r \in RPC, NEW e, Deliver(r, <<e>>)
  PROVE  /\ sent[r] \in Seq(ClientEvents) /\ sent'[r] = Append(sent[r], e)
         /\ EndsWithResult(sent'[r]) <=> e = FinalResult
<1>1. sent[r] \in Seq(ClientEvents) /\ sent'[r] = Append(sent[r], e)
  BY DEF TypeOK, Deliver
<1> QED
  BY <1>1 DEF EndsWithResult

\* Appending keeps every chunk at a position no lower than its number.
LEMMA PositionsKept ==
  ASSUME NEW s \in Seq(ClientEvents), \A i \in ChunkPositions(s) : s[i].chunk <= i,
         NEW e, e.event = "chunk" => e.chunk <= Len(s) + 1
  PROVE  \A i \in ChunkPositions(Append(s, e)) : Append(s, e)[i].chunk <= i
BY DEF ChunkPositions

\* Sending something that closes nothing keeps the stream open.
LEMMA StaysOpen ==
  ASSUME NEW s \in Seq(ClientEvents), \A i \in DOMAIN s : s[i].event \notin Closing,
         NEW e, e.event \notin Closing
  PROVE  \A i \in DOMAIN Append(s, e) : Append(s, e)[i].event \notin Closing
OBVIOUS

\* A step of the loop or of the drain keeps the chunks in order.
LEMMA OrderLoopStep ==
  ASSUME TypeOK, NEW r \in RPC, OrderOf(r), DeliveryOf(r), Loop(r) \/ DrainEvent(r)
  PROVE  OrderOf(r)'
<1> DEFINE q == disp[r].queue
           a == accepted[r]
           s == sent[r]
<1>1. /\ Consume(r) /\ pc[r] \in {"get", "drain"} /\ UNCHANGED task
      /\ accepted'[r] = a
  BY DEF Loop, DrainEvent, DetectBargeIn, DetectDisconnect, ForwardStart, ForwardChunk,
         ForwardEnd, Forward, ForwardTerminal, EncodingFails, actionVars
<1>2. /\ q \in Seq(SinkEvents) /\ q # <<>> /\ a \in Nat /\ s \in Seq(ClientEvents)
      /\ disp'[r].queue = Tail(q) /\ First(r) = Head(q)
  <2>1. disp[r] \in Dispatchers(Nat, SinkEvents)
    BY DEF TypeOK
  <2>2. disp'[r] = [disp[r] EXCEPT !.queue = Tail(q)] /\ q # <<>>
    BY <1>1 DEF Consume, TypeOK
  <2> QED
    BY <2>1, <2>2 DEF Dispatchers, TypeOK, First
<1>3. TerminalIsLast(Tail(q)) /\ (Terminal(First(r)) => Len(q) = 1)
  BY <1>2, LastInTail DEF OrderOf
<1>4. Terminal(First(r)) => task[r] \in Ended
  BY <1>1, ConsumeFrom, TerminalNames DEF DeliveryOf, Quiet
<1>5. PICK n \in 0 .. a : InOrder(s, n) /\ (Waits(r) => Waiting(q, n, a))
  BY DEF OrderOf
<1>6. /\ n \in Nat /\ n <= a /\ n <= Len(s)
      /\ \A i \in DOMAIN s : s[i].event \notin Closing
      /\ \A i \in ChunkPositions(s) : s[i].chunk <= i
      /\ ~EndsWithResult(s)
      /\ pc[r] = "get" => Waiting(q, n, a) /\ ~graceful[r]
      /\ pc[r] = "drain" => graceful[r]
  <2>1. \A i \in ChunkPositions(s) : s[i].chunk <= i
    BY DEF OrderOf
  <2>2. \A i \in DOMAIN s : s[i].event \notin Closing
    BY <1>1 DEF OrderOf
  <2>3. ~EndsWithResult(s)
    BY <1>2, <2>2 DEF EndsWithResult, FinalResult, Closing
  <2> QED
    BY <1>1, <1>2, <1>5, <2>1, <2>2, <2>3, PositionBound DEF OrderOf, Waits
\* Nothing is sent.
<1>7. ASSUME sent'[r] = s, pc'[r] = "get" => Waiting(Tail(q), n, a) /\ ~graceful'[r],
             pc'[r] = "drain" => graceful'[r], pc'[r] # "idle"
      PROVE  OrderOf(r)'
  BY <1>1, <1>2, <1>3, <1>5, <1>6, <1>7 DEF OrderOf, Waits
\* An event that is not a chunk closes the stream or leaves the loop where it is.
<1>8. ASSUME NEW e, Deliver(r, <<e>>), e.event # "chunk",
             \/ pc'[r] = "finally"
             \/ pc'[r] = "get" /\ e.event \notin Closing /\ Waiting(Tail(q), n, a)
                /\ ~graceful'[r],
             e = FinalResult => task[r] \in Ended /\ (~graceful'[r] => n = a)
      PROVE  OrderOf(r)'
  <2>1. /\ sent'[r] = Append(s, e)
        /\ EndsWithResult(sent'[r]) <=> e = FinalResult
    BY <1>8, DeliverAppends
  <2>2. InOrder(Append(s, e), n)
    BY <1>2, <1>5, <1>8, InOrderOther
  <2>3. \A i \in ChunkPositions(Append(s, e)) : Append(s, e)[i].chunk <= i
    BY <1>2, <1>6, <1>8, PositionsKept
  <2>4. e.event \notin Closing =>
          \A i \in DOMAIN Append(s, e) : Append(s, e)[i].event \notin Closing
    BY <1>2, <1>6, StaysOpen
  <2>5. n \in 0 .. accepted'[r] /\ task' = task /\ TerminalIsLast(disp'[r].queue)
    BY <1>1, <1>2, <1>3
  <2>6. pc'[r] = "get" => Waiting(disp'[r].queue, n, accepted'[r]) /\ ~graceful'[r]
    BY <1>1, <1>2, <1>8
  <2>7. EndsWithResult(sent'[r]) => task'[r] \in Ended /\ (~graceful'[r] => n = accepted'[r])
    BY <1>1, <1>8, <2>1
  <2>8. (Waits(r)' \/ pc'[r] = "drain" => pc'[r] = "get") /\ (pc'[r] # "get" => pc'[r] # "drain")
    BY <1>8 DEF Waits
  <2>9. pc'[r] \in {"idle", "get", "drain"} =>
          \A i \in DOMAIN sent'[r] : sent'[r][i].event \notin Closing
    BY <1>8, <2>1, <2>4
  <2> QED
    BY <2>1, <2>2, <2>3, <2>5, <2>6, <2>7, <2>8, <2>9 DEF OrderOf, Waits
<1>9. CASE DetectBargeIn(r)
  BY <1>7, <1>9 DEF DetectBargeIn, Goto, TypeOK
<1>10. CASE DetectDisconnect(r)
  BY <1>7, <1>10 DEF DetectDisconnect, Goto, TypeOK
<1>11. CASE ForwardStart(r)
  <2>1. /\ Deliver(r, <<ChunkStart(issued + 1)>>) /\ pc'[r] = "get" /\ pc[r] = "get"
        /\ First(r).event = "stream_start" /\ graceful' = graceful
    BY <1>11 DEF ForwardStart, Forward, NewResponseId
  <2>2. Waiting(Tail(q), n, a)
    BY <1>2, <1>6, <2>1, WaitingTail
  <2> QED
    BY <1>6, <1>8, <2>1, <2>2 DEF ChunkStart, Closing, FinalResult
<1>12. CASE ForwardChunk(r)
  <2> DEFINE c == Chunk(rid[r], First(r).chunk)
  <2>1. /\ Deliver(r, <<c>>) /\ pc'[r] = "get" /\ pc[r] = "get"
        /\ First(r).event = "stream_chunk" /\ graceful' = graceful
    BY <1>12 DEF ForwardChunk, Forward
  <2>2. First(r).chunk = n + 1 /\ n + 1 <= a /\ Waiting(Tail(q), n + 1, a)
    BY <1>2, <1>6, <2>1, WaitingTail
  <2>3. c.event = "chunk" /\ c.chunk = n + 1 /\ c # FinalResult
    BY <2>2 DEF Chunk, FinalResult
  <2> HIDE DEF c
  <2>4. /\ sent'[r] = Append(s, c)
        /\ ~EndsWithResult(sent'[r])
    BY <2>1, <2>3, DeliverAppends
  <2>5. InOrder(Append(s, c), n + 1)
    BY <1>2, <1>5, <1>6, <2>3, InOrderChunk
  <2>6. \A i \in ChunkPositions(Append(s, c)) : Append(s, c)[i].chunk <= i
    <3>1. c.chunk <= Len(s) + 1
      BY <1>2, <1>6, <2>3
    <3> QED
      BY <1>2, <1>6, <3>1, PositionsKept
  <2>7. \A i \in DOMAIN Append(s, c) : Append(s, c)[i].event \notin Closing
    BY <1>2, <1>6, <2>3, StaysOpen DEF Closing
  <2>8. n + 1 \in 0 .. accepted'[r] /\ task' = task /\ TerminalIsLast(disp'[r].queue)
    BY <1>1, <1>2, <1>3, <1>6, <2>2
  <2>9. Waiting(disp'[r].queue, n + 1, accepted'[r]) /\ ~graceful'[r]
    BY <1>1, <1>2, <1>6, <2>1, <2>2
  <2> QED
    BY <2>1, <2>4, <2>5, <2>6, <2>7, <2>8, <2>9 DEF OrderOf, Waits
<1>13. CASE ForwardEnd(r)
  <2>1. /\ Deliver(r, <<ChunkEnd(rid[r])>>) /\ pc'[r] = "get" /\ pc[r] = "get"
        /\ First(r).event = "stream_end" /\ graceful' = graceful
    BY <1>13 DEF ForwardEnd, Forward
  <2>2. Waiting(Tail(q), n, a)
    BY <1>2, <1>6, <2>1, WaitingTail
  <2> QED
    BY <1>6, <1>8, <2>1, <2>2 DEF ChunkEnd, Closing, FinalResult
<1>14. ASSUME Terminal(First(r)), pc'[r] = "finally", UNCHANGED graceful,
              sent'[r] = s \/ Deliver(r, FinalEvents(First(r)))
       PROVE  OrderOf(r)'
  <2>1. pc[r] = "get" => n = a
    <3>1. Len(q) = 1 /\ q[1] = First(r)
      BY <1>2, <1>3, <1>14
    <3>2. QueuedChunks(q) = {}
      BY <1>2, <1>14, <3>1 DEF QueuedChunks, Terminal
    <3>3. pc[r] = "get" => n + 1 .. a = {}
      BY <1>6, <3>2 DEF Waiting
    <3>4. n < a => n + 1 \in n + 1 .. a
      BY <1>2, <1>6
    <3> QED
      BY <1>2, <1>6, <3>3, <3>4
  <2>2. graceful[r] \/ n = a
    BY <1>1, <1>6, <2>1
  <2>3. CASE sent'[r] = s \/ FinalEvents(First(r)) = <<>>
    <3>1. sent'[r] = s
      BY <1>2, <1>14, <2>3 DEF Deliver, TypeOK
    <3> QED
      BY <1>7, <1>14, <3>1
  <2>4. CASE Deliver(r, <<StreamError>>)
    BY <1>8, <1>14, <2>4 DEF StreamError, FinalResult
  <2>5. CASE Deliver(r, <<FinalResult>>)
    BY <1>4, <1>8, <1>14, <2>2, <2>5 DEF FinalResult
  <2> QED
    BY <1>14, <2>3, <2>4, <2>5 DEF FinalEvents
<1>15. CASE ForwardTerminal(r)
  BY <1>14, <1>15 DEF ForwardTerminal, Goto, TypeOK
<1>16. CASE EncodingFails(r)
  BY <1>8, <1>16 DEF EncodingFails, Goto, TypeOK, Aborted, FinalResult
<1>17. CASE DrainEvent(r)
  <2>1. CASE Terminal(First(r))
    BY <1>14, <1>17, <2>1 DEF DrainEvent, Goto, TypeOK
  <2>2. CASE ~Terminal(First(r))
    BY <1>6, <1>7, <1>17, <2>2 DEF DrainEvent, Goto, TypeOK
  <2> QED
    BY <2>1, <2>2
<1> QED
  BY <1>9, <1>10, <1>11, <1>12, <1>13, <1>15, <1>16, <1>17 DEF Loop

\* Every step keeps the invariant.
LEMMA OrderInvStep ==
  TypeOK /\ DeliveryInv /\ OrderInv /\ [Next]_vars => OrderInv'
<1> SUFFICES ASSUME TypeOK, DeliveryInv, OrderInv, [Next]_vars, NEW q \in RPC
             PROVE  OrderOf(q)'
  BY DEF OrderInv
<1>0. OrderOf(q) /\ DeliveryOf(q)
  BY DEF OrderInv, DeliveryInv
<1>1. ASSUME NEW r \in RPC, BeginStream(r) PROVE OrderOf(q)'
  <2>1. UNCHANGED <<disp, accepted, sent, graceful>>
    BY <1>1 DEF BeginStream, actionVars
  <2>2. q # r => pc'[q] = pc[q] /\ task'[q] = task[q]
    BY <1>1 DEF BeginStream, TypeOK
  <2>3. q = r => pc'[q] = "get" /\ pc[q] = "idle" /\ task[q] \notin Ended
    BY <1>0, <1>1 DEF BeginStream, TypeOK, DeliveryOf, Ended, Finished
  <2>4. CASE q # r
    BY <1>0, <2>1, <2>2, <2>4, OrderUntouched
  <2>5. CASE q = r
    BY <1>0, <2>1, <2>3, <2>5 DEF OrderOf, Waits
  <2> QED
    BY <2>4, <2>5
<1>2. ASSUME NEW r \in RPC, Disconnect(r) \/ Expire(r) PROVE OrderOf(q)'
  BY <1>0, <1>2, OrderUntouched DEF Disconnect, Expire, handlerVars, actionVars
<1>3. ASSUME NEW r \in RPC, TaskStarts(r) \/ Action(r) \/ TaskCancelled(r)
      PROVE  OrderOf(q)'
  <2>1. CASE q = r
    BY <1>0, <1>3, <2>1, OrderTaskStep
  <2>2. CASE q # r
    <3>1. /\ disp'[q] = disp[q] /\ task'[q] = task[q] /\ accepted'[q] = accepted[q]
          /\ UNCHANGED <<pc, graceful, sent>>
      BY <1>3, <2>2, TaskStepGrows
    <3> QED
      BY <1>0, <3>1, OrderUntouched
  <2> QED
    BY <2>1, <2>2
<1>4. ASSUME NEW r \in RPC, Loop(r) \/ DrainEvent(r) PROVE OrderOf(q)'
  <2>1. CASE q = r
    BY <1>0, <1>4, <2>1, OrderLoopStep
  <2>2. CASE q # r
    <3>1. disp'[q] = disp[q] /\ task'[q] = task[q] /\ accepted'[q] = accepted[q]
      BY <1>4, <2>2
      DEF Loop, DrainEvent, DetectBargeIn, DetectDisconnect, ForwardStart, ForwardChunk,
          ForwardEnd, Forward, ForwardTerminal, EncodingFails, Consume, actionVars, TypeOK
    <3>2. pc'[q] = pc[q] /\ graceful'[q] = graceful[q] /\ sent'[q] = sent[q]
      BY <1>4, <2>2
      DEF Loop, DrainEvent, DetectBargeIn, DetectDisconnect, ForwardStart, ForwardChunk,
          ForwardEnd, Forward, ForwardTerminal, EncodingFails, Goto, Deliver, TypeOK
    <3> QED
      BY <1>0, <3>1, <3>2, OrderUntouched
  <2> QED
    BY <2>1, <2>2
<1>5. ASSUME NEW r \in RPC,
             Finally(r) \/ AwaitTimeout(r) \/ TaskAwaited(r) \/ Interrupt(r)
      PROVE  OrderOf(q)'
  <2>1. UNCHANGED <<disp, sent, accepted, graceful>>
    BY <1>5 DEF Finally, AwaitTimeout, TaskAwaited, Interrupt, actionVars
  <2>2. /\ task[q] \in Ended => task'[q] \in Ended
        /\ pc'[q] = pc[q] \/ pc'[q] \in Left
    BY <1>5 DEF Finally, AwaitTimeout, TaskAwaited, Interrupt, CancelTask, Goto, Left,
                Ended, TypeOK
  <2> QED
    BY <1>0, <2>1, <2>2 DEF OrderOf, Waits, Left
<1>6. ASSUME NEW r \in RPC, DrainTimeout(r) PROVE OrderOf(q)'
  <2>1. UNCHANGED <<disp, task, accepted, graceful>> /\ pc[r] = "drain"
    BY <1>6 DEF DrainTimeout, actionVars
  <2>2. CASE q # r
    <3>1. pc'[q] = pc[q] /\ sent'[q] = sent[q]
      BY <1>6, <2>2 DEF DrainTimeout, Goto, Deliver, TypeOK
    <3> QED
      BY <1>0, <2>1, <3>1, OrderUntouched
  <2>3. CASE q = r /\ Gone(r)
    BY <1>0, <1>6, <2>1, <2>3 DEF DrainTimeout, Goto, TypeOK, OrderOf, Waits
  <2>4. CASE q = r /\ ~Gone(r)
    <3>1. Deliver(q, <<EmptyResult>>) /\ pc'[q] = "finally"
      BY <1>6, <2>4 DEF DrainTimeout, Goto, TypeOK
    <3>2. EmptyResult.event # "chunk" /\ EmptyResult # FinalResult
      BY DEF EmptyResult, FinalResult
    <3>3. /\ sent[q] \in Seq(ClientEvents) /\ sent'[q] = Append(sent[q], EmptyResult)
          /\ ~EndsWithResult(sent'[q])
      BY <3>1, <3>2, DeliverAppends
    <3>4. PICK n \in 0 .. accepted[q] : InOrder(sent[q], n)
      BY <1>0 DEF OrderOf
    <3>5. InOrder(sent'[q], n)
      BY <3>2, <3>3, <3>4, InOrderOther
    <3>6. \A i \in ChunkPositions(sent[q]) : sent[q][i].chunk <= i
      BY <1>0 DEF OrderOf
    <3>7. \A i \in ChunkPositions(sent'[q]) : sent'[q][i].chunk <= i
      BY <3>2, <3>3, <3>6, PositionsKept
    <3> QED
      BY <1>0, <2>1, <3>1, <3>3, <3>4, <3>5, <3>7 DEF OrderOf, Waits
  <2> QED
    BY <2>2, <2>3, <2>4
<1>7. ASSUME NEW id \in 1 .. issued, AckStreamChunks(id) PROVE OrderOf(q)'
  <2>1. UNCHANGED <<task, pc, sent, graceful, accepted>>
    BY <1>7 DEF AckStreamChunks, handlerVars, actionVars
  <2>2. disp'[q] = disp[q] \/ disp'[q] = cancel_stream(disp[q])
    BY <1>7 DEF AckStreamChunks, TypeOK
  <2>3. disp'[q].queue = disp[q].queue
    BY <2>2 DEF cancel_stream, Dispatchers, TypeOK
  <2> QED
    BY <1>0, <2>1, <2>3, OrderUntouched
<1>8. CASE UNCHANGED vars
  BY <1>0, <1>8, OrderUntouched DEF vars, handlerVars, actionVars
<1> QED
  BY <1>1, <1>2, <1>3, <1>4, <1>5, <1>6, <1>7, <1>8 DEF Next, Handler, AllServed

\* OrderInv is an invariant.
LEMMA OrderInvHolds == Spec => []OrderInv
<1>1. Init => OrderInv
  <2> SUFFICES ASSUME Init, NEW r \in RPC PROVE OrderOf(r)
    BY DEF OrderInv
  <2>1. disp[r].queue = <<>> /\ sent[r] = <<>> /\ accepted[r] = 0 /\ ~graceful[r]
        /\ pc[r] = "idle"
    BY DEF Init, NewDispatcher
  <2>2. InOrder(<<>>, 0) /\ Waiting(<<>>, 0, 0)
    BY DEF InOrder, ChunkPositions, Waiting, QueuedChunks
  <2> QED
    BY <2>1, <2>2 DEF OrderOf, Waits, EndsWithResult, TerminalIsLast, ChunkPositions
<1> QED
  BY <1>1, TypeCorrect, DeliveryInvHolds, OrderInvStep, PTL DEF Spec

\* The client sees the chunks in the order of the action and without a gap, and
\* all of them when the call ends with the result outside a barge-in
\* (ChunksArriveInOrder: executor.py:253-264, grpc_server.py:331-405).
THEOREM ChunksArriveInOrderHolds == Spec => []ChunksArriveInOrder
<1>1. OrderInv => ChunksArriveInOrder
  BY DEF OrderInv, OrderOf, ChunksArriveInOrder, EndsWithResult
<1> QED
  BY <1>1, OrderInvHolds, PTL

-----------------------------------------------------------------------------
(* The protocol is implemented.                                            *)

\* A response is open before position i of a sink, if one is `open` before it.
OpenBefore(q, i, open) ==
  \/ \E k \in 1 .. i - 1 :
       /\ q[k].event = "stream_start"
       /\ \A j \in k + 1 .. i - 1 : q[j].event # "stream_end"
  \/ open /\ \A j \in 1 .. i - 1 : q[j].event # "stream_end"

\* Every chunk in a sink belongs to a response, and so does what an active
\* dispatcher adds next; `open` says whether the client has an open response.
Bracketed(q, active, open) ==
  /\ \A i \in QueuedChunks(q) : OpenBefore(q, i, open)
  /\ active => OpenBefore(q, Len(q) + 1, open)

\* The client has been sent the start of response `id` and only chunks since.
Announced(s, id) ==
  \E i \in DOMAIN s :
    /\ s[i] = ChunkStart(id)
    /\ \A j \in i + 1 .. Len(s) : s[j].event = "chunk"

\* What a dispatcher adds to its sink keeps the chunks inside responses.
LEMMA BracketedAppend ==
  ASSUME NEW q \in Seq(SinkEvents), NEW e, NEW active \in BOOLEAN, NEW open \in BOOLEAN,
         NEW next \in BOOLEAN, Bracketed(q, active, open),
         e.event = "stream_chunk" => active,
         next => e.event = "stream_start" \/ (active /\ e.event # "stream_end")
  PROVE  Bracketed(Append(q, e), next, open)
<1> DEFINE t == Append(q, e)
           m == Len(q)
<1>1. /\ m \in Nat /\ Len(t) = m + 1 /\ t[m + 1] = e /\ DOMAIN t = 1 .. m + 1
      /\ \A i \in 1 .. m : t[i] = q[i] /\ DOMAIN q = 1 .. m
  OBVIOUS
<1> HIDE DEF t, m
<1>2. ASSUME NEW i \in 1 .. m + 1, OpenBefore(q, i, open) PROVE OpenBefore(t, i, open)
  <2>1. \A j \in 1 .. i - 1 : t[j] = q[j] /\ j \in Nat
    BY <1>1, <1>2
  <2>2. CASE open /\ \A j \in 1 .. i - 1 : q[j].event # "stream_end"
    BY <2>1, <2>2 DEF OpenBefore
  <2>3. ASSUME NEW k \in 1 .. i - 1, q[k].event = "stream_start",
               \A j \in k + 1 .. i - 1 : q[j].event # "stream_end"
        PROVE  OpenBefore(t, i, open)
    <3>1. \A j \in k + 1 .. i - 1 : j \in 1 .. i - 1
      BY <1>1, <2>3
    <3> QED
      BY <2>1, <2>3, <3>1 DEF OpenBefore
  <2> QED
    BY <1>2, <2>2, <2>3 DEF OpenBefore
<1>3. ASSUME active, e.event # "stream_end" PROVE OpenBefore(t, m + 2, open)
  <2>1. OpenBefore(t, m + 1, open)
    BY <1>1, <1>2, <1>3 DEF Bracketed, m
  <2>2. (m + 1) - 1 = m /\ (m + 2) - 1 = m + 1
    BY <1>1
  <2>3. CASE open /\ \A j \in 1 .. m : t[j].event # "stream_end"
    <3>1. \A j \in 1 .. m + 1 : t[j].event # "stream_end"
      BY <1>1, <1>3, <2>3
    <3> QED
      BY <2>2, <2>3, <3>1 DEF OpenBefore
  <2>4. ASSUME NEW k \in 1 .. m, t[k].event = "stream_start",
               \A j \in k + 1 .. m : t[j].event # "stream_end"
        PROVE  OpenBefore(t, m + 2, open)
    <3>1. \A j \in k + 1 .. m + 1 : t[j].event # "stream_end"
      BY <1>1, <1>3, <2>4
    <3>2. k \in 1 .. m + 1
      BY <1>1
    <3> QED
      BY <2>2, <2>4, <3>1, <3>2 DEF OpenBefore
  <2> QED
    BY <2>1, <2>2, <2>3, <2>4 DEF OpenBefore
<1>4. ASSUME e.event = "stream_start" PROVE OpenBefore(t, m + 2, open)
  <2>1. (m + 2) - 1 = m + 1 /\ m + 1 \in 1 .. m + 1
        /\ (m + 1) + 1 .. m + 1 = {}
    BY <1>1
  <2> QED
    BY <1>1, <1>4, <2>1 DEF OpenBefore
<1>5. ASSUME NEW i \in QueuedChunks(t) PROVE OpenBefore(t, i, open)
  <2>1. CASE i = m + 1
    <3>1. active
      BY <1>1, <1>5, <2>1 DEF QueuedChunks
    <3> QED
      BY <1>1, <1>2, <2>1, <3>1 DEF Bracketed, m
  <2>2. CASE i # m + 1
    <3>1. i \in 1 .. m /\ i \in QueuedChunks(q) /\ i \in 1 .. m + 1
      BY <1>1, <1>5, <2>2 DEF QueuedChunks
    <3> QED
      BY <1>2, <3>1 DEF Bracketed
  <2> QED
    BY <2>1, <2>2
<1>6. Len(t) + 1 = m + 2
  BY <1>1
<1> QED
  BY <1>3, <1>4, <1>5, <1>6 DEF Bracketed, t

\* A chunk the handler takes belongs to the response the client has open.
LEMMA BracketedTail ==
  ASSUME NEW q \in Seq(SinkEvents), q # <<>>, NEW active \in BOOLEAN, NEW open \in BOOLEAN,
         NEW next \in BOOLEAN, Bracketed(q, active, open),
         Head(q).event = "stream_start" => next,
         Head(q).event # "stream_end" /\ open => next
  PROVE  /\ Bracketed(Tail(q), active, next)
         /\ Head(q).event = "stream_chunk" => open
<1> DEFINE t == Tail(q)
           m == Len(q)
<1>1. /\ m \in Nat /\ m >= 1 /\ Len(t) = m - 1 /\ q[1] = Head(q)
      /\ DOMAIN t = 1 .. m - 1 /\ DOMAIN q = 1 .. m
      /\ \A i \in 1 .. m - 1 : t[i] = q[i + 1]
  OBVIOUS
<1> HIDE DEF t, m
<1>2. ASSUME NEW i \in 1 .. m, OpenBefore(q, i + 1, open) PROVE OpenBefore(t, i, next)
  <2>0. (i + 1) - 1 = i /\ i \in Nat
    BY <1>1
  <2>1. \A j \in 1 .. i - 1 : t[j] = q[j + 1] /\ j + 1 \in 1 .. i
    BY <1>1
  <2>2. CASE open /\ \A j \in 1 .. i : q[j].event # "stream_end"
    <3>1. next
      BY <1>1, <2>0, <2>2
    <3>2. \A j \in 1 .. i - 1 : t[j].event # "stream_end"
      BY <2>1, <2>2
    <3> QED
      BY <3>1, <3>2 DEF OpenBefore
  <2>3. ASSUME NEW k \in 1 .. i, q[k].event = "stream_start",
               \A j \in k + 1 .. i : q[j].event # "stream_end"
        PROVE  OpenBefore(t, i, next)
    <3>1. CASE k = 1
      <4>1. next
        BY <1>1, <2>3, <3>1
      <4>2. \A j \in 1 .. i - 1 : j + 1 \in k + 1 .. i
        BY <2>0, <3>1
      <4>3. \A j \in 1 .. i - 1 : t[j].event # "stream_end"
        BY <2>1, <2>3, <4>2
      <4> QED
        BY <4>1, <4>3 DEF OpenBefore
    <3>2. CASE k # 1
      <4>1. k - 1 \in 1 .. i - 1 /\ t[k - 1] = q[k]
        BY <2>0, <2>1, <3>2
      <4>2. \A j \in (k - 1) + 1 .. i - 1 : j \in 1 .. i - 1 /\ j + 1 \in k + 1 .. i
        BY <2>0, <3>2
      <4>3. \A j \in (k - 1) + 1 .. i - 1 : t[j].event # "stream_end"
        BY <2>1, <2>3, <4>2
      <4> QED
        BY <2>3, <4>1, <4>3 DEF OpenBefore
    <3> QED
      BY <3>1, <3>2
  <2> QED
    BY <1>2, <2>0, <2>2, <2>3 DEF OpenBefore
<1>3. ASSUME NEW i \in QueuedChunks(t) PROVE OpenBefore(t, i, next)
  <2>1. i \in 1 .. m /\ i + 1 \in QueuedChunks(q)
    BY <1>1, <1>3 DEF QueuedChunks
  <2> QED
    BY <1>2, <2>1 DEF Bracketed
<1>4. ASSUME active PROVE OpenBefore(t, Len(t) + 1, next)
  <2>1. Len(t) + 1 = m /\ m \in 1 .. m
    BY <1>1
  <2> QED
    BY <1>2, <1>4, <2>1 DEF Bracketed, m
<1>5. ASSUME Head(q).event = "stream_chunk" PROVE open
  <2>1. 1 \in QueuedChunks(q) /\ 1 .. 1 - 1 = {}
    BY <1>1, <1>5 DEF QueuedChunks
  <2>2. OpenBefore(q, 1, open)
    BY <2>1 DEF Bracketed
  <2> QED
    BY <2>1, <2>2 DEF OpenBefore
<1> QED
  BY <1>3, <1>4, <1>5 DEF Bracketed, t

\* The announcements a client has received.
StartsIn(s) == {i \in DOMAIN s : s[i].event = "chunk_start"}

\* The announcements waiting in a sink.
StartsOf(q) == {i \in DOMAIN q : q[i].event = "stream_start"}

\* How the number of announcements received changes.
LEMMA StartsInAppend ==
  ASSUME NEW s \in Seq(ClientEvents), NEW e
  PROVE  /\ Cardinality(StartsIn(s)) \in Nat
         /\ e.event # "chunk_start" =>
              Cardinality(StartsIn(Append(s, e))) = Cardinality(StartsIn(s))
         /\ e.event = "chunk_start" =>
              Cardinality(StartsIn(Append(s, e))) = Cardinality(StartsIn(s)) + 1
<1> DEFINE S == StartsIn(s)
           k == Len(s) + 1
<1>1. IsFiniteSet(S) /\ Cardinality(S) \in Nat
  <2>1. IsFiniteSet(1 .. Len(s))
    BY FS_Interval
  <2>2. S \in SUBSET (1 .. Len(s))
    BY DEF StartsIn
  <2> QED
    BY <2>1, <2>2, FS_Subset, FS_CardinalityType
<1>2. k \notin S
  BY DEF StartsIn
<1>3. e.event # "chunk_start" => StartsIn(Append(s, e)) = S
  BY DEF StartsIn
<1>4. e.event = "chunk_start" => StartsIn(Append(s, e)) = S \cup {k}
  BY DEF StartsIn
<1>5. Cardinality(S \cup {k}) = Cardinality(S) + 1
  BY <1>1, <1>2, FS_AddElement
<1> QED
  BY <1>1, <1>3, <1>4, <1>5

\* How the number of announcements waiting changes.
LEMMA StartsOfAppend ==
  ASSUME NEW q \in Seq(SinkEvents), NEW e
  PROVE  /\ Cardinality(StartsOf(q)) \in Nat
         /\ e.event # "stream_start" =>
              Cardinality(StartsOf(Append(q, e))) = Cardinality(StartsOf(q))
         /\ e.event = "stream_start" =>
              Cardinality(StartsOf(Append(q, e))) = Cardinality(StartsOf(q)) + 1
<1> DEFINE S == StartsOf(q)
           k == Len(q) + 1
<1>1. IsFiniteSet(S) /\ Cardinality(S) \in Nat
  <2>1. IsFiniteSet(1 .. Len(q))
    BY FS_Interval
  <2>2. S \in SUBSET (1 .. Len(q))
    BY DEF StartsOf
  <2> QED
    BY <2>1, <2>2, FS_Subset, FS_CardinalityType
<1>2. k \notin S
  BY DEF StartsOf
<1>3. e.event # "stream_start" => StartsOf(Append(q, e)) = S
  BY DEF StartsOf
<1>4. e.event = "stream_start" => StartsOf(Append(q, e)) = S \cup {k}
  BY DEF StartsOf
<1>5. Cardinality(S \cup {k}) = Cardinality(S) + 1
  BY <1>1, <1>2, FS_AddElement
<1> QED
  BY <1>1, <1>3, <1>4, <1>5

\* Taking an announcement leaves one fewer waiting.
LEMMA StartsOfTail ==
  ASSUME NEW q \in Seq(SinkEvents), q # <<>>
  PROVE  /\ Cardinality(StartsOf(q)) \in Nat /\ Cardinality(StartsOf(Tail(q))) \in Nat
         /\ Cardinality(StartsOf(Tail(q))) <= Cardinality(StartsOf(q))
         /\ Head(q).event = "stream_start" =>
              Cardinality(StartsOf(Tail(q))) + 1 <= Cardinality(StartsOf(q))
<1> DEFINE S == StartsOf(q)
           T == StartsOf(Tail(q))
           f == [i \in T |-> i + 1]
<1>1. IsFiniteSet(S) /\ Cardinality(S) \in Nat
  <2>1. IsFiniteSet(1 .. Len(q))
    BY FS_Interval
  <2>2. S \in SUBSET (1 .. Len(q))
    BY DEF StartsOf
  <2> QED
    BY <2>1, <2>2, FS_Subset, FS_CardinalityType
<1>2. /\ \A i \in T : i \in Nat /\ i + 1 \in S /\ i + 1 # 1
      /\ Head(q).event = "stream_start" <=> 1 \in S
  BY DEF StartsOf
<1> HIDE DEF S, T
<1>3. f \in Injection(T, S \ {1})
  BY <1>2 DEF Injection, IsInjective
<1>4. /\ IsFiniteSet(S \ {1})
      /\ Cardinality(S \ {1}) = IF 1 \in S THEN Cardinality(S) - 1 ELSE Cardinality(S)
  BY <1>1, FS_RemoveElement
<1>5. IsFiniteSet(T) /\ Cardinality(T) <= Cardinality(S \ {1})
  BY <1>3, <1>4, FS_Injection
<1>6. Cardinality(T) \in Nat
  BY <1>5, FS_CardinalityType
<1> QED
  BY <1>1, <1>2, <1>4, <1>5, <1>6 DEF S, T

\* A start announces a response, and a chunk keeps it announced.
LEMMA AnnouncedAppend ==
  ASSUME NEW s \in Seq(ClientEvents), NEW id, NEW e
  PROVE  /\ e = ChunkStart(id) => Announced(Append(s, e), id)
         /\ e.event = "chunk" /\ Announced(s, id) => Announced(Append(s, e), id)
<1> DEFINE t == Append(s, e)
           m == Len(s)
<1>1. /\ m \in Nat /\ Len(t) = m + 1 /\ DOMAIN t = 1 .. m + 1 /\ t[m + 1] = e
      /\ DOMAIN s = 1 .. m /\ \A i \in 1 .. m : t[i] = s[i]
  OBVIOUS
<1> HIDE DEF t, m
<1>2. ASSUME e = ChunkStart(id) PROVE Announced(t, id)
  <2>1. m + 1 \in DOMAIN t /\ (m + 1) + 1 .. Len(t) = {}
    BY <1>1
  <2> QED
    BY <1>1, <1>2, <2>1 DEF Announced
<1>3. ASSUME e.event = "chunk", Announced(s, id) PROVE Announced(t, id)
  <2>1. PICK i \in 1 .. m : s[i] = ChunkStart(id) /\ \A j \in i + 1 .. m : s[j].event = "chunk"
    BY <1>1, <1>3 DEF Announced, m
  <2>2. i \in 1 .. m + 1 /\ \A j \in i + 1 .. m + 1 : j \in i + 1 .. m \/ j = m + 1
    BY <1>1
  <2>3. \A j \in i + 1 .. m + 1 : t[j].event = "chunk"
    BY <1>1, <1>3, <2>1, <2>2
  <2> QED
    BY <1>1, <2>1, <2>2, <2>3 DEF Announced
<1> QED
  BY <1>2, <1>3 DEF t

\* `id` is the response announced last, or none if there is none.
Latest(s, id) ==
  \/ StartsIn(s) = {} /\ id = NoId
  \/ \E i \in StartsIn(s) : s[i].id = id /\ \A j \in StartsIn(s) : j <= i

\* How the latest response and the announced ids change.
LEMMA LatestAppend ==
  ASSUME NEW s \in Seq(ClientEvents), NEW id, NEW e
  PROVE  /\ e = ChunkStart(id) => Latest(Append(s, e), id)
         /\ e.event # "chunk_start" /\ Latest(s, id) => Latest(Append(s, e), id)
         /\ e = ChunkStart(id) => StartIds(Append(s, e)) = StartIds(s) \cup {id}
         /\ e.event # "chunk_start" => StartIds(Append(s, e)) = StartIds(s)
<1> DEFINE t == Append(s, e)
           m == Len(s)
<1>1. /\ m \in Nat /\ t[m + 1] = e /\ StartsIn(s) \subseteq 1 .. m
      /\ \A i \in StartsIn(s) : t[i] = s[i]
      /\ StartIds(s) = {s[i].id : i \in StartsIn(s)}
      /\ StartIds(t) = {t[i].id : i \in StartsIn(t)}
  BY DEF StartsIn, StartIds
<1>2. e.event = "chunk_start" => StartsIn(t) = StartsIn(s) \cup {m + 1}
  BY DEF StartsIn
<1>3. e.event # "chunk_start" => StartsIn(t) = StartsIn(s)
  BY DEF StartsIn
<1>4. ChunkStart(id).event = "chunk_start" /\ ChunkStart(id).id = id
  BY DEF ChunkStart
<1> HIDE DEF t, m
<1>5. e = ChunkStart(id) => Latest(t, id) /\ StartIds(t) = StartIds(s) \cup {id}
  BY <1>1, <1>2, <1>4 DEF Latest
<1>6. e.event # "chunk_start" => StartIds(t) = StartIds(s)
  BY <1>1, <1>3
<1>7. e.event # "chunk_start" /\ Latest(s, id) => Latest(t, id)
  BY <1>1, <1>3 DEF Latest
<1> QED
  BY <1>5, <1>6, <1>7 DEF t

\* The chunks waiting belong to responses, current_response_id is the response
\* announced last, and announcements are no more than the calls of the action.
ResponseOf(r) ==
  /\ Waits(r) =>
       Bracketed(disp[r].queue, disp[r].active, Announced(sent[r], rid[r]))
  /\ Latest(sent[r], rid[r])
  /\ StartIds(sent[r]) \subseteq 1 .. issued
  /\ Cardinality(StartsIn(sent[r])) + Cardinality(StartsOf(disp[r].queue)) <= calls[r]

\* The invariant behind the protocol: every id issued was announced by some call.
ResponseInv ==
  /\ \A r \in RPC : ResponseOf(r)
  /\ 1 .. issued \subseteq UNION {StartIds(sent[r]) : r \in RPC}

\* What is sent besides the events of a response closes the stream.
LEMMA ClosingSteps ==
  ASSUME TypeOK, OrderInv, [Next]_vars, NEW q \in RPC, sent'[q] # sent[q],
         ~ForwardStart(q), ~ForwardChunk(q), ~ForwardEnd(q)
  PROVE  /\ pc[q] \in {"get", "drain"} /\ pc'[q] = "finally" /\ ~Gone(q)
         /\ UNCHANGED <<rid, issued, calls, ctx, graceful>>
         /\ \E kind \in Closing :
              /\ Deliver(q, <<[event |-> kind]>>)
              /\ kind = "empty_result" => graceful[q]
<1>1. ASSUME Deliver(q, FinalEvents(First(q)))
      PROVE  \E kind \in Closing : kind # "empty_result" /\ Deliver(q, <<[event |-> kind]>>)
  <2>1. CASE FinalEvents(First(q)) = <<>>
    BY <1>1, <2>1 DEF Deliver, TypeOK
  <2>2. CASE FinalEvents(First(q)) \in {<<StreamError>>, <<FinalResult>>}
    BY <1>1, <2>2 DEF StreamError, FinalResult, Closing
  <2> QED
    BY <2>1, <2>2 DEF FinalEvents
<1>2. CASE ForwardTerminal(q) /\ ~Gone(q)
  BY <1>1, <1>2 DEF ForwardTerminal, Goto, TypeOK, actionVars
<1>3. CASE EncodingFails(q)
  BY <1>3 DEF EncodingFails, Goto, TypeOK, actionVars, Aborted, Closing
<1>4. CASE DrainEvent(q) /\ Terminal(First(q)) /\ ~Gone(q)
  BY <1>1, <1>4 DEF DrainEvent, Goto, TypeOK, actionVars
<1>5. CASE DrainTimeout(q) /\ ~Gone(q)
  BY <1>5 DEF DrainTimeout, Goto, TypeOK, actionVars, EmptyResult, Closing, OrderInv, OrderOf
<1> QED
  BY <1>2, <1>3, <1>4, <1>5, SendingSteps

\* What a step that leaves a call alone preserves.
LEMMA ResponseUntouched ==
  ASSUME NEW r, ResponseOf(r), sent'[r] = sent[r], rid'[r] = rid[r], calls'[r] = calls[r],
         disp'[r].queue = disp[r].queue, disp'[r].active = disp[r].active,
         Waits(r)' => Waits(r), issued' = issued
  PROVE  ResponseOf(r)'
BY DEF ResponseOf

\* Another call taking an id preserves it too.
LEMMA MoreIssued ==
  ASSUME NEW r, ResponseOf(r), sent'[r] = sent[r], rid'[r] = rid[r], calls'[r] = calls[r],
         disp'[r] = disp[r], Waits(r)' => Waits(r), issued \in Nat, issued' = issued + 1
  PROVE  ResponseOf(r)'
<1>1. 1 .. issued \subseteq 1 .. issued'
  OBVIOUS
<1> QED
  BY <1>1 DEF ResponseOf

\* A step of the task keeps the chunks inside responses.
LEMMA ResponseTaskStep ==
  ASSUME TypeOK, TypeOK', NEW r \in RPC, ResponseOf(r),
         TaskStarts(r) \/ Action(r) \/ TaskCancelled(r)
  PROVE  ResponseOf(r)'
<1> DEFINE q == disp[r].queue
           act == disp[r].active
           a == accepted[r]
           open == Announced(sent[r], rid[r])
           count == Cardinality(StartsOf(q))
           Kept(x, next) == Waits(r) => Bracketed(x, next, open)
<1>1. /\ SinkGrows(r) /\ calls'[r] >= calls[r]
      /\ UNCHANGED <<pc, rid, issued, sent>>
  BY TaskStepGrows
<1>2. /\ q \in Seq(SinkEvents) /\ a \in Nat /\ a + 1 \in Nat /\ act \in BOOLEAN
      /\ disp'[r].active \in BOOLEAN /\ calls[r] \in Nat /\ calls'[r] \in Nat
      /\ sent[r] \in Seq(ClientEvents) /\ open \in BOOLEAN
  <2>1. disp[r] \in Dispatchers(Nat, SinkEvents) /\ disp'[r] \in Dispatchers(Nat, SinkEvents)
    BY DEF TypeOK
  <2> QED
    BY <2>1 DEF Dispatchers, TypeOK, Announced
<1>3. Kept(q, act) /\ count \in Nat /\ Cardinality(StartsIn(sent[r])) \in Nat
      /\ Cardinality(StartsIn(sent[r])) + count <= calls[r]
  BY <1>2, StartsInAppend, StartsOfAppend DEF ResponseOf
<1>4. ASSUME NEW x \in Seq(SinkEvents), NEW e \in SinkEvents, NEW b \in BOOLEAN,
             NEW next \in BOOLEAN, Kept(x, b),
             e.event = "stream_chunk" => b,
             next => e.event = "stream_start" \/ (b /\ e.event # "stream_end")
      PROVE  Kept(Append(x, e), next)
  BY <1>2, <1>4, BracketedAppend
<1> DEFINE Counted(x) == Cardinality(StartsOf(x)) = count
           OneMore(x) == Cardinality(StartsOf(x)) = count + 1
<1>5. ASSUME NEW x \in Seq(SinkEvents), NEW e \in SinkEvents
      PROVE  /\ Append(x, e) \in Seq(SinkEvents)
             /\ e.event # "stream_start" =>
                  Cardinality(StartsOf(Append(x, e))) = Cardinality(StartsOf(x))
             /\ e.event = "stream_start" =>
                  Cardinality(StartsOf(Append(x, e))) = Cardinality(StartsOf(x)) + 1
  BY StartsOfAppend
<1> DEFINE Good == /\ Kept(disp'[r].queue, disp'[r].active)
                   /\ \/ Counted(disp'[r].queue)
                      \/ OneMore(disp'[r].queue) /\ calls'[r] = calls[r] + 1
<1> HIDE DEF Kept, open, q, act, a
<1>6. ASSUME disp'[r].queue = q, disp'[r].active = act PROVE Good
  BY <1>3, <1>6
<1>7. ASSUME disp'[r].queue = Append(q, StartEvent), disp'[r].active,
             calls'[r] = calls[r] + 1
      PROVE  Good
  BY <1>2, <1>3, <1>4, <1>5, <1>7, EventNames
<1>8. ASSUME disp'[r].queue = Append(q, EndEvent), ~disp'[r].active PROVE Good
  BY <1>2, <1>3, <1>4, <1>5, <1>8, EventNames
<1>9. ASSUME disp'[r].queue = Append(q, ChunkEvent(a + 1)), act PROVE Good
  BY <1>2, <1>3, <1>4, <1>5, <1>9, EventNames
<1>10. ASSUME disp'[r].queue = Append(Append(q, StartEvent), ChunkEvent(a + 1)),
              disp'[r].active, calls'[r] = calls[r] + 1
       PROVE  Good
  <2> DEFINE x == Append(q, StartEvent)
  <2>1. x \in Seq(SinkEvents) /\ OneMore(x) /\ Kept(x, TRUE)
    BY <1>2, <1>3, <1>4, <1>5, EventNames
  <2> HIDE DEF x
  <2> QED
    BY <1>2, <1>4, <1>5, <1>10, <2>1, EventNames DEF x
<1>11. ASSUME NEW e \in SinkEvents, Terminal(e),
              disp'[r].queue = Append(q, e), disp'[r].active = act
       PROVE  Good
  BY <1>2, <1>3, <1>4, <1>5, <1>11, EventNames
<1>12. ASSUME NEW e \in SinkEvents, Terminal(e), 
              disp'[r].queue = Append(Append(q, EndEvent), e), ~disp'[r].active
       PROVE  Good
  <2> DEFINE x == Append(q, EndEvent)
  <2>1. x \in Seq(SinkEvents) /\ Counted(x) /\ Kept(x, FALSE)
    BY <1>2, <1>3, <1>4, <1>5, EventNames
  <2> HIDE DEF x
  <2> QED
    BY <1>2, <1>4, <1>5, <1>12, <2>1, EventNames DEF x
<1>13. Good
  BY <1>1, <1>6, <1>7, <1>8, <1>9, <1>10, <1>11, <1>12 DEF SinkGrows, q, act, a
<1>14. Cardinality(StartsIn(sent[r])) + Cardinality(StartsOf(disp'[r].queue)) <= calls'[r]
  BY <1>1, <1>2, <1>3, <1>13
<1> QED
  BY <1>1, <1>13, <1>14 DEF ResponseOf, Waits, Kept, open

\* A step that sends what closes the stream keeps what is known of responses.
LEMMA ResponseClosed ==
  ASSUME TypeOK, NEW q \in RPC, ResponseOf(q), NEW e, Deliver(q, <<e>>),
         e.event # "chunk_start", ~Waits(q)', UNCHANGED <<rid, issued, calls>>,
         Cardinality(StartsOf(disp'[q].queue)) \in Nat,
         Cardinality(StartsOf(disp'[q].queue)) <= Cardinality(StartsOf(disp[q].queue)),
         Cardinality(StartsOf(disp[q].queue)) \in Nat
  PROVE  ResponseOf(q)'
<1>1. sent[q] \in Seq(ClientEvents) /\ sent'[q] = Append(sent[q], e)
  BY DeliverAppends
<1>2. Latest(sent'[q], rid[q]) /\ StartIds(sent'[q]) = StartIds(sent[q])
  BY <1>1, LatestAppend DEF ResponseOf
<1>3. /\ Cardinality(StartsIn(sent'[q])) = Cardinality(StartsIn(sent[q]))
      /\ Cardinality(StartsIn(sent[q])) \in Nat /\ calls[q] \in Nat
  BY <1>1, StartsInAppend DEF TypeOK
<1>4. Cardinality(StartsIn(sent'[q])) + Cardinality(StartsOf(disp'[q].queue)) <= calls[q]
  BY <1>3 DEF ResponseOf
<1> QED
  BY <1>2, <1>4 DEF ResponseOf

\* A step of the loop or of the drain keeps responses as the client knows them.
LEMMA ResponseLoopStep ==
  ASSUME TypeOK, OrderInv, [Next]_vars, NEW r \in RPC, ResponseOf(r), Loop(r) \/ DrainEvent(r)
  PROVE  ResponseOf(r)'
<1> DEFINE q == disp[r].queue
           s == sent[r]
           open == Announced(s, rid[r])
<1>1. Consume(r) /\ UNCHANGED calls
  BY DEF Loop, DrainEvent, DetectBargeIn, DetectDisconnect, ForwardStart, ForwardChunk,
         ForwardEnd, Forward, ForwardTerminal, EncodingFails, actionVars
<1>2. /\ q \in Seq(SinkEvents) /\ q # <<>> /\ s \in Seq(ClientEvents)
      /\ disp'[r].queue = Tail(q) /\ First(r) = Head(q)
      /\ disp'[r].active = disp[r].active /\ disp[r].active \in BOOLEAN
      /\ open \in BOOLEAN /\ calls[r] \in Nat /\ issued \in Nat
  <2>1. disp[r] \in Dispatchers(Nat, SinkEvents)
    BY DEF TypeOK
  <2>2. disp'[r] = [disp[r] EXCEPT !.queue = Tail(q)] /\ q # <<>>
    BY <1>1 DEF Consume, TypeOK
  <2> QED
    BY <2>1, <2>2 DEF Dispatchers, TypeOK, First, Announced
<1>3. /\ Cardinality(StartsOf(q)) \in Nat /\ Cardinality(StartsOf(Tail(q))) \in Nat
      /\ Cardinality(StartsOf(Tail(q))) <= Cardinality(StartsOf(q))
      /\ Head(q).event = "stream_start" =>
            Cardinality(StartsOf(Tail(q))) + 1 <= Cardinality(StartsOf(q))
  BY <1>2, StartsOfTail
<1>4. /\ Cardinality(StartsIn(s)) \in Nat
      /\ Cardinality(StartsIn(s)) + Cardinality(StartsOf(q)) <= calls[r]
      /\ Latest(s, rid[r]) /\ StartIds(s) \subseteq 1 .. issued
      /\ Waits(r) => Bracketed(q, disp[r].active, open)
  BY <1>2, StartsInAppend DEF ResponseOf
<1> HIDE DEF q, s, open
<1>8. Waits(r) <=> pc[r] \in {"idle", "get"}
  BY DEF Waits
<1>5. CASE ForwardStart(r)
  <2> DEFINE id == issued + 1
             e == ChunkStart(id)
  <2>1. /\ Deliver(r, <<e>>) /\ pc[r] = "get" /\ Head(q).event = "stream_start"
        /\ issued' = id /\ rid'[r] = id
    BY <1>2, <1>5 DEF ForwardStart, Forward, NewResponseId, TypeOK
  <2>2. sent'[r] = Append(s, e) /\ e.event = "chunk_start"
    BY <2>1, DeliverAppends DEF ChunkStart, s
  <2>3. /\ Announced(sent'[r], id) /\ Latest(sent'[r], id)
        /\ StartIds(sent'[r]) = StartIds(s) \cup {id}
    <3>1. Announced(Append(s, e), id)
      BY <1>2, AnnouncedAppend
    <3>2. Latest(Append(s, e), id) /\ StartIds(Append(s, e)) = StartIds(s) \cup {id}
      BY <1>2, LatestAppend
    <3> QED
      BY <2>2, <3>1, <3>2
  <2>4. Bracketed(Tail(q), disp[r].active, TRUE)
    <3>1. Bracketed(q, disp[r].active, open)
      BY <1>4, <1>8, <2>1
    <3> QED
      BY <1>2, <2>1, <3>1, BracketedTail
  <2>5. Cardinality(StartsIn(sent'[r])) = Cardinality(StartsIn(s)) + 1
    BY <1>2, <2>2, StartsInAppend
  <2>6. Cardinality(StartsIn(sent'[r])) + Cardinality(StartsOf(Tail(q))) <= calls'[r]
    BY <1>1, <1>2, <1>3, <1>4, <2>1, <2>5
  <2>7. StartIds(sent'[r]) \subseteq 1 .. issued'
    BY <1>2, <1>4, <2>1, <2>3
  <2> QED
    BY <1>2, <2>1, <2>3, <2>4, <2>6, <2>7 DEF ResponseOf, q, s
<1>6. CASE ForwardChunk(r) \/ ForwardEnd(r)
  <2>1. PICK e : /\ Deliver(r, <<e>>)
                 /\ \/ e.event = "chunk" /\ Head(q).event = "stream_chunk"
                    \/ e.event = "chunk_end" /\ Head(q).event = "stream_end"
    <3>1. CASE ForwardChunk(r)
      <4> WITNESS Chunk(rid[r], First(r).chunk)
      <4> QED
        BY <1>2, <3>1 DEF ForwardChunk, Forward, Chunk
    <3>2. CASE ForwardEnd(r)
      <4> WITNESS ChunkEnd(rid[r])
      <4> QED
        BY <1>2, <3>2 DEF ForwardEnd, Forward, ChunkEnd
    <3> QED
      BY <1>6, <3>1, <3>2
  <2>2. pc[r] = "get" /\ rid' = rid /\ issued' = issued
    BY <1>6 DEF ForwardChunk, ForwardEnd, Forward
  <2> DEFINE next == Announced(sent'[r], rid[r])
  <2>3. sent'[r] = Append(s, e)
    BY <2>1, DeliverAppends DEF s
  <2>4. next \in BOOLEAN /\ (e.event = "chunk" /\ open => next)
    <3>1. e.event = "chunk" /\ Announced(s, rid[r]) => Announced(Append(s, e), rid[r])
      BY <1>2, AnnouncedAppend
    <3>2. next \in BOOLEAN
      BY DEF Announced
    <3> QED
      BY <2>3, <3>1, <3>2 DEF open
  <2>5. Bracketed(Tail(q), disp[r].active, next)
    <3>1. Bracketed(q, disp[r].active, open)
      BY <1>4, <1>8, <2>2
    <3>2. /\ Head(q).event # "stream_start"
          /\ Head(q).event # "stream_end" /\ open => next
      BY <2>1, <2>4
    <3> HIDE DEF next
    <3> QED
      BY <1>2, <2>4, <3>1, <3>2, BracketedTail
  <2>6. /\ Latest(sent'[r], rid[r]) /\ StartIds(sent'[r]) = StartIds(s)
        /\ Cardinality(StartsIn(sent'[r])) = Cardinality(StartsIn(s))
    BY <1>2, <1>4, <2>1, <2>3, LatestAppend, StartsInAppend
  <2>7. Cardinality(StartsIn(sent'[r])) + Cardinality(StartsOf(Tail(q))) <= calls'[r]
    BY <1>1, <1>2, <1>3, <1>4, <2>6
  <2> QED
    BY <1>2, <1>4, <2>2, <2>5, <2>6, <2>7 DEF ResponseOf, q, s
<1>7. CASE ~ForwardStart(r) /\ ~ForwardChunk(r) /\ ~ForwardEnd(r)
  <2>1. CASE sent'[r] = sent[r]
    <3>1. UNCHANGED <<rid, issued, calls>>
      BY <1>1, <1>7 DEF Loop, DrainEvent, DetectBargeIn, DetectDisconnect,
                        ForwardTerminal, EncodingFails
    <3>2. ~Waits(r)'
      BY <1>7 DEF Loop, DrainEvent, DetectBargeIn, DetectDisconnect,
                  ForwardTerminal, EncodingFails, Goto, TypeOK, Waits
    <3>3. Cardinality(StartsIn(s)) + Cardinality(StartsOf(Tail(q))) <= calls[r]
      BY <1>2, <1>3, <1>4
    <3> QED
      BY <1>2, <1>4, <2>1, <3>1, <3>2, <3>3 DEF ResponseOf, q, s
  <2>2. CASE sent'[r] # sent[r]
    <3>1. /\ pc'[r] = "finally" /\ UNCHANGED <<rid, issued, calls>>
          /\ \E kind \in Closing : Deliver(r, <<[event |-> kind]>>)
      BY <1>7, <2>2, ClosingSteps
    <3>2. PICK e : Deliver(r, <<e>>) /\ e.event # "chunk_start"
      BY <3>1 DEF Closing
    <3>3. ~Waits(r)'
      BY <3>1 DEF Waits
    <3> QED
      BY <1>2, <1>3, <3>1, <3>2, <3>3, ResponseClosed DEF q
  <2> QED
    BY <2>1, <2>2
<1> QED
  BY <1>5, <1>6, <1>7

\* Every step keeps the invariant.
LEMMA ResponseInvStep ==
  TypeOK /\ OrderInv /\ ResponseInv /\ [Next]_vars => ResponseInv'
<1> SUFFICES ASSUME TypeOK, OrderInv, ResponseInv, [Next]_vars PROVE ResponseInv'
  OBVIOUS
<1>0. TypeOK' /\ \A q \in RPC : ResponseOf(q)
  BY TypeStep DEF ResponseInv
<1>1. ASSUME NEW q \in RPC PROVE ResponseOf(q)'
  <2>0. ResponseOf(q)
    BY <1>0
  <2>1. ASSUME NEW r \in RPC, BeginStream(r) PROVE ResponseOf(q)'
    BY <2>0, <2>1, ResponseUntouched DEF BeginStream, TypeOK, Waits, actionVars
  <2>2. ASSUME NEW r \in RPC, Disconnect(r) \/ Expire(r) PROVE ResponseOf(q)'
    BY <2>0, <2>2, ResponseUntouched DEF Disconnect, Expire, handlerVars, actionVars, Waits
  <2>3. ASSUME NEW r \in RPC, TaskStarts(r) \/ Action(r) \/ TaskCancelled(r)
        PROVE  ResponseOf(q)'
    <3>1. CASE q = r
      BY <1>0, <2>0, <2>3, <3>1, ResponseTaskStep
    <3>2. CASE q # r
      <4>1. /\ disp'[q] = disp[q] /\ calls'[q] = calls[q]
            /\ UNCHANGED <<pc, rid, issued, sent>>
        BY <2>3, <3>2, TaskStepGrows
      <4> QED
        BY <2>0, <4>1, ResponseUntouched DEF Waits
    <3> QED
      BY <3>1, <3>2
  <2>4. ASSUME NEW r \in RPC, Loop(r) \/ DrainEvent(r) PROVE ResponseOf(q)'
    <3>1. CASE q = r
      BY <2>0, <2>4, <3>1, ResponseLoopStep
    <3>2. CASE q # r
      <4>1. disp'[q] = disp[q] /\ calls' = calls
        BY <2>4, <3>2
        DEF Loop, DrainEvent, DetectBargeIn, DetectDisconnect, ForwardStart, ForwardChunk,
            ForwardEnd, Forward, ForwardTerminal, EncodingFails, Consume, actionVars, TypeOK
      <4>2. pc'[q] = pc[q] /\ rid'[q] = rid[q] /\ sent'[q] = sent[q]
        BY <2>4, <3>2
        DEF Loop, DrainEvent, DetectBargeIn, DetectDisconnect, ForwardStart, ForwardChunk,
            ForwardEnd, Forward, ForwardTerminal, EncodingFails, Goto, Deliver, TypeOK
      <4>3. issued' = issued \/ issued' = issued + 1
        BY <2>4
        DEF Loop, DrainEvent, DetectBargeIn, DetectDisconnect, ForwardStart, ForwardChunk,
            ForwardEnd, ForwardTerminal, EncodingFails
      <4> QED
        BY <2>0, <4>1, <4>2, <4>3, ResponseUntouched, MoreIssued DEF TypeOK, Waits
    <3> QED
      BY <3>1, <3>2
  <2>5. ASSUME NEW r \in RPC,
               Finally(r) \/ AwaitTimeout(r) \/ TaskAwaited(r) \/ Interrupt(r)
        PROVE  ResponseOf(q)'
    <3>1. UNCHANGED <<disp, sent, rid, issued, calls>>
      BY <2>5 DEF Finally, AwaitTimeout, TaskAwaited, Interrupt, actionVars
    <3>2. Waits(q)' => Waits(q)
      BY <2>5 DEF Finally, AwaitTimeout, TaskAwaited, Interrupt, Goto, Waits, TypeOK
    <3> QED
      BY <2>0, <3>1, <3>2, ResponseUntouched
  <2>6. ASSUME NEW r \in RPC, DrainTimeout(r) PROVE ResponseOf(q)'
    <3>1. UNCHANGED <<disp, rid, issued, calls>>
      BY <2>6 DEF DrainTimeout, actionVars
    <3>2. Waits(q)' => Waits(q)
      BY <2>6 DEF DrainTimeout, Goto, Waits, TypeOK
    <3>3. CASE sent'[q] = sent[q]
      BY <2>0, <3>1, <3>2, <3>3, ResponseUntouched
    <3>4. CASE sent'[q] # sent[q]
      <4>1. q = r /\ Deliver(q, <<EmptyResult>>) /\ pc'[q] = "finally"
        BY <2>6, <3>4, DeliverElsewhere DEF DrainTimeout, Goto, TypeOK
      <4>2. disp[q].queue \in Seq(SinkEvents)
        BY DEF TypeOK, Dispatchers
      <4>3. Cardinality(StartsOf(disp[q].queue)) \in Nat
        BY <4>2, StartsOfAppend
      <4> QED
        BY <2>0, <3>1, <4>1, <4>3, ResponseClosed DEF EmptyResult, Waits
    <3> QED
      BY <3>3, <3>4
  <2>7. ASSUME NEW id \in 1 .. issued, AckStreamChunks(id) PROVE ResponseOf(q)'
    <3>1. UNCHANGED <<pc, sent, rid, issued, calls>>
      BY <2>7 DEF AckStreamChunks, handlerVars, actionVars
    <3>2. disp'[q] = disp[q] \/ disp'[q] = cancel_stream(disp[q])
      BY <2>7 DEF AckStreamChunks, TypeOK
    <3>3. disp'[q].queue = disp[q].queue /\ disp'[q].active = disp[q].active
      BY <3>2 DEF cancel_stream, Dispatchers, TypeOK
    <3> QED
      BY <2>0, <3>1, <3>3, ResponseUntouched DEF Waits
  <2>8. CASE UNCHANGED vars
    BY <2>0, <2>8, ResponseUntouched DEF vars, handlerVars, actionVars, Waits
  <2> QED
    BY <2>1, <2>2, <2>3, <2>4, <2>5, <2>6, <2>7, <2>8 DEF Next, Handler, AllServed
<1>2. ASSUME NEW q \in RPC PROVE StartIds(sent[q]) \subseteq StartIds(sent'[q])
  <2>1. ASSUME NEW e, Deliver(q, <<e>>), e.event # "chunk_start" \/ e = ChunkStart(issued + 1)
        PROVE  StartIds(sent[q]) \subseteq StartIds(sent'[q])
    <3>1. sent[q] \in Seq(ClientEvents) /\ sent'[q] = Append(sent[q], e)
      BY <2>1, DeliverAppends
    <3>2. CASE e.event # "chunk_start"
      BY <3>1, <3>2, LatestAppend
    <3>3. CASE e = ChunkStart(issued + 1)
      <4>1. StartIds(Append(sent[q], e)) = StartIds(sent[q]) \cup {issued + 1}
        <5> DEFINE id == issued + 1
        <5>1. e = ChunkStart(id) => StartIds(Append(sent[q], e)) = StartIds(sent[q]) \cup {id}
          <6> HIDE DEF id
          <6> QED
            BY <3>1, LatestAppend
        <5> QED
          BY <3>3, <5>1
      <4> QED
        BY <3>1, <4>1
    <3> QED
      BY <2>1, <3>2, <3>3
  <2>2. CASE ForwardStart(q)
    BY <2>1, <2>2 DEF ForwardStart, NewResponseId
  <2>3. CASE ForwardChunk(q)
    BY <2>1, <2>3 DEF ForwardChunk, Chunk
  <2>4. CASE ForwardEnd(q)
    BY <2>1, <2>4 DEF ForwardEnd, ChunkEnd
  <2>5. CASE sent'[q] = sent[q]
    BY <2>5
  <2>6. CASE sent'[q] # sent[q] /\ ~ForwardStart(q) /\ ~ForwardChunk(q) /\ ~ForwardEnd(q)
    <3>1. \E kind \in Closing : Deliver(q, <<[event |-> kind]>>)
      BY <2>6, ClosingSteps
    <3> QED
      BY <2>1, <3>1 DEF Closing
  <2> QED
    BY <2>2, <2>3, <2>4, <2>5, <2>6
<1>3. issued' = issued \/ \E q \in RPC : ForwardStart(q)
  BY DEF Next, BeginStream, Disconnect, Interrupt, Expire, TaskStarts, Action,
         CallsStreamStart, CallsStreamChunk, CallsStreamEnd, ActionCalls, ActionReturns,
         ActionRaises, ActionCancelsItself, TaskCancelled, Handler, Loop, DetectBargeIn,
         DetectDisconnect, ForwardChunk, ForwardEnd, ForwardTerminal, EncodingFails,
         DrainEvent, DrainTimeout, Finally, AwaitTimeout, TaskAwaited, AckStreamChunks,
         AllServed, vars, handlerVars
<1>4. 1 .. issued' \subseteq UNION {StartIds(sent'[q]) : q \in RPC}
  <2>1. 1 .. issued \subseteq UNION {StartIds(sent'[q]) : q \in RPC}
    BY <1>2 DEF ResponseInv
  <2>2. ASSUME NEW q \in RPC, ForwardStart(q)
        PROVE  1 .. issued' \subseteq UNION {StartIds(sent'[p]) : p \in RPC}
    <3> DEFINE id == issued + 1
    <3>1. issued' = id /\ Deliver(q, <<ChunkStart(id)>>) /\ issued \in Nat
      BY <2>2 DEF ForwardStart, NewResponseId, TypeOK
    <3>2. id \in StartIds(sent'[q])
      <4> DEFINE e == ChunkStart(id)
      <4>1. sent[q] \in Seq(ClientEvents) /\ sent'[q] = Append(sent[q], e)
        BY <3>1, DeliverAppends
      <4>2. StartIds(Append(sent[q], e)) = StartIds(sent[q]) \cup {id}
        BY <4>1, LatestAppend
      <4> QED
        BY <4>1, <4>2
    <3>3. 1 .. issued' = (1 .. issued) \cup {id}
      BY <3>1
    <3> QED
      BY <2>1, <3>2, <3>3
  <2> QED
    BY <1>3, <2>1, <2>2
<1> QED
  BY <1>1, <1>4 DEF ResponseInv

\* ResponseInv is an invariant.
LEMMA ResponseInvHolds == Spec => []ResponseInv
<1>1. Init => ResponseInv
  <2> SUFFICES ASSUME Init PROVE ResponseInv
    OBVIOUS
  <2>1. issued = 0
    BY DEF Init
  <2>2. ASSUME NEW r \in RPC PROVE ResponseOf(r)
    <3>1. disp[r].queue = <<>> /\ ~disp[r].active /\ sent[r] = <<>> /\ rid[r] = NoId
          /\ calls[r] = 0
      BY DEF Init, NewDispatcher
    <3>2. StartsIn(<<>>) = {} /\ StartsOf(<<>>) = {} /\ QueuedChunks(<<>>) = {}
          /\ StartIds(<<>>) = {}
      BY DEF StartsIn, StartsOf, QueuedChunks, StartIds
    <3>3. Cardinality({}) = 0
      BY FS_EmptySet
    <3>4. \A open : Bracketed(<<>>, FALSE, open)
      BY <3>2 DEF Bracketed
    <3>5. Latest(<<>>, NoId)
      BY <3>2 DEF Latest
    <3>6. 0 + 0 <= 0
      OBVIOUS
    <3>7. Bracketed(disp[r].queue, disp[r].active, Announced(sent[r], rid[r]))
      <4>1. disp[r].active = FALSE
        BY DEF Init, NewDispatcher
      <4> QED
        BY <3>1, <3>4, <4>1
    <3>8. Latest(sent[r], rid[r]) /\ StartIds(sent[r]) = {}
      BY <3>1, <3>2, <3>5
    <3>9. Cardinality(StartsIn(sent[r])) + Cardinality(StartsOf(disp[r].queue)) <= calls[r]
      BY <3>1, <3>2, <3>3, <3>6
    <3> QED
      BY <3>7, <3>8, <3>9 DEF ResponseOf
  <2> QED
    BY <2>1, <2>2 DEF ResponseInv
<1> QED
  BY <1>1, TypeCorrect, OrderInvHolds, ResponseInvStep, PTL DEF Spec

\* No call announces more responses than its action makes calls, so the ids
\* issued are no more than the calls of all actions.
LEMMA IdsAreFew ==
  ASSUME TypeOK, ResponseInv, IsFiniteSet(RPC)
  PROVE  issued <= MaxCalls * Cardinality(RPC)
<1> DEFINE I == 1 .. issued
           P == RPC \X (1 .. MaxCalls)
<1>1. issued \in Nat /\ MaxCalls \in Nat
  BY CallsAssumption DEF TypeOK
<1>2. IsFiniteSet(I) /\ Cardinality(I) = issued
  BY <1>1, FS_Interval
<1>3. IsFiniteSet(P) /\ Cardinality(P) = Cardinality(RPC) * MaxCalls
  <2>1. IsFiniteSet(1 .. MaxCalls) /\ Cardinality(1 .. MaxCalls) = MaxCalls
    BY <1>1, FS_Interval
  <2> QED
    BY <2>1, FS_Product
<1>4. ASSUME NEW r \in RPC PROVE Injection(StartsIn(sent[r]), 1 .. MaxCalls) # {}
  <2> DEFINE S == StartsIn(sent[r])
             n == Cardinality(S)
  <2>1. IsFiniteSet(S)
    <3>1. sent[r] \in Seq(ClientEvents)
      BY DEF TypeOK
    <3>2. Len(sent[r]) \in Int /\ S \in SUBSET (1 .. Len(sent[r]))
      BY <3>1 DEF StartsIn
    <3>3. IsFiniteSet(1 .. Len(sent[r]))
      BY <3>2, FS_Interval
    <3> QED
      BY <3>2, <3>3, FS_Subset
  <2>2. n \in Nat /\ ExistsBijection(1 .. n, S)
    BY <2>1, FS_CardinalityType
  <2>3. n <= MaxCalls
    <3>1. disp[r].queue \in Seq(SinkEvents) /\ calls[r] \in 0 .. MaxCalls
      BY DEF TypeOK, Dispatchers
    <3>2. Cardinality(StartsOf(disp[r].queue)) \in Nat
      BY <3>1, StartsOfAppend
    <3>3. n + Cardinality(StartsOf(disp[r].queue)) <= calls[r]
      BY DEF ResponseInv, ResponseOf
    <3> QED
      BY <1>1, <2>2, <3>1, <3>2, <3>3
  <2>4. PICK f \in Bijection(S, 1 .. n) : TRUE
    BY <2>2, Fun_ExistsBijSymmetric DEF ExistsBijection
  <2>5. f \in Injection(S, 1 .. MaxCalls)
    BY <1>1, <2>2, <2>3, <2>4 DEF Bijection, Injection, IsInjective
  <2> QED
    BY <2>5
<1> DEFINE At(id, x) == /\ x \in RPC \X Nat
                        /\ x[2] \in StartsIn(sent[x[1]]) /\ sent[x[1]][x[2]].id = id
           place(id) == CHOOSE x : At(id, x)
           number(r) == CHOOSE f : f \in Injection(StartsIn(sent[r]), 1 .. MaxCalls)
           g == [id \in I |-> <<place(id)[1], number(place(id)[1])[place(id)[2]]>>]
<1>5. ASSUME NEW id \in I
      PROVE  /\ place(id)[1] \in RPC
             /\ place(id)[2] \in StartsIn(sent[place(id)[1]])
             /\ sent[place(id)[1]][place(id)[2]].id = id
  <2>1. PICK r \in RPC : id \in StartIds(sent[r])
    BY DEF ResponseInv
  <2>2. PICK i \in StartsIn(sent[r]) : sent[r][i].id = id
    BY <2>1 DEF StartIds, StartsIn
  <2>3. i \in Nat
    BY DEF StartsIn, TypeOK
  <2>4. <<r, i>> \in RPC \X Nat /\ <<r, i>>[1] = r /\ <<r, i>>[2] = i
    BY <2>3
  <2>5. \E x : At(id, x)
    <3> WITNESS <<r, i>>
    <3> QED
      BY <2>2, <2>4
  <2>6. At(id, place(id))
    <3> HIDE DEF At
    <3> QED
      BY <2>5
  <2> HIDE DEF place
  <2> QED
    BY <2>6
<1> HIDE DEF place
<1>6. ASSUME NEW r \in RPC PROVE number(r) \in Injection(StartsIn(sent[r]), 1 .. MaxCalls)
  BY <1>4
<1> HIDE DEF number
<1>7. g \in Injection(I, P)
  <2>1. ASSUME NEW id \in I PROVE g[id] \in P
    BY <1>5, <1>6 DEF Injection
  <2>2. ASSUME NEW x \in I, NEW y \in I, g[x] = g[y] PROVE x = y
    <3>1. /\ place(x)[1] = place(y)[1]
          /\ number(place(x)[1])[place(x)[2]] = number(place(x)[1])[place(y)[2]]
      BY <2>2
    <3>2. place(x)[2] = place(y)[2]
      BY <1>5, <1>6, <3>1 DEF Injection, IsInjective
    <3> QED
      BY <1>5, <3>1, <3>2
  <2>3. g \in [I -> P]
    BY <2>1
  <2> HIDE DEF g
  <2> QED
    BY <2>2, <2>3 DEF Injection, IsInjective
<1>8. Cardinality(I) <= Cardinality(P)
  BY <1>3, <1>7, FS_Injection
<1>9. Cardinality(RPC) \in Nat
  BY FS_CardinalityType
<1> QED
  BY <1>1, <1>2, <1>3, <1>8, <1>9

\* The ids StreamProtocol is given are enough.
IdsSuffice == issued <= MaxCalls * Cardinality(RPC)

\* Delivering an event while the client is there is a step of the protocol.
LEMMA ReceiveStep ==
  ASSUME TypeOK, OrderInv, NEW q \in RPC, NEW e, pc[q] \in {"get", "drain"}, ~Gone(q),
         Deliver(q, <<e>>), UNCHANGED <<graceful, ctx>>
  PROVE  Protocol!Receive(q, e)
<1>1. ~Protocol!Closed(sent[q])
  BY DEF OrderInv, OrderOf, Closing, Protocol!Closed, Protocol!Closing
<1>2. sent' = [sent EXCEPT ![q] = Append(@, e)]
  <2>1. sent[q] \in Seq(ClientEvents)
    BY DEF TypeOK
  <2>2. sent[q] \o <<e>> = Append(sent[q], e)
    BY <2>1
  <2> QED
    BY <2>2 DEF Deliver
<1>3. ~[r \in RPC |-> Gone(r)][q]
  OBVIOUS
<1>4. [r \in RPC |-> Gone(r)]' = [r \in RPC |-> Gone(r)]
  BY DEF Gone
<1> QED
  BY <1>1, <1>2, <1>3, <1>4 DEF Protocol!Receive

\* A forwarded start opens a response under a fresh id.
LEMMA OpenStep ==
  ASSUME TypeOK, OrderInv, ResponseInv, IdsSuffice', NEW q \in RPC, ForwardStart(q)
  PROVE  Protocol!Open(q)
<1> DEFINE id == issued + 1
<1>1. /\ Deliver(q, <<ChunkStart(id)>>) /\ pc[q] = "get" /\ ~Gone(q)
      /\ UNCHANGED <<graceful, ctx>> /\ issued' = id
  BY DEF ForwardStart, Forward, NewResponseId
<1>2. ~graceful[q]
  BY <1>1 DEF OrderInv, OrderOf, Waits
<1>3. issued \in Nat /\ id \in 1 .. MaxCalls * Cardinality(RPC)
  <2>1. issued \in Nat /\ id <= MaxCalls * Cardinality(RPC)
    BY <1>1 DEF TypeOK, IdsSuffice
  <2>2. MaxCalls * Cardinality(RPC) \in Nat
    BY CallsAssumption, FiniteCalls, FS_CardinalityType
  <2> QED
    BY <2>1, <2>2
<1>4. ~Protocol!Used(id)
  <2> SUFFICES ASSUME NEW r \in RPC, NEW i \in DOMAIN sent[r],
                      sent[r][i].event = "chunk_start", sent[r][i].id = id
               PROVE  FALSE
    BY DEF Protocol!Used, Protocol!Starts
  <2>1. id \in StartIds(sent[r])
    BY DEF StartIds
  <2>2. StartIds(sent[r]) \subseteq 1 .. issued
    BY DEF ResponseInv, ResponseOf
  <2> QED
    BY <1>3, <2>1, <2>2
<1>5. Protocol!Receive(q, ChunkStart(id))
  BY <1>1, ReceiveStep
<1> QED
  BY <1>2, <1>3, <1>4, <1>5 DEF Protocol!Open, ChunkStart

\* A forwarded chunk is the next one of the open response.
LEMMA ChunkStep ==
  ASSUME TypeOK, OrderInv, ResponseInv, IdsSuffice, NEW q \in RPC, ForwardChunk(q)
  PROVE  Protocol!Chunk(q)
<1> DEFINE s == sent[q]
           c == First(q).chunk
<1>1. /\ Deliver(q, <<Chunk(rid[q], c)>>) /\ pc[q] = "get" /\ ~Gone(q)
      /\ UNCHANGED <<graceful, ctx>> /\ First(q).event = "stream_chunk"
      /\ disp[q].queue # <<>>
  BY DEF ForwardChunk, Forward, Consume
<1>2. ~graceful[q] /\ Waits(q)
  BY <1>1 DEF OrderInv, OrderOf, Waits
<1>3. /\ disp[q].queue \in Seq(SinkEvents) /\ s \in Seq(ClientEvents) /\ accepted[q] \in Nat
      /\ disp[q].active \in BOOLEAN /\ Announced(s, rid[q]) \in BOOLEAN
  BY DEF TypeOK, Dispatchers, Announced
<1>4. PICK n \in 0 .. accepted[q] : InOrder(s, n) /\ Waiting(disp[q].queue, n, accepted[q])
  BY <1>2 DEF OrderInv, OrderOf
<1>5. c = n + 1
  BY <1>1, <1>3, <1>4, WaitingTail DEF First
<1>6. n \in Nat /\ n <= Len(s)
  <2>1. \A i \in ChunkPositions(s) : s[i].chunk <= i
    BY DEF OrderInv, OrderOf
  <2> QED
    BY <1>3, <1>4, <2>1, PositionBound
<1>7. Protocol!IsNext(s, c)
  <2>1. {s[i].chunk : i \in ChunkPositions(s)} = 1 .. n
    BY <1>4 DEF InOrder
  <2>2. Protocol!ChunkNumbers(s) = 1 .. n
    BY <2>1 DEF Protocol!ChunkNumbers, ChunkPositions
  <2>3. c - 1 = n
    BY <1>5, <1>6
  <2> QED
    BY <2>2, <2>3 DEF Protocol!IsNext
<1>8. Announced(s, rid[q])
  <2>1. Bracketed(disp[q].queue, disp[q].active, Announced(s, rid[q]))
    BY <1>2 DEF ResponseInv, ResponseOf
  <2> DEFINE open == Announced(s, rid[q])
  <2>2. Head(disp[q].queue).event = "stream_chunk" => open
    <3> HIDE DEF open
    <3>1. TRUE \in BOOLEAN
      OBVIOUS
    <3>2. Head(disp[q].queue).event # "stream_start"
      BY <1>1 DEF First
    <3>3. Bracketed(disp[q].queue, disp[q].active, open) /\ open \in BOOLEAN
      BY <1>3, <2>1 DEF open
    <3> QED
      BY <1>1, <1>3, <3>1, <3>2, <3>3, BracketedTail
  <2> QED
    BY <1>1, <2>2 DEF First
<1>9. Protocol!IsOpen(s, rid[q])
  BY <1>8 DEF Announced, ChunkStart, Protocol!IsOpen, Protocol!Starts
<1>10. rid[q] \in 1 .. MaxCalls * Cardinality(RPC)
  <2>1. rid[q] \in StartIds(s)
    BY <1>8 DEF Announced, ChunkStart, StartIds
  <2>2. rid[q] \in 1 .. issued /\ issued \in Nat
    BY <2>1 DEF ResponseInv, ResponseOf, TypeOK
  <2>3. MaxCalls * Cardinality(RPC) \in Nat
    BY CallsAssumption, FiniteCalls, FS_CardinalityType
  <2> QED
    BY <2>2, <2>3 DEF IdsSuffice
<1>11. c \in 1 .. Len(s) + 1
  BY <1>3, <1>5, <1>6
<1>12. Protocol!Receive(q, Chunk(rid[q], c))
  BY <1>1, ReceiveStep
<1> HIDE DEF c, s
<1> QED
  BY <1>2, <1>7, <1>9, <1>10, <1>11, <1>12 DEF Protocol!Chunk, Chunk, s

\* A forwarded end names the latest response.
LEMMA EndStep ==
  ASSUME TypeOK, OrderInv, ResponseInv, IdsSuffice, NEW q \in RPC, ForwardEnd(q)
  PROVE  Protocol!End(q)
<1>1. /\ Deliver(q, <<ChunkEnd(rid[q])>>) /\ pc[q] = "get" /\ ~Gone(q)
      /\ UNCHANGED <<graceful, ctx>>
  BY DEF ForwardEnd, Forward
<1>2. ~graceful[q]
  BY <1>1 DEF OrderInv, OrderOf, Waits
<1>3. Protocol!IsLatest(sent[q], rid[q])
  BY DEF ResponseInv, ResponseOf, Latest, StartsIn, NoId, Protocol!IsLatest, Protocol!Starts
<1>4. rid[q] \in (1 .. MaxCalls * Cardinality(RPC)) \cup {0}
  <2>1. rid[q] \in 0 .. issued /\ issued \in Nat
    BY DEF TypeOK
  <2>2. MaxCalls * Cardinality(RPC) \in Nat
    BY CallsAssumption, FiniteCalls, FS_CardinalityType
  <2> QED
    BY <2>1, <2>2 DEF IdsSuffice
<1>5. Protocol!Receive(q, ChunkEnd(rid[q]))
  BY <1>1, ReceiveStep
<1> QED
  BY <1>2, <1>3, <1>4, <1>5 DEF Protocol!End, ChunkEnd

\* Everything else that is sent closes the stream.
LEMMA CloseStep ==
  ASSUME TypeOK, OrderInv, [Next]_vars, NEW q \in RPC, sent'[q] # sent[q],
         ~ForwardStart(q), ~ForwardChunk(q), ~ForwardEnd(q)
  PROVE  Protocol!Close(q)
<1>1. /\ pc[q] \in {"get", "drain"} /\ ~Gone(q) /\ UNCHANGED <<ctx, graceful>>
  BY ClosingSteps
<1>2. PICK kind \in Closing : /\ Deliver(q, <<[event |-> kind]>>)
                              /\ kind = "empty_result" => graceful[q]
  BY ClosingSteps
<1>3. Protocol!Receive(q, [event |-> kind])
  BY <1>1, <1>2, ReceiveStep
<1> QED
  BY <1>2, <1>3 DEF Protocol!Close, Protocol!Closing, Closing

\* Steps that send nothing: a barge-in is noticed, a client leaves, or the
\* protocol stutters.
LEMMA SilentStep ==
  ASSUME TypeOK, OrderInv, [Next]_vars, sent' = sent
  PROVE  [Protocol!Next]_(Protocol!vars)
<1>1. ASSUME UNCHANGED <<ctx, graceful>> PROVE UNCHANGED Protocol!vars
  BY <1>1 DEF Protocol!vars, Gone
<1>2. ASSUME NEW r \in RPC, DetectBargeIn(r) PROVE Protocol!Next
  <2>1. ~graceful[r] /\ ~Protocol!Closed(sent[r])
    BY <1>2 DEF DetectBargeIn, OrderInv, OrderOf, Waits, Closing, Protocol!Closed,
                Protocol!Closing
  <2>2. graceful' = [graceful EXCEPT ![r] = TRUE] /\ UNCHANGED ctx
    BY <1>2 DEF DetectBargeIn
  <2>3. [q \in RPC |-> Gone(q)]' = [q \in RPC |-> Gone(q)]
    BY <2>2 DEF Gone
  <2>4. Protocol!BargeIn(r)
    BY <2>1, <2>2, <2>3 DEF Protocol!BargeIn
  <2> QED
    BY <2>4 DEF Protocol!Next
<1>3. ASSUME NEW r \in RPC, Disconnect(r) PROVE Protocol!Next
  <2>1. ctx' = [ctx EXCEPT ![r] = "cancelled"] /\ UNCHANGED graceful
    BY <1>3 DEF Disconnect, handlerVars
  <2>2. [q \in RPC |-> Gone(q)]' = [[q \in RPC |-> Gone(q)] EXCEPT ![r] = TRUE]
    BY <2>1 DEF Gone, TypeOK
  <2>3. Protocol!Leave(r)
    BY <2>1, <2>2 DEF Protocol!Leave
  <2> QED
    BY <2>3 DEF Protocol!Next
<1>4. ASSUME NEW r \in RPC, Interrupt(r) PROVE UNCHANGED Protocol!vars
  <2>1. ctx[r] = "cancelled" /\ ctx' = [ctx EXCEPT ![r] = "injected"] /\ UNCHANGED graceful
    BY <1>4 DEF Interrupt
  <2>2. [q \in RPC |-> Gone(q)]' = [q \in RPC |-> Gone(q)]
    BY <2>1 DEF Gone, TypeOK
  <2> QED
    BY <2>1, <2>2 DEF Protocol!vars
<1>5. \/ UNCHANGED <<ctx, graceful>>
      \/ \E r \in RPC : DetectBargeIn(r) \/ Disconnect(r) \/ Interrupt(r)
  BY DEF Next, BeginStream, Expire, TaskStarts, Action, CallsStreamStart,
         CallsStreamChunk, CallsStreamEnd, ActionCalls, ActionReturns, ActionRaises,
         ActionCancelsItself, TaskCancelled, Handler, Loop, DetectDisconnect,
         ForwardStart, ForwardChunk, ForwardEnd, ForwardTerminal, EncodingFails,
         DrainEvent, DrainTimeout, Finally, AwaitTimeout, TaskAwaited, AckStreamChunks,
         AllServed, vars, handlerVars
<1> QED
  BY <1>1, <1>2, <1>3, <1>4, <1>5

\* The handlers, tasks and queues implement StreamProtocol, step by step: what a
\* client sees is a behaviour of the protocol (ImplementsProtocol:
\* grpc_server.py:244-258, 330-425, 492-529).
THEOREM ProtocolImplemented == Spec => ImplementsProtocol
<1>1. Init => Protocol!Init
  BY DEF Init, Protocol!Init, Gone
<1>2. TypeOK /\ ResponseInv => IdsSuffice
  BY IdsAreFew, FiniteCalls DEF IdsSuffice
<1>3. TypeOK /\ TypeOK' /\ OrderInv /\ ResponseInv /\ IdsSuffice /\ IdsSuffice' /\ [Next]_vars
        => [Protocol!Next]_(Protocol!vars)
  <2> SUFFICES ASSUME TypeOK, TypeOK', OrderInv, ResponseInv, IdsSuffice, IdsSuffice',
                      [Next]_vars
               PROVE  [Protocol!Next]_(Protocol!vars)
    OBVIOUS
  <2>1. CASE sent' = sent
    BY <2>1, SilentStep
  <2>2. ASSUME NEW q \in RPC, sent'[q] # sent[q] PROVE Protocol!Next
    <3>1. Protocol!Open(q) \/ Protocol!Chunk(q) \/ Protocol!End(q) \/ Protocol!Close(q)
      BY <2>2, OpenStep, ChunkStep, EndStep, CloseStep
    <3> QED
      BY <3>1 DEF Protocol!Next
  <2>3. sent' # sent => \E q \in RPC : sent'[q] # sent[q]
    BY DEF TypeOK
  <2> QED
    BY <2>1, <2>2, <2>3
<1> QED
  BY <1>1, <1>2, <1>3, TypeCorrect, OrderInvHolds, ResponseInvHolds, PTL
  DEF Spec, ImplementsProtocol, Protocol!Spec

=============================================================================
