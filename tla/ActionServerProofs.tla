------------------------- MODULE ActionServerProofs -------------------------
(***************************************************************************)
(* Proofs about ActionServer: what the consumer of a sink finds in it, the *)
(* spans of a call, the types, the account each transport gives of a call  *)
(* and what of the action's words arrives over it, for every action,       *)
(* however long it speaks, and any number of servers in the process.       *)
(***************************************************************************)
EXTENDS ActionServer, DispatcherProofs, WellFoundedInduction

-----------------------------------------------------------------------------
(* The sink.                                                               *)

\* The dispatchers whose sinks hold events of responses only.
Quiet == Dispatchers(Payloads, StreamEvents(Payloads))

\* Inductive: until the call is over no terminal event has been placed.
SinkInv ==
  /\ phase \in {"received", "running", "over"}
  /\ made \in 0 .. MaxSaid
  /\ DOMAIN disp = Paths
  /\ phase # "over" => disp["stream"] \in Quiet
  /\ TerminalEventIsLast

\* The events of a response are not terminal.
LEMMA QuietSink ==
  ASSUME NEW d \in Quiet
  PROVE  /\ d.queue \in Seq(StreamEvents(Payloads))
         /\ \A i \in DOMAIN d.queue : ~Terminal(d.queue[i])
<1>1. d.queue \in Seq(StreamEvents(Payloads))
  BY DEF Quiet, Dispatchers
<1>2. \A e \in StreamEvents(Payloads) : ~Terminal(e)
  BY DEF StreamEvents, Terminal
<1> QED
  BY <1>1, <1>2

\* A terminal event placed in a quiet sink is its last and its only one.
LEMMA PutTerminal ==
  ASSUME NEW d \in Quiet, NEW e, Terminal(e)
  PROVE  LET queue == Put(d, e).queue IN
           /\ \A i \in DOMAIN queue : Terminal(queue[i]) => i = Len(queue)
           /\ queue # <<>> /\ Terminal(queue[Len(queue)])
<1> DEFINE queue == Append(d.queue, e)
<1>1. /\ d.queue \in Seq(StreamEvents(Payloads))
      /\ \A i \in DOMAIN d.queue : ~Terminal(d.queue[i])
  BY QuietSink
<1>2. Put(d, e).queue = queue
  BY DEF Put, Quiet, Dispatchers
<1>3. Len(queue) = Len(d.queue) + 1 /\ queue[Len(queue)] = e
  BY <1>1
<1>4. \A i \in DOMAIN queue : i # Len(queue) => queue[i] = d.queue[i] /\ i \in DOMAIN d.queue
  BY <1>1
<1>5. queue # <<>>
  BY <1>1
<1> QED
  BY <1>1, <1>2, <1>3, <1>4, <1>5

\* The end of a run, whatever it was, places the terminal event.
LEMMA EndRunKeeps ==
  ASSUME SinkInv, NEW ds, NEW result, NEW last, Terminal(last),
         DOMAIN ds = Paths, ds["stream"] \in Quiet,
         EndRun(ds, result, last), UNCHANGED made
  PROVE  SinkInv'
<1>1. disp'["stream"] = Put(ds["stream"], last) /\ DOMAIN disp' = Paths
  BY DEF EndRun, Paths
<1>2. phase' = "over"
  BY DEF EndRun
<1> HIDE DEF Quiet
<1>3. TerminalEventIsLast'
  BY <1>1, <1>2, PutTerminal DEF TerminalEventIsLast
<1> QED
  BY <1>1, <1>2, <1>3 DEF SinkInv

\* While the call goes on a quiet sink is all there is to show.
LEMMA StillQuiet ==
  ASSUME disp'["stream"] \in Quiet, DOMAIN disp' = Paths,
         phase' \in {"received", "running"}, made' \in 0 .. MaxSaid
  PROVE  SinkInv'
<1>1. \A i \in DOMAIN disp'["stream"].queue : ~Terminal(disp'["stream"].queue[i])
  BY QuietSink
<1> QED
  BY <1>1 DEF SinkInv, TerminalEventIsLast

\* Whatever the action calls on its dispatcher keeps the sink quiet.
LEMMA CallingKeeps ==
  ASSUME SinkInv, Calling
  PROVE  SinkInv'
<1>1. phase = "running" /\ phase' = "running" /\ made' = made + 1
      /\ made' \in 0 .. MaxSaid /\ made + 1 \in 1 .. MaxSaid
  BY BoundsAssumption DEF Calling, UtterMessage, StreamStart, StreamChunk, StreamEnd, Speaks, SinkInv
<1>2. disp["stream"] \in Quiet
  BY <1>1 DEF SinkInv
<1>3. Payload("message") \in Payloads /\ Payload("chunk") \in Payloads
  BY <1>1 DEF Payload, Payloads
<1>4. CASE UtterMessage
  <2>1. disp'["stream"] = utter_message(disp["stream"], Payload("message"))
        /\ DOMAIN disp' = Paths
    BY <1>4 DEF UtterMessage, Paths
  <2>2. Append(disp["stream"].messages, Payload("message")) \in Seq(Payloads)
    BY <1>2, <1>3 DEF Quiet, Dispatchers
  <2>3. disp'["stream"] \in Quiet
    BY <1>2, <2>1, <2>2 DEF utter_message, Quiet, Dispatchers
  <2> QED
    BY <1>1, <2>1, <2>3, StillQuiet
<1>5. CASE StreamStart
  <2>1. disp'["stream"] = stream_start(disp["stream"]) /\ DOMAIN disp' = Paths
    BY <1>5 DEF StreamStart, Paths
  <2>2. disp'["stream"] \in Quiet
    BY <1>2, <2>1, StartType DEF Quiet
  <2> QED
    BY <1>1, <2>1, <2>2, StillQuiet
<1>6. CASE StreamChunk
  <2>1. disp'["stream"] = stream_chunk(disp["stream"], Payload("chunk"))
        /\ DOMAIN disp' = Paths
    BY <1>6 DEF StreamChunk, Paths
  <2>2. disp'["stream"] \in Quiet
    BY <1>2, <1>3, <2>1, ChunkType DEF Quiet
  <2> QED
    BY <1>1, <2>1, <2>2, StillQuiet
<1>7. CASE StreamEnd
  <2>1. disp'["stream"] = stream_end(disp["stream"]) /\ DOMAIN disp' = Paths
    BY <1>7 DEF StreamEnd, Paths
  <2>2. disp'["stream"] \in Quiet
    BY <1>2, <2>1, EndType DEF Quiet
  <2> QED
    BY <1>1, <2>1, <2>2, StillQuiet
<1> QED
  BY <1>4, <1>5, <1>6, <1>7 DEF Calling

\* Every step keeps the invariant.
LEMMA SinkInvStep == SinkInv /\ [Next]_vars => SinkInv'
<1> SUFFICES ASSUME SinkInv, [Next]_vars PROVE SinkInv'
  OBVIOUS
<1>1. Terminal(DoneEvent) /\ Terminal(ErrorEvent)
  BY DEF Terminal, DoneEvent, ErrorEvent
<1>2. ASSUME UNCHANGED <<phase, made, disp>> PROVE SinkInv'
  BY <1>2 DEF SinkInv, TerminalEventIsLast
<1>3. CASE RegisterActions \/ Start \/ Replies \/ UNCHANGED vars
  BY <1>2, <1>3 DEF RegisterActions, Start, Replies, Reply, Answering, HttpResult,
     HttpRefusal, HttpException, GrpcResult, GrpcRefusal, GrpcException,
     StreamResult, StreamError, StreamAborts, callVars, vars
<1>4. CASE RefuseCall
  <2>1. PICK last \in {DoneEvent, ErrorEvent} : EndRun(disp, Refusal(call), last)
    BY <1>4 DEF RefuseCall, Refuse
  <2>2. disp["stream"] \in Quiet /\ DOMAIN disp = Paths /\ UNCHANGED made
    BY <1>4 DEF RefuseCall, Refuse, SinkInv
  <2> QED
    BY <1>1, <2>1, <2>2, EndRunKeeps
<1>5. CASE RunAction
  <2>1. /\ disp["stream"] \in Quiet
        /\ disp' = [disp EXCEPT !["stream"].attached = TRUE]
        /\ phase' = "running" /\ made' \in 0 .. MaxSaid
    BY <1>5 DEF RunAction, Run, SinkInv
  <2>2. DOMAIN disp' = Paths
        /\ disp'["stream"] = [disp["stream"] EXCEPT !.attached = TRUE]
    BY <2>1 DEF SinkInv, Paths
  <2>3. disp'["stream"] \in Quiet
    BY <2>1, <2>2, AttachType DEF Quiet
  <2> QED
    BY <2>1, <2>2, <2>3, StillQuiet
<1>6. CASE ActionSpeaks
  BY <1>6, CallingKeeps DEF ActionSpeaks
<1>7. CASE ActionReturns
  <2> DEFINE closed == [p \in Paths |-> AutoClose(disp[p])]
  <2>1. disp["stream"] \in Quiet /\ UNCHANGED made
    BY <1>7 DEF ActionReturns, Returning, Return, ReturnNoList, SinkInv
  <2>2. closed["stream"] \in Quiet
    BY <2>1, AutoCloseType DEF Quiet, Paths
  <2>3. EndRun(closed, "ok", DoneEvent) \/ EndRun(closed, "failed", ErrorEvent)
    BY <1>7 DEF ActionReturns, Returning, Return, ReturnNoList
  <2>4. DOMAIN closed = Paths
    OBVIOUS
  <2> HIDE DEF closed
  <2> QED
    BY <1>1, <2>1, <2>2, <2>3, <2>4, EndRunKeeps
<1>8. CASE ActionRaises
  <2>1. /\ disp["stream"] \in Quiet /\ DOMAIN disp = Paths /\ UNCHANGED made
        /\ \E result : EndRun(disp, result, ErrorEvent)
    BY <1>8 DEF ActionRaises, Raising, Raise, SinkInv
  <2> QED
    BY <1>1, <2>1, EndRunKeeps
<1> QED
  BY <1>3, <1>4, <1>5, <1>6, <1>7, <1>8 DEF Next

\* However run ends and whatever the action has said before, the consumer of
\* the sink gets one terminal event, placed last.
THEOREM TerminalEventIsLastHolds == Spec => []TerminalEventIsLast
<1>1. Init => SinkInv
  <2> SUFFICES ASSUME Init PROVE SinkInv
    OBVIOUS
  <2>1. phase = "received" /\ made = 0 /\ disp = [p \in Paths |-> NewDispatcher]
    BY DEF Init, CallInit
  <2>2. disp["stream"] \in Quiet /\ disp["stream"].queue = <<>>
    BY <2>1 DEF NewDispatcher, Quiet, Dispatchers, Paths
  <2>3. 0 \in 0 .. MaxSaid
    BY BoundsAssumption
  <2> QED
    BY <2>1, <2>2, <2>3 DEF SinkInv, TerminalEventIsLast
<1>2. SinkInv => TerminalEventIsLast
  BY DEF SinkInv
<1> QED
  BY <1>1, <1>2, SinkInvStep, PTL DEF Spec

-----------------------------------------------------------------------------
(* Tracing.                                                                *)

Once == IF marked = {} THEN 0 ELSE 1

\* Inductive: all traced methods have been wrapped once or none has; the `run`
\* the executor holds of an action is at most as traced as that, and exactly so
\* if it was taken since; a span is opened per wrapper as the call goes on.
TraceInv ==
  /\ marked \in {{}, Classes}
  /\ wraps = [m \in Methods |-> Once]
  /\ starts \in Nat
  /\ starts > 0 => Registered
  /\ bound \in [DOMAIN bound -> 0 .. Once]
  /\ fresh => marked # {} /\ \A a \in DOMAIN bound : a # "plain" => bound[a] = 1
  /\ action \in ActionKinds
  /\ spans \in [Methods -> 0 .. Once]
  /\ phase \in {"received", "running", "over"}
  /\ phase = "received" => spans = [m \in Methods |-> 0]
  /\ phase # "received" => spans["run"] = Once
  /\ phase # "over" => outcome = "pending"
  /\ phase = "running" =>
       /\ \A m \in Methods \ {"run", "validation_run"} : spans[m] = 0
       /\ Registered /\ spans["validation_run"] = bound[action]
  /\ outcome = "ok" =>
       /\ spans["create_api_response"] = Once
       /\ \A m \in Extracting : spans[m] = Once
       /\ fresh /\ action # "plain" => spans["validation_run"] = Once

\* The traced methods and their classes.
LEMMA TracedMethods ==
  /\ Methods = {"run", "create_api_response", "validation_run",
                "extract_validation", "extract_form_validation"}
  /\ \A m \in Methods : Owner[m] \in Classes
BY DEF Methods, Owner, Classes

\* What an action looks up are two of them.
LEMMA ExtractingMethods ==
  action \in ActionKinds =>
    Extracting \subseteq {"extract_validation", "extract_form_validation"}
BY DEF Extracting, ActionKinds

\* Registering the actions and starting a server come before the call.
LEMMA TraceStartStep ==
  ASSUME TraceInv, RegisterActions \/ Start
  PROVE  TraceInv'
<1>1. /\ phase = "received" /\ phase' = "received"
      /\ UNCHANGED <<outcome, action, spans>> /\ outcome = "pending"
      /\ spans = [m \in Methods |-> 0] /\ spans' \in [Methods -> 0 .. 1]
  BY DEF RegisterActions, Start, StartServer, callVars, TraceInv, Once
<1>2. Once \in {0, 1} /\ (Once = 0 <=> marked = {})
  BY DEF Once
<1>3. CASE RegisterActions
  <2>1. /\ UNCHANGED <<starts, wraps, marked>> /\ Once' = Once
        /\ fresh' = (marked # {})
        /\ bound' = [a \in ActionKinds |-> BoundRun(a)]
    BY <1>3 DEF RegisterActions, Register, Once
  <2>2. BoundRun("plain") = 0
        /\ \A a \in ActionKinds \ {"plain"} : BoundRun(a) = Once
    BY TracedMethods DEF BoundRun, TraceInv
  <2>3. \A a \in ActionKinds : BoundRun(a) \in 0 .. Once
    BY <1>2, <2>2
  <2>4. bound' \in [DOMAIN bound' -> 0 .. Once] /\ Registered'
    BY <2>1, <2>3 DEF Registered
  <2>5. fresh' => marked' # {} /\ \A a \in DOMAIN bound' : a # "plain" => bound'[a] = 1
    BY <1>2, <2>1, <2>2
  <2>6. (\A m \in Methods : spans[m] = 0) /\ spans' \in [Methods -> 0 .. Once]
    BY <1>1, <1>2
  <2> QED
    BY <1>1, <2>1, <2>4, <2>5, <2>6 DEF TraceInv
<1>4. CASE Start
  <2>1. /\ Registered /\ UNCHANGED <<bound, fresh>> /\ starts' = starts + 1
        /\ instrument \/ UNCHANGED <<wraps, marked>>
    BY <1>4 DEF Start, StartServer
  <2>2. /\ marked' \in {{}, Classes} /\ (marked # {} => marked' = marked)
        /\ wraps' = [m \in Methods |-> Once']
    <3>1. CASE instrument
      <4>1. marked' = Classes /\ Classes # {}
        BY <3>1, TracedMethods DEF instrument
      <4>2. \A m \in Methods :
              (IF Owner[m] \in marked THEN wraps[m] ELSE wraps[m] + 1) = 1
        BY TracedMethods DEF TraceInv, Once
      <4>3. wraps' = [m \in Methods |-> 1]
        BY <3>1, <4>2 DEF instrument
      <4> QED
        BY <4>1, <4>3 DEF TraceInv, Once
    <3> QED
      BY <2>1, <3>1 DEF TraceInv, Once
  <2>3. Once' \in {0, 1} /\ Once <= Once'
    BY <2>2 DEF Once
  <2>4. bound' \in [DOMAIN bound' -> 0 .. Once']
    BY <1>2, <2>1, <2>3 DEF TraceInv
  <2>5. fresh' => marked' # {} /\ \A a \in DOMAIN bound' : a # "plain" => bound'[a] = 1
    BY <2>1, <2>2 DEF TraceInv
  <2>6. spans' \in [Methods -> 0 .. Once']
    BY <1>1, <2>3
  <2> QED
    BY <1>1, <2>1, <2>2, <2>4, <2>5, <2>6 DEF TraceInv, Registered
<1> QED
  BY <1>3, <1>4

\* While a call is served tracing stays as it is.
LEMMA ServingKeeps ==
  ASSUME Serving
  PROVE  UNCHANGED <<starts, wraps, marked, bound, action, fresh>>
         /\ UNCHANGED <<Once, Registered, Extracting>>
BY DEF Serving, tracingVars, Once, Registered, Extracting

\* Every step keeps the invariant.
LEMMA TraceInvStep == TraceInv /\ [Next]_vars => TraceInv'
<1> SUFFICES ASSUME TraceInv, [Next]_vars PROVE TraceInv'
  OBVIOUS
<1>1. /\ Once \in {0, 1}
      /\ wraps = [m \in Methods |-> Once]
      /\ "run" \in Methods /\ "validation_run" \in Methods
      /\ "create_api_response" \in Methods
      /\ Extracting \subseteq Methods \ {"run", "validation_run"}
  BY TracedMethods, ExtractingMethods DEF TraceInv, Once
<1>2. CASE RegisterActions \/ Start
  BY <1>2, TraceStartStep
<1>3. CASE Replies \/ ActionSpeaks
  <2>1. /\ UNCHANGED <<phase, outcome, spans>> /\ Serving
    BY <1>3 DEF Replies, ActionSpeaks, Calling, UtterMessage, StreamStart, StreamChunk,
       StreamEnd, Speaks, Reply, Answering, HttpResult, HttpRefusal, HttpException,
       GrpcResult, GrpcRefusal, GrpcException, StreamResult, StreamError, StreamAborts
  <2> QED
    BY <2>1, ServingKeeps DEF TraceInv
<1>4. CASE UNCHANGED vars
  BY <1>4 DEF vars, callVars, tracingVars, TraceInv, Once, Registered, Extracting
<1>5. CASE RefuseCall
  <2>1. /\ Serving /\ phase = "received" /\ phase' = "over"
        /\ outcome' = Refusal(call) /\ Opens({"run"})
    BY <1>5 DEF RefuseCall, Refuse, EndRun
  <2>2. outcome' # "ok"
    BY <2>1 DEF Refusal
  <2>3. spans' = [m \in Methods |-> IF m = "run" THEN Once ELSE 0]
    BY <1>1, <2>1 DEF Opens, TraceInv
  <2> QED
    BY <1>1, <2>1, <2>2, <2>3, ServingKeeps DEF TraceInv
<1>6. CASE RunAction
  <2>1. /\ Serving /\ phase = "received" /\ phase' = "running"
        /\ outcome' = outcome /\ Registered
        /\ spans' = [m \in Methods |->
                       spans[m] + (IF m = "run" THEN wraps[m]
                                   ELSE IF m = "validation_run" THEN bound[action]
                                   ELSE 0)]
    BY <1>6 DEF RunAction, Run, Serving, TraceInv
  <2>2. bound[action] \in 0 .. Once
    BY <2>1 DEF TraceInv, Registered
  <2>3. spans' = [m \in Methods |->
                    IF m = "run" THEN Once
                    ELSE IF m = "validation_run" THEN bound[action] ELSE 0]
    BY <1>1, <2>1, <2>2 DEF TraceInv
  <2>4. spans' \in [Methods -> 0 .. Once]
    BY <1>1, <2>2, <2>3
  <2> QED
    BY <1>1, <2>1, <2>3, <2>4, ServingKeeps DEF TraceInv
<1>7. ASSUME NEW ms \in SUBSET (Methods \ {"run", "validation_run"}), Opens(ms),
             Serving, phase = "running", phase' = "over", outcome = "pending",
             outcome' = "ok" => {"create_api_response"} \cup Extracting \subseteq ms
      PROVE  TraceInv'
  <2>1. \A m \in ms : spans[m] = 0
    BY <1>7 DEF TraceInv
  <2>2. spans' = [m \in Methods |-> IF m \in ms THEN Once ELSE spans[m]]
    BY <1>1, <1>7, <2>1 DEF Opens
  <2>3. spans' \in [Methods -> 0 .. Once]
    BY <1>1, <2>2 DEF TraceInv
  <2>4. spans'["run"] = Once /\ spans'["validation_run"] = bound[action]
    BY <1>1, <1>7, <2>2 DEF TraceInv
  <2>5. fresh /\ action # "plain" => bound[action] = Once
    BY <1>7 DEF TraceInv, Registered, Once
  <2> QED
    BY <1>1, <1>7, <2>2, <2>3, <2>4, <2>5, ServingKeeps DEF TraceInv
<1>8. CASE ActionReturns
  <2>1. /\ Serving /\ phase = "running" /\ phase' = "over"
        /\ Opens(Extracting \cup
                 (IF outcome' = "ok" THEN {"create_api_response"} ELSE {}))
    BY <1>8 DEF ActionReturns, Returning, Return, ReturnNoList, EndRun
  <2> QED
    BY <1>1, <1>7, <2>1 DEF TraceInv
<1>9. CASE ActionRaises
  <2>1. /\ Serving /\ phase = "running" /\ phase' = "over" /\ outcome' # "ok"
        /\ Opens({}) \/ Opens(Extracting)
    BY <1>9 DEF ActionRaises, Raising, Raise, EndRun
  <2> QED
    BY <1>1, <1>7, <2>1 DEF TraceInv
<1> QED
  BY <1>2, <1>3, <1>4, <1>5, <1>6, <1>8, <1>9 DEF Next

\* A traced method opens one span per call, however many servers have configured
\* tracing in the process, except for the `run` taken before.
THEOREM TracedOnceHolds == Spec => []TracedOnce
<1>1. Init => TraceInv
  BY TracedMethods
  DEF Init, CallInit, TracingInit, TraceInv, Once, Registered
<1>2. TraceInv => TracedOnce
  BY DEF TraceInv, TracedOnce, Once
<1> QED
  BY <1>1, <1>2, TraceInvStep, PTL DEF Spec

-----------------------------------------------------------------------------
(* Filtering a sequence, by induction over it.                             *)

\* A set of naturals that has 0 and the successor of each of its members has
\* every natural.
LEMMA SetInduction ==
  ASSUME NEW T, T \subseteq Nat, 0 \in T, \A n \in T : n + 1 \in T
  PROVE  T = Nat
<1> DEFINE R == OpToRel(<, Nat)
           D == Nat \ T
<1>1. IsWellFoundedOn(R, Nat)
  BY NatLessThanWellFounded
<1>2. ASSUME D # {} PROVE FALSE
  <2> HIDE DEF R, D
  <2>1. D \subseteq Nat
    BY DEF D
  <2>2. PICK x \in D : \A y \in D : ~ (<<y, x>> \in R)
    BY <1>1, <1>2, <2>1, WFMin
  <2>3. x \in Nat /\ x \notin T /\ x # 0
    BY <2>2 DEF D
  <2>4. x - 1 \in Nat /\ x - 1 < x
    BY <2>3
  <2>5. <<x - 1, x>> \in R
    BY <2>3, <2>4 DEF R, OpToRel
  <2>6. x - 1 \in T
    BY <2>2, <2>4, <2>5 DEF D
  <2> QED
    BY <2>6, <2>3
<1> QED
  BY <1>2

\* `f` filters the prefixes of `s` up to length n.
Filters(f, s, S, n) ==
  /\ f[0] = <<>>
  /\ \A k \in 1 .. n :
       f[k] = IF s[k] \in S THEN Append(f[k - 1], s[k]) ELSE f[k - 1]

\* There is such a function for every length.
LEMMA FilterExists ==
  ASSUME NEW T, NEW s \in Seq(T), NEW S
  PROVE  \A n \in Nat :
           n <= Len(s) =>
             \E f \in [0 .. n -> Seq(T \cap S)] : Filters(f, s, S, n)
<1> DEFINE Good(n, f) == Filters(f, s, S, n)
           N == {n \in Nat : n <= Len(s) => \E f \in [0 .. n -> Seq(T \cap S)] : Good(n, f)}
<1>1. 0 \in N
  <2>1. [k \in 0 .. 0 |-> <<>>] \in [0 .. 0 -> Seq(T \cap S)]
    OBVIOUS
  <2>2. Good(0, [k \in 0 .. 0 |-> <<>>])
    BY DEF Filters
  <2> HIDE DEF Good
  <2> QED
    BY <2>1, <2>2
<1>2. ASSUME NEW n \in N PROVE n + 1 \in N
  <2>0. n \in Nat
    OBVIOUS
  <2> SUFFICES ASSUME n + 1 <= Len(s)
               PROVE  \E f \in [0 .. n + 1 -> Seq(T \cap S)] : Good(n + 1, f)
    <3> HIDE DEF Good
    <3> QED
      BY <2>0
  <2>1. n \in Nat /\ n <= Len(s) /\ Len(s) \in Nat /\ n + 1 \in DOMAIN s
    OBVIOUS
  <2>2. PICK f \in [0 .. n -> Seq(T \cap S)] : Good(n, f)
    BY <2>1
  <2> DEFINE last == IF s[n + 1] \in S THEN Append(f[n], s[n + 1]) ELSE f[n]
             g == [k \in 0 .. n + 1 |-> IF k = n + 1 THEN last ELSE f[k]]
  <2>3. last \in Seq(T \cap S)
    <3>1. f[n] \in Seq(T \cap S) /\ s[n + 1] \in T
      BY <2>1
    <3> QED
      BY <3>1
  <2> HIDE DEF last
  <2>4. \A k \in 0 .. n + 1 : k # n + 1 => k \in 0 .. n
    BY <2>1
  <2>5. g \in [0 .. n + 1 -> Seq(T \cap S)]
    BY <2>3, <2>4
  <2>6. g[0] = <<>> /\ g[n + 1] = last /\ g[n] = f[n]
    BY <2>1, <2>2 DEF Filters
  <2>7. \A k \in 1 .. n : g[k] = f[k] /\ g[k - 1] = f[k - 1]
    <3> SUFFICES ASSUME NEW k \in 1 .. n
                 PROVE  g[k] = f[k] /\ g[k - 1] = f[k - 1]
      OBVIOUS
    <3>1. /\ k \in 0 .. n + 1 /\ k # n + 1
          /\ k - 1 \in 0 .. n + 1 /\ k - 1 # n + 1
      BY <2>1
    <3> QED
      BY <3>1
  <2>8. Good(n + 1, g)
    <3> HIDE DEF g
    <3>1. \A k \in 1 .. n + 1 : k \in 1 .. n \/ k = n + 1
      BY <2>1
    <3>2. (n + 1) - 1 = n
      BY <2>1
    <3> QED
      BY <2>2, <2>6, <2>7, <3>1, <3>2 DEF last, Filters
  <2> QED
    BY <2>5, <2>8
<1>3. N \subseteq Nat
  OBVIOUS
<1> HIDE DEF N
<1>4. N = Nat
  BY <1>1, <1>2, <1>3, SetInduction
<1> QED
  BY <1>4 DEF N

\* So the definition of Filter means what it says: a prefix longer by one is
\* kept or dropped by its last member.
LEMMA FilterRuns ==
  ASSUME NEW T, NEW s \in Seq(T), NEW S
  PROVE  \E f \in [0 .. Len(s) -> Seq(T \cap S)] :
           Filters(f, s, S, Len(s)) /\ Filter(s, S) = f[Len(s)]
<1> DEFINE u[n \in 0 .. Len(s)] ==
             IF n = 0 THEN <<>>
             ELSE IF s[n] \in S THEN Append(u[n - 1], s[n]) ELSE u[n - 1]
<1>1. Len(s) \in Nat
  OBVIOUS
<1>2. PICK f \in [0 .. Len(s) -> Seq(T \cap S)] : Filters(f, s, S, Len(s))
  <2> HIDE DEF u
  <2>1. \A n \in Nat :
          n <= Len(s) => \E f \in [0 .. n -> Seq(T \cap S)] : Filters(f, s, S, n)
    BY FilterExists
  <2> QED
    BY <1>1, <2>1
<1>3. \E g : g = [n \in 0 .. Len(s) |->
                    IF n = 0 THEN <<>>
                    ELSE IF s[n] \in S THEN Append(g[n - 1], s[n]) ELSE g[n - 1]]
  <2> HIDE DEF u
  <2>1. \A n \in 0 .. Len(s) : n = 0 \/ n \in 1 .. Len(s)
    BY <1>1
  <2>2. f = [n \in 0 .. Len(s) |->
               IF n = 0 THEN <<>>
               ELSE IF s[n] \in S THEN Append(f[n - 1], s[n]) ELSE f[n - 1]]
    BY <1>2, <2>1 DEF Filters
  <2> QED
    BY <2>2
<1>4. u = [n \in 0 .. Len(s) |->
             IF n = 0 THEN <<>>
             ELSE IF s[n] \in S THEN Append(u[n - 1], s[n]) ELSE u[n - 1]]
  BY <1>3 DEF u
<1>5. Filter(s, S) = u[Len(s)]
  BY DEF Filter, u
<1> HIDE DEF u
<1> DEFINE N == {n \in Nat : n <= Len(s) => u[n] = f[n]}
<1>6. 0 \in N
  BY <1>1, <1>2, <1>4 DEF Filters
<1>7. ASSUME NEW n \in N PROVE n + 1 \in N
  <2> SUFFICES ASSUME n + 1 <= Len(s) PROVE u[n + 1] = f[n + 1]
    OBVIOUS
  <2>1. /\ n \in Nat /\ n + 1 \in 1 .. Len(s) /\ n + 1 \in 0 .. Len(s)
        /\ (n + 1) - 1 = n /\ u[n] = f[n] /\ n + 1 # 0
    BY <1>1
  <2>2. u[n + 1] = IF s[n + 1] \in S THEN Append(u[n], s[n + 1]) ELSE u[n]
    BY <1>4, <2>1
  <2> QED
    BY <1>2, <2>1, <2>2 DEF Filters
<1>8. N \subseteq Nat
  OBVIOUS
<1> HIDE DEF N
<1>9. N = Nat
  BY <1>6, <1>7, <1>8, SetInduction
<1>10. u[Len(s)] = f[Len(s)]
  BY <1>1, <1>9 DEF N
<1> QED
  BY <1>2, <1>5, <1>10

\* What is kept is of the sequence and of the set.
LEMMA FilterType ==
  ASSUME NEW T, NEW s \in Seq(T), NEW S
  PROVE  Filter(s, S) \in Seq(T \cap S)
<1>1. PICK f \in [0 .. Len(s) -> Seq(T \cap S)] : Filter(s, S) = f[Len(s)]
  BY FilterRuns
<1>2. Len(s) \in 0 .. Len(s)
  OBVIOUS
<1> QED
  BY <1>1, <1>2

\* A sequence is filtered member by member.
LEMMA FilterAppend ==
  ASSUME NEW T, NEW s \in Seq(T), NEW e \in T, NEW S
  PROVE  Filter(Append(s, e), S) =
           IF e \in S THEN Append(Filter(s, S), e) ELSE Filter(s, S)
<1> DEFINE t == Append(s, e)
<1>1. /\ t \in Seq(T) /\ Len(t) = Len(s) + 1 /\ Len(s) \in Nat
      /\ t[Len(t)] = e /\ \A k \in 1 .. Len(s) : t[k] = s[k]
  OBVIOUS
<1>2. PICK f : Filters(f, s, S, Len(s)) /\ Filter(s, S) = f[Len(s)]
  BY FilterRuns
<1> HIDE DEF t
<1>3. PICK g : Filters(g, t, S, Len(t)) /\ Filter(t, S) = g[Len(t)]
  BY <1>1, FilterRuns
<1> DEFINE N == {n \in Nat : n <= Len(s) => f[n] = g[n]}
<1>4. 0 \in N
  BY <1>2, <1>3 DEF Filters
<1>5. ASSUME NEW n \in N PROVE n + 1 \in N
  <2> SUFFICES ASSUME n + 1 <= Len(s) PROVE f[n + 1] = g[n + 1]
    OBVIOUS
  <2>1. /\ n \in Nat /\ n + 1 \in 1 .. Len(s) /\ n + 1 \in 1 .. Len(t)
        /\ (n + 1) - 1 = n /\ f[n] = g[n] /\ t[n + 1] = s[n + 1]
    <3>1. /\ n \in Nat /\ n <= Len(s) /\ f[n] = g[n]
          /\ Len(s) \in Nat /\ Len(t) = Len(s) + 1
      BY <1>1
    <3> HIDE DEF N
    <3>2. n + 1 \in 1 .. Len(s) /\ n + 1 \in 1 .. Len(t) /\ (n + 1) - 1 = n
      BY <3>1
    <3>3. t[n + 1] = s[n + 1]
      BY <1>1, <3>2
    <3> QED
      BY <3>1, <3>2, <3>3
  <2> QED
    BY <1>2, <1>3, <2>1 DEF Filters
<1>6. N \subseteq Nat
  OBVIOUS
<1>7. f[Len(s)] = g[Len(s)]
  <2> HIDE DEF N
  <2>1. N = Nat
    BY <1>4, <1>5, <1>6, SetInduction
  <2> QED
    BY <1>1, <2>1 DEF N
<1>8. Filter(t, S) = g[Len(s) + 1] /\ Len(s) + 1 \in 1 .. Len(t)
      /\ (Len(s) + 1) - 1 = Len(s) /\ t[Len(s) + 1] = e
  BY <1>1, <1>3
<1> HIDE DEF N
<1>9. g[Len(s) + 1] = IF e \in S THEN Append(g[Len(s)], e) ELSE g[Len(s)]
  BY <1>3, <1>8 DEF Filters
<1> QED
  BY <1>2, <1>7, <1>8, <1>9 DEF t

\* Nothing is kept of nothing.
LEMMA FilterEmpty ==
  ASSUME NEW S
  PROVE  Filter(<<>>, S) = <<>>
<1>1. \A s \in Seq({}) : Filter(s, S) \in Seq({} \cap S)
  BY FilterType
<1>2. Filter(<<>>, S) \in Seq({})
  <2>1. <<>> \in Seq({}) /\ {} \cap S = {}
    OBVIOUS
  <2> QED
    BY <1>1, <2>1
<1>3. \A s \in Seq({}) : s = <<>>
  OBVIOUS
<1> QED
  BY <1>2, <1>3

-----------------------------------------------------------------------------
(* Types.                                                                  *)

\* What the validation keeps of the events an action returned are events.
LEMMA ValidatedType ==
  ASSUME NEW es \in EventLists
  PROVE  validate_events(es) \in Seq(EventKinds)
<1>1. es \in Seq(EventKinds)
  BY BoundsAssumption DEF EventLists
<1>2. validate_events(es) \in Seq(EventKinds \cap {"event", "opaque"})
  BY <1>1, FilterType DEF validate_events
<1> QED
  BY <1>2

\* A call on the dispatchers keeps their types, and those of the histories.
LEMMA CallingType ==
  ASSUME CallTypeOK, Calling
  PROVE  CallTypeOK'
<1>1. /\ phase' \in {"received", "running", "over"} /\ made' \in 0 .. MaxSaid
      /\ made + 1 \in 1 .. MaxSaid /\ UNCHANGED <<call, outcome, events, answer>>
  BY BoundsAssumption DEF Calling, UtterMessage, StreamStart, StreamChunk, StreamEnd,
     Speaks, CallTypeOK
<1>2. Payload("message") \in Payloads /\ Payload("chunk") \in Payloads
  BY <1>1 DEF Payload, Payloads
<1>3. StreamEvents(Payloads) \subseteq SinkEvents
  BY DEF SinkEvents
<1>4. /\ disp' \in [Paths -> Dispatchers(Payloads, SinkEvents)]
      /\ said' \in SUBSET Payloads /\ lost' \in SUBSET Payloads
  <2>1. CASE UtterMessage
    <3>1. ASSUME NEW d \in Dispatchers(Payloads, SinkEvents)
          PROVE  utter_message(d, Payload("message")) \in Dispatchers(Payloads, SinkEvents)
      <4>1. Append(d.messages, Payload("message")) \in Seq(Payloads)
        BY <1>2 DEF Dispatchers
      <4> QED
        BY <4>1 DEF utter_message, Dispatchers
    <3> QED
      BY <1>2, <2>1, <3>1 DEF UtterMessage, CallTypeOK
  <2>2. CASE StreamStart
    <3>1. \A p \in Paths : stream_start(disp[p]) \in Dispatchers(Payloads, SinkEvents)
      BY <1>3, StartType DEF CallTypeOK
    <3>2. Values(disp["unary"].accumulated) \subseteq Payloads
      BY DEF CallTypeOK, Dispatchers, Paths, Values
    <3> QED
      BY <2>2, <3>1, <3>2 DEF StreamStart, CallTypeOK
  <2>3. CASE StreamChunk
    <3>1. \A p \in Paths :
            stream_chunk(disp[p], Payload("chunk")) \in Dispatchers(Payloads, SinkEvents)
      BY <1>2, <1>3, ChunkType DEF CallTypeOK
    <3> QED
      BY <1>2, <2>3, <3>1 DEF StreamChunk, CallTypeOK
  <2>4. CASE StreamEnd
    <3>1. \A p \in Paths : stream_end(disp[p]) \in Dispatchers(Payloads, SinkEvents)
      BY <1>3, EndType DEF CallTypeOK
    <3> QED
      BY <2>4, <3>1 DEF StreamEnd, CallTypeOK
  <2> QED
    BY <2>1, <2>2, <2>3, <2>4 DEF Calling
<1> QED
  BY <1>1, <1>4 DEF CallTypeOK

\* So does the end of a run.
LEMMA EndRunType ==
  ASSUME CallTypeOK, NEW ds \in [Paths -> Dispatchers(Payloads, SinkEvents)],
         NEW result \in Outcomes, NEW last \in {DoneEvent, ErrorEvent},
         EndRun(ds, result, last), UNCHANGED <<call, made, said, lost, answer>>,
         events' \in Seq(EventKinds)
  PROVE  CallTypeOK'
<1>1. Put(ds["stream"], last) \in Dispatchers(Payloads, SinkEvents)
  BY PutType DEF SinkEvents, Paths
<1>2. disp' \in [Paths -> Dispatchers(Payloads, SinkEvents)]
  BY <1>1 DEF EndRun
<1> QED
  BY <1>2 DEF EndRun, CallTypeOK

\* And an answer.
LEMMA ReplyType ==
  ASSUME CallTypeOK, Reply
  PROVE  CallTypeOK'
<1> DEFINE Answers == [status : Statuses, detail : Details,
                       events : Seq(EventKinds), messages : Seq(Payloads)]
<1>1. \A status \in Statuses, detail \in Details : Answer(status, detail) \in Answers
  BY <<>> \in Seq(EventKinds), <<>> \in Seq(Payloads)
     DEF Answer, NoAnswer, Statuses, Details
<1>2. ASSUME NEW t \in Transports, NEW status \in Statuses
      PROVE  Result(t, status) \in Answers
  <2>1. disp[PathOf(t)].messages \in Seq(Payloads)
    BY DEF CallTypeOK, Dispatchers, PathOf, Paths
  <2> QED
    BY <2>1 DEF Result, CallTypeOK, Details
<1>3. \A result \in Refusals :
        /\ HttpStatus[result] \in Statuses /\ GrpcStatus[result] \in Statuses
        /\ GrpcDetail[result] \in Details
  <2>1. /\ HttpStatus.rejected = "400" /\ HttpStatus.not_found = "404"
        /\ HttpStatus.missing_domain = "449"
    BY DEF HttpStatus
  <2>2. /\ GrpcStatus.rejected = "INTERNAL" /\ GrpcStatus.not_found = "NOT_FOUND"
        /\ GrpcStatus.missing_domain = "NOT_FOUND"
    BY DEF GrpcStatus
  <2>3. /\ GrpcDetail.rejected = "action" /\ GrpcDetail.not_found = "resource ACTION"
        /\ GrpcDetail.missing_domain = "resource DOMAIN"
    BY DEF GrpcDetail
  <2> QED
    BY <2>1, <2>2, <2>3 DEF Refusals, Statuses, Details
<1> HIDE DEF Answers
<1>4. ASSUME NEW t \in Transports, NEW a \in Answers, Answering(t, a)
      PROVE  CallTypeOK'
  BY <1>4 DEF Answering, CallTypeOK, Answers
<1>5. "http" \in Transports /\ "grpc" \in Transports /\ "stream" \in Transports
  BY DEF Transports
<1>6. CASE HttpResult \/ HttpRefusal \/ HttpException
  BY <1>1, <1>2, <1>3, <1>4, <1>5, <1>6 DEF HttpResult, HttpRefusal, HttpException, Statuses, Details
<1>7. CASE GrpcResult \/ GrpcRefusal \/ GrpcException
  BY <1>1, <1>2, <1>3, <1>4, <1>5, <1>7 DEF GrpcResult, GrpcRefusal, GrpcException, Statuses, Details
<1>8. CASE StreamResult \/ StreamError \/ StreamAborts
  BY <1>1, <1>2, <1>3, <1>4, <1>5, <1>8 DEF StreamResult, StreamError, StreamAborts, Statuses, Details
<1> QED
  BY <1>6, <1>7, <1>8 DEF Reply

\* Every step of a call keeps the types of its variables.
LEMMA CallTypeStep == CallTypeOK /\ [Next]_vars => CallTypeOK'
<1> SUFFICES ASSUME CallTypeOK, [Next]_vars PROVE CallTypeOK'
  OBVIOUS
<1> DEFINE closed == [p \in Paths |-> AutoClose(disp[p])]
<1>1. /\ disp \in [Paths -> Dispatchers(Payloads, SinkEvents)]
      /\ closed \in [Paths -> Dispatchers(Payloads, SinkEvents)]
  <2>1. StreamEvents(Payloads) \subseteq SinkEvents
    BY DEF SinkEvents
  <2>2. \A p \in Paths : AutoClose(disp[p]) \in Dispatchers(Payloads, SinkEvents)
    BY <2>1, AutoCloseType DEF CallTypeOK
  <2> QED
    BY <2>2 DEF CallTypeOK
<1>2. CASE RegisterActions \/ Start \/ UNCHANGED vars
  BY <1>2 DEF RegisterActions, Start, vars, callVars, CallTypeOK
<1>3. CASE RefuseCall
  <2>1. Refusal(call) \in Outcomes
    BY DEF Refusal, Outcomes, Refusals
  <2>2. PICK last \in {DoneEvent, ErrorEvent} : EndRun(disp, Refusal(call), last)
    BY <1>3 DEF RefuseCall, Refuse
  <2>3. UNCHANGED <<call, made, said, lost, events, answer>> /\ events \in Seq(EventKinds)
    BY <1>3 DEF RefuseCall, Refuse, CallTypeOK
  <2> QED
    BY <1>1, <2>1, <2>2, <2>3, EndRunType
<1>4. CASE RunAction
  <2>1. \A d \in Dispatchers(Payloads, SinkEvents) :
          [d EXCEPT !.attached = TRUE] \in Dispatchers(Payloads, SinkEvents)
    BY AttachType
  <2>2. disp' = [disp EXCEPT !["stream"] = [@ EXCEPT !.attached = TRUE]]
    BY <1>4 DEF RunAction, Run
  <2>3. disp' \in [Paths -> Dispatchers(Payloads, SinkEvents)]
    BY <1>1, <2>1, <2>2 DEF Paths
  <2> QED
    BY <1>4, <2>3 DEF RunAction, Run, CallTypeOK
<1>5. CASE ActionSpeaks
  BY <1>5, CallingType DEF ActionSpeaks
<1>6. CASE ActionReturns
  <2>1. UNCHANGED <<call, made, said, lost, answer>>
    BY <1>6 DEF ActionReturns, Returning, Return, ReturnNoList
  <2>2. CASE ReturnNoList
    <3>1. EndRun(closed, "failed", ErrorEvent) /\ events' \in Seq(EventKinds)
      BY <2>2 DEF ReturnNoList, CallTypeOK
    <3>2. "failed" \in Outcomes
      BY DEF Outcomes
    <3> HIDE DEF closed
    <3> QED
      BY <1>1, <2>1, <3>1, <3>2, EndRunType
  <2>3. CASE \E es \in EventLists : Return(es)
    <3>1. EndRun(closed, "ok", DoneEvent) /\ events' \in Seq(EventKinds)
      BY <2>3, ValidatedType DEF Return
    <3>2. "ok" \in Outcomes
      BY DEF Outcomes
    <3> HIDE DEF closed
    <3> QED
      BY <1>1, <2>1, <3>1, <3>2, EndRunType
  <2> QED
    BY <1>6, <2>2, <2>3 DEF ActionReturns, Returning
<1>7. CASE ActionRaises
  <2>1. PICK result \in {"rejected", "failed"} : Raise(result)
    BY <1>7 DEF ActionRaises, Raising
  <2>2. /\ EndRun(disp, result, ErrorEvent) /\ result \in Outcomes
        /\ UNCHANGED <<call, made, said, lost, answer>> /\ events' \in Seq(EventKinds)
    BY <2>1 DEF Raise, CallTypeOK, Outcomes, Refusals
  <2> QED
    BY <1>1, <2>2, EndRunType
<1>8. CASE Replies
  BY <1>8, ReplyType DEF Replies
<1> QED
  BY <1>2, <1>3, <1>4, <1>5, <1>6, <1>7, <1>8 DEF Next

\* A call starts with its variables typed.
LEMMA CallTypeInit == Init => CallTypeOK
<1> SUFFICES ASSUME Init PROVE CallTypeOK
  OBVIOUS
<1>1. NewDispatcher \in Dispatchers(Payloads, SinkEvents)
  BY DEF NewDispatcher, Dispatchers
<1>2. NoAnswer \in [status : Statuses, detail : Details,
                    events : Seq(EventKinds), messages : Seq(Payloads)]
  BY <<>> \in Seq(EventKinds), <<>> \in Seq(Payloads) DEF NoAnswer, Statuses, Details
<1> HIDE DEF NoAnswer
<1> QED
  BY <1>1, <1>2, <<>> \in Seq(EventKinds), BoundsAssumption
  DEF Init, CallInit, CallTypeOK, Outcomes

\* Every variable stays within its type.
THEOREM TypeCorrect == Spec => []TypeOK
<1> DEFINE Fresh == fresh \in BOOLEAN
           Inv == CallTypeOK /\ TraceInv /\ TracingTypeOK /\ Fresh
<1>1. Init => Inv
  <2> SUFFICES ASSUME Init PROVE Inv
    OBVIOUS
  <2>3. TracingTypeOK
    BY StartsAssumption DEF Init, TracingInit, TracingTypeOK
  <2> QED
    <3>1. TraceInv
      BY TracedMethods
      DEF Init, CallInit, TracingInit, TraceInv, Once, Registered
    <3> QED
      BY <2>3, <3>1, CallTypeInit DEF Init
<1>2. TraceInv /\ TracingTypeOK /\ [Next]_vars => TracingTypeOK'
  <2> SUFFICES ASSUME TraceInv, TracingTypeOK, [Next]_vars PROVE TracingTypeOK'
    OBVIOUS
  <2>1. TraceInv'
    BY TraceInvStep
  <2>2. wraps' \in [Methods -> Nat] /\ marked' \in SUBSET Classes
    BY <2>1 DEF TraceInv, Once
  <2>3. starts' \in 0 .. MaxStarts
    BY StartsAssumption DEF TracingTypeOK, Next, RegisterActions, Register, Start, StartServer,
       RefuseCall, RunAction, ActionSpeaks, ActionReturns, ActionRaises, Replies,
       Serving, vars, tracingVars
  <2>4. \/ UNCHANGED bound
        \/ bound' = [a \in ActionKinds |-> BoundRun(a)]
    BY DEF Next, RegisterActions, Register, Start, StartServer, RefuseCall,
       RunAction, ActionSpeaks, ActionReturns, ActionRaises, Replies, Serving, vars,
       tracingVars
  <2>5. \A a \in ActionKinds : BoundRun(a) \in Nat
    BY TracedMethods DEF BoundRun, TraceInv, Once
  <2> QED
    BY <2>2, <2>3, <2>4, <2>5 DEF TracingTypeOK
<1>3. Fresh /\ [Next]_vars => Fresh'
  BY DEF Next, RegisterActions, Start, RefuseCall, RunAction, ActionSpeaks,
     ActionReturns, ActionRaises, Replies, Serving, vars
<1>4. Inv => TypeOK
  <2> SUFFICES ASSUME Inv PROVE TypeOK
    OBVIOUS
  <2>1. spans \in [Methods -> Nat]
    BY DEF TraceInv, Once
  <2> QED
    BY <2>1 DEF TraceInv, TypeOK
<1> HIDE DEF Fresh
<1> QED
  BY <1>1, <1>2, <1>3, <1>4, CallTypeStep, TraceInvStep, PTL DEF Spec

-----------------------------------------------------------------------------
(* The account of a call.                                                  *)

\* Inductive: a transport answers when the run is over, and what it then says
\* of the run stays true, for nothing changes any more.
AccountInv ==
  /\ call \in Requests
  /\ DOMAIN answer = Transports
  /\ \A t \in Transports : Answered(t) => phase = "over"
  /\ SameAccount

\* What an answer means to a client, for each form an answer may take.
LEMMA AnswerMeans ==
  ASSUME NEW t \in Transports, NEW s \in Statuses, NEW d \in Details,
         answer'[t] = Answer(s, d), s # "none"
  PROVE  /\ s = "400" /\ d = "action" => Meaning(t)' = "rejected"
         /\ s = "INTERNAL" /\ d = "action" => Meaning(t)' = "rejected"
         /\ s = "404" /\ d = "action" => Meaning(t)' = "not_found"
         /\ s = "449" /\ d = "action" => Meaning(t)' = "missing_domain"
         /\ s = "NOT_FOUND" /\ d = "resource ACTION" => Meaning(t)' = "not_found"
         /\ s = "NOT_FOUND" /\ d = "resource DOMAIN" => Meaning(t)' = "missing_domain"
         /\ s \in {"500", "INTERNAL", "UNKNOWN"} /\ d = "text" => Meaning(t)' = "failed"
<1>1. answer'[t].status = s /\ answer'[t].detail = d
  BY DEF Answer, NoAnswer
<1> QED
  BY <1>1 DEF Meaning, Succeeded

\* An answer that keeps to the truth keeps the invariant.
LEMMA AnsweringKeeps ==
  ASSUME AccountInv, NEW t \in Transports, NEW a, Answering(t, a),
         Meaning(t)' = Truth \/ (t = "http" /\ HttpMisreports)
  PROVE  AccountInv'
<1>1. /\ UNCHANGED <<phase, outcome, events, call>> /\ phase = "over"
      /\ answer' = [answer EXCEPT ![t] = a]
  BY DEF Answering
<1>2. UNCHANGED <<Truth, HttpMisreports>>
  BY <1>1 DEF Truth, HttpMisreports, HasResult, Unencodable, AttributesFail
<1>3. \A o \in Transports : o # t => answer'[o] = answer[o]
  BY <1>1 DEF AccountInv
<1>4. \A o \in Transports :
        o # t => (Meaning(o)' = Meaning(o)) /\ (Answered(o)' <=> Answered(o))
  BY <1>3 DEF Meaning, Succeeded, Answered
<1>5. SameAccount'
  BY <1>2, <1>4 DEF AccountInv, SameAccount
<1> QED
  BY <1>1, <1>5 DEF AccountInv

\* Each answer of a transport keeps to the truth, but for those of HTTP that
\* are known not to.
LEMMA ReplyKeeps ==
  ASSUME AccountInv, Reply
  PROVE  AccountInv'
<1>1. /\ "http" \in Transports /\ "grpc" \in Transports /\ "stream" \in Transports
      /\ PathOf("http") = "unary" /\ PathOf("grpc") = "unary"
  BY DEF Transports, PathOf
<1>2. \A s : \A t \in Transports : Result(t, s).status = s /\ Result(t, s).detail = "none"
  BY DEF Result
<1>3. \A a : \A t \in Transports : Answering(t, a) => answer'[t] = a
  BY DEF Answering, AccountInv
<1>4. ASSUME NEW t \in Transports, NEW s \in {"200", "OK"}, HasResult, ~Unencodable,
             Answering(t, Result(t, s))
      PROVE  AccountInv'
  <2>1. Meaning(t)' = "ok"
    <3>1. answer'[t].status = s /\ answer'[t].detail = "none"
      BY <1>2, <1>3, <1>4
    <3> QED
      BY <3>1 DEF Meaning, Succeeded
  <2>2. Truth = "ok"
    BY <1>4 DEF Truth
  <2> QED
    BY <1>4, <2>1, <2>2, AnsweringKeeps
<1>5. CASE HttpResult \/ GrpcResult \/ StreamResult
  BY <1>1, <1>4, <1>5 DEF HttpResult, GrpcResult, StreamResult
<1>6. CASE HttpRefusal
  <2>1. outcome \in Refusals /\ Truth = outcome
    BY <1>6 DEF HttpRefusal, Truth, HasResult, Refusals
  <2>2. Answering("http", Answer(HttpStatus[outcome], "action"))
    BY <1>6 DEF HttpRefusal
  <2>3. /\ HttpStatus["rejected"] = "400" /\ HttpStatus["not_found"] = "404"
        /\ HttpStatus["missing_domain"] = "449"
    BY DEF HttpStatus
  <2>4. Meaning("http")' = outcome
    BY <1>1, <1>3, <2>1, <2>2, <2>3, AnswerMeans DEF Refusals, Statuses, Details
  <2> QED
    BY <1>1, <2>1, <2>2, <2>4, AnsweringKeeps
<1>7. CASE HttpException
  <2>1. PICK a \in {Answer("500", "text"), Answer("400", "body")} :
          /\ Answering("http", a)
          /\ call.body = "json" => a = Answer("500", "text")
          /\ call.body # "json" => a = Answer("400", "body")
    BY <1>7 DEF HttpException
  <2>2. HttpMisreports \/ (call.body = "json" /\ Truth = "failed")
    <3>1. call.body \in {"json", "deflate"}
      BY DEF AccountInv, Requests
    <3> QED
      BY <1>7, <3>1 DEF HttpException, HttpMisreports, Truth, HasResult
  <2>3. call.body = "json" => Meaning("http")' = "failed"
    BY <1>1, <1>3, <2>1, AnswerMeans DEF Statuses, Details
  <2> QED
    BY <1>1, <2>1, <2>2, <2>3, AnsweringKeeps
<1>8. CASE GrpcRefusal \/ StreamError
  <2>1. PICK t \in {"grpc", "stream"} :
          \/ /\ outcome \in Refusals
             /\ Answering(t, Answer(GrpcStatus[outcome], GrpcDetail[outcome]))
          \/ /\ outcome = "failed"
             /\ Answering(t, Answer("INTERNAL", "text"))
    BY <1>8 DEF GrpcRefusal, StreamError, Refusals
  <2>2. Truth = outcome
    BY <2>1 DEF Truth, HasResult, Refusals
  <2>3. /\ GrpcStatus["rejected"] = "INTERNAL" /\ GrpcStatus["not_found"] = "NOT_FOUND"
        /\ GrpcStatus["missing_domain"] = "NOT_FOUND"
    BY DEF GrpcStatus
  <2>4. /\ GrpcDetail["rejected"] = "action"
        /\ GrpcDetail["not_found"] = "resource ACTION"
        /\ GrpcDetail["missing_domain"] = "resource DOMAIN"
    BY DEF GrpcDetail
  <2>5. Meaning(t)' = outcome
    BY <1>1, <1>3, <2>1, <2>3, <2>4, AnswerMeans DEF Refusals, Statuses, Details
  <2> QED
    BY <1>1, <2>1, <2>2, <2>5, AnsweringKeeps
<1>9. CASE GrpcException \/ StreamAborts
  <2>1. PICK t \in {"grpc", "stream"} : Answering(t, Answer("UNKNOWN", "text"))
    BY <1>9 DEF GrpcException, StreamAborts
  <2>2. Truth = "failed"
    BY <1>9 DEF GrpcException, StreamAborts, Truth, HasResult
  <2>3. Meaning(t)' = "failed"
    BY <1>1, <1>3, <2>1, AnswerMeans DEF Statuses, Details
  <2> QED
    BY <1>1, <2>1, <2>2, <2>3, AnsweringKeeps
<1> QED
  BY <1>5, <1>6, <1>7, <1>8, <1>9 DEF Reply

\* Every other step leaves the answers alone, and once one has been given there
\* is no other step.
LEMMA AccountInvStep == AccountInv /\ [Next]_vars => AccountInv'
<1> SUFFICES ASSUME AccountInv, [Next]_vars PROVE AccountInv'
  OBVIOUS
<1>1. CASE Replies
  BY <1>1, ReplyKeeps DEF Replies
<1>2. CASE UNCHANGED vars
  <2>1. UNCHANGED <<call, phase, outcome, events, answer>>
    BY <1>2 DEF vars, callVars
  <2>2. UNCHANGED <<Truth, HttpMisreports>>
    BY <2>1 DEF Truth, HttpMisreports, HasResult, Unencodable, AttributesFail
  <2>3. \A t \in Transports : Meaning(t)' = Meaning(t) /\ (Answered(t)' <=> Answered(t))
    BY <2>1 DEF Meaning, Succeeded, Answered
  <2> QED
    BY <2>1, <2>2, <2>3 DEF AccountInv, SameAccount
<1>3. CASE \/ RegisterActions \/ Start \/ RefuseCall \/ RunAction \/ ActionSpeaks
           \/ ActionReturns \/ ActionRaises
  <2>1. phase # "over" /\ UNCHANGED <<call, answer>>
    BY <1>3 DEF RegisterActions, Start, RefuseCall, Refuse, RunAction, Run, ActionSpeaks,
       Calling, UtterMessage, StreamStart, StreamChunk, StreamEnd, Speaks, ActionReturns,
       Returning, Return, ReturnNoList, ActionRaises, Raising, Raise, callVars
  <2>2. \A t \in Transports : ~Answered(t) /\ ~Answered(t)'
    BY <2>1 DEF AccountInv, Answered
  <2> QED
    BY <2>1, <2>2 DEF AccountInv, SameAccount
<1> QED
  BY <1>1, <1>2, <1>3 DEF Next

\* Every transport tells a rejection, an unknown action, a missing domain and a
\* failure apart, in whatever order they answer.
THEOREM SameAccountHolds == Spec => []SameAccount
<1>1. Init => AccountInv
  BY DEF Init, CallInit, AccountInv, SameAccount, Answered
<1>2. AccountInv => SameAccount
  BY DEF AccountInv
<1> QED
  BY <1>1, <1>2, AccountInvStep, PTL DEF Spec

-----------------------------------------------------------------------------
(* What was said arrives.                                                  *)

OfKind(s, kind) == \A i \in DOMAIN s : s[i].kind = kind

\* A dispatcher without a sink: what is accumulated are the chunks of an open
\* stream, and they come after the messages.
Unary(d, heard) ==
  /\ ~d.attached /\ ~d.cancelled
  /\ d.active \/ d.accumulated = <<>>
  /\ OfKind(d.accumulated, "chunk")
  /\ InOrder(d.messages \o d.accumulated)
  /\ Values(d.messages \o d.accumulated) = heard

\* A dispatcher with one: chunks are in the sink, messages are not.
Streamed(d, heard) ==
  /\ ~d.cancelled
  /\ OfKind(d.messages, "message")
  /\ OfKind(Chunks(d.queue), "chunk")
  /\ InOrder(d.messages)
  /\ InOrder(Chunks(d.queue))
  /\ Values(d.messages) \cup Values(Chunks(d.queue)) = heard

\* Inductive: what each dispatcher holds, in order, is what has been said; a
\* result leaves nothing accumulated; and an answer has the messages the
\* dispatcher ended with.
SaidInv ==
  /\ \A c \in said : c.n <= made
  /\ lost \subseteq said
  /\ Unary(disp["unary"], said \ lost)
  /\ Streamed(disp["stream"], said)
  /\ phase = "received" => ~disp["unary"].active
  /\ phase = "running" => disp["stream"].attached
  /\ phase # "over" => ~HasResult
  /\ HasResult => disp["unary"].accumulated = <<>>
  /\ \A t \in Transports : Answered(t) => phase = "over"
  /\ \A t \in Transports :
       Answered(t) /\ Succeeded(t) =>
         HasResult /\ answer[t].messages = disp[PathOf(t)].messages

\* What two sequences hold one after the other.
LEMMA ValuesConcat ==
  ASSUME NEW s \in Seq(Payloads), NEW t \in Seq(Payloads)
  PROVE  Values(s \o t) = Values(s) \cup Values(t)
<1>1. /\ DOMAIN (s \o t) = 1 .. Len(s) + Len(t)
      /\ DOMAIN s = 1 .. Len(s) /\ DOMAIN t = 1 .. Len(t)
      /\ Len(s) \in Nat /\ Len(t) \in Nat
  OBVIOUS
<1>2. \A i \in 1 .. Len(s) : (s \o t)[i] = s[i]
  OBVIOUS
<1>3. \A i \in 1 .. Len(t) : (s \o t)[Len(s) + i] = t[i] /\ Len(s) + i \in DOMAIN (s \o t)
  BY <1>1
<1>4. \A i \in DOMAIN (s \o t) : i \in 1 .. Len(s) \/ i - Len(s) \in 1 .. Len(t)
  BY <1>1
<1>5. ASSUME NEW i \in DOMAIN (s \o t) PROVE (s \o t)[i] \in Values(s) \cup Values(t)
  <2>1. CASE i \in 1 .. Len(s)
    BY <1>1, <1>2, <2>1 DEF Values
  <2>2. CASE i - Len(s) \in 1 .. Len(t)
    <3>1. Len(s) + (i - Len(s)) = i
      BY <1>1
    <3>2. (s \o t)[i] = t[i - Len(s)]
      BY <1>3, <2>2, <3>1
    <3> QED
      BY <1>1, <2>2, <3>2 DEF Values
  <2> QED
    BY <1>4, <2>1, <2>2
<1>6. \A i \in DOMAIN s : i \in DOMAIN (s \o t)
  BY <1>1
<1>7. Values(s) \subseteq Values(s \o t)
  BY <1>1, <1>2, <1>6 DEF Values
<1>8. Values(t) \subseteq Values(s \o t)
  BY <1>1, <1>3 DEF Values
<1>9. Values(s \o t) \subseteq Values(s) \cup Values(t)
  BY <1>5 DEF Values
<1> QED
  BY <1>7, <1>8, <1>9

\* And a sequence longer by one.
LEMMA ValuesAppend ==
  ASSUME NEW s \in Seq(Payloads), NEW e \in Payloads
  PROVE  Values(Append(s, e)) = Values(s) \cup {e}
<1>1. Values(<<e>>) = {e}
  BY DEF Values
<1>2. Append(s, e) = s \o <<e>> /\ <<e>> \in Seq(Payloads)
  OBVIOUS
<1> QED
  BY <1>1, <1>2, ValuesConcat

\* Two sequences are in order when each is and the second follows the first.
LEMMA InOrderConcat ==
  ASSUME NEW s \in Seq(Payloads), NEW t \in Seq(Payloads)
  PROVE  InOrder(s \o t) <=>
           /\ InOrder(s) /\ InOrder(t)
           /\ \A c \in Values(s), d \in Values(t) : c.kind = d.kind => c.n < d.n
<1> DEFINE r == s \o t
<1>1. /\ DOMAIN r = 1 .. Len(s) + Len(t)
      /\ DOMAIN s = 1 .. Len(s) /\ DOMAIN t = 1 .. Len(t)
      /\ Len(s) \in Nat /\ Len(t) \in Nat
  OBVIOUS
<1>2. \A i \in DOMAIN s : r[i] = s[i] /\ i \in DOMAIN r /\ i <= Len(s)
  OBVIOUS
<1>3. \A i \in DOMAIN t : r[Len(s) + i] = t[i]
  OBVIOUS
<1>4. \A i \in DOMAIN t : Len(s) + i \in DOMAIN r /\ Len(s) + i > Len(s)
  BY <1>1
<1>5. ASSUME NEW i \in DOMAIN r, i \notin DOMAIN s
      PROVE  i - Len(s) \in DOMAIN t /\ r[i] = t[i - Len(s)]
  <2>1. i - Len(s) \in DOMAIN t /\ Len(s) + (i - Len(s)) = i
    BY <1>1, <1>5
  <2> QED
    BY <1>3, <2>1
<1> HIDE DEF r
<1>6. ASSUME InOrder(r)
      PROVE  /\ InOrder(s) /\ InOrder(t)
             /\ \A c \in Values(s), d \in Values(t) : c.kind = d.kind => c.n < d.n
  <2>1. InOrder(s)
    BY <1>2, <1>6 DEF InOrder
  <2>2. InOrder(t)
    <3>1. ASSUME NEW i \in DOMAIN t, NEW j \in DOMAIN t, i < j, t[i].kind = t[j].kind
          PROVE  t[i].n < t[j].n
      <4>1. Len(s) + i < Len(s) + j
        BY <1>1, <3>1
      <4> QED
        BY <1>3, <1>4, <1>6, <3>1, <4>1 DEF InOrder
    <3> QED
      BY <3>1 DEF InOrder
  <2>3. ASSUME NEW i \in DOMAIN s, NEW j \in DOMAIN t, s[i].kind = t[j].kind
        PROVE  s[i].n < t[j].n
    <3>1. i < Len(s) + j
      BY <1>1
    <3> QED
      BY <1>2, <1>3, <1>4, <1>6, <2>3, <3>1 DEF InOrder
  <2> QED
    BY <2>1, <2>2, <2>3 DEF Values
<1>7. ASSUME InOrder(s), InOrder(t),
             \A c \in Values(s), d \in Values(t) : c.kind = d.kind => c.n < d.n
      PROVE  InOrder(r)
  <2> SUFFICES ASSUME NEW i \in DOMAIN r, NEW j \in DOMAIN r, i < j,
                      r[i].kind = r[j].kind
               PROVE  r[i].n < r[j].n
    BY DEF InOrder
  <2>1. CASE j \in DOMAIN s
    <3>1. i \in DOMAIN s
      BY <1>1, <2>1
    <3> QED
      BY <1>2, <1>7, <2>1, <3>1 DEF InOrder
  <2>2. CASE i \in DOMAIN s /\ j \notin DOMAIN s
    <3>1. r[i] = s[i] /\ j - Len(s) \in DOMAIN t /\ r[j] = t[j - Len(s)]
      BY <1>2, <1>5, <2>2
    <3>2. r[i] \in Values(s) /\ r[j] \in Values(t)
      BY <2>2, <3>1 DEF Values
    <3> QED
      BY <1>7, <3>2
  <2>3. CASE i \notin DOMAIN s /\ j \notin DOMAIN s
    <3>1. /\ i - Len(s) \in DOMAIN t /\ r[i] = t[i - Len(s)]
          /\ j - Len(s) \in DOMAIN t /\ r[j] = t[j - Len(s)]
      BY <1>5, <2>3
    <3>2. i - Len(s) < j - Len(s)
      BY <1>1
    <3> QED
      BY <1>7, <3>1, <3>2 DEF InOrder
  <2> QED
    BY <1>1, <2>1, <2>2, <2>3
<1> QED
  BY <1>6, <1>7 DEF r

\* What is said after all the rest may go last.
LEMMA InOrderAppend ==
  ASSUME NEW s \in Seq(Payloads), NEW e \in Payloads, InOrder(s),
         \A c \in Values(s) : c.n < e.n
  PROVE  InOrder(Append(s, e))
<1>1. Values(<<e>>) = {e} /\ InOrder(<<e>>)
  BY DEF Values, InOrder
<1>2. Append(s, e) = s \o <<e>> /\ <<e>> \in Seq(Payloads)
  OBVIOUS
<1> QED
  BY <1>1, <1>2, InOrderConcat

\* The chunks of a sink are payloads; only a chunk adds to them.
LEMMA ChunkSteps ==
  /\ Chunks(<<>>) = <<>>
  /\ \A q \in Seq(SinkEvents) :
       /\ Chunks(q) \in Seq(Payloads)
       /\ \A e \in {StartEvent, EndEvent, DoneEvent, ErrorEvent} :
            Chunks(Append(q, e)) = Chunks(q)
       /\ \A c \in Payloads : Chunks(Append(q, ChunkEvent(c))) = Append(Chunks(q), c)
<1> DEFINE C == {ChunkEvent(c) : c \in Payloads}
<1>1. /\ \A e \in {StartEvent, EndEvent, DoneEvent, ErrorEvent} :
            e \in SinkEvents /\ e \notin C
      /\ C \subseteq SinkEvents
  <2>1. C \subseteq SinkEvents
    BY DEF ChunkEvent, SinkEvents, StreamEvents
  <2>2. \A e \in {StartEvent, EndEvent, DoneEvent, ErrorEvent} : e \in SinkEvents
    BY DEF StartEvent, EndEvent, SinkEvents, StreamEvents
  <2>3. \A e \in {StartEvent, EndEvent, DoneEvent, ErrorEvent} :
          e.event # "stream_chunk"
    BY DEF StartEvent, EndEvent, DoneEvent, ErrorEvent
  <2>4. \A e \in C : e.event = "stream_chunk"
    BY DEF ChunkEvent
  <2> QED
    BY <2>1, <2>2, <2>3, <2>4
<1>2. \A e \in C : e.chunk \in Payloads
  BY DEF ChunkEvent
<1>3. \A c \in Payloads : ChunkEvent(c).chunk = c /\ ChunkEvent(c) \in C
  BY DEF ChunkEvent
<1> HIDE DEF C
<1>4. \A q : Chunks(q) = [i \in DOMAIN Filter(q, C) |-> Filter(q, C)[i].chunk]
  BY DEF Chunks, C
<1>5. Chunks(<<>>) = <<>>
  <2>1. Filter(<<>>, C) = <<>>
    BY FilterEmpty
  <2> QED
    BY <1>4, <2>1
<1>6. ASSUME NEW q \in Seq(SinkEvents)
      PROVE  /\ Chunks(q) \in Seq(Payloads)
             /\ \A e \in {StartEvent, EndEvent, DoneEvent, ErrorEvent} :
                  Chunks(Append(q, e)) = Chunks(q)
             /\ \A c \in Payloads : Chunks(Append(q, ChunkEvent(c))) = Append(Chunks(q), c)
  <2>1. Filter(q, C) \in Seq(SinkEvents \cap C)
    BY FilterType
  <2> DEFINE f == Filter(q, C)
  <2>2. f \in Seq(C) /\ DOMAIN f = 1 .. Len(f) /\ Len(f) \in Nat
    BY <2>1
  <2>3. \A e \in SinkEvents :
          Filter(Append(q, e), C) = IF e \in C THEN Append(f, e) ELSE f
    BY FilterAppend
  <2>4. Chunks(q) = [i \in 1 .. Len(f) |-> f[i].chunk]
    BY <1>4, <2>2
  <2> HIDE DEF f
  <2>5. Chunks(q) \in Seq(Payloads)
    <3>1. \A i \in 1 .. Len(f) : f[i].chunk \in Payloads
      BY <1>2, <2>2
    <3> QED
      BY <2>2, <2>4, <3>1
  <2>6. \A e \in {StartEvent, EndEvent, DoneEvent, ErrorEvent} :
          Chunks(Append(q, e)) = Chunks(q)
    BY <1>1, <1>4, <2>3 DEF f
  <2>7. ASSUME NEW c \in Payloads
        PROVE  Chunks(Append(q, ChunkEvent(c))) = Append(Chunks(q), c)
    <3> DEFINE g == Append(f, ChunkEvent(c))
    <3>1. Filter(Append(q, ChunkEvent(c)), C) = g
      BY <1>1, <1>3, <2>3
    <3>2. /\ DOMAIN g = 1 .. Len(f) + 1 /\ g[Len(f) + 1] = ChunkEvent(c)
          /\ \A i \in 1 .. Len(f) : g[i] = f[i]
      BY <1>3, <2>2
    <3> HIDE DEF g
    <3>3. Chunks(Append(q, ChunkEvent(c))) = [i \in 1 .. Len(f) + 1 |-> g[i].chunk]
      BY <1>4, <3>1, <3>2
    <3>4. /\ Len(Chunks(q)) = Len(f)
          /\ Append(Chunks(q), c) =
               [i \in 1 .. Len(f) + 1 |-> IF i = Len(f) + 1 THEN c ELSE Chunks(q)[i]]
      BY <2>2, <2>4, <2>5
    <3>5. \A i \in 1 .. Len(f) + 1 :
            g[i].chunk = IF i = Len(f) + 1 THEN c ELSE Chunks(q)[i]
      <4>1. \A i \in 1 .. Len(f) + 1 : i = Len(f) + 1 \/ i \in 1 .. Len(f)
        BY <2>2
      <4> QED
        BY <1>3, <2>4, <3>2, <4>1
    <3> QED
      BY <3>3, <3>4, <3>5
  <2> QED
    BY <2>5, <2>6, <2>7
<1> QED
  BY <1>5, <1>6

-----------------------------------------------------------------------------
\* The payloads and the dispatchers of a call.
Records == Dispatchers(Payloads, SinkEvents)

\* What the methods do to the fields of a dispatcher without a sink.
LEMMA UnarySteps ==
  ASSUME NEW d \in Records, ~d.attached, NEW e
  PROVE  /\ utter_message(d, e) = [d EXCEPT !.messages = Append(@, e)]
         /\ stream_start(d) =
              [d EXCEPT !.accumulated = <<>>, !.cancelled = FALSE, !.active = TRUE]
         /\ ~d.cancelled /\ d.active =>
              stream_chunk(d, e) = [d EXCEPT !.accumulated = Append(@, e)]
         /\ ~d.cancelled /\ ~d.active =>
              stream_chunk(d, e) =
                [d EXCEPT !.accumulated = Append(<<>>, e), !.active = TRUE]
         /\ stream_end(d) = [d EXCEPT !.messages = @ \o d.accumulated,
                                     !.accumulated = <<>>, !.active = FALSE]
BY DEF Records, Dispatchers, utter_message, stream_start, stream_chunk, stream_end,
   Accept, Emit, Put

\* The fields of a dispatcher.
LEMMA Fields ==
  ASSUME NEW d \in Records
  PROVE  /\ d.messages \in Seq(Payloads) /\ d.accumulated \in Seq(Payloads)
         /\ d.queue \in Seq(SinkEvents)
BY DEF Records, Dispatchers

\* A message goes after the messages, before the chunks that wait.
LEMMA UnaryMessage ==
  ASSUME NEW d \in Records, NEW heard, Unary(d, heard),
         NEW e \in Payloads, e.kind = "message", \A c \in heard : c.n < e.n
  PROVE  Unary(utter_message(d, e), heard \cup {e})
<1> DEFINE m == d.messages
           a == d.accumulated
           n == Append(m, e)
<1>1. /\ m \in Seq(Payloads) /\ a \in Seq(Payloads) /\ n \in Seq(Payloads)
      /\ ~d.attached /\ ~d.cancelled /\ (d.active \/ a = <<>>)
      /\ OfKind(a, "chunk") /\ InOrder(m \o a) /\ Values(m \o a) = heard
  BY Fields DEF Unary
<1>2. utter_message(d, e) = [d EXCEPT !.messages = n]
  BY <1>1, UnarySteps
<1> HIDE DEF m, a, n
<1>3. /\ Values(m) \cup Values(a) = heard /\ InOrder(m) /\ InOrder(a)
      /\ \A c \in Values(m), f \in Values(a) : c.kind = f.kind => c.n < f.n
  BY <1>1, ValuesConcat, InOrderConcat
<1>4. InOrder(n) /\ Values(n) = Values(m) \cup {e}
  BY <1>1, <1>3, ValuesAppend, InOrderAppend DEF n
<1>5. \A f \in Values(a) : f.kind # e.kind
  BY <1>1 DEF Values, OfKind
<1>6. InOrder(n \o a)
  BY <1>1, <1>3, <1>4, <1>5, InOrderConcat
<1>7. Values(n \o a) = heard \cup {e}
  BY <1>1, <1>3, <1>4, ValuesConcat
<1> DEFINE r == utter_message(d, e)
<1>8. /\ r.messages = n /\ r.accumulated = a /\ r.attached = d.attached
      /\ r.cancelled = d.cancelled /\ r.active = d.active
  BY <1>2 DEF a, Records, Dispatchers
<1> HIDE DEF r
<1> QED
  BY <1>1, <1>6, <1>7, <1>8 DEF Unary, r

\* stream_start forgets the chunks that wait, and nothing else.
LEMMA UnaryStart ==
  ASSUME NEW d \in Records, NEW heard, Unary(d, heard)
  PROVE  Unary(stream_start(d), heard \ Values(d.accumulated))
<1> DEFINE m == d.messages
           a == d.accumulated
<1>1. /\ m \in Seq(Payloads) /\ a \in Seq(Payloads)
      /\ ~d.attached /\ InOrder(m \o a) /\ Values(m \o a) = heard
  BY Fields DEF Unary
<1>2. /\ Values(m) \cup Values(a) = heard /\ InOrder(m)
      /\ \A c \in Values(m), f \in Values(a) : c.kind = f.kind => c.n < f.n
  BY <1>1, ValuesConcat, InOrderConcat
<1>3. \A c \in Values(m) : c \notin Values(a)
  <2>1. \A c \in Values(m) : c \in Payloads
    BY <1>1 DEF Values
  <2>2. \A c \in Payloads : ~(c.n < c.n)
    BY BoundsAssumption DEF Payloads
  <2> QED
    BY <1>2, <2>1, <2>2
<1>4. m \o <<>> = m
  BY <1>1
<1> DEFINE r == stream_start(d)
<1>5. /\ r.messages = m /\ r.accumulated = <<>> /\ ~r.attached
      /\ ~r.cancelled /\ r.active
  BY <1>1, UnarySteps DEF Records, Dispatchers
<1> HIDE DEF r, m, a
<1>6. Values(m) = heard \ Values(a)
  BY <1>2, <1>3
<1> QED
  BY <1>2, <1>4, <1>5, <1>6 DEF Unary, OfKind, r, a

\* A chunk goes last, whether it starts a stream or not.
LEMMA UnaryChunk ==
  ASSUME NEW d \in Records, NEW heard, Unary(d, heard),
         NEW e \in Payloads, e.kind = "chunk", \A c \in heard : c.n < e.n
  PROVE  Unary(stream_chunk(d, e), heard \cup {e})
<1> DEFINE m == d.messages
           a == d.accumulated
           b == Append(a, e)
<1>1. /\ m \in Seq(Payloads) /\ a \in Seq(Payloads) /\ b \in Seq(Payloads)
      /\ ~d.attached /\ ~d.cancelled /\ (d.active \/ a = <<>>)
      /\ OfKind(a, "chunk") /\ InOrder(m \o a) /\ Values(m \o a) = heard
  BY Fields DEF Unary
<1> DEFINE r == stream_chunk(d, e)
<1>2. /\ r.messages = m /\ r.accumulated = b /\ ~r.attached
      /\ ~r.cancelled /\ r.active
  <2>1. CASE d.active
    <3>1. r = [d EXCEPT !.accumulated = Append(@, e)]
      BY <1>1, <2>1, UnarySteps
    <3> HIDE DEF r
    <3> QED
      BY <1>1, <2>1, <3>1 DEF Records, Dispatchers
  <2>2. CASE ~d.active
    <3>1. r = [d EXCEPT !.accumulated = Append(<<>>, e), !.active = TRUE]
      BY <1>1, <2>2, UnarySteps
    <3> HIDE DEF r
    <3> QED
      BY <1>1, <2>2, <3>1 DEF Records, Dispatchers
  <2> QED
    BY <2>1, <2>2
<1>3. m \o b = Append(m \o a, e) /\ m \o a \in Seq(Payloads)
  <2> HIDE DEF r, m, a
  <2>1. /\ m \o a \in Seq(Payloads) /\ m \o b \in Seq(Payloads)
        /\ Len(m \o a) = Len(m) + Len(a) /\ Len(m \o b) = Len(m) + Len(a) + 1
        /\ Len(Append(m \o a, e)) = Len(m) + Len(a) + 1
        /\ Len(m) \in Nat /\ Len(a) \in Nat
        /\ Append(m \o a, e) \in Seq(Payloads)
    BY <1>1
  <2>2. ASSUME NEW i \in 1 .. Len(m) + Len(a) + 1
        PROVE  (m \o b)[i] = Append(m \o a, e)[i]
    <3>1. CASE i \in 1 .. Len(m)
      BY <1>1, <2>1, <3>1
    <3>2. CASE i \in Len(m) + 1 .. Len(m) + Len(a)
      BY <1>1, <2>1, <3>2
    <3>3. CASE i = Len(m) + Len(a) + 1
      BY <1>1, <2>1, <3>3
    <3> QED
      BY <2>1, <3>1, <3>2, <3>3
  <2> QED
    BY <2>1, <2>2
<1>4. \A i \in DOMAIN b : b[i] = e \/ (i \in DOMAIN a /\ b[i] = a[i])
  BY <1>1
<1> HIDE DEF r, m, b, a
<1>5. InOrder(m \o b) /\ Values(m \o b) = heard \cup {e}
  BY <1>1, <1>3, InOrderAppend, ValuesAppend
<1>6. OfKind(b, "chunk")
  BY <1>1, <1>4 DEF OfKind
<1> QED
  BY <1>2, <1>5, <1>6 DEF Unary, r

\* stream_end turns the chunks into messages where they are.
LEMMA UnaryEnd ==
  ASSUME NEW d \in Records, NEW heard, Unary(d, heard)
  PROVE  /\ Unary(stream_end(d), heard)
         /\ Unary(AutoClose(d), heard) /\ AutoClose(d).accumulated = <<>>
<1> DEFINE m == d.messages
           a == d.accumulated
           r == stream_end(d)
<1>1. /\ m \in Seq(Payloads) /\ a \in Seq(Payloads) /\ m \o a \in Seq(Payloads)
      /\ ~d.attached /\ ~d.cancelled /\ (d.active \/ a = <<>>)
      /\ InOrder(m \o a) /\ Values(m \o a) = heard
  BY Fields DEF Unary
<1>2. /\ r.messages = m \o a /\ r.accumulated = <<>> /\ ~r.attached
      /\ ~r.cancelled /\ ~r.active
  BY <1>1, UnarySteps DEF Records, Dispatchers
<1>3. (m \o a) \o <<>> = m \o a
  BY <1>1
<1> HIDE DEF r, m, a
<1>4. Unary(r, heard)
  BY <1>1, <1>2, <1>3 DEF Unary, OfKind
<1> QED
  BY <1>1, <1>2, <1>4 DEF AutoClose, r, a

-----------------------------------------------------------------------------
\* With a sink, what places no chunk and says no message leaves the account.
LEMMA StreamedKeeps ==
  ASSUME NEW d, NEW heard, Streamed(d, heard), NEW r, ~r.cancelled,
         r.messages = d.messages, Chunks(r.queue) = Chunks(d.queue)
  PROVE  Streamed(r, heard)
BY DEF Streamed

\* The starts and the ends of streams, and the end of the run, are such steps.
LEMMA StreamedMarks ==
  ASSUME NEW d \in Records, NEW heard, Streamed(d, heard)
  PROVE  /\ d.attached => /\ Streamed(stream_start(d), heard)
                          /\ Streamed(stream_end(d), heard)
                          /\ Streamed(AutoClose(d), heard)
         /\ \A e \in {DoneEvent, ErrorEvent} : Streamed(Put(d, e), heard)
         /\ Streamed([d EXCEPT !.attached = TRUE], heard)
<1>1. ~d.cancelled /\ d.queue \in Seq(SinkEvents)
  BY Fields DEF Streamed
<1>2. \A e \in {StartEvent, EndEvent, DoneEvent, ErrorEvent} :
        Chunks(Append(d.queue, e)) = Chunks(d.queue)
  BY <1>1, ChunkSteps
<1>3. ASSUME d.attached
      PROVE  /\ Streamed(stream_start(d), heard)
             /\ Streamed(stream_end(d), heard)
  <2>1. /\ stream_start(d).queue = Append(d.queue, StartEvent)
        /\ stream_start(d).messages = d.messages /\ ~stream_start(d).cancelled
        /\ stream_end(d).queue = Append(d.queue, EndEvent)
        /\ stream_end(d).messages = d.messages
        /\ stream_end(d).cancelled = d.cancelled
    BY <1>3 DEF stream_start, stream_end, Emit, Put, Records, Dispatchers
  <2>2. Streamed(stream_start(d), heard)
    BY <1>2, <2>1, StreamedKeeps
  <2>3. Streamed(stream_end(d), heard)
    BY <1>1, <1>2, <2>1, StreamedKeeps
  <2> QED
    BY <2>2, <2>3
<1>4. ASSUME NEW e \in {DoneEvent, ErrorEvent} PROVE Streamed(Put(d, e), heard)
  <2>1. /\ Put(d, e).queue = Append(d.queue, e)
        /\ Put(d, e).messages = d.messages /\ Put(d, e).cancelled = d.cancelled
    BY DEF Put, Records, Dispatchers
  <2> QED
    BY <1>1, <1>2, <1>4, <2>1, StreamedKeeps
<1>5. Streamed([d EXCEPT !.attached = TRUE], heard)
  <2> DEFINE r == [d EXCEPT !.attached = TRUE]
  <2>1. r.queue = d.queue /\ r.messages = d.messages /\ r.cancelled = d.cancelled
    BY DEF Records, Dispatchers
  <2> HIDE DEF r
  <2>2. Streamed(r, heard)
    BY <1>1, <2>1, StreamedKeeps
  <2> QED
    BY <2>2 DEF r
<1> QED
  BY <1>3, <1>4, <1>5 DEF AutoClose

\* A message is said.
LEMMA StreamedMessage ==
  ASSUME NEW d \in Records, NEW heard, Streamed(d, heard),
         NEW e \in Payloads, e.kind = "message", \A c \in heard : c.n < e.n
  PROVE  Streamed(utter_message(d, e), heard \cup {e})
<1> DEFINE m == d.messages
           n == Append(m, e)
           r == utter_message(d, e)
<1>1. /\ m \in Seq(Payloads)
      /\ \A i \in DOMAIN n : n[i] = e \/ (i \in DOMAIN m /\ n[i] = m[i])
  BY Fields
<1>2. /\ r.messages = n /\ r.queue = d.queue /\ r.cancelled = d.cancelled
  BY DEF utter_message, Records, Dispatchers
<1>3. /\ OfKind(m, "message") /\ InOrder(m)
      /\ Values(m) \cup Values(Chunks(d.queue)) = heard
  BY DEF Streamed
<1>4. InOrder(n) /\ Values(n) = Values(m) \cup {e}
  <2> HIDE DEF m
  <2> QED
    BY <1>1, <1>3, InOrderAppend, ValuesAppend
<1> HIDE DEF r, m, n
<1>5. OfKind(n, "message")
  BY <1>1, <1>3 DEF OfKind
<1> QED
  BY <1>2, <1>3, <1>4, <1>5 DEF Streamed, r

\* A chunk goes to the sink, after the start it may need.
LEMMA StreamedChunk ==
  ASSUME NEW d \in Records, d.attached, NEW heard, Streamed(d, heard),
         NEW e \in Payloads, e.kind = "chunk", \A c \in heard : c.n < e.n
  PROVE  Streamed(stream_chunk(d, e), heard \cup {e})
<1> DEFINE s == Chunks(d.queue)
           t == Append(s, e)
           r == stream_chunk(d, e)
<1>1. d.queue \in Seq(SinkEvents) /\ s \in Seq(Payloads) /\ ~d.cancelled
  BY Fields, ChunkSteps DEF Streamed
<1>2. StreamEvents(Payloads) \subseteq SinkEvents
  BY DEF SinkEvents
<1>3. r.queue = IF d.active THEN Append(d.queue, ChunkEvent(e))
                ELSE Append(Append(d.queue, StartEvent), ChunkEvent(e))
  BY <1>1, <1>2, AttachedChunk DEF Records
<1>4. r.messages = d.messages /\ r.cancelled = d.cancelled
  BY <1>1 DEF stream_chunk, stream_start, Accept, Emit, Put, Records, Dispatchers
<1>5. Chunks(r.queue) = t
  <2>1. StartEvent \in SinkEvents
    BY DEF StartEvent, SinkEvents, StreamEvents
  <2>2. Append(d.queue, StartEvent) \in Seq(SinkEvents)
    BY <1>1, <2>1
  <2>3. Chunks(Append(d.queue, StartEvent)) = s
    BY <1>1, ChunkSteps
  <2>4. CASE d.active
    BY <1>1, <1>3, <2>4, ChunkSteps
  <2>5. CASE ~d.active
    BY <1>3, <2>2, <2>3, <2>5, ChunkSteps
  <2> QED
    BY <2>4, <2>5
<1>6. /\ OfKind(s, "chunk") /\ InOrder(s)
      /\ Values(d.messages) \cup Values(s) = heard
  BY DEF Streamed
<1>7. \A i \in DOMAIN t : t[i] = e \/ (i \in DOMAIN s /\ t[i] = s[i])
  BY <1>1
<1>8. InOrder(t) /\ Values(t) = Values(s) \cup {e}
  <2> HIDE DEF s
  <2> QED
    BY <1>1, <1>6, InOrderAppend, ValuesAppend
<1> HIDE DEF r, s, t
<1>9. OfKind(t, "chunk")
  BY <1>6, <1>7 DEF OfKind
<1> QED
  BY <1>1, <1>4, <1>5, <1>6, <1>8, <1>9 DEF Streamed, r

\* While no run is over there is no answer, and none is given but by a reply.
LEMMA NoAnswerYet ==
  ASSUME SaidInv, phase # "over", UNCHANGED answer
  PROVE  \A t \in Transports : ~Answered(t)'
BY DEF SaidInv, Answered

\* The end of a run keeps what has been said.
LEMMA EndRunKeepsSaid ==
  ASSUME CallTypeOK, SaidInv, phase # "over", NEW ds \in [Paths -> Records],
         NEW result, NEW last \in {DoneEvent, ErrorEvent}, EndRun(ds, result, last),
         Unary(ds["unary"], said \ lost), Streamed(ds["stream"], said),
         result \in {"ok", "nothing"} => ds["unary"].accumulated = <<>>,
         UNCHANGED <<made, said, lost, answer>>
  PROVE  SaidInv'
<1>1. /\ phase' = "over" /\ outcome' = result
      /\ disp' = [ds EXCEPT !["stream"] = Put(ds["stream"], last)]
  BY DEF EndRun
<1>2. disp'["unary"] = ds["unary"] /\ disp'["stream"] = Put(ds["stream"], last)
  BY <1>1 DEF Paths
<1>3. Streamed(Put(ds["stream"], last), said)
  BY StreamedMarks DEF Paths
<1>4. Unary(disp["unary"], said \ lost)' /\ Streamed(disp["stream"], said)'
  BY <1>2, <1>3
<1>5. HasResult' => result \in {"ok", "nothing"}
  BY <1>1 DEF HasResult
<1> QED
  BY <1>1, <1>2, <1>4, <1>5, NoAnswerYet DEF SaidInv

\* Whatever the action calls, both dispatchers account for it.
LEMMA CallingKeepsSaid ==
  ASSUME CallTypeOK, SaidInv, Calling
  PROVE  SaidInv'
<1> DEFINE U == disp["unary"]
           S == disp["stream"]
           m == Payload("message")
           c == Payload("chunk")
<1>1. /\ phase = "running" /\ phase' = "running" /\ made' = made + 1
      /\ made \in Nat /\ made + 1 \in 1 .. MaxSaid /\ UNCHANGED <<outcome, answer>>
  BY BoundsAssumption DEF Calling, UtterMessage, StreamStart, StreamChunk, StreamEnd,
     Speaks, CallTypeOK
<1>2. /\ U \in Records /\ S \in Records /\ "unary" \in Paths /\ "stream" \in Paths
      /\ U.accumulated \in Seq(Payloads)
  BY Fields DEF CallTypeOK, Records, Paths
<1>3. /\ m \in Payloads /\ c \in Payloads /\ m.n = made + 1 /\ c.n = made + 1
      /\ m.kind = "message" /\ c.kind = "chunk"
  BY <1>1 DEF Payload, Payloads
<1>4. /\ Unary(U, said \ lost) /\ Streamed(S, said) /\ S.attached
      /\ \A x \in said : x.n <= made /\ x.n < made + 1
      /\ lost \subseteq said /\ said \subseteq Payloads
  <2>1. \A x \in said : x.n \in Nat
    BY DEF CallTypeOK, Payloads
  <2> QED
    BY <1>1, <2>1 DEF SaidInv, CallTypeOK
<1>5. m \notin said /\ c \notin said
  BY <1>1, <1>3, <1>4
<1> HIDE DEF m, c
<1>6. ASSUME Unary(disp'["unary"], said' \ lost'), Streamed(disp'["stream"], said'),
             disp'["stream"].attached, lost' \subseteq said',
             said' \subseteq said \cup {m, c}
      PROVE  SaidInv'
  <2>1. \A x \in said' : x.n <= made'
    <3>1. \A x \in said : x.n \in Nat
      BY <1>4 DEF Payloads
    <3> QED
      BY <1>1, <1>3, <1>4, <1>6, <3>1
  <2>2. ~HasResult'
    BY <1>1 DEF SaidInv, HasResult
  <2>3. \A t \in Transports : ~Answered(t)'
    BY <1>1, NoAnswerYet
  <2> QED
    BY <1>1, <1>6, <2>1, <2>2, <2>3 DEF SaidInv
<1>7. CASE UtterMessage
  <2>1. /\ said' = said \cup {m} /\ lost' = lost
        /\ disp'["unary"] = utter_message(U, m) /\ disp'["stream"] = utter_message(S, m)
    BY <1>2, <1>7 DEF UtterMessage, m
  <2>2. Unary(disp'["unary"], (said \ lost) \cup {m})
    BY <1>2, <1>3, <1>4, <2>1, UnaryMessage
  <2>3. (said \ lost) \cup {m} = said' \ lost'
    BY <1>4, <1>5, <2>1
  <2>4. Streamed(disp'["stream"], said')
    BY <1>2, <1>3, <1>4, <2>1, StreamedMessage
  <2>5. disp'["stream"].attached
    BY <1>2, <1>4, <2>1 DEF utter_message, Records, Dispatchers
  <2> QED
    BY <1>4, <1>6, <2>1, <2>2, <2>3, <2>4, <2>5
<1>8. CASE StreamStart
  <2>1. /\ said' = said /\ lost' = lost \cup Values(U.accumulated)
        /\ disp'["unary"] = stream_start(U) /\ disp'["stream"] = stream_start(S)
    BY <1>2, <1>8 DEF StreamStart
  <2>2. Unary(disp'["unary"], (said \ lost) \ Values(U.accumulated))
    BY <1>2, <1>4, <2>1, UnaryStart
  <2>3. (said \ lost) \ Values(U.accumulated) = said' \ lost'
    BY <2>1
  <2>4. Streamed(disp'["stream"], said')
    BY <1>2, <1>4, <2>1, StreamedMarks
  <2>5. disp'["stream"].attached
    BY <1>2, <1>4, <2>1, AttachedStartEnd DEF Records
  <2>6. Values(U.accumulated) \subseteq said
    <3>1. U.messages \in Seq(Payloads)
      BY <1>2, Fields
    <3> QED
      BY <1>2, <1>4, <3>1, ValuesConcat DEF Unary
  <2> QED
    BY <1>4, <1>6, <2>1, <2>2, <2>3, <2>4, <2>5, <2>6
<1>9. CASE StreamChunk
  <2>1. /\ said' = said \cup {c} /\ lost' = lost
        /\ disp'["unary"] = stream_chunk(U, c) /\ disp'["stream"] = stream_chunk(S, c)
    BY <1>2, <1>9 DEF StreamChunk, c
  <2>2. Unary(disp'["unary"], (said \ lost) \cup {c})
    BY <1>2, <1>3, <1>4, <2>1, UnaryChunk
  <2>3. (said \ lost) \cup {c} = said' \ lost'
    BY <1>4, <1>5, <2>1
  <2>4. Streamed(disp'["stream"], said')
    BY <1>2, <1>3, <1>4, <2>1, StreamedChunk
  <2>5. disp'["stream"].attached
    BY <1>2, <1>4, <2>1
    DEF stream_chunk, stream_start, Accept, Emit, Put, Records, Dispatchers
  <2> QED
    BY <1>4, <1>6, <2>1, <2>2, <2>3, <2>4, <2>5
<1>10. CASE StreamEnd
  <2>1. /\ said' = said /\ lost' = lost
        /\ disp'["unary"] = stream_end(U) /\ disp'["stream"] = stream_end(S)
    BY <1>2, <1>10 DEF StreamEnd
  <2>2. Unary(disp'["unary"], said' \ lost')
    BY <1>2, <1>4, <2>1, UnaryEnd
  <2>3. Streamed(disp'["stream"], said')
    BY <1>2, <1>4, <2>1, StreamedMarks
  <2>4. disp'["stream"].attached
    BY <1>2, <1>4, <2>1 DEF stream_end, Put, Records, Dispatchers
  <2> QED
    BY <1>4, <1>6, <2>1, <2>2, <2>3, <2>4
<1> QED
  BY <1>7, <1>8, <1>9, <1>10 DEF Calling

\* An answer that succeeds carries the messages of its dispatcher.
LEMMA ReplyKeepsSaid ==
  ASSUME CallTypeOK, SaidInv, Reply
  PROVE  SaidInv'
<1>1. /\ "http" \in Transports /\ "grpc" \in Transports /\ "stream" \in Transports
  BY DEF Transports
<1>2. ASSUME NEW t \in Transports, NEW a, Answering(t, a),
             a.status \in {"200", "OK"} =>
               HasResult /\ a.messages = disp[PathOf(t)].messages
      PROVE  SaidInv'
  <2>1. /\ UNCHANGED <<phase, made, said, disp, lost, outcome>> /\ phase = "over"
        /\ answer'[t] = a /\ \A o \in Transports : o # t => answer'[o] = answer[o]
    BY <1>2 DEF Answering, CallTypeOK
  <2>2. UNCHANGED HasResult
    BY <2>1 DEF HasResult
  <2>3. \A o \in Transports :
          Answered(o)' /\ Succeeded(o)' =>
            HasResult' /\ answer'[o].messages = disp'[PathOf(o)].messages
    BY <1>2, <2>1, <2>2 DEF SaidInv, Answered, Succeeded
  <2> QED
    BY <2>1, <2>2, <2>3 DEF SaidInv
<1>3. \A s : \A t \in Transports : Result(t, s).messages = disp[PathOf(t)].messages
  BY DEF Result
<1>4. \A s \in Statuses, d \in Details : Answer(s, d).status = s
  BY DEF Answer, NoAnswer
<1>5. CASE HttpResult \/ GrpcResult \/ StreamResult
  BY <1>1, <1>2, <1>3, <1>5 DEF HttpResult, GrpcResult, StreamResult
<1>6. CASE \/ HttpRefusal \/ HttpException \/ GrpcRefusal \/ GrpcException
           \/ StreamError \/ StreamAborts
  <2>1. PICK t \in Transports, s \in Statuses \ {"200", "OK"}, d \in Details :
          Answering(t, Answer(s, d))
    <3>1. \A result \in Refusals :
            /\ HttpStatus[result] \in Statuses \ {"200", "OK"}
            /\ GrpcStatus[result] \in Statuses \ {"200", "OK"}
            /\ GrpcDetail[result] \in Details
      <4>1. /\ HttpStatus.rejected = "400" /\ HttpStatus.not_found = "404"
            /\ HttpStatus.missing_domain = "449"
        BY DEF HttpStatus
      <4>2. /\ GrpcStatus.rejected = "INTERNAL" /\ GrpcStatus.not_found = "NOT_FOUND"
            /\ GrpcStatus.missing_domain = "NOT_FOUND"
        BY DEF GrpcStatus
      <4>3. /\ GrpcDetail.rejected = "action"
            /\ GrpcDetail.not_found = "resource ACTION"
            /\ GrpcDetail.missing_domain = "resource DOMAIN"
        BY DEF GrpcDetail
      <4> QED
        BY <4>1, <4>2, <4>3 DEF Refusals, Statuses, Details
    <3>2. CASE HttpRefusal
      BY <1>1, <3>1, <3>2 DEF HttpRefusal, Details
    <3>3. CASE HttpException
      BY <1>1, <3>3 DEF HttpException, Statuses, Details
    <3>4. CASE GrpcRefusal
      BY <1>1, <3>1, <3>4 DEF GrpcRefusal
    <3>5. CASE GrpcException \/ StreamAborts
      BY <1>1, <3>5 DEF GrpcException, StreamAborts, Statuses, Details
    <3>6. CASE StreamError
      <4>1. outcome = "failed" \/ outcome \in Refusals
        BY <3>6 DEF StreamError
      <4> QED
        BY <1>1, <3>1, <3>6, <4>1 DEF StreamError, Statuses, Details
    <3> QED
      BY <1>6, <3>2, <3>3, <3>4, <3>5, <3>6
  <2>2. Answer(s, d).status \notin {"200", "OK"}
    BY <1>4
  <2> QED
    BY <1>2, <2>1, <2>2
<1> QED
  BY <1>5, <1>6 DEF Reply

\* Every step keeps the accounts.
LEMMA SaidInvStep == CallTypeOK /\ SaidInv /\ [Next]_vars => SaidInv'
<1> SUFFICES ASSUME CallTypeOK, SaidInv, [Next]_vars PROVE SaidInv'
  OBVIOUS
<1> DEFINE closed == [p \in Paths |-> AutoClose(disp[p])]
<1>1. /\ disp \in [Paths -> Records] /\ "unary" \in Paths /\ "stream" \in Paths
      /\ disp["unary"] \in Records /\ disp["stream"] \in Records
  BY DEF CallTypeOK, Records, Paths
<1>2. closed \in [Paths -> Records]
  <2>1. StreamEvents(Payloads) \subseteq SinkEvents
    BY DEF SinkEvents
  <2> QED
    BY <1>1, <2>1, AutoCloseType DEF Records
<1>3. ASSUME UNCHANGED <<phase, made, said, disp, lost, outcome, answer>>
      PROVE  SaidInv'
  <2>1. HasResult' <=> HasResult
    BY <1>3 DEF HasResult
  <2>2. \A t \in Transports : /\ Answered(t)' <=> Answered(t)
                              /\ Succeeded(t)' <=> Succeeded(t)
    BY <1>3 DEF Answered, Succeeded
  <2> QED
    BY <1>3, <2>1, <2>2 DEF SaidInv
<1>4. CASE RegisterActions \/ Start \/ UNCHANGED vars
  BY <1>3, <1>4 DEF RegisterActions, Start, vars, callVars
<1>5. CASE RefuseCall
  <2>1. PICK last \in {DoneEvent, ErrorEvent} : EndRun(disp, Refusal(call), last)
    BY <1>5 DEF RefuseCall, Refuse
  <2>2. /\ phase = "received" /\ UNCHANGED <<made, said, lost, answer>>
    BY <1>5 DEF RefuseCall, Refuse
  <2>3. /\ Unary(disp["unary"], said \ lost) /\ Streamed(disp["stream"], said)
        /\ disp["unary"].accumulated = <<>>
    BY <2>2 DEF SaidInv, Unary
  <2> QED
    BY <1>1, <2>1, <2>2, <2>3, EndRunKeepsSaid
<1>6. CASE RunAction
  <2>1. /\ phase = "received" /\ phase' = "running"
        /\ disp' = [disp EXCEPT !["stream"] = [@ EXCEPT !.attached = TRUE]]
        /\ UNCHANGED <<made, said, lost, outcome, answer>>
    BY <1>6 DEF RunAction, Run
  <2>2. /\ disp'["unary"] = disp["unary"]
        /\ disp'["stream"] = [disp["stream"] EXCEPT !.attached = TRUE]
        /\ disp'["stream"].attached
    BY <1>1, <2>1 DEF Records, Dispatchers, Paths
  <2>3. Streamed(disp'["stream"], said)
    BY <1>1, <2>2, StreamedMarks DEF SaidInv
  <2>4. ~HasResult'
    BY <2>1 DEF SaidInv, HasResult
  <2>5. \A t \in Transports : ~Answered(t)'
    BY <2>1, NoAnswerYet
  <2> QED
    BY <2>1, <2>2, <2>3, <2>4, <2>5 DEF SaidInv
<1>7. CASE ActionSpeaks
  BY <1>7, CallingKeepsSaid DEF ActionSpeaks
<1>8. CASE ActionReturns
  <2>1. /\ phase = "running" /\ UNCHANGED <<made, said, lost, answer>>
        /\ EndRun(closed, "ok", DoneEvent) \/ EndRun(closed, "failed", ErrorEvent)
    BY <1>8 DEF ActionReturns, Returning, Return, ReturnNoList
  <2>2. /\ closed["unary"] = AutoClose(disp["unary"])
        /\ closed["stream"] = AutoClose(disp["stream"])
    BY <1>1
  <2>3. /\ Unary(closed["unary"], said \ lost) /\ Streamed(closed["stream"], said)
        /\ closed["unary"].accumulated = <<>>
    BY <1>1, <2>1, <2>2, UnaryEnd, StreamedMarks DEF SaidInv
  <2> HIDE DEF closed
  <2> QED
    BY <1>2, <2>1, <2>3, EndRunKeepsSaid
<1>9. CASE ActionRaises
  <2>1. PICK result \in {"rejected", "failed"} : EndRun(disp, result, ErrorEvent)
    BY <1>9 DEF ActionRaises, Raising, Raise
  <2>2. phase = "running" /\ UNCHANGED <<made, said, lost, answer>>
    BY <1>9 DEF ActionRaises, Raising, Raise
  <2>3. Unary(disp["unary"], said \ lost) /\ Streamed(disp["stream"], said)
    BY DEF SaidInv
  <2> QED
    BY <1>1, <2>1, <2>2, <2>3, EndRunKeepsSaid
<1>10. CASE Replies
  BY <1>10, ReplyKeepsSaid DEF Replies
<1> QED
  BY <1>4, <1>5, <1>6, <1>7, <1>8, <1>9, <1>10 DEF Next

\* Whatever an action says and however it pairs its stream methods, a client
\* gets all of it, once and in order, over each transport; without a sink all
\* but the chunks that a second stream_start has thrown away.
THEOREM EverythingSaidArrivesHolds == Spec => []EverythingSaidArrives
<1>1. Init => SaidInv
  <2> SUFFICES ASSUME Init PROVE SaidInv
    OBVIOUS
  <2>1. /\ phase = "received" /\ made = 0 /\ said = {} /\ lost = {}
        /\ disp = [p \in Paths |-> NewDispatcher] /\ outcome = "pending"
        /\ \A t \in Transports : ~Answered(t)
    BY DEF Init, CallInit, Answered
  <2>2. disp["unary"] = NewDispatcher /\ disp["stream"] = NewDispatcher
    BY <2>1 DEF Paths
  <2>3. /\ ~NewDispatcher.attached /\ ~NewDispatcher.cancelled /\ ~NewDispatcher.active
        /\ NewDispatcher.accumulated = <<>> /\ NewDispatcher.messages = <<>>
        /\ NewDispatcher.queue = <<>> /\ <<>> \o <<>> = <<>>
    BY DEF NewDispatcher
  <2>4. InOrder(<<>>) /\ Values(<<>>) = {} /\ \A k : OfKind(<<>>, k)
    BY DEF InOrder, Values, OfKind
  <2>5. Unary(disp["unary"], said \ lost) /\ Streamed(disp["stream"], said)
    BY <2>1, <2>2, <2>3, <2>4, ChunkSteps DEF Unary, Streamed
  <2> QED
    BY <2>1, <2>2, <2>3, <2>5 DEF SaidInv, HasResult
<1>2. CallTypeOK /\ SaidInv => EverythingSaidArrives
  <2> SUFFICES ASSUME CallTypeOK, SaidInv, NEW t \in Transports, Answered(t), Succeeded(t)
               PROVE  /\ InOrder(Delivered(t))
                      /\ Values(Delivered(t)) =
                           said \ (IF t = "stream" THEN {} ELSE lost)
    BY DEF EverythingSaidArrives, DeliversSaid
  <2>1. disp["unary"] \in Records /\ disp["stream"] \in Records
    BY DEF CallTypeOK, Records, Paths
  <2>2. answer[t].messages = disp[PathOf(t)].messages /\ HasResult
    BY DEF SaidInv
  <2>3. CASE t = "stream"
    <3> DEFINE c == Chunks(disp["stream"].queue)
               m == disp["stream"].messages
    <3>1. c \in Seq(Payloads) /\ m \in Seq(Payloads)
      BY <2>1, Fields, ChunkSteps
    <3>2. /\ OfKind(m, "message") /\ OfKind(c, "chunk") /\ InOrder(m) /\ InOrder(c)
          /\ Values(m) \cup Values(c) = said
      BY DEF SaidInv, Streamed
    <3>3. Delivered(t) = c \o m
      BY <2>2, <2>3 DEF Delivered, PathOf
    <3> HIDE DEF c, m
    <3>4. \A x \in Values(c), y \in Values(m) : x.kind # y.kind
      BY <3>2 DEF Values, OfKind
    <3>5. InOrder(c \o m)
      BY <3>1, <3>2, <3>4, InOrderConcat
    <3>6. Values(c \o m) = said
      <4>1. Values(c \o m) = Values(c) \cup Values(m)
        BY <3>1, ValuesConcat
      <4> QED
        BY <3>2, <4>1
    <3> QED
      BY <2>3, <3>3, <3>5, <3>6
  <2>4. CASE t # "stream"
    <3> DEFINE m == disp["unary"].messages
    <3>1. m \in Seq(Payloads) /\ Delivered(t) = m
      BY <2>1, <2>2, <2>4, Fields DEF Delivered, PathOf
    <3>2. m \o <<>> = m
      BY <3>1
    <3> QED
      BY <2>2, <2>4, <3>1, <3>2 DEF SaidInv, Unary
  <2> QED
    BY <2>3, <2>4
<1> QED
  BY <1>1, <1>2, CallTypeInit, CallTypeStep, SaidInvStep, PTL DEF Spec

=============================================================================
