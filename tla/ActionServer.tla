---------------------------- MODULE ActionServer ----------------------------
(***************************************************************************)
(* A server process from its start to the answers of one call: actions are *)
(* registered, a server is started (possibly a second one in the process), *)
(* actions may be registered again by a reload, and a call is made.        *)
(***************************************************************************)
EXTENDS ActionCall, Tracing

VARIABLES
  action,  \* the action the call names
  spans,   \* per method, the spans the call has opened for it
  fresh    \* history: the actions were registered after the classes had been
           \* instrumented

vars == <<callVars, tracingVars, action, spans, fresh>>

Init ==
  /\ CallInit
  /\ TracingInit
  /\ action \in ActionKinds
  /\ spans = [m \in Methods |-> 0]
  /\ fresh = FALSE

\* A method of a class is called: as many spans as wrappers.
Opens(ms) ==
  spans' = [m \in Methods |-> IF m \in ms THEN spans[m] + wraps[m] ELSE spans[m]]

\* The actions are registered when the process starts and, with auto-reload,
\* again when a request finds a changed file.
RegisterActions ==
  /\ phase = "received"
  /\ Registered => starts > 0
  /\ Register
  /\ fresh' = (marked # {})
  /\ UNCHANGED <<callVars, action, spans>>

Start ==
  /\ phase = "received"
  /\ \E type \in EndpointTypes : StartServer(type)
  /\ UNCHANGED <<callVars, action, spans, fresh>>

Serving == starts > 0 /\ UNCHANGED <<tracingVars, action, fresh>>

RefuseCall == Serving /\ Refuse /\ Opens({"run"})

\* executor.run is looked up in its class, the action's run in the registry.
RunAction ==
  /\ Serving /\ Run
  /\ spans' = [m \in Methods |->
                 spans[m] + (IF m = "run" THEN wraps[m]
                             ELSE IF m = "validation_run" THEN bound[action]
                             ELSE 0)]

\* What the action's code says and looks up while it runs.
ActionSpeaks == Serving /\ Calling /\ UNCHANGED spans

Extracting ==
  [plain |-> {}, validation |-> {"extract_validation"},
   form |-> {"extract_form_validation"}][action]

ActionReturns ==
  /\ Serving /\ Returning
  /\ Opens(Extracting \cup
           (IF outcome' = "ok" THEN {"create_api_response"} ELSE {}))

\* The exception may come before the slots are validated, or from there.
ActionRaises ==
  /\ Serving /\ Raising
  /\ Opens({}) \/ Opens(Extracting)

Replies == Serving /\ Reply /\ UNCHANGED spans

Next ==
  \/ RegisterActions \/ Start
  \/ RefuseCall \/ RunAction \/ ActionSpeaks \/ ActionReturns \/ ActionRaises
  \/ Replies

Spec == Init /\ [][Next]_vars

-----------------------------------------------------------------------------
(* Properties.                                                             *)

\* Every variable stays within its type.
TypeOK ==
  /\ CallTypeOK
  /\ TracingTypeOK
  /\ action \in ActionKinds
  /\ spans \in [Methods -> Nat]
  /\ fresh \in BOOLEAN

Answered(t) == answer[t] # NoAnswer

Succeeded(t) == answer[t].status \in {"200", "OK"}

\* The payloads of the chunks in a sink, oldest first.
Chunks(queue) ==
  LET sent == Filter(queue, {ChunkEvent(c) : c \in Payloads}) IN
    [i \in DOMAIN sent |-> sent[i].chunk]

\* What the user gets over a transport: a stream's chunks, then its messages.
Delivered(t) ==
  IF t = "stream" THEN Chunks(disp["stream"].queue) \o answer[t].messages
  ELSE answer[t].messages

\* Messages come in the order they were said, and so do chunks; none twice.
InOrder(s) ==
  \A i, j \in DOMAIN s :
    i < j /\ s[i].kind = s[j].kind => s[i].n < s[j].n

DeliversSaid(t, missing) ==
  Answered(t) /\ Succeeded(t) =>
    InOrder(Delivered(t)) /\ Values(Delivered(t)) = said \ missing

\* An action that finishes says the same on every transport
\* (changelog/1314.feature.md:11-12: "the same action code works unchanged"):
\* everything it said arrives, once and in order, whether stream methods are
\* paired or not.  Without a sink the chunks of a stream that is started again
\* before it is ended are the exception (executor.py:175; its docstring says at
\* 64-65 that "the same action code works correctly on every transport").
EverythingSaidArrives ==
  \A t \in Transports : DeliversSaid(t, IF t = "stream" THEN {} ELSE lost)

\* What the client of a transport takes an answer to mean.  The assistant is
\* not in this repository; these are the distinctions the answers draw.
Meaning(t) ==
  LET a == answer[t] IN
    CASE Succeeded(t) -> "ok"
      [] a.status \in {"400", "INTERNAL"} /\ a.detail = "action" -> "rejected"
      [] a.status = "404" \/ a.detail = "resource ACTION" -> "not_found"
      [] a.status = "449" \/ a.detail = "resource DOMAIN" -> "missing_domain"
      [] a.detail = "body" -> "bad request"
      [] OTHER -> "failed"

\* What went on: how run ended, or that its result could not be encoded.
Truth == IF ~HasResult THEN outcome
         ELSE IF Unencodable THEN "failed" ELSE "ok"

\* The answers of HTTP that say something else: a null latest_message fails a
\* call whose action has run (tracing/utils.py:46), and the error of a call
\* with a compressed body is reported as one of the body (endpoint.py:206).
HttpMisreports ==
  \/ HasResult /\ AttributesFail(call)
  \/ Truth = "failed" /\ call.body = "deflate"

\* All transports give the same account of a call, in particular a rejection,
\* an unknown action, a missing domain and a failure are told apart on each.
SameAccount ==
  \A t \in Transports :
    Answered(t) => \/ Meaning(t) = Truth
                   \/ t = "http" /\ HttpMisreports

Terminal(e) == e.event \in {"stream_done", "stream_error"}

\* The consumer of a sink gets exactly one terminal event, and it is the last
\* item placed (executor.py:790-791), however run ended.
TerminalEventIsLast ==
  LET queue == disp["stream"].queue IN
    /\ \A i \in DOMAIN queue : Terminal(queue[i]) => i = Len(queue)
    /\ phase = "over" => queue # <<>> /\ Terminal(queue[Len(queue)])

\* However often tracing is configured, a traced method opens one span per
\* call, and nothing is traced without a back end.  The exception to "instrument
\* all methods that shall be traced" (tracing/config.py:29-30) is the `run` of a
\* validation action that was registered before tracing was configured, as
\* main_from_args does (__main__.py:27): its span only appears after a reload.
TracedOnce ==
  LET once == IF marked = {} THEN 0 ELSE 1 IN
    /\ \A m \in Methods : spans[m] <= once
    /\ phase # "received" => spans["run"] = once
    /\ outcome = "ok" =>
         /\ spans["create_api_response"] = once
         /\ \A m \in Extracting : spans[m] = once
         /\ fresh /\ action # "plain" => spans["validation_run"] = once

=============================================================================
