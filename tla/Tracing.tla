------------------------------ MODULE Tracing ------------------------------
(***************************************************************************)
(* How a server process gets its traced methods: actions are registered,   *)
(* then a tracer provider is made from the endpoints file and methods of   *)
(* the classes are replaced by wrappers that open a span                   *)
(* (rasa_sdk/tracing, __main__.py, endpoint.py, grpc_server.py).           *)
(*                                                                         *)
(* The executor holds the bound method `action.run` of each action, taken  *)
(* when the action was registered; every other traced method is looked up  *)
(* in its class when it is called.                                         *)
(***************************************************************************)
EXTENDS Naturals

CONSTANT MaxStarts   \* bound: servers started in one process

ASSUME StartsAssumption == MaxStarts \in Nat

\* The actions of the developer's package: one that derives from Action, one
\* from ValidationAction and one from FormValidationAction.
ActionKinds == {"plain", "validation", "form"}

\* The traced methods and the classes they are replaced in.
Owner == [run                     |-> "ActionExecutor",
          create_api_response     |-> "ActionExecutor",
          validation_run          |-> "ValidationAction",
          extract_validation      |-> "ValidationAction",
          extract_form_validation |-> "FormValidationAction"]

Methods == DOMAIN Owner

Classes == {Owner[m] : m \in Methods}

VARIABLES
  starts, \* servers the process has started
  wraps,  \* per method, the wrappers around it in its class
  marked, \* the classes marked as instrumented
  bound   \* per action, the wrappers around the `run` the executor holds;
          \* the function is empty until actions are registered

tracingVars == <<starts, wraps, marked, bound>>

TracingInit ==
  /\ starts = 0
  /\ wraps = [m \in Methods |-> 0]
  /\ marked = {}
  /\ bound = [a \in {} |-> 0]

TracingTypeOK ==
  /\ starts \in 0 .. MaxStarts
  /\ wraps \in [Methods -> Nat]
  /\ marked \in SUBSET Classes
  /\ \/ bound = [a \in {} |-> 0]
     \/ bound \in [ActionKinds -> Nat]

Registered == DOMAIN bound = ActionKinds

\* `action.run` as it is found now.  Both helper classes have the `run` of
\* ValidationAction; a plain action has its own.
BoundRun(a) == IF a = "plain" THEN 0 ELSE wraps["validation_run"]

\* Mutant: subclasses of the helper classes are taken for abstract ones.
RegisterPlainOnly ==
  /\ bound' = [a \in {"plain"} |-> BoundRun(a)]
  /\ UNCHANGED <<starts, wraps, marked>>

\* register_package at start-up, and _register_all_actions after a reload: an
\* instance of each class is made and its `run` is taken.
Register ==
  /\ bound' = [a \in ActionKinds |-> BoundRun(a)]
  /\ UNCHANGED <<starts, wraps, marked>>

\* The types of tracing back end the endpoints file may name.
EndpointTypes == {"none", "jaeger", "otlp", "unknown"}

get_tracer_provider(type) == type \in {"jaeger", "otlp"}

\* Mutant: the marks are not looked at.
InstrumentAgain ==
  /\ wraps' = [m \in Methods |-> wraps[m] + 1]
  /\ marked' = Classes

\* Each class is instrumented unless it is marked.
instrument ==
  /\ wraps' = [m \in Methods |->
                 IF Owner[m] \in marked THEN wraps[m] ELSE wraps[m] + 1]
  /\ marked' = Classes

\* A server starts: it reads its endpoints file and configures tracing.
StartServer(type) ==
  /\ Registered /\ starts < MaxStarts
  /\ starts' = starts + 1
  /\ IF get_tracer_provider(type) THEN instrument
     ELSE UNCHANGED <<wraps, marked>>
  /\ UNCHANGED bound

=============================================================================
