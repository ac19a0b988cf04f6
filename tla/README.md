# A TLA+ model of the Rasa SDK action server

The Rasa SDK runs the custom actions of a conversational assistant. The assistant (Rasa) calls
an *action server* over HTTP or gRPC with the conversation so far; the server runs the action and
answers with events and bot messages, at once or, over gRPC, as a stream that the user may
interrupt. This directory specifies the parts of `src/rasa_sdk` in which order, concurrency,
shared state and failure decide what happens, checks them with TLC on small instances and proves
the central safety properties with TLAPS for all instances.

`PROJECT.json` lists the components, the runs, the mutants that show each property can fail, the
source lines each definition translates, the disagreements with the documentation, the hazards and
the theorems.

## 1. The system

| Component | Source (`src/rasa_sdk/`) | State | Operations | What makes it correct |
|---|---|---|---|---|
| Dispatcher | `executor.py:40-392` | messages, accumulated chunks, stream flags, sink | `utter_message`, `stream_start/chunk/end`, `cancel_stream` | chunks neither lost, reordered nor duplicated; after a barge-in they are dropped |
| Running an action | `executor.py:725-880` | one domain and its digest per worker | `run`, `run_streaming`, `update_and_return_domain`, `validate_events` | an action runs with its own assistant's domain; a terminal event follows whatever the action does |
| Registration, auto-reload | `executor.py:427-657` | registered actions, module timestamps, packages | `register_*`, `reload` | what a developer saves is what is served |
| gRPC streaming | `grpc_server.py:237-674` | per call: handler, task, sink, deadline; shared: `_dispatcher_registry` | `WebhookStream`, `AckStreamChunks` | the protocol a client sees; a barge-in silences its response and only that one; the call ends; no task outlives it |
| gRPC unary | `grpc_server.py:145-235` | none of its own | `Webhook`, `Actions` | errors map to status codes; the answer equals what the stream would carry |
| gRPC set-up | `grpc_server.py:70-101, 677-856` | server, health status | start, stop, signals | start-up order only |
| HTTP server | `endpoint.py` | Sanic workers, each with its executor | `/webhook`, `/actions`, `/health` | errors map to status codes, 449 asks for the domain |
| Tracker | `interfaces.py:20-335` | slots, events, latest message | `add_slots`, `slots_to_validate`, `applied_events`, `get_latest_entity_values`, ... | candidates are those of the last events; undone, rewound and restarted events are not in effect |
| Slot and form validation | `forms.py` | the tracker's slots | `run`, `get_extraction_events`, `get_validation_events`, `next_requested_slot` | each candidate validated once; the next missing slot is asked for |
| Slot mappings | `slots.py` | none | `intent_is_desired`, `entity_is_desired` | agree with the documented conditions |
| Knowledge base | `knowledge_base/` | slots of the conversation; shared lists of objects | list, mention, attribute | a mention means the object the user was shown |
| Tracing | `tracing/` | wrapped methods, marks on classes, spans | `instrument`, `get_tracer_provider` | one span per call of a traced method, and the answer unchanged |
| Start-up | `__main__.py`, `endpoint.py`, `grpc_server.py` | | `main_from_args`, `run` | registration, tracing and serving in an order in which all is traced |
| Plug-ins, events, types | remaining files | | | do not change what is computed |

How they interact. A transport (HTTP or gRPC) calls `reload` if asked to, then
`ActionExecutor.run`, which looks the action up, builds the tracker, brings the domain cache up to
date and calls the action with a dispatcher. On the streaming path the handler creates an
`asyncio.Queue` (the *sink*), starts `run` as a task and consumes the sink; `AckStreamChunks`, a
separate RPC, reaches the dispatcher through a registry of response ids. HTTP workers are
processes, each with a pickled copy of the executor. Everything inside one process runs in one
event loop, so state changes only interleave at suspension points.

Behaviour that is hard to test: the handler, the action's task, acknowledgements, the client's
disconnect and the deadline interleave; any of them may come first. The domain exchange spans
several requests, assistants and workers that restart. A reload pass looks at files one at a time
while an editor changes them, and can be cut short by any of them. `PROJECT.json` lists each
hazard with its line and the properties that would catch it.

## 2. The modules

| Module | Role |
|---|---|
| `Dispatcher` | the dispatcher as a record, its methods as operators |
| `WebhookStream` | handler, task, sink, registry and acknowledgements of any number of calls |
| `StreamProtocol` | abstract: what a client may observe on its stream |
| `MCWebhookStream` | instances of `WebhookStream`; the refinement mapping to `StreamProtocol` |
| `DispatcherProofs`, `WebhookStreamProofs` | theorems about the two, and that `StreamProtocol` is implemented |
| `DomainExchange`, `DomainExchangeProofs` | assistants, workers and the domain cache |
| `ActionReload`, `ActionReloadProofs` | reload passes against a developer's edits |
| `FormValidation`, `MCFormValidation`, `FormValidationProofs` | extraction and validation of slots over the turns of a conversation |
| `KnowledgeBase`, `MCKnowledgeBase`, `KnowledgeBaseProofs` | questions about a knowledge base over the turns of a conversation |
| `ActionCall` | one call with the same action on HTTP, unary gRPC and the stream, with every answer |
| `Tracing` | registration, tracer configuration and the wrappers around traced methods |
| `ActionServer`, `ActionServerProofs` | composes the two: a process from its start to the answers of a call |
| `Tracker`, `SlotMapping` | the readers of a tracker and the conditions of slot mappings, as operators |
| `TimeTravel` | abstract: what undoing, rewinding and restarting promise |
| `Conversation`, `MCConversation`, `ConversationProofs` | a conversation that grows, on which the operators are checked beside `TimeTravel` |

### 2.1 Streaming: `Dispatcher`, `WebhookStream`, `StreamProtocol`

*State.* `disp[r]` is the call's `CollectingDispatcher` with the content of its sink, `task[r]`
the state of `run_task`, `pc[r]` where the handler is suspended: `get` (`sink.get()` or a `yield`
in the main loop), `drain` (`_drain_to_terminal`), `finally`, `await` (`_await_barge_in_run_task`),
`reap` (the cancelled task is awaited), `done`. `rid`, `graceful` and `deadline` are the handler's
locals `current_response_id`, `graceful_cancel` and `barge_in_deadline`; `ctx` is
`context.cancelled()`; `registry` is `_dispatcher_registry`. `acked` and `revoked` are history
variables for the properties only.

*Steps.* A step is what one coroutine does between two suspension points. The sink is unbounded, so
`put` never suspends and each dispatcher method is one step. The action's own code is arbitrary:
it may call the three streaming methods in any order, return, raise, hang, catch a cancellation
and go on, or end in a `CancelledError`. `DetectBargeIn`, `DetectDisconnect`, `ForwardStart/Chunk/End/Terminal`
are the branches of the loop in the code's order; `DrainEvent` and `DrainTimeout` the drain;
`Finally`, `AwaitTimeout`, `TaskAwaited` the clean-up; `Interrupt` is the `CancelledError` grpc.aio
throws into a handler whose client left; `EncodingFails` is a payload protobuf cannot represent,
which raises in the handler.

*Abstractions.* A chunk's payload is its number. Response ids are numbered in the order they are
drawn, standing for `uuid4`. Time is the `deadline` that passes at some moment after it was armed.

`StreamProtocol` keeps only the events a client has received, whether a barge-in is being served
and whether the client has left. It says: responses open under fresh ids, chunks belong to the open
response and come in order, one closing event comes last, after a barge-in is served only the
closing event comes, and after a disconnect nothing does. It allows a `chunk_end` for a response
that is ended or was never begun, because the dispatcher does.

### 2.2 Domain: `DomainExchange`

Each worker has `cached` (`executor.domain`, `executor.domain_digest`). An assistant is idle, has a
request `sent`, has been told the domain is `missing`, or has its action `running`. From lookup to
the action's first `await` the executor does not yield, so `RunAction` and `AnswerMissing` are one
step each. A digest is represented by the domain it is of (collisions are not modelled). Legacy
assistants send the domain and no digest. A request may be handled by any worker, may be lost with
a worker, and models may change between requests. The assistant is not in this repository; it
behaves as the answer's text says (`interfaces.py`, "the assistant will retry the request and
include the domain").

### 2.3 Auto-reload: `ActionReload`

`disk` and `text` are the files as the editor leaves them; `loaded` what `sys.modules` has, `stamp`
the timestamps in `_modules`, `actions` the registry. A version is the time it was saved. A pass
consists of `BeginPass` (`_find_modules_to_reload`), `Reload`/`ReloadFails` per modified file,
`ListPackage`, `ImportModule` and `StampModule` per file of the package (two looks at the file, so
two steps), and `FinishPass`, `ScanFails` or `PassRaises`. Between any two the developer may save
(sound text, a syntax error, a failing import, another error) or delete a file. `Spawned` says
whether the executor went through `__getstate__`. The history variables `missed` and `cutShort`
record why passes may not know of a file's last save and whether a pass ended early.

*Abstractions.* One package, one action per file; modified files are reloaded in any order; the
class registered last is the one of the module in memory (`all_subclasses` may return older classes
that have not been collected). Times are distinct, as if the file system's clock were fine enough.

### 2.4 Slot validation: `FormValidation`

`known` is what the assistant has in its slots, `requested` what the last run said of
`requested_slot`; `slots` and `events` are the tracker's slots and the slot events at its end,
`custom`, `required` and `result` the locals of the two loops in `forms.py`, `todo` what a loop has
still to visit. `Post` is the request and the first call of `required_slots`; `_extract_slot` and
`Withdraw`/`Validate`/`Skip` are one turn of a loop; `BeginValidation` and `Finish` add the slots
and call `required_slots` again; `Fail` is an exception in user code. Python dicts are sequences of
entries, because the order of their keys is the order of validation; `Updated` is `dict.update`, a
recursive function over the new entries.

User code may answer anything at each call: `required_slots` any slots in any order, methods any
dict with up to two entries or something that is no dict. The assistant's candidates are any two
slot events. What the assistant does with a candidate the answer does not mention (keep it or drop
it) is not in this repository and left open. Both classes run on the same conversation, each with
methods of its own (`form` says which is running).

### 2.5 Knowledge base: `KnowledgeBase`

`order` is `InMemoryKnowledgeBase.data`, `slots` the conversation's slots, `said` the entities of the
message that is being answered. `Say` is a message: the assistant fills the slots of its entities
and leaves all others as they were, which is why the action has to reset slots at all
(`actions.py:207-210`). `Run` is one run of `ActionQueryKnowledgeBase`: `QueryObjects` (a list),
`QueryAttribute` (an attribute of one object, found by a mention, a name or the memory of the last
one) or a request to rephrase; `Raise` is an `IndexError` for an ordinal beyond the list or a
`KeyError` for a filter an object does not have. No coroutine of the in-memory store suspends, so a
run is one step; `OthersList` is another conversation whose list shuffles the store's. `shown` is a
history variable: what the user saw.

*Abstractions.* An object is its key, the words that occur in its representation, and its
attributes. A type the store does not know is one without objects. A message names one object at
most, as `match_extracted_entities_to_object_type` assumes. What a user calls an object may be its key;
in the instance checked it is not.

### 2.6 One call on every transport: `ActionCall`, `Tracing`, `ActionServer`

*Calls.* `call` is the request and `phase` how far `ActionExecutor.run` is. The executor knows two
paths, with a sink (`disp["stream"]`) and without one (`disp["unary"]`, which HTTP and the unary RPC
share); the same action is run on both in lockstep, so that what the clients get can be compared.
`Refuse` is every early exit of `run` (no name, unknown action, no tracker, missing domain);
`UtterMessage`, `StreamStart`, `StreamChunk`, `StreamEnd` are the action's calls, in any order and
number up to the bound; `Return`, `ReturnNoList` and `Raise` the ends. `validate_events` keeps dicts
with a type. An event may be `opaque`: it survives `validate_events` but has no JSON or protobuf
form, so the answer fails after the action has run. `HttpResult`, `HttpRefusal`, `HttpException`,
`GrpcResult`, `GrpcRefusal`, `GrpcException`, `StreamResult`, `StreamError` and `StreamAborts` are
the handlers' answers with their status codes; what Sanic and grpc.aio answer by themselves is
marked in the comments. Barge-ins and disconnects are the subject of `WebhookStream`.

*Tracing.* `wraps[m]` is how many wrappers are around method `m` in its class, `marked` the
classes already instrumented, `bound[a]` the wrappers around the bound method `action.run` which the
executor has held since it registered the action. `RegisterActions` may come again with a reload;
`Start` reads the endpoints file and may instrument; a second server may be started in the same
process. `fresh` remembers whether the actions were registered after that. `spans` counts the spans
the call opens: a class method's at the time of the call, `run` of an action from the registry.

### 2.7 What an action reads: `Tracker`, `SlotMapping`, `TimeTravel`, `Conversation`

The readers of `Tracker` are pure functions of the list of events, so they are operators, written as
the code is (`applied_events` replays the list; `undo_till_previous` cuts it). `TimeTravel` says
independently what they should find: a stack of snapshots, of which undo, rewind and restart restore
one. `Conversation` grows a list of events as an assistant and its actions do: listen, message,
actions with the events they return, which may themselves revert, rewind or restart. The active
loop may be hidden (`should_not_be_set`) and the model may be trained anew, so that a conversation
outlives its form. `SlotMapping` has the mappings and the two conditions that decide whether one
applies; they are evaluated for all small mappings in every state.

A message has its intent, its ranking and its entities as fields of their own, as the assistant sends
them, and nothing is assumed of how the first two are related: mappings read the intent
(`slots.py:167`), actions the ranking (`interfaces.py:321-333`), and a message may have an intent and
no ranking (`tests/test_tracker.py:143-146`). `MessageIsReadAlike` says what the two readers then
share.

*Abstractions.* An event is its type, one name and a timestamp. The event types that readers treat
alike (buttons, reminders, follow-ups, ...) are represented by `BotUttered`. An entity's value is
not distinguished from the entity. A rank's confidence is left out: the ranking is a sequence.

## 3. What TLC checks

| Run | Instance | What it shows |
|---|---|---|
| `stream_call` | 1 call, 4 streaming methods (186 000 states) | types; registry current; no orphan task; chunks in order; terminal event pending; result reaches the client; the open response can be interrupted; silence after a disconnect and after a barge-in; a noticed barge-in, and a disconnect, end the call even if the action hangs; calls end if actions finish; `StreamProtocol` is implemented |
| `domain` | 3 assistants (1 legacy), 2 workers, 2 domains and `{}` (165 000) | types; a worker's digest is that of its domain; own domain only; the exchange does not go on for ever |
| `reload` | 2 files, 3 edits, Sanic worker (239 000) | types; what can be missed; what is loaded is registered; a save that passes can see is served |
| `forms` | 2 slots, 2 values, both kinds of action (445 000) | types; the tracker shows what the assistant will have; no candidate is overlooked; a form ends filled |
| `knowledge` | 2 restaurants, 1 hotel, an unknown type, messages with 2 entities (585 000) | types, the store's lists only reordered; the remembered object exists; ordinals mean what was shown; names decide |
| `action_call` | any request, an action that speaks 4 times and returns up to 1 event, 2 servers started (1 320 000) | types; everything said arrives on every transport, once and in order; all transports give the same account of a call; one terminal event, last; one span per traced call |
| `conversation` | 7 events, of which an action returns up to 2; 2 actions, 2 channels, 3 messages, a form that may be removed (193 000, up to renaming actions and channels) | types; replaying the events is going back in time; which action ran last; one rewind takes one turn; mappings apply exactly under their conditions; what mappings and actions read of a message |

Disagreements between code and documentation (`expect: violation`; the quotations are under
`findings`):

- `stream_hung_action`: after an acknowledgement nothing bounds the wait until the *next* event, so
  an action that hangs keeps the call open, although the changelog promises 30 seconds.
- `stream_restart`: `stream_start` clears the flag of a barge-in that was not noticed yet; chunks of
  the acknowledged response that are queued are still sent.
- `stream_self_cancel`: a `CancelledError` leaving the action ends the task without the terminal
  event that `_run` says it guarantees.
- `forms_order`: candidates are validated in the order of the tracker's events, whatever the order
  of `required_slots`.
- `knowledge_stale_type`: after an empty list, or a request to rephrase, `object_type` stays set, and
  a question about a named object of another type is not answered.

More, without runs of their own, are the exceptions the passing properties name. The first pass in a
Sanic worker, whose executor was pickled without its timestamps, stamps what is on disk as if it had
been imported (`EditsAreNoticed`). A file saved during
a reload pass is stamped without being read (`EditsAreNoticed`), and a file that cannot be imported
ends a pass before loaded modules are registered (`RegisteredUnlessCutShort`). After a question
about another type, an ordinal picks a key from the old list and looks it up among the objects of
the new type (`OrdinalsMeanWhatWasShown`); a mention that was left set goes before the name in the
message (`NamesDecide`). A request with the domain `{}` is neither missing its domain
nor stored (`executor.py:748, 755`), so its action gets the domain the worker holds. It is the
exception in `RunsWithOwnDomain`. Without a sink, a second `stream_start` throws away the chunks
accumulated since the first, which a client of the stream would have had already
(`EverythingSaidArrives`; `executor.py:175`). Over HTTP, a null `latest_message` fails a call whose
action has run, because the span's attributes are computed whether tracing is on or not, and an
error of a call with a compressed body is answered as a bad request, because the exception handler
reads the body's JSON again (`SameAccount`; `tracing/utils.py:46`, `endpoint.py:206`). The `run` of a
validation action is registered before tracing is configured and has no span until a reload
(`TracedOnce`; `__main__.py:27`). An intent that a mapping lists cannot be excluded by `not_intent`
or by the form (`MappingsFollowConditions`).

One disagreement with the documentation is what a passing property states. A mapping that names no
role or group is not indifferent to them: it never finds an entity that has one, since both readers
compare the labels with `==` (`slots.py:192-194`, `interfaces.py:141-144`), although the docstring of
`from_entity` makes them conditions "if it is not None" (`slots.py:52-53`) and `CHANGELOG.mdx:614`
says that without a label "the function behaves as before". The second conjunct of
`MessageIsReadAlike` is the code's behaviour: what is found under two pairs of labels is disjoint. Its
last conjunct is conditional for a reason, too: `get_intent_of_latest_message` promises the
"[i]ntent of latest message if available" (`interfaces.py:315`) and finds none in a message that has
an intent and no ranking, whereas a mapping on that intent applies.

Noticed while modelling, and kept in the model as the code has them: an exception that is none of
the executor's own is INTERNAL on the stream and UNKNOWN on the unary RPC; a mapping for an active
loop whose form was removed raises a `KeyError`; `entity_is_desired` tests a generator against
`None`, and so never looks at values; a rewind without a message before it removes everything since
the restart.

*Why the bounds are enough.* Four streaming methods are enough for a response with chunks before and
after a barge-in, its end, and a second response (no property distinguishes a third; five were
checked too, without liveness); all cross-call effects go through the registry, where one
call with two responses already has ids that compete, and the theorems cover any number of calls. Three assistants are needed so that two modern ones and a legacy
one meet at one worker; two workers so that a retry can go to the wrong one. With two files one can
fail while the other has been reloaded or discovered; three edits allow a save, a break and a fix.
The edit bound (`MaxClock`) also ends behaviours: after it the developer leaves the package alone,
which is what `SavedFilesAreServed` asks about. Two slots show every interference between methods,
since a method's dict touches its own slot or another one; a slot of the conversation is always one
of: sent, extracted, required, or not. Two restaurants with different attributes make the order of
the store matter, the hotel's key is also a restaurant's, and messages of two entities combine a
question with a name, a mention, a filter or a type; entities of longer ones can be said in turns,
since the slots persist. The limit of a list equals the number of restaurants, so truncation is not
reached here; the theorems cover it. An action
that speaks four times can open a stream, send a chunk, start again and send another, or mix chunks
with messages; one event in each answer is enough for every kind, since `validate_events` and the
encoders treat events one by one; two servers are what it takes to instrument twice. Seven events
hold two turns with a rewind after them, or one turn with undos and rewinds mixed; two returned events allow
two reverting ones in a row; two actions tell the last from the one before it; a mapping over two
intents and one form meets each condition alone and with every other. Replaying keeps an event of a
slot, an utterance or a loop as it is, so the actions of this run return loops only (`LeftOut`). No
definition tells one action or channel from another, so that the run may identify states that differ
in their names only (`SYMMETRY`); it checks no liveness. The three messages are one that is headed by
its own intent, one headed by a fallback, and a fallback without a ranking.

*Fairness.* `ServerSpec`: the event loop runs each coroutine that is ready, the clock advances, a
`CancelledError` is delivered, and a cancelled task ends (an action that swallows cancellation for
ever is excluded there and only there). Nothing makes an action finish; `CallsEnd` alone is conditional on
actions that return or raise (`ActionsFinish`). `DomainExchange!FairSpec`: a request sent is handled, and an assistant
retries; restarts and lost lookups need no fairness. `ActionReload!FairSpec`: requests keep
arriving and passes run on; the developer owes nothing. Strong fairness is nowhere assumed.

Deadlock is checked in every run but two: `WebhookStream` stutters once every call of the bound is
served, but a call in `ActionServer` ends with its answers and a `Conversation` at its bound, so
`action_call` and `conversation` turn the check off.

## 4. What is proved

Every safety property of the runs is a theorem: each invariant, each action property, and that the
stream implements `StreamProtocol`. All theorems hold for every value of the constants that satisfies
the named assumptions, which TLC evaluates in the runs. They say no more than that

- bounds are naturals (`CallsAssumption`, `BoundsAssumption`, `StartsAssumption`, `ClockAssumption`,
  `LimitAssumption`) and flags Booleans (`SpawnedAssumption`), legacy assistants are assistants
  (`LegacyAssumption`), files have an order (`FileAssumption`);
- the values that stand for *nothing* are not values (`NoneAssumption` of `DomainExchange` and
  `FormValidation`, `OrdinalAssumption`, `WordAssumption`, `FormsAssumption`: a form is not called
  `should_not_be_set`), and no attribute or type is called like a slot of the action
  (`SlotAssumption` of `KnowledgeBase`);
- what the assistant and the user's code hand over has the shape of their interfaces
  (`MessagesAssumption`, of which the only fact about content is that an intent is ranked once;
  `DomainsAssumption`, `OrderAssumption`, `MethodAssumption`, `DataAssumption`);
- calls and slots are finitely many (`FiniteCalls`, `SlotAssumption` of `FormValidation`).

Lists are of any length and the actions, stores, domains and user code behind them are arbitrary; the
proofs about recursive operators go by induction (`SetInduction`: a set of naturals that has 0 and
the successor of each member is all of them, from the well-foundedness of the naturals; `SeqInduction`
the same for lists).

`WebhookStreamProofs`
- `TypeCorrect`: `Spec => []TypeOK`, from the type lemmas of `DispatcherProofs`, one step per action.
- `NoOrphanTaskHolds`: inductive with `TypeOK` alone; the handler reaches `done` only where the
  code has seen the task finished, and a finished task stays so.
- `SilentAfterDisconnectHolds`: an action property; each step that appends to `sent[r]` has
  `~Gone(r)` as a guard.
- `RegistryIsCurrentHolds`: needs that a registered id is at most `issued` and that only
  `ForwardStart` registers, after popping the call's previous id.
- `BargeInSilencesResponseHolds`: needs the link between the acknowledgement and the flag. The
  strengthening is `AckInv`: while a call is in its loop, an acknowledged and not revoked current
  id has the dispatcher's flag up (`FlagFollowsAck`), and ids of different calls differ
  (`IdsAreUnique`), so an acknowledgement cannot raise the flag of another call.
- `OpenResponsesAreReachableHolds`: `ReachInv` adds that nothing is sent before a call begins. Other
  calls pop and register ids only of their own because ids are unique.
- `TerminalEventPendingHolds`, `ResultReachesClientHolds`: from `DeliveryInv`. Until the task ends its
  sink holds events of the response only (the type of the dispatcher says so); the step that ends it
  places the terminal event; taking an event that is not terminal leaves that one pending; and the
  sink of an action that returned holds no error, so the terminal event that ends the loop is the
  result. A handler that is past its loops has served the client or left for a named reason.
- `ChunksArriveInOrderHolds`: `OrderInv` says that the chunks sent are the first `n` accepted, that
  while the handler is in its loop the sink holds the others, `n + 1` to the last, in order, and that
  nothing follows a terminal event in the sink. So a result is taken from a sink without chunks.
- `ProtocolImplemented`: `Spec => Protocol!Spec` under the mapping of `MCWebhookStream`. Each step
  that appends to `sent` is `Open`, `Chunk`, `End` or `Close` of the protocol, every other step a
  stutter. `ResponseInv` says that a queued chunk lies in a response that was announced or whose start
  is queued before it, that `rid` is the id announced last, that every id drawn was announced by
  some call, and that announcements and queued starts are no more than the action's calls; the last
  two are why `MaxCalls` ids per call are enough.

`ActionServerProofs`
- `TypeCorrect`, of `ActionCall`, `Tracing` and their composition.
- `TerminalEventIsLastHolds`: the type of the sink is the strengthening again: whatever the action
  calls, no terminal event is in it before `EndRun`, and nothing is placed after.
- `TracedOnceHolds`: `TraceInv` says that all traced methods are wrapped once or none is (the marks
  make a second configuration a no-op), that what is bound in the registry is wrapped no more than
  that, and what each phase has opened so far.
- `SameAccountHolds`: a transport answers when the run is over, after which nothing the account is of
  changes (`AccountInv`); then one step per handler, from what its status and detail mean to a client.
- `EverythingSaidArrivesHolds`: `SaidInv` relates the two dispatchers to what was said, at every
  moment: without a sink, messages and the chunks accumulated since the last start, in that order and
  without what a second start threw away; with one, what is queued. A result leaves nothing
  accumulated. That filtering a queue keeps order and number is proved by induction over the queue.

`DomainExchangeProofs`
- `ExchangeTypeCorrect`; `CacheIsCoherentHolds` and `RunsWithOwnDomainHolds` from one invariant:
  the cache is coherent *and* every request in flight carries only its client's domain and digest
  (`RequestsAreOwn`), without which storing a request would not keep the cache coherent.

`ActionReloadProofs`
- `ReloadTypeCorrect`; `EditsAreNoticedHolds` and `RegisteredUnlessCutShortHolds`. Between passes
  the properties are plain; inside a pass they hold only of the files not handled yet, so the
  strengthenings (`ScanInv`, `NoticedInv`, `RegisteredInv`) say for each `pc` which files are still
  in `toReload` or `listing`, and that loaded versions not yet registered are flagged by `reloaded`
  or `discovered`.

`FormValidationProofs`
- `TypeCorrect`, and `TrackerShowsTheOutcomeHolds`, `CandidatesAreValidatedHolds`,
  `FormEndsFilledHolds` from `RunInv`: while slots are extracted, the tracker's slots are the
  assistant's with the candidates and then the extracted values put in; while candidates are
  validated, those still to come are in the answer, and a candidate of the tracker is in the answer or
  was withdrawn. The lemmas the proofs turn on are about `dict.update`: putting in an updated dict is
  putting in the old one and then the new entries, for lists of any length, and keys stay distinct.
- `FormEndsFilledHolds` also needs that `next_requested_slot` finds nothing only if no required slot is
  missing, and that a slot the tracker shows filled is filled for the assistant or was withdrawn.

`KnowledgeBaseProofs`
- `RememberedObjectExistsHolds`: besides the property, `RememberInv` says that the store's lists are
  permutations of its data, so that what is listed exists, and that slots that hold a type hold one.
- `OrdinalsMeanWhatWasShownHolds`: needs `ListInv`, that the slot with the listed keys agrees with
  what was shown, and that keys are unique within a type.
- `TypeCorrect`: `TypeInv` types all slots at once (`MayHold`), since messages and replies set them by
  merging dicts.
- `NamesDecideHolds`: needs `NamesInv`, that the name of a message not answered yet is in its slot,
  so that the object remembered from earlier turns is never asked for.

`ConversationProofs`
- `TypeCorrect` and `ReplayIsTimeTravelHolds`: the events in effect, as the replay of `interfaces.py`
  finds them, are those of the abstract history. `AppliedAppend` (by induction over the list) says how
  the replay changes with one more event. `SnapInv` says that the snapshots of `TimeTravel` are
  exactly those of the actions and messages in effect, in their order, each with the events before it,
  so that cutting the list at the last one is restoring the last snapshot.
- `RewindTakesOneTurnHolds`: needs `TurnInv`, that a message in effect comes right after an action,
  the listen it answers.
- `LastActionIsToldHolds`: filtering the reversed history finds, counted from the end, the actions that
  are no listens; `SinceInv`, that what is in effect was told since the last restart, is the
  other half.
- `MessageIsReadAlikeHolds`: for every message, whatever its intent and its ranking. What a filter of
  the entities keeps is exactly what has the labels (`FoundByLabels`, by induction over the list); a
  mapping on one intent applies exactly to messages with it (`AppliesToIntent`); and since an intent
  is ranked once, an action that skips a fallback sees another intent than the mapping.
- `MappingsFollowConditionsHolds`: by cases, for every mapping, loop and domain, also where the
  domain has lost the loop's form.

Only model-checked: liveness, which rests on fairness (`BargeInIsBounded`, `DisconnectFreesCall`,
`CallsEnd`, `RequestsAreHandled`, `SavedFilesAreServed`), and the runs that end in a violation. The
provers cannot reason about `ENABLED`, of which fairness is made. The theorems cover one more thing
the runs do not reach: the limit of a list, which equals the number of objects in the instance.

## 5. Plan

Done: streaming, domain exchange, auto-reload, validation of slots, knowledge base, the transports,
tracing, tracker readers and slot mappings, with theorems of all their safety properties. What is left,
in this order:

1. Proofs: the safety part of the liveness properties (a measure that no step of the handler
   increases after a barge-in or a disconnect, and that the clean-up's steps decrease), and the
   properties of `StreamProtocol` as theorems of the abstract specification, which then hold of the
   stream by refinement.
2. `register_package` at start-up with renamed actions, several packages and stale subclasses, as an
   extension of `ActionReload`.
3. Health and shutdown of the gRPC server.

## 6. Not modelled, and why

- Plug-ins, argument parsing, logging, TLS, CORS, port binding, exporters, signal handlers and health
  checks: calls of libraries, once at start-up.
- The parsing of the barge-in time-out (`grpc_server.py:70-101`): `float()` accepts `nan` and `inf`;
  the model has a deadline that passes. Listed as a hazard.
- `Tracker.copy`, `current_state` and the attributes of spans: they assemble dictionaries that no
  property is about. `copy` shares the active loop and the stack with the original, and
  `current_state` omits the follow-up action.
- The constructors of events that the readers do not tell apart, data types and generated code.
- Contents of payloads, domains, messages and events are abstract throughout: no property depends on
  them. A `stream_chunk` with an extra keyword `event` would replace the event's own name.
- In auto-reload, classes of modules that were reloaded but not collected, and renamed actions, which
  stay registered. Listed as a hazard.

Crash recovery is modelled where state is lost (a worker's cache, a worker's timestamps, the pickled
executor); the server persists nothing.
