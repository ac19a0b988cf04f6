---------------------------- MODULE Conversation ----------------------------
(***************************************************************************)
(* The conversation a tracker tells of, as it grows event by event: the    *)
(* assistant listens, the user speaks, actions run and return events, some *)
(* of which take back what happened.  What an action reads at any moment   *)
(* are the operators of Tracker and SlotMapping on this state; TimeTravel  *)
(* runs beside it and says what is in effect.                              *)
(*                                                                         *)
(* The assistant is not in this repository.  It appends events the way the *)
(* comment at interfaces.py:257-260 assumes: a message follows a listen.   *)
(***************************************************************************)
EXTENDS SlotMapping, TimeTravel

CONSTANTS
  MaxHistory,  \* bound: events in the tracker
  MaxReturned, \* bound: events an action returns
  LeftOut,     \* bound: the types of events that no action returns
  Actions,     \* the actions that run, besides listening
  Channels,    \* the channels messages come by
  Messages,    \* what the assistant may make of a message
  Domains      \* the domains' forms with their ignored_intents

\* The values that stand for no loop, and the name the code reserves for a loop
\* that is hidden, are no forms.
ASSUME FormsAssumption ==
  {"none", "absent", "should_not_be_set"} \cap Forms = {}

\* The assistant ranks an intent once; how a message's intent and its ranking
\* are related is left open.
ASSUME MessagesAssumption ==
  \A m \in Messages :
    /\ DOMAIN m = {"intent", "intent_ranking", "entities"}
    /\ m.intent \in STRING
    /\ m.intent_ranking \in Seq(STRING) /\ IsInjective(m.intent_ranking)
    /\ m.entities \in Seq([entity : STRING, role : STRING, group : STRING])

ASSUME DomainsAssumption ==
  Domains \subseteq UNION {[F -> SUBSET Intents] : F \in SUBSET Forms}

VARIABLES
  events,   \* tracker.events
  latest,   \* tracker.latest_message
  loop,     \* the assistant's active loop, or "should_not_be_set"
  forms,    \* the forms of the domain, with their ignored_intents
  turn,     \* "open", "listening", "spoken" or "acting"
  spoken    \* history: the channel of the user's last message

vars == <<events, latest, loop, forms, turn, spoken, travelVars>>

Init ==
  /\ events = <<>>
  /\ latest = NoMessage
  /\ loop = "none"
  /\ forms \in Domains
  /\ turn = "open"
  /\ spoken = "none"
  /\ Beginning

\* A timestamp is the position in the list.
Now == Len(events) + 1

Tell(e) ==
  /\ Len(events) < MaxHistory
  /\ events' = Append(events, e)
  /\ Told(e)

Listen ==
  /\ turn \in {"open", "spoken", "acting"}
  /\ Tell(ActionExecuted(ACTION_LISTEN_NAME, Now))
  /\ turn' = "listening"
  /\ UNCHANGED <<latest, loop, forms, spoken>>

Say(message, channel) ==
  /\ turn = "listening"
  /\ Tell(UserUttered(channel, Now))
  /\ latest' = message
  /\ spoken' = channel
  /\ turn' = "spoken"
  /\ UNCHANGED <<loop, forms>>

Act(name) ==
  /\ turn \in {"open", "spoken", "acting"}
  /\ Tell(ActionExecuted(name, Now))
  /\ turn' = "acting"
  /\ UNCHANGED <<latest, loop, forms, spoken>>

\* The events of an action that has just run, one at a time.
Returned(e) ==
  /\ turn = "acting"
  /\ \E i \in 1 .. Min({MaxReturned, Len(events)}) : events[Len(events) + 1 - i].event = "action"
  /\ Tell(e)
  /\ loop' = CASE e.event = "active_loop" -> e.name
               [] e.event = "restart" -> "none"
               [] OTHER -> loop
  /\ latest' = IF e.event = "restart" THEN NoMessage ELSE latest
  /\ UNCHANGED <<forms, turn, spoken>>

\* The assistant hides the loop from some trackers.
HideLoop ==
  /\ loop \in Forms
  /\ loop' = "should_not_be_set"
  /\ UNCHANGED <<events, latest, forms, turn, spoken, travelVars>>

\* The assistant is trained anew while conversations go on.
NewModel ==
  /\ forms' \in Domains
  /\ UNCHANGED <<events, latest, loop, turn, spoken, travelVars>>

ReturnedEvents ==
  {e \in {SlotSet("city", Now), BotUttered(Now), Restarted(Now),
          UserUtteranceReverted(Now), ActionReverted(Now)}
           \cup {ActiveLoop(l, Now) : l \in Forms \cup {"none"}} :
     e.event \notin LeftOut}

Next ==
  \/ Listen
  \/ \E m \in Messages, c \in Channels : Say(m, c)
  \/ \E a \in Actions : Act(a)
  \/ \E e \in ReturnedEvents : Returned(e)
  \/ HideLoop
  \/ NewModel

Spec == Init /\ [][Next]_vars

-----------------------------------------------------------------------------
(* Properties.                                                             *)

Events ==
  [event : EventTypes, timestamp : Nat,
   name : Actions \cup Channels \cup Forms \cup {ACTION_LISTEN_NAME, "city", "none"}]

\* Every variable stays within its type.
TypeOK ==
  /\ events \in Seq(Events)
  /\ \A i \in DOMAIN events : events[i].timestamp = i
  /\ latest \in Messages \cup {NoMessage}
  /\ loop \in Forms \cup {"none", "should_not_be_set"}
  /\ forms \in Domains
  /\ turn \in {"open", "listening", "spoken", "acting"}
  /\ spoken \in Channels \cup {"none"}
  /\ ToSet(now) \subseteq ToSet(events)

Applied == applied_events(events)

\* Replaying the whole list of events, the tracker arrives at what is in effect:
\* it goes back to exactly the moment a snapshot would restore, however undos,
\* rewinds and restarts are mixed (interfaces.py:227-265).
ReplayIsTimeTravel == Applied = now

Turns(es) == Cardinality(Occurrences(es, "user"))

\* A rewind takes back one message and not a message of an earlier turn
\* (interfaces.py:257-260); what the user said last is answered on its channel
\* all the same (interfaces.py:147-152).
RewindTakesOneTurn ==
  [][/\ events' # events /\ Last(events').event = "rewind" =>
          Turns(applied_events(events')) = Max({0, Turns(Applied) - 1})
     /\ get_latest_input_channel(events') = spoken']_vars

\* The actions in effect but for listening, told without replaying: those since
\* the last restart that no later event takes back.
RunSince(k) ==
  LET done == Applied
      ran  == {i \in DOMAIN done : done[i].event = "action" /\ done[i].name # ACTION_LISTEN_NAME}
  IN  {i \in ran : Cardinality({j \in ran : j > i}) = k}

\* last_executed_action_has tells of the action that many actions ago, never of
\* one before the last restart or of a listen (interfaces.py:165-171, 207-225).
LastActionIsTold ==
  /\ \A skip \in 0 .. 1 :
       LET ran == {Applied[i].name : i \in RunSince(skip)} IN
         \A name \in Actions \cup {ACTION_LISTEN_NAME} :
           last_executed_action_has(events, name, skip) <=> name \in ran
  /\ ToSet(Applied) \subseteq ToSet(events_after_latest_restart(events))

\* The loop as newer assistants send it and as older ones do.
State(legacy) ==
  [active_loop |-> IF legacy THEN "absent" ELSE loop,
   active_form |-> IF legacy THEN loop ELSE "absent"]

Listed(mapping, i) == i \in to_list(mapping.intent)

\* What the docstrings of slots.py say: the intent is one of `intent`, if given,
\* none of `not_intent`, and none the mapping's active form ignores.
ConditionsHold(mapping) ==
  LET i == LatestIntent(latest) IN
    /\ mapping.intent.kind # "none" /\ mapping.intent.intents # {} => Listed(mapping, i)
    /\ i \notin to_list(mapping.not_intent)
    /\ loop \in mapping.conditions => i \notin forms[loop]

\* A mapping applies exactly under its conditions, but for an intent it lists
\* itself, which neither `not_intent` nor the form can exclude; it fails exactly
\* if it is for the loop the assistant shows and the domain has no such form; and
\* the loop is the same for older assistants (slots.py:149-171, 204-233;
\* interfaces.py:33, 173-182).
MappingsFollowConditions ==
  /\ active_loop_name(State(TRUE)) = active_loop_name(State(FALSE))
  /\ \A intent, not_intent \in IntentConditions, loops \in SUBSET Forms :
       LET mapping == Mapping(intent, not_intent, loops)
           fails   == loop \in loops \ DOMAIN forms
       IN  /\ Raises(mapping, State(FALSE), forms) <=> fails
           /\ ~fails =>
                (intent_is_desired(mapping, latest, State(FALSE), forms)
                   <=> \/ ConditionsHold(mapping)
                       \/ Listed(mapping, LatestIntent(latest)))

\* The labels a mapping may name, or none.
Labels == {"none", "to"} \X {"none", "first"}

\* What an action reads of the entities under a role and a group.
Found(l) == get_latest_entity_values(latest, "city", l[1], l[2])

Only(intent) == [kind |-> "one", intents |-> {intent}]
Anything     == [kind |-> "none", intents |-> {}]

\* Does a mapping on this intent, for no loop in particular, apply?
AppliesTo(intent) ==
  intent_is_desired(Mapping(Only(intent), Anything, {}), latest, State(FALSE), forms)

\* Slot mappings and actions read the same message by different code and from
\* different fields.
\*   - A mapping finds an entity exactly if the action finds its value, and none
\*     is found under two pairs of labels: a mapping without a role is not for
\*     entities that have one (slots.py:187-201, interfaces.py:138-145).
\*   - A fallback is not taken for what the user meant unless asked for.  Of a
\*     message whose intent is first in its ranking, actions and mappings see the
\*     same intent, unless the action skips a fallback the mappings do see
\*     (interfaces.py:305-333, slots.py:167-171).
MessageIsReadAlike ==
  /\ \A l \in Labels : entity_is_desired(from_entity(l[1], l[2]), latest) <=> Found(l) # <<>>
  /\ \A k, l \in Labels : k # l => ToSet(Found(k)) \cap ToSet(Found(l)) = {}
  /\ get_intent_of_latest_message(latest, TRUE) # NLU_FALLBACK_INTENT_NAME
  /\ \A skip \in BOOLEAN :
       LET intent == get_intent_of_latest_message(latest, skip) IN
         (intent # "none" /\ latest.intent_ranking[1] = latest.intent) =>
           (AppliesTo(intent) <=> ~(skip /\ latest.intent = NLU_FALLBACK_INTENT_NAME))

=============================================================================
