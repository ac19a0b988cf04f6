------------------------------ MODULE Tracker ------------------------------
(***************************************************************************)
(* What a custom action reads from its tracker (rasa_sdk/interfaces.py):   *)
(* operators on the list of events, with the constructors of those events  *)
(* (rasa_sdk/events.py), and on the latest message.                        *)
(*                                                                         *)
(* An event is its type, the one payload readers look at (the name of an   *)
(* action, slot or loop, or the channel of a message) and the timestamp.   *)
(* `None` is "none".                                                       *)
(***************************************************************************)
EXTENDS Naturals, FiniteSets, Sequences, SequencesExt, FiniteSetsExt

ACTION_LISTEN_NAME       == "action_listen"
NLU_FALLBACK_INTENT_NAME == "nlu_fallback"

Event(type, name, timestamp) ==
  [event |-> type, name |-> name, timestamp |-> timestamp]

UserUttered(channel, timestamp)  == Event("user", channel, timestamp)
BotUttered(timestamp)            == Event("bot", "none", timestamp)
SlotSet(key, timestamp)          == Event("slot", key, timestamp)
Restarted(timestamp)             == Event("restart", "none", timestamp)
UserUtteranceReverted(timestamp) == Event("rewind", "none", timestamp)
ActionReverted(timestamp)        == Event("undo", "none", timestamp)
ActionExecuted(name, timestamp)  == Event("action", name, timestamp)

\* Mutant: the deprecated event's own type.
FormEvent(name, timestamp) == Event("form", name, timestamp)

ActiveLoop(name, timestamp) == Event("active_loop", name, timestamp)

EventTypes == {"user", "bot", "slot", "restart", "rewind", "undo",
               "action", "active_loop"}

-----------------------------------------------------------------------------
(* The events that are in effect.                                          *)

Occurrences(done, type) == {i \in DOMAIN done : done[i].event = type}

\* Mutant: the list is searched from its beginning.
UndoToFirst(type, done) ==
  IF Occurrences(done, type) = {} THEN <<>>
  ELSE SubSeq(done, 1, Min(Occurrences(done, type)) - 1)

\* Everything from the last event of the type on is removed: if there is none,
\* everything.
undo_till_previous(type, done) ==
  IF Occurrences(done, type) = {} THEN <<>>
  ELSE SubSeq(done, 1, Max(Occurrences(done, type)) - 1)

\* Mutant: the listening before the user's message stays.
RewindMessageOnly(done, e) ==
  CASE e.event = "restart" -> <<>>
    [] e.event = "undo"    -> undo_till_previous("action", done)
    [] e.event = "rewind"  -> undo_till_previous("user", done)
    [] OTHER               -> Append(done, e)

\* Mutant: restarts are events like others.
RestartsAreEvents(done, e) ==
  CASE e.event = "undo"    -> undo_till_previous("action", done)
    [] e.event = "rewind"  ->
         undo_till_previous("action", undo_till_previous("user", done))
    [] OTHER               -> Append(done, e)

Apply(done, e) ==
  CASE e.event = "restart" -> <<>>
    [] e.event = "undo"    -> undo_till_previous("action", done)
    [] e.event = "rewind"  ->
         undo_till_previous("action", undo_till_previous("user", done))
    [] OTHER               -> Append(done, e)

applied_events(es) ==
  LET done[k \in 0 .. Len(es)] ==
        IF k = 0 THEN <<>> ELSE Apply(done[k - 1], es[k])
  IN done[Len(es)]

\* The members of a sequence that are in S, in order: SelectSeq in a form that
\* the provers can expand.
Filter(s, S) ==
  LET f[n \in 0 .. Len(s)] ==
        IF n = 0 THEN <<>>
        ELSE IF s[n] \in S THEN Append(f[n - 1], s[n]) ELSE f[n - 1]
  IN f[Len(s)]

\* The last event of a type that is in effect but for `skip` later ones, as a
\* sequence of at most one event.
get_last_event_for(es, type, exclude, skip) ==
  LET done   == applied_events(es)
      wanted == {e \in ToSet(done) :
                   e.event = type /\ ~(e.event = "action" /\ e.name \in exclude)}
      filtered == Reverse(Filter(done, wanted))
  IN SubSeq(filtered, skip + 1, Min({skip + 1, Len(filtered)}))

last_executed_action_has(es, name, skip) ==
  LET last == get_last_event_for(es, "action", {ACTION_LISTEN_NAME}, skip)
  IN last # <<>> /\ last[1].name = name

idx_after_latest_restart(es) == Max({0} \cup Occurrences(es, "restart"))

events_after_latest_restart(es) ==
  SubSeq(es, idx_after_latest_restart(es) + 1, Len(es))

\* The channel of the last message in the list, in effect or not.
get_latest_input_channel(es) ==
  LET said == Occurrences(es, "user")
  IN IF said = {} THEN "none" ELSE es[Max(said)].name

-----------------------------------------------------------------------------
(* The latest message and the active loop.                                 *)

\* A new conversation has no message: every field is read as missing.
NoMessage == [intent |-> "none", intent_ranking |-> <<>>, entities |-> <<>>]

\* The intent as slot mappings read it: a field of its own, which a message may
\* have without a ranking.
LatestIntent(message) == message.intent

\* The intent as actions read it: from the ranking alone.
get_intent_of_latest_message(message, skip_fallback_intent) ==
  LET ranking == message.intent_ranking IN
    CASE ranking = <<>> -> "none"
      [] ranking # <<>> /\ ~(/\ ranking[1] = NLU_FALLBACK_INTENT_NAME
                             /\ skip_fallback_intent) -> ranking[1]
      [] OTHER -> IF Len(ranking) >= 2 THEN ranking[2] ELSE "none"

\* Mutant: the role does not matter.
AnyRole(message, entity, role, group) ==
  Filter(message.entities,
         {x \in ToSet(message.entities) : x.entity = entity /\ x.group = group})

\* The entities whose values are returned: role and group must agree, and an
\* entity that has one is not found without naming it.
get_latest_entity_values(message, entity, role, group) ==
  Filter(message.entities,
         {x \in ToSet(message.entities) :
            x.entity = entity /\ x.group = group /\ x.role = role})

\* Tracker.from_dict: older assistants send the loop as `active_form`.  A
\* loop's name is "none" if the dict is empty, null or has no name.
LoopOfState(state) ==
  IF state.active_loop # "absent" THEN state.active_loop
  ELSE IF state.active_form # "absent" THEN state.active_form
  ELSE "none"

active_loop_name(state) ==
  LET loop == LoopOfState(state) IN
    IF loop = "should_not_be_set" THEN "none" ELSE loop

=============================================================================
