---------------------------- MODULE SlotMapping ----------------------------
(***************************************************************************)
(* The conditions under which a slot mapping applies to the latest message *)
(* (rasa_sdk/slots.py).                                                    *)
(***************************************************************************)
EXTENDS Tracker

CONSTANTS
  Intents,   \* the intents a mapping may name
  Forms      \* the forms a domain may have

\* A condition as the developer writes it: None, one intent or a list of them.
IntentConditions ==
  [kind : {"none"}, intents : {{}}]
    \cup [kind : {"one"}, intents : {{i} : i \in Intents}]
    \cup [kind : {"list"}, intents : SUBSET Intents]

to_list(condition) == IF condition.kind = "none" THEN {} ELSE condition.intents

\* What is common to the mappings from_text, from_intent and
\* from_trigger_intent return, and what from_entity adds to it, with the loops
\* a domain may restrict a mapping to.
Mapping(intent, not_intent, loops) ==
  [intent |-> intent, not_intent |-> not_intent, conditions |-> loops]

from_entity(role, group) == [entity |-> "city", role |-> role, group |-> group]

\* `domain["forms"][active_loop_name]` raises when there is no such form.
Raises(mapping, state, forms) ==
  LET loop == active_loop_name(state) IN
    loop # "none" /\ loop \in mapping.conditions /\ loop \notin DOMAIN forms

\* Mutant: the ignored intents of any active form count.
IgnoredByAnyForm(mapping, state, forms) ==
  IF active_loop_name(state) \in DOMAIN forms
    THEN forms[active_loop_name(state)]
    ELSE {}

\* The ignored intents of the active loop, if the mapping is for that loop.
_get_ignored_intents(mapping, state, forms) ==
  LET loop == active_loop_name(state) IN
    IF loop # "none" /\ loop \in mapping.conditions THEN forms[loop] ELSE {}

intent_is_desired(mapping, message, state, forms) ==
  LET mapping_intents     == to_list(mapping.intent)
      mapping_not_intents == to_list(mapping.not_intent)
                               \cup _get_ignored_intents(mapping, state, forms)
      intent              == LatestIntent(message)
  IN \/ mapping_intents = {} /\ intent \notin mapping_not_intents
     \/ intent \in mapping_intents

\* get_latest_entity_values returns a generator, which is never None: the value
\* itself is not looked at.
entity_is_desired(mapping, message) ==
  \E i \in DOMAIN message.entities :
    /\ message.entities[i].entity = mapping.entity
    /\ message.entities[i].role = mapping.role
    /\ message.entities[i].group = mapping.group

=============================================================================
