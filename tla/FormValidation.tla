--------------------------- MODULE FormValidation ---------------------------
(***************************************************************************)
(* How a validation action turns the slot values the assistant has found   *)
(* in a message into the values it is to keep: ValidationAction and        *)
(* FormValidationAction (rasa_sdk/forms.py) with the part of the Tracker   *)
(* they work on (slots_to_validate and add_slots, rasa_sdk/interfaces.py), *)
(* over the turns of one conversation.                                     *)
(*                                                                         *)
(* A run calls user code at every turn: required_slots, extract_<slot> and *)
(* validate_<slot> methods, each of which may answer anything and is a     *)
(* step of its own.  A Python dict is a sequence of entries with distinct  *)
(* names, because the order of its keys decides what is validated first.   *)
(***************************************************************************)
EXTENDS Naturals, Sequences, SequencesExt

CONSTANTS
  Slot,        \* the slots of the conversation
  Value,       \* the values of a slot that is filled
  None,        \* the value of a slot that is not
  DomainOrder, \* the slots as the domain lists them
  FormMapped,  \* the slots with a mapping that is for an active loop only
  FormSlots,   \* the form's required_slots in the domain
  Extracts,    \* per kind of action, the slots with an extract_<slot> method
  Validates    \* per kind of action, the slots with a validate_<slot> method

ASSUME SlotAssumption   == IsFiniteSet(Slot)
ASSUME NoneAssumption   == None \notin Value \cup Slot \cup {"unset"}
ASSUME OrderAssumption  == DomainOrder \in Seq(Slot) /\ FormSlots \in Seq(Slot)
ASSUME MethodAssumption ==
  /\ Extracts \in [BOOLEAN -> SUBSET Slot]
  /\ Validates \in [BOOLEAN -> SUBSET Slot]

VARIABLES
  known,     \* the assistant's slots
  requested, \* what the last run said of requested_slot; "unset" if nothing
  pc,        \* how far the run is
  form,      \* whether the action is a FormValidationAction
  slots,     \* tracker.slots
  events,    \* the slot events at the end of tracker.events
  todo,      \* the slots to extract, or the entries to validate, in order
  custom,    \* custom_slots, what extract methods have returned
  required,  \* what required_slots answered last
  result,    \* the local `slots` of get_validation_events
  withdrawn, \* history: the candidates that were dropped as not required
  validated  \* history: the slots whose validate method was called, in order

run     == <<form, slots, events, todo, custom, required, result>>
history == <<withdrawn, validated>>
vars    == <<known, requested, pc, run, history>>

Optional == Value \cup {None}

Entry(s, v) == [name |-> s, value |-> v]
Entries     == [name : Slot, value : Optional]
Names(d)    == {d[i].name : i \in DOMAIN d}

Place(d, s) == CHOOSE i \in DOMAIN d : d[i].name = s

Get(d, s) == d[Place(d, s)].value

\* No key is there twice.
IsDict(d) == IsInjective([i \in DOMAIN d |-> d[i].name])

\* d[name] = value, and d.update(new).
Put(d, e) ==
  IF e.name \in Names(d)
    THEN [i \in DOMAIN d |-> IF d[i].name = e.name THEN e ELSE d[i]]
    ELSE Append(d, e)

\* Mutant: a second value of the same slot is a second entry.
Concatenated(d, new) == d \o new

Updated(d, new) ==
  LET f[n \in 0 .. Len(new)] == IF n = 0 THEN d ELSE Put(f[n - 1], new[n])
  IN f[Len(new)]

Assigned(f, new) == [s \in Slot |-> IF s \in Names(new) THEN Get(new, s) ELSE f[s]]

\* Every variable keeps its type; the names in a dict are distinct.
TypeOK ==
  /\ known \in [Slot -> Optional]
  /\ requested \in Slot \cup {None, "unset"}
  /\ pc \in {"idle", "extract", "validate"}
  /\ form \in BOOLEAN
  /\ slots \in [Slot -> Optional]
  /\ events \in Seq(Entries)
  /\ pc = "extract" => todo \in Seq(Slot)
  /\ pc = "validate" => todo \in Seq(Entries)
  /\ custom \in Seq(Entries) /\ IsDict(custom)
  /\ required \in Seq(Slot)
  /\ result \in Seq(Entries) /\ IsDict(result)
  /\ withdrawn \subseteq Slot
  /\ validated \in Seq(Slot)

NoRun ==
  /\ form = FALSE
  /\ slots = known
  /\ events = <<>> /\ todo = <<>> /\ custom = <<>> /\ required = <<>> /\ result = <<>>
  /\ withdrawn = {}
  /\ validated = <<>>

Init ==
  /\ known \in [Slot -> Optional]
  /\ requested = "unset"
  /\ pc = "idle"
  /\ NoRun

-----------------------------------------------------------------------------
(* User code.                                                              *)

\* A dict an extract or validate method may return.
Dicts == {d \in BoundedSeq(Entries, 2) : IsDict(d)}

\* The slots of the domain, in its order, but for those of a form.
global_slots ==
  LET f[n \in 0 .. Len(DomainOrder)] ==
        IF n = 0 THEN <<>>
        ELSE IF DomainOrder[n] \in FormMapped THEN f[n - 1]
        ELSE Append(f[n - 1], DomainOrder[n])
  IN f[Len(DomainOrder)]

domain_slots(isForm) == IF isForm THEN FormSlots ELSE global_slots

\* What required_slots may answer: overridden, any slots in any order.
RequiredSlots == SetToAllKPermutations(Slot) \cup {domain_slots(f) : f \in BOOLEAN}

-----------------------------------------------------------------------------
(* ValidationAction.run.                                                   *)

\* The assistant calls either action with its tracker: the slots have the
\* candidates already, and the candidates are the last events.
Post(candidates, req) ==
  /\ pc = "idle"
  /\ form' \in BOOLEAN
  /\ pc' = "extract"
  /\ slots' = Assigned(known, candidates)
  /\ events' = candidates
  /\ todo' = req
  /\ required' = req
  /\ custom' = <<>>
  /\ result' = <<>>
  /\ withdrawn' = {}
  /\ validated' = <<>>
  /\ requested' = "unset"
  /\ UNCHANGED known

\* extract_<slot>, if there is one, returns a dict or something else.
_extract_slot ==
  /\ pc = "extract" /\ todo # <<>>
  /\ todo' = Tail(todo)
  /\ \/ /\ Head(todo) \in Extracts[form]
        /\ \E output \in Dicts : custom' = Updated(custom, output)
                                /\ slots' = Assigned(slots, output)
     \/ UNCHANGED <<custom, slots>>
  /\ UNCHANGED <<known, requested, pc, form, events, required, result, history>>

\* Mutant: only what the assistant sent is validated.
OnlySent(all) == Updated(<<>>, events)

slots_to_validate(all) == Updated(<<>>, all)

\* The extracted slots are added to the tracker; validation begins.
BeginValidation(req) ==
  /\ pc = "extract" /\ todo = <<>>
  /\ pc' = "validate"
  /\ slots' = Assigned(slots, custom)
  /\ events' = events \o custom
  /\ required' = req
  /\ result' = slots_to_validate(events \o custom)
  /\ todo' = result'
  /\ UNCHANGED <<known, requested, form, custom, history>>

IsRequired(s) == s \in ToSet(required)

\* The candidate is not required: it is dropped.  pop() would raise if it were
\* gone; a value validation returned for it is dropped with it.
Withdraw ==
  /\ pc = "validate" /\ todo # <<>>
  /\ ~IsRequired(Head(todo).name)
  /\ result' = RemoveAt(result, Place(result, Head(todo).name))
  /\ withdrawn' = withdrawn \cup {Head(todo).name}
  /\ todo' = Tail(todo)
  /\ UNCHANGED <<known, requested, pc, form, slots, events, custom, required,
                 validated>>

\* Mutant: what validation returns is not visible to later methods.
ValidateUnseen(output) ==
  /\ result' = Updated(result, output)
  /\ UNCHANGED slots

Validated(output) ==
  /\ result' = Updated(result, output)
  /\ slots' = Assigned(slots, output)

\* validate_<slot> is called with the candidate's value as it was when validation
\* began and returns a dict, or something else, which is ignored.
Validate ==
  /\ pc = "validate" /\ todo # <<>>
  /\ IsRequired(Head(todo).name) /\ Head(todo).name \in Validates[form]
  /\ validated' = Append(validated, Head(todo).name)
  /\ \/ \E output \in Dicts : Validated(output)
     \/ UNCHANGED <<result, slots>>
  /\ todo' = Tail(todo)
  /\ UNCHANGED <<known, requested, pc, form, events, custom, required, withdrawn>>

\* There is no validate_<slot>: the candidate is kept.
Skip ==
  /\ pc = "validate" /\ todo # <<>>
  /\ IsRequired(Head(todo).name) /\ Head(todo).name \notin Validates[form]
  /\ todo' = Tail(todo)
  /\ UNCHANGED <<known, requested, pc, form, slots, events, custom, required, result,
                 history>>

\* Mutant: a slot is missing when the assistant had no value before the run.
MissingBefore(s) == known[s] = None

Missing(s) == slots'[s] = None

\* `None` if required_slots is not overridden, else the first slot that is missing.
next_requested_slot(req) ==
  IF ~form \/ req = domain_slots(TRUE) THEN "unset"
  ELSE LET missing == {i \in DOMAIN req : Missing(req[i])} IN
         IF missing = {} THEN None ELSE req[Min(missing)]

Ended ==
  /\ pc' = "idle"
  /\ form' = FALSE
  /\ events' = <<>> /\ todo' = <<>> /\ custom' = <<>> /\ result' = <<>>
  /\ validated' = <<>>

\* The assistant is answered with the SlotSet events for `result`.  What it does
\* with a candidate the answer does not mention is its own affair.
Finish(req) ==
  /\ pc = "validate" /\ todo = <<>>
  /\ slots' = Assigned(slots, result)
  /\ requested' = next_requested_slot(req)
  /\ LET sent == SubSeq(events, 1, Len(events) - Len(custom)) IN
       \E kept \in {known, Assigned(known, sent)} : known' = Assigned(kept, result)
  /\ required' = req
  /\ Ended
  /\ UNCHANGED withdrawn

\* User code raises: the request fails and the tracker is forgotten.
Fail ==
  /\ pc # "idle"
  /\ slots' = known
  /\ requested' = "unset"
  /\ required' = <<>>
  /\ withdrawn' = {}
  /\ Ended
  /\ UNCHANGED known

-----------------------------------------------------------------------------
Next ==
  \/ \E req \in RequiredSlots :
       \/ \E candidates \in Dicts : Post(candidates, req)
       \/ BeginValidation(req) \/ Finish(req)
  \/ _extract_slot \/ Withdraw \/ Validate \/ Skip \/ Fail

Spec == Init /\ [][Next]_vars

-----------------------------------------------------------------------------
\* What the tracker shows to a method, and to next_requested_slot, is what the
\* assistant will have once it has applied the answer, whatever was extracted or
\* returned so far and in any order.  Dropped candidates are the exception
\* (forms.py:44, 62, 125, 174; interfaces.py:293-303).
TrackerShowsTheOutcome ==
  pc = "validate" =>
    \A s \in Slot \ withdrawn : slots[s] = Assigned(known, result)[s]

\* No candidate, sent or extracted, gets past its validate method: it has been
\* called, is going to be, or the candidate was dropped as not required
\* (forms.py:146-169, interfaces.py:267-291).
CandidatesAreValidated ==
  pc = "validate" =>
    \A s \in Names(events) \cap Validates[form] :
      s \in ToSet(validated) \cup Names(todo) \cup withdrawn

\* The form is only left when each required slot is filled for the assistant too,
\* or was dropped as a candidate in this very run (forms.py:315-329).
FormEndsFilled ==
  (pc = "idle" /\ requested = None) =>
    \A s \in ToSet(required) \ withdrawn : known[s] # None

Position(s) == CHOOSE i \in DOMAIN required : required[i] = s

\* "Slots will be validated in order they are requested" (CHANGELOG.mdx:340).
ValidatedInRequestedOrder ==
  \A i, j \in DOMAIN validated :
    i < j => Position(validated[i]) < Position(validated[j])

=============================================================================
