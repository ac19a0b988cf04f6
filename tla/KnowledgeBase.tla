---------------------------- MODULE KnowledgeBase ----------------------------
(***************************************************************************)
(* A conversation about a knowledge base: ActionQueryKnowledgeBase         *)
(* (rasa_sdk/knowledge_base/actions.py), which lists objects or tells an   *)
(* attribute of one, over an InMemoryKnowledgeBase (storage.py).           *)
(*                                                                         *)
(* What the user means is spread over the slots of many turns.  The        *)
(* assistant fills the slots of the entities it finds in a message and     *)
(* leaves the others as they are; the action then reads the slots and      *)
(* sets some of them.  Nothing in a run suspends, so it is one step; other *)
(* conversations share the store and reorder its lists between the steps.  *)
(***************************************************************************)
EXTENDS Naturals, Sequences, SequencesExt, FiniteSetsExt

CONSTANTS
  Type,         \* object types
  Attribute,    \* attributes that have a slot of their own
  Value,        \* what these slots are filled with
  Word,         \* what users call objects
  Data,         \* Data[t]: the objects of type t; none if t is not stored
  Ordinal,      \* mentions that are positions: "1", "2", ...
  LAST, ANY,    \* the other keys of ordinal_mention_mapping
  IT,           \* any mention that is none of its keys
  UseLast,      \* use_last_object_mention
  Limit,        \* the default limit of get_objects
  MaxEntities,  \* bound: the entities of a message
  None

\* An object has the value of its key attribute, the words that occur in its
\* representation, and attributes: the objects of a type need not have the same.
Object == [key : Nat, words : SUBSET Word, attrs : UNION {[D -> Value] : D \in SUBSET Attribute}]

ASSUME DataAssumption ==
  /\ Data \in [Type -> SUBSET Object]
  /\ \A t \in Type : IsFiniteSet(Data[t])
  /\ \A t \in Type : \A o, p \in Data[t] : o.key = p.key => o = p
\* No attribute or type is called like one of the action's own slots.
OwnSlots == {"object_type", "attribute", "mention", "last_object", "last_object_type", "listed_objects"}

ASSUME SlotAssumption == OwnSlots \cap (Attribute \cup Type) = {} /\ Attribute \cap Type = {}
ASSUME OrdinalAssumption ==
  /\ Ordinal \subseteq Nat \ {0}
  /\ {LAST, ANY, IT, None} \cap Ordinal = {} /\ None \notin {LAST, ANY, IT}
  /\ ANY # LAST
ASSUME LimitAssumption == Limit \in Nat \ {0} /\ UseLast \in BOOLEAN
ASSUME WordAssumption == None \notin Word

VARIABLES
  order,   \* InMemoryKnowledgeBase.data: the lists, in their present order
  slots,   \* the slots of the conversation
  said,    \* the entities of the latest message; None once it was answered
  answer,  \* what the action said last
  shown    \* history: the objects listed last, as the user saw them

vars == <<order, slots, said, answer, shown>>

Named    == {t \in Type : \E o \in Data[t] : o.words # {}}
Mentions == Ordinal \cup {LAST, ANY, IT}
Entities == {"object_type", "attribute", "mention"} \cup Attribute \cup Named

\* What the user reads: the attribute of one object, a list of objects (see
\* shown), the request to rephrase, or nothing.
Reads(kind) == [kind |-> kind, type |-> None, object |-> None]
Tells(t, o) == [kind |-> "value", type |-> t, object |-> o]

\* f @@ g of module TLC, in a form that the provers can expand.
Over(f, g) == [x \in DOMAIN f \cup DOMAIN g |-> IF x \in DOMAIN f THEN f[x] ELSE g[x]]

\* Every slot holds what its entity or the action puts there.
TypeOK ==
  /\ \A t \in Type : order[t] \in SetToSeqs(Data[t])
  /\ slots.object_type \in Type \cup {None}
  /\ slots.attribute \in Attribute \cup {None}
  /\ slots.mention \in Mentions \cup {None}
  /\ slots.last_object \in Nat \cup {None}
  /\ slots.last_object_type \in Type \cup {None}
  /\ slots.listed_objects \in Seq(Nat) \cup {None}
  /\ \A a \in Attribute : slots[a] \in Value \cup {None}
  /\ \A t \in Named : slots[t] \in Word \cup {None}
  /\ said \in (SUBSET Entities) \cup {None}
  /\ answer.kind \in {"nothing", "list", "value", "rephrase"}
  /\ shown.type \in Type \cup {None} /\ shown.keys \in Seq(Nat)

Init ==
  /\ order \in {f \in [Type -> UNION {SetToSeqs(Data[t]) : t \in Type}] :
                  \A t \in Type : f[t] \in SetToSeqs(Data[t])}
  /\ slots = [s \in OwnSlots \cup Entities |-> None]
  /\ said = None
  /\ answer = Reads("nothing")
  /\ shown = [type |-> None, keys |-> <<>>]

-----------------------------------------------------------------------------
(* The user and the other conversations.                                   *)

\* The entity is not in the message, or is with one of the values.
Maybe(entity, values) == {<<>>} \cup {[x \in {entity} |-> v] : v \in values}

\* The user speaks.  A message names one object at most.
Say ==
  /\ said = None
  /\ \E t \in Maybe("object_type", Type), a \in Maybe("attribute", Attribute),
        m \in Maybe("mention", Mentions),
        f \in {<<>>} \cup UNION {Maybe(b, Value) : b \in Attribute},
        n \in {<<>>} \cup UNION {Maybe(s, Word) : s \in Named} :
       LET message == Over(t, Over(a, Over(m, Over(f, n))))
       IN  /\ Cardinality(DOMAIN message) <= MaxEntities
           /\ said' = DOMAIN message
           /\ slots' = Over(message, slots)
  /\ answer' = Reads("nothing")
  /\ UNCHANGED <<order, shown>>

\* Another conversation lists all objects of a type.
OthersList(t) ==
  /\ \E s \in SetToSeqs(Data[t]) : order' = [order EXCEPT ![t] = s]
  /\ UNCHANGED <<slots, said, answer, shown>>

-----------------------------------------------------------------------------
(* The run of the action.                                                  *)

\* match_extracted_entities_to_object_type.
Matched == IF \E t \in Named : t \in said THEN CHOOSE t \in Named : t \in said ELSE None

object_type == IF slots.object_type # None THEN slots.object_type ELSE Matched

\* The action answers, and the assistant applies the slots it returns.
Reply(a, set) ==
  /\ answer' = a
  /\ slots' = Over(set, slots)
  /\ said' = None

\* Something is raised: no events reach the assistant.
Raise == Reply(Reads("nothing"), <<>>) /\ UNCHANGED <<order, shown>>

\* get_attributes_of_object: those of the object that is first at the moment.
get_attributes_of_object(t) == IF order[t] = <<>> THEN {} ELSE DOMAIN Head(order[t]).attrs

get_attribute_slots(t) == {a \in get_attributes_of_object(t) : slots[a] # None}

reset_attribute_slots(t) == [a \in get_attribute_slots(t) |-> None]

Keys(found) == [i \in DOMAIN found |-> found[i].key]

ListedSlots(t, found) ==
  [object_type |-> None, mention |-> None, attribute |-> None,
   last_object |-> IF Len(found) > 1 THEN None ELSE found[1].key,
   last_object_type |-> t,
   listed_objects |-> Keys(found)]

\* The filter looks every attribute up in every object.
LacksAFilter(t) == \E o \in Data[t] : ~(get_attribute_slots(t) \subseteq DOMAIN o.attrs)

\* get_objects: the objects that pass the filters, shuffled.
Passing(t) == {o \in Data[t] : \A a \in get_attribute_slots(t) : o.attrs[a] = slots[a]}

get_objects(t) == SetToSeqs(Passing(t))

\* Mutant: what passes the filters becomes the store's list.
FilteredStore(t, s) == [order EXCEPT ![t] = s]

\* Without filters it is the store's own list that is shuffled.
ShuffledStore(t, s) == IF get_attribute_slots(t) = {} THEN [order EXCEPT ![t] = s] ELSE order

\* What is beyond the limit is not listed.
QueryObjects(t) ==
  \/ LacksAFilter(t) /\ Raise
  \/ /\ ~LacksAFilter(t)
     /\ \E s \in get_objects(t) :
          LET found == SubSeq(s, 1, Min({Limit, Len(s)}))
          IN  /\ order' = ShuffledStore(t, s)
              /\ \/ /\ found = <<>>
                    /\ Reply(Reads("list"), reset_attribute_slots(t))
                    /\ UNCHANGED shown
                 \/ /\ found # <<>>
                    /\ Reply(Reads("list"), Over(ListedSlots(t, found), reset_attribute_slots(t)))
                    /\ shown' = [type |-> t, keys |-> Keys(found)]

\* Mutant: positions that count from 0.
PositionsFromZero(mention, n) ==
  CASE mention = ANY -> 1..n
    [] mention = LAST -> {n}
    [] OTHER -> {mention + 1}

\* ordinal_mention_mapping: the positions a mention may stand for in a list of n.
ordinal_mention_mapping(mention, n) ==
  CASE mention = ANY -> 1..n
    [] mention = LAST -> {n}
    [] OTHER -> {mention}

IsOrdinal == slots.listed_objects # None /\ slots.mention \in Ordinal \cup {LAST, ANY}

Positions == ordinal_mention_mapping(slots.mention, Len(slots.listed_objects))

\* The ordinal is beyond the list.
OutOfRange == IsOrdinal /\ ~(Positions \subseteq DOMAIN slots.listed_objects)

\* What the mention may stand for (resolve_mention).
resolve_mention ==
  IF IsOrdinal
    THEN {slots.listed_objects[i] : i \in Positions}
    ELSE {IF slots.last_object_type # None THEN slots.last_object ELSE None}

\* Mutant: the object mentioned last goes before a name.
LastBeforeName ==
  IF slots.mention # None THEN resolve_mention
  ELSE IF UseLast /\ slots.last_object # None THEN {slots.last_object}
  ELSE {IF object_type \in Named THEN slots[object_type] ELSE None}

\* What the object may be called: a mention goes before a name, a name before
\* the object mentioned last.
get_object_name ==
  IF slots.mention # None THEN resolve_mention
  ELSE IF object_type \in Named /\ slots[object_type] # None THEN {slots[object_type]}
  ELSE {IF UseLast THEN slots.last_object ELSE None}

\* get_object: the objects with this key or, if there are none, those whose
\* representation contains the name; no object unless it is the only one.
get_object(t, name) ==
  LET byKey == {o \in Data[t] : o.key = name}
      found == IF byKey # {} THEN byKey ELSE {o \in Data[t] : name \in o.words}
  IN  IF Cardinality(found) = 1 THEN found ELSE {}

\* Mutant: last_object_type is not set.
AnsweredSlotsForgetType(t, object) ==
  [object_type |-> None, attribute |-> None, mention |-> None, last_object |-> object.key]

AnsweredSlots(t, object) ==
  [object_type |-> None, attribute |-> None, mention |-> None,
   last_object |-> object.key, last_object_type |-> t]

QueryAttribute(t) ==
  \/ OutOfRange /\ Raise
  \/ /\ ~OutOfRange
     /\ \E name \in get_object_name :
          LET known == {o \in get_object(t, name) : slots.attribute \in DOMAIN o.attrs}
          IN  \/ /\ known = {}
                 /\ Reply(Reads("rephrase"), [mention |-> None])
              \/ \E o \in known :
                   Reply(Tells(t, o), AnsweredSlots(t, o))
     /\ UNCHANGED <<order, shown>>

\* With no object type, a mention is of an object of the last type.
FollowsUp == slots.last_object_type # None /\ slots.mention # None /\ slots.attribute # None

Run ==
  /\ said # None
  /\ \/ /\ object_type # None /\ "attribute" \notin said
        /\ QueryObjects(object_type)
     \/ /\ object_type # None /\ "attribute" \in said
        /\ QueryAttribute(object_type)
     \/ /\ object_type = None /\ FollowsUp
        /\ QueryAttribute(slots.last_object_type)
     \/ /\ object_type = None /\ ~FollowsUp
        /\ Reply(Reads("rephrase"), <<>>)
        /\ UNCHANGED <<order, shown>>

Next == Say \/ Run \/ \E t \in Type : OthersList(t)

Spec == Init /\ [][Next]_vars

-----------------------------------------------------------------------------
(* Properties.                                                             *)

\* The two slots that remember the last object are set on different paths and
\* in different turns, but always name an object that exists: last_object is
\* the key of an object of last_object_type, or nothing.
RememberedObjectExists ==
  slots.last_object # None =>
    /\ slots.last_object_type # None
    /\ \E o \in Data[slots.last_object_type] : o.key = slots.last_object

\* An ordinal means the object the user saw at that position: many turns may
\* lie between the list and the mention, and the store's list is reordered in
\* between.  Only if the type asked about is no longer the type of the list
\* does the position give the key of an object of another type.
OrdinalsMeanWhatWasShown ==
  [][(answer'.kind = "value" /\ Run /\ IsOrdinal /\ answer'.type = shown.type) =>
       LET key == answer'.object.key
       IN  /\ slots.mention = ANY => key \in ToSet(shown.keys)
           /\ slots.mention = LAST => key = Last(shown.keys)
           /\ slots.mention \in Ordinal => key = shown.keys[slots.mention]]_vars

\* The message asks for an attribute of an object it names.
AsksByName == "attribute" \in said /\ Matched # None

\* What earlier turns left does not decide about a message that names its
\* object: unless a mention or another object type is still set, the answer is
\* about an object the name fits, as its key or in its representation.
NamesDecide ==
  [][(answer'.kind = "value" /\ Run /\ AsksByName
        /\ slots.mention = None /\ slots.object_type \in {None, Matched}) =>
       /\ answer'.type = Matched
       /\ slots[Matched] \in answer'.object.words \cup {answer'.object.key}]_vars

\* A question for an attribute of an object, by a name that only it has, is
\* answered whatever was said before and needs no list first: the object type
\* is inferred from the name (CHANGELOG.mdx:168, 188).
NamedObjectIsAnswered ==
  [][(Run /\ AsksByName /\ said = {"attribute", Matched}) =>
       \A o \in get_object(Matched, slots[Matched]) :
         slots.attribute \in DOMAIN o.attrs => answer' = Tells(Matched, o)]_vars

=============================================================================
