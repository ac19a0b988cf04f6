------------------------- MODULE KnowledgeBaseProofs -------------------------
(***************************************************************************)
(* Theorems about KnowledgeBase for every store, every set of words and    *)
(* mentions and every limit.                                               *)
(***************************************************************************)
EXTENDS KnowledgeBase, FiniteSetTheorems, SequenceTheorems, TLAPS

\* The store's lists are only ever reordered.
StoreInv ==
  /\ DOMAIN order = Type
  /\ \A t \in Type : order[t] \in SetToSeqs(Data[t])

\* The slots that hold a type.
TypeSlots ==
  /\ {"object_type", "last_object", "last_object_type"} \subseteq DOMAIN slots
  /\ slots["object_type"] \in Type \cup {None}
  /\ slots["last_object_type"] \in Type \cup {None}

RememberInv == StoreInv /\ TypeSlots /\ RememberedObjectExists

-----------------------------------------------------------------------------
(* Lists of objects.                                                       *)

LEMMA SequencesOfASet ==
  ASSUME NEW S, IsFiniteSet(S), NEW s \in SetToSeqs(S)
  PROVE  /\ s \in Seq(S)
         /\ Len(s) = Cardinality(S)
<1>1. Cardinality(S) \in Nat
  BY FS_CardinalityType
<1>2. s \in [1..Cardinality(S) -> S]
  BY DEF SetToSeqs
<1> QED
  BY <1>1, <1>2

LEMMA PassingIsFinite ==
  ASSUME NEW t \in Type
  PROVE  Passing(t) \subseteq Data[t] /\ IsFiniteSet(Passing(t)) /\ IsFiniteSet(Data[t])
BY DataAssumption, FS_Subset DEF Passing

\* The first of what is listed is an object of the type.
LEMMA ListedFromStore ==
  ASSUME NEW t \in Type, NEW s \in get_objects(t),
         SubSeq(s, 1, Min({Limit, Len(s)})) # <<>>
  PROVE  SubSeq(s, 1, Min({Limit, Len(s)}))[1] \in Data[t]
<1> DEFINE n == Min({Limit, Len(s)})
<1>1. s \in Seq(Passing(t)) /\ Len(s) \in Nat
  BY PassingIsFinite, SequencesOfASet, LenProperties DEF get_objects
<1>2. n \in {Limit, Len(s)} /\ n <= Len(s) /\ n \in Nat
  BY <1>1, LimitAssumption DEF Min
<1>3. n # 0
  <2>1. SubSeq(s, 1, 0) = <<>>
    BY SubSeqEmpty, 0 \in Int, 1 \in Int, 0 < 1
  <2> QED
    BY <2>1
<1>4. SubSeq(s, 1, n)[1] = s[1]
  BY <1>1, <1>2, <1>3
<1>5. s[1] \in Passing(t)
  BY <1>1, <1>2, <1>3, ElementOfSeq
<1> QED
  BY <1>4, <1>5, PassingIsFinite

\* Only attributes are reset.
LEMMA ResetsAttributes ==
  ASSUME StoreInv, NEW t \in Type
  PROVE  DOMAIN reset_attribute_slots(t) \subseteq Attribute
<1> SUFFICES get_attributes_of_object(t) \subseteq Attribute
  BY DEF reset_attribute_slots, get_attribute_slots
<1> SUFFICES ASSUME order[t] # <<>> PROVE DOMAIN Head(order[t]).attrs \subseteq Attribute
  BY DEF get_attributes_of_object
<1>1. order[t] \in Seq(Data[t])
  BY PassingIsFinite, SequencesOfASet DEF StoreInv
<1>2. Head(order[t]) \in Data[t]
  BY <1>1
<1>3. Head(order[t]) \in Object
  BY <1>2, DataAssumption
<1> QED
  BY <1>3 DEF Object

-----------------------------------------------------------------------------
(* The user's messages.                                                    *)

LEMMA OfOneEntity ==
  ASSUME NEW e, NEW V, NEW p \in Maybe(e, V)
  PROVE  DOMAIN p \subseteq {e} /\ \A x \in DOMAIN p : p[x] \in V
BY DEF Maybe

\* A message sets slots of entities only, the object type to a type.
LEMMA MessagesLeaveMemory ==
  ASSUME TypeSlots, RememberedObjectExists, Say
  PROVE  (TypeSlots /\ RememberedObjectExists)'
<1>1. PICK t \in Maybe("object_type", Type), a \in Maybe("attribute", Attribute),
           m \in Maybe("mention", Mentions),
           f \in {<<>>} \cup UNION {Maybe(b, Value) : b \in Attribute},
           n \in {<<>>} \cup UNION {Maybe(s, Word) : s \in Named} :
        slots' = Over(Over(t, Over(a, Over(m, Over(f, n)))), slots)
  BY DEF Say
<1> DEFINE rest    == Over(a, Over(m, Over(f, n)))
           message == Over(t, rest)
<1>2. /\ DOMAIN t \subseteq {"object_type"} /\ \A x \in DOMAIN t : t[x] \in Type
      /\ DOMAIN a \subseteq {"attribute"}
      /\ DOMAIN m \subseteq {"mention"}
  BY OfOneEntity
<1>3. DOMAIN f \subseteq Attribute
  BY OfOneEntity
<1>4. DOMAIN n \subseteq Type
  BY OfOneEntity DEF Named
<1>5. DOMAIN rest = DOMAIN a \cup (DOMAIN m \cup (DOMAIN f \cup DOMAIN n))
  BY DEF Over
<1>6. DOMAIN rest \cap {"object_type", "last_object", "last_object_type"} = {}
  BY <1>2, <1>3, <1>4, <1>5, SlotAssumption DEF OwnSlots
<1> HIDE DEF rest
<1>7. /\ DOMAIN message \cap {"last_object", "last_object_type"} = {}
      /\ "object_type" \in DOMAIN message => message["object_type"] \in Type
  BY <1>2, <1>6 DEF Over
<1> HIDE DEF message
<1>8. /\ {"object_type", "last_object", "last_object_type"} \subseteq DOMAIN slots'
      /\ slots'["object_type"] \in Type \cup {None}
      /\ slots'["last_object"] = slots["last_object"]
      /\ slots'["last_object_type"] = slots["last_object_type"]
  <2>1. slots' = Over(message, slots)
    BY <1>1 DEF message, rest
  <2> QED
    BY <1>7, <2>1 DEF Over, TypeSlots
<1> QED
  BY <1>8 DEF TypeSlots, RememberedObjectExists

-----------------------------------------------------------------------------
(* The action's replies.                                                   *)

\* A reply that does not touch the slots that remember.
LEMMA RepliesWithoutObject ==
  ASSUME TypeSlots, RememberedObjectExists, NEW b, NEW u, Reply(b, u),
         DOMAIN u \cap {"last_object", "last_object_type"} = {},
         "object_type" \in DOMAIN u => u["object_type"] = None
  PROVE  (TypeSlots /\ RememberedObjectExists)'
<1>1. /\ {"object_type", "last_object", "last_object_type"} \subseteq DOMAIN slots'
      /\ slots'["object_type"] \in {slots["object_type"], None}
      /\ slots'["last_object"] = slots["last_object"]
      /\ slots'["last_object_type"] = slots["last_object_type"]
  BY DEF Reply, Over, TypeSlots
<1> QED
  BY <1>1 DEF TypeSlots, RememberedObjectExists

\* A reply that sets both of them, from the same object.
LEMMA RepliesWithObject ==
  ASSUME TypeSlots, NEW b, NEW u, Reply(b, u), NEW t \in Type, t # None,
         {"object_type", "last_object", "last_object_type"} \subseteq DOMAIN u,
         u["object_type"] = None, u["last_object_type"] = t,
         u["last_object"] # None => \E o \in Data[t] : o.key = u["last_object"]
  PROVE  (TypeSlots /\ RememberedObjectExists)'
<1>1. /\ {"object_type", "last_object", "last_object_type"} \subseteq DOMAIN slots'
      /\ slots'["object_type"] = None
      /\ slots'["last_object"] = u["last_object"]
      /\ slots'["last_object_type"] = t
  BY DEF Reply, Over
<1> QED
  BY <1>1 DEF TypeSlots, RememberedObjectExists

LEMMA TypeOfTheRun ==
  ASSUME TypeSlots, object_type # None
  PROVE  object_type \in Type
<1>1. Matched \in Type \cup {None}
  BY DEF Matched, Named
<1> QED
  BY <1>1 DEF object_type, TypeSlots

\* Nothing is raised by half: an exception leaves the slots as they were.
LEMMA RaisesLeaveMemory ==
  ASSUME RememberInv, Raise
  PROVE  RememberInv'
<1>1. (TypeSlots /\ RememberedObjectExists)'
  BY RepliesWithoutObject DEF RememberInv, Raise
<1> QED
  BY <1>1 DEF RememberInv, StoreInv, Raise

LEMMA ListsRemember ==
  ASSUME RememberInv, NEW t \in Type, t # None, QueryObjects(t)
  PROVE  RememberInv'
<1>1. CASE LacksAFilter(t) /\ Raise
  BY <1>1, RaisesLeaveMemory
<1>2. CASE ~LacksAFilter(t) /\ ~(LacksAFilter(t) /\ Raise)
  <2> DEFINE found(s) == SubSeq(s, 1, Min({Limit, Len(s)}))
  <2>1. PICK s \in get_objects(t) :
          /\ order' = ShuffledStore(t, s)
          /\ \/ /\ found(s) = <<>>
                /\ Reply(Reads("list"), reset_attribute_slots(t))
             \/ /\ found(s) # <<>>
                /\ Reply(Reads("list"), Over(ListedSlots(t, found(s)), reset_attribute_slots(t)))
    BY <1>2 DEF QueryObjects
  <2>2. StoreInv'
    <3>1. get_attribute_slots(t) = {} => Passing(t) = Data[t]
      BY DEF Passing
    <3>2. get_attribute_slots(t) = {} => s \in SetToSeqs(Data[t])
      BY <3>1 DEF get_objects
    <3> QED
      BY <2>1, <3>2 DEF StoreInv, RememberInv, ShuffledStore
  <2>3. CASE found(s) = <<>>
    <3>1. DOMAIN reset_attribute_slots(t) \cap {"object_type", "last_object", "last_object_type"} = {}
      BY ResetsAttributes, SlotAssumption DEF OwnSlots, RememberInv
    <3>2. Reply(Reads("list"), reset_attribute_slots(t))
      BY <2>1, <2>3
    <3> QED
      BY <2>2, <3>1, <3>2, RepliesWithoutObject DEF RememberInv
  <2>4. CASE found(s) # <<>>
    <3> DEFINE l == ListedSlots(t, found(s))
               u == Over(l, reset_attribute_slots(t))
    <3>1. /\ {"object_type", "last_object", "last_object_type"} \subseteq DOMAIN l
          /\ l["object_type"] = None /\ l["last_object_type"] = t
          /\ l["last_object"] \in {None, found(s)[1].key}
      BY DEF ListedSlots
    <3>2. found(s)[1] \in Data[t]
      BY <2>4, ListedFromStore
    <3> HIDE DEF l
    <3>3. /\ {"object_type", "last_object", "last_object_type"} \subseteq DOMAIN u
          /\ u["object_type"] = None /\ u["last_object_type"] = t
          /\ u["last_object"] = l["last_object"]
      BY <3>1 DEF Over
    <3>4. Reply(Reads("list"), u)
      BY <2>1, <2>4 DEF l
    <3> HIDE DEF u, found
    <3>5. u["last_object"] # None => \E o \in Data[t] : o.key = u["last_object"]
      BY <3>1, <3>2, <3>3
    <3> QED
      BY <2>2, <3>3, <3>4, <3>5, RepliesWithObject DEF RememberInv
  <2> QED
    BY <2>3, <2>4
<1> QED
  BY <1>1, <1>2 DEF QueryObjects

LEMMA AnswersRemember ==
  ASSUME RememberInv, NEW t \in Type, t # None, QueryAttribute(t)
  PROVE  RememberInv'
<1>1. CASE OutOfRange /\ Raise
  BY <1>1, RaisesLeaveMemory
<1>2. CASE UNCHANGED <<order, shown>> /\ Reply(Reads("rephrase"), [mention |-> None])
  <2>1. DOMAIN [mention |-> None] \cap {"object_type", "last_object", "last_object_type"} = {}
    OBVIOUS
  <2>2. (TypeSlots /\ RememberedObjectExists)'
    BY <1>2, <2>1, RepliesWithoutObject DEF RememberInv
  <2> QED
    BY <1>2, <2>2 DEF RememberInv, StoreInv
<1>3. ASSUME UNCHANGED <<order, shown>>, NEW o \in Data[t],
             Reply(Tells(t, o), AnsweredSlots(t, o))
      PROVE  RememberInv'
  <2> DEFINE u == AnsweredSlots(t, o)
  <2>1. /\ {"object_type", "last_object", "last_object_type"} \subseteq DOMAIN u
        /\ u["object_type"] = None /\ u["last_object_type"] = t
        /\ u["last_object"] = o.key
    BY DEF AnsweredSlots
  <2>2. Reply(Tells(t, o), u)
    BY <1>3
  <2> HIDE DEF u
  <2>3. (TypeSlots /\ RememberedObjectExists)'
    BY <1>3, <2>1, <2>2, RepliesWithObject DEF RememberInv
  <2> QED
    BY <1>3, <2>3 DEF RememberInv, StoreInv
<1>4. \A name : get_object(t, name) \subseteq Data[t]
  BY DEF get_object
<1> QED
  BY <1>1, <1>2, <1>3, <1>4 DEF QueryAttribute

LEMMA RunsRemember ==
  ASSUME RememberInv, Run
  PROVE  RememberInv'
<1>1. CASE object_type # None /\ QueryObjects(object_type)
  BY <1>1, TypeOfTheRun, ListsRemember DEF RememberInv
<1>2. CASE object_type # None /\ QueryAttribute(object_type)
  BY <1>2, TypeOfTheRun, AnswersRemember DEF RememberInv
<1>3. CASE FollowsUp /\ QueryAttribute(slots.last_object_type)
  <2>1. slots.last_object_type \in Type /\ slots.last_object_type # None
    BY <1>3 DEF FollowsUp, RememberInv, TypeSlots
  <2> QED
    BY <1>3, <2>1, AnswersRemember
<1>4. CASE Reply(Reads("rephrase"), <<>>) /\ UNCHANGED <<order, shown>>
  <2>1. DOMAIN <<>> = {}
    OBVIOUS
  <2>2. (TypeSlots /\ RememberedObjectExists)'
    BY <1>4, <2>1, RepliesWithoutObject DEF RememberInv
  <2> QED
    BY <1>4, <2>2 DEF RememberInv, StoreInv
<1> QED
  BY <1>1, <1>2, <1>3, <1>4 DEF Run

LEMMA RememberStep ==
  ASSUME RememberInv, [Next]_vars
  PROVE  RememberInv'
<1>1. CASE Say
  <2>1. StoreInv'
    BY <1>1 DEF Say, RememberInv, StoreInv
  <2> QED
    BY <1>1, <2>1, MessagesLeaveMemory DEF RememberInv
<1>2. CASE Run
  BY <1>2, RunsRemember
<1>3. ASSUME NEW t \in Type, OthersList(t) PROVE RememberInv'
  <2>1. StoreInv'
    BY <1>3 DEF OthersList, RememberInv, StoreInv
  <2> QED
    BY <1>3, <2>1 DEF OthersList, RememberInv, TypeSlots, RememberedObjectExists
<1>4. CASE UNCHANGED vars
  BY <1>4 DEF vars, RememberInv, StoreInv, TypeSlots, RememberedObjectExists
<1> QED
  BY <1>1, <1>2, <1>3, <1>4 DEF Next

-----------------------------------------------------------------------------
\* Whatever the conversation and whatever the others list, the last object and
\* its type, which runs set on different paths, fit together
\* (knowledge_base/actions.py:212-223, 288-294).
THEOREM RememberedObjectExistsHolds == Spec => []RememberedObjectExists
<1>1. Init => RememberInv
  BY DEF Init, RememberInv, StoreInv, TypeSlots, RememberedObjectExists, OwnSlots
<1>2. RememberInv /\ [Next]_vars => RememberInv'
  BY RememberStep
<1>3. RememberInv => RememberedObjectExists
  BY DEF RememberInv
<1> QED
  BY <1>1, <1>2, <1>3, PTL DEF Spec

-----------------------------------------------------------------------------
(* Ordinals.                                                               *)

\* What was listed last is what the user was shown, objects of one type.
ListInv ==
  /\ "listed_objects" \in DOMAIN slots
  /\ slots["listed_objects"] \in {None, shown.keys}
  /\ \A i \in DOMAIN shown.keys : \E o \in Data[shown.type] : o.key = shown.keys[i]

\* All that is listed is in the store.
LEMMA AllListedFromStore ==
  ASSUME NEW t \in Type, NEW s \in get_objects(t)
  PROVE  LET found == SubSeq(s, 1, Min({Limit, Len(s)}))
         IN  \A i \in DOMAIN found : found[i] \in Data[t]
<1> DEFINE n == Min({Limit, Len(s)})
<1>1. s \in Seq(Passing(t)) /\ Len(s) \in Nat
  BY PassingIsFinite, SequencesOfASet, LenProperties DEF get_objects
<1>2. n \in {Limit, Len(s)} /\ n <= Len(s) /\ n \in Nat
  BY <1>1, LimitAssumption DEF Min
<1> HIDE DEF n
<1>3. \A i \in 1..n : s[i] \in Passing(t)
  BY <1>1, <1>2, ElementOfSeq
<1>4. SubSeq(s, 1, n) \in Seq(Passing(t))
  BY <1>2, <1>3, SubSeqProperties
<1>5. \A i \in DOMAIN SubSeq(s, 1, n) : SubSeq(s, 1, n)[i] \in Passing(t)
  BY <1>4, LenProperties, ElementOfSeq
<1> QED
  BY <1>5, PassingIsFinite DEF n

LEMMA MessagesLeaveTheList ==
  ASSUME ListInv, Say
  PROVE  ListInv'
<1>1. PICK t \in Maybe("object_type", Type), a \in Maybe("attribute", Attribute),
           m \in Maybe("mention", Mentions),
           f \in {<<>>} \cup UNION {Maybe(b, Value) : b \in Attribute},
           n \in {<<>>} \cup UNION {Maybe(s, Word) : s \in Named} :
        slots' = Over(Over(t, Over(a, Over(m, Over(f, n)))), slots)
  BY DEF Say
<1> DEFINE message == Over(t, Over(a, Over(m, Over(f, n))))
<1>2. /\ DOMAIN t \subseteq {"object_type"} /\ DOMAIN a \subseteq {"attribute"}
      /\ DOMAIN m \subseteq {"mention"}
      /\ DOMAIN f \subseteq Attribute /\ DOMAIN n \subseteq Type
  BY OfOneEntity DEF Named
<1>3. DOMAIN message = DOMAIN t \cup (DOMAIN a \cup (DOMAIN m \cup (DOMAIN f \cup DOMAIN n)))
  BY DEF Over
<1>4. "listed_objects" \notin DOMAIN message
  BY <1>2, <1>3, SlotAssumption DEF OwnSlots
<1> HIDE DEF message
<1>5. "listed_objects" \in DOMAIN slots' /\ slots'["listed_objects"] = slots["listed_objects"]
  <2>1. slots' = Over(message, slots)
    BY <1>1 DEF message
  <2> QED
    BY <1>4, <2>1 DEF Over, ListInv
<1> QED
  BY <1>5 DEF ListInv, Say

LEMMA RepliesWithoutList ==
  ASSUME ListInv, NEW b, NEW u, Reply(b, u), "listed_objects" \notin DOMAIN u, UNCHANGED shown
  PROVE  ListInv'
<1>1. "listed_objects" \in DOMAIN slots' /\ slots'["listed_objects"] = slots["listed_objects"]
  BY DEF Reply, Over, ListInv
<1> QED
  BY <1>1 DEF ListInv

LEMMA RaisesLeaveTheList ==
  ASSUME ListInv, Raise
  PROVE  ListInv'
<1>1. "listed_objects" \notin DOMAIN <<>>
  OBVIOUS
<1> QED
  BY <1>1, RepliesWithoutList DEF Raise

LEMMA ListsAreShown ==
  ASSUME ListInv, StoreInv, NEW t \in Type, QueryObjects(t)
  PROVE  ListInv'
<1>1. CASE LacksAFilter(t) /\ Raise
  BY <1>1, RaisesLeaveTheList
<1>2. CASE ~(LacksAFilter(t) /\ Raise)
  <2> DEFINE found(s) == SubSeq(s, 1, Min({Limit, Len(s)}))
  <2>1. PICK s \in get_objects(t) :
          \/ Reply(Reads("list"), reset_attribute_slots(t)) /\ UNCHANGED shown
          \/ /\ Reply(Reads("list"), Over(ListedSlots(t, found(s)), reset_attribute_slots(t)))
             /\ shown' = [type |-> t, keys |-> Keys(found(s))]
    BY <1>2 DEF QueryObjects
  <2>2. CASE Reply(Reads("list"), reset_attribute_slots(t)) /\ UNCHANGED shown
    <3>1. "listed_objects" \notin DOMAIN reset_attribute_slots(t)
      BY ResetsAttributes, SlotAssumption DEF OwnSlots
    <3> QED
      BY <2>2, <3>1, RepliesWithoutList
  <2>3. CASE /\ Reply(Reads("list"), Over(ListedSlots(t, found(s)), reset_attribute_slots(t)))
             /\ shown' = [type |-> t, keys |-> Keys(found(s))]
    <3> DEFINE l == ListedSlots(t, found(s))
               u == Over(l, reset_attribute_slots(t))
    <3>1. "listed_objects" \in DOMAIN l /\ l["listed_objects"] = Keys(found(s))
      BY DEF ListedSlots
    <3> HIDE DEF l
    <3>2. "listed_objects" \in DOMAIN u /\ u["listed_objects"] = Keys(found(s))
      BY <3>1 DEF Over
    <3>3. Reply(Reads("list"), u)
      BY <2>3 DEF l
    <3> HIDE DEF u
    <3>4. "listed_objects" \in DOMAIN slots' /\ slots'["listed_objects"] = Keys(found(s))
      BY <3>2, <3>3 DEF Reply, Over
    <3>5. \A i \in DOMAIN found(s) : found(s)[i] \in Data[t]
      BY AllListedFromStore
    <3> HIDE DEF found
    <3>6. \A i \in DOMAIN Keys(found(s)) : \E o \in Data[t] : o.key = Keys(found(s))[i]
      BY <3>5 DEF Keys
    <3> QED
      BY <2>3, <3>4, <3>6 DEF ListInv
  <2> QED
    BY <2>1, <2>2, <2>3
<1> QED
  BY <1>1, <1>2

LEMMA AnswersLeaveTheList ==
  ASSUME ListInv, NEW t, QueryAttribute(t)
  PROVE  ListInv'
<1>1. CASE OutOfRange /\ Raise
  BY <1>1, RaisesLeaveTheList
<1>2. CASE UNCHANGED shown /\ Reply(Reads("rephrase"), [mention |-> None])
  <2>1. "listed_objects" \notin DOMAIN [mention |-> None]
    OBVIOUS
  <2> QED
    BY <1>2, <2>1, RepliesWithoutList
<1>3. ASSUME UNCHANGED shown, NEW o, Reply(Tells(t, o), AnsweredSlots(t, o))
      PROVE  ListInv'
  <2>1. "listed_objects" \notin DOMAIN AnsweredSlots(t, o)
    BY DEF AnsweredSlots
  <2> QED
    BY <1>3, <2>1, RepliesWithoutList
<1> QED
  BY <1>1, <1>2, <1>3 DEF QueryAttribute

\* An ordinal that is in range stands for a key that was shown.
LEMMA OrdinalsNameShownKeys ==
  ASSUME ListInv, IsOrdinal, ~OutOfRange, NEW name \in get_object_name
  PROVE  \E i \in DOMAIN shown.keys :
           /\ name = shown.keys[i]
           /\ i \in Positions
           /\ slots.listed_objects = shown.keys
<1>1. slots.listed_objects = shown.keys
  BY DEF IsOrdinal, ListInv
<1>2. slots.mention # None
  BY OrdinalAssumption DEF IsOrdinal
<1>3. name \in {slots.listed_objects[i] : i \in Positions}
  BY <1>2 DEF get_object_name, resolve_mention
<1>4. Positions \subseteq DOMAIN shown.keys
  BY <1>1 DEF OutOfRange
<1> QED
  BY <1>1, <1>3, <1>4

\* The key that was shown finds its object, and no other one.
LEMMA KeysFindTheirObject ==
  ASSUME NEW t, NEW o \in Data[t], NEW q \in get_object(t, o.key)
  PROVE  q.key = o.key
BY DEF get_object

LEMMA ListsGiveNoValue ==
  ASSUME NEW t, QueryObjects(t)
  PROVE  answer'.kind # "value"
<1>1. Raise => answer' = Reads("nothing")
  BY DEF Raise, Reply
<1>2. \A u : Reply(Reads("list"), u) => answer' = Reads("list")
  BY DEF Reply
<1>3. answer' \in {Reads("nothing"), Reads("list")}
  BY <1>1, <1>2 DEF QueryObjects
<1> QED
  BY <1>3 DEF Reads

LEMMA OrdinalsAnswerWhatWasShown ==
  ASSUME ListInv, NEW t, QueryAttribute(t), answer'.kind = "value", IsOrdinal,
         answer'.type = shown.type
  PROVE  LET key == answer'.object.key
         IN  /\ slots.mention = ANY => key \in ToSet(shown.keys)
             /\ slots.mention = LAST => key = Last(shown.keys)
             /\ slots.mention \in Ordinal => key = shown.keys[slots.mention]
<1>1. PICK name \in get_object_name :
        ~OutOfRange /\ \E o \in get_object(t, name) : answer' = Tells(t, o)
  <2>1. ~Raise
    BY DEF Raise, Reply, Reads
  <2>2. ~Reply(Reads("rephrase"), [mention |-> None])
    BY DEF Reply, Reads
  <2>3. \A o : Reply(Tells(t, o), AnsweredSlots(t, o)) => answer' = Tells(t, o)
    BY DEF Reply
  <2> QED
    BY <2>1, <2>2, <2>3 DEF QueryAttribute
<1>2. PICK o \in get_object(t, name) : answer' = Tells(t, o)
  BY <1>1
<1>3. answer'.object = o /\ t = shown.type
  BY <1>2 DEF Tells
<1>4. PICK i \in DOMAIN shown.keys :
        name = shown.keys[i] /\ i \in Positions /\ slots.listed_objects = shown.keys
  BY <1>1, OrdinalsNameShownKeys
<1>5. o.key = shown.keys[i]
  <2>1. PICK p \in Data[t] : p.key = shown.keys[i]
    BY <1>3, <1>4 DEF ListInv
  <2> QED
    BY <1>1, <1>4, <2>1, KeysFindTheirObject
<1>6. i \in ordinal_mention_mapping(slots.mention, Len(shown.keys))
  BY <1>4 DEF Positions
<1>7. slots.mention = ANY => o.key \in ToSet(shown.keys)
  BY <1>5 DEF ToSet
<1>8. slots.mention = LAST => o.key = Last(shown.keys)
  <2> SUFFICES ASSUME slots.mention = LAST PROVE i = Len(shown.keys)
    BY <1>5 DEF Last
  <2> QED
    BY <1>6, OrdinalAssumption DEF ordinal_mention_mapping
<1>9. slots.mention \in Ordinal => o.key = shown.keys[slots.mention]
  <2> SUFFICES ASSUME slots.mention \in Ordinal PROVE i = slots.mention
    BY <1>5
  <2> QED
    BY <1>6, OrdinalAssumption DEF ordinal_mention_mapping
<1> QED
  BY <1>3, <1>7, <1>8, <1>9

\* An ordinal means the object shown at that position, however the store's list
\* was reordered since, as long as the question is about the type of the list
\* (knowledge_base/utils.py:86-88, storage.py:205-214, 235-242).
THEOREM OrdinalsMeanWhatWasShownHolds == Spec => OrdinalsMeanWhatWasShown
<1> DEFINE Inv == RememberInv /\ ListInv
<1>1. Init => Inv
  BY DEF Init, RememberInv, StoreInv, TypeSlots, RememberedObjectExists, OwnSlots, ListInv
<1>2. Inv /\ [Next]_vars => Inv'
  <2> SUFFICES ASSUME Inv, [Next]_vars PROVE Inv'
    OBVIOUS
  <2>1. RememberInv'
    BY RememberStep
  <2>2. CASE Say
    BY <2>1, <2>2, MessagesLeaveTheList
  <2>3. CASE Run
    <3>1. CASE object_type # None /\ QueryObjects(object_type)
      BY <2>1, <3>1, TypeOfTheRun, ListsAreShown DEF RememberInv
    <3>2. CASE \E t : QueryAttribute(t)
      BY <2>1, <3>2, AnswersLeaveTheList
    <3>3. CASE Reply(Reads("rephrase"), <<>>) /\ UNCHANGED <<order, shown>>
      <4>1. "listed_objects" \notin DOMAIN <<>>
        OBVIOUS
      <4> QED
        BY <2>1, <3>3, <4>1, RepliesWithoutList
    <3> QED
      BY <2>3, <3>1, <3>2, <3>3 DEF Run
  <2>4. ASSUME NEW t \in Type, OthersList(t) PROVE Inv'
    BY <2>1, <2>4 DEF OthersList, ListInv
  <2>5. CASE UNCHANGED vars
    BY <2>1, <2>5 DEF vars, ListInv
  <2> QED
    BY <2>2, <2>3, <2>4, <2>5 DEF Next
<1>3. Inv /\ [Next]_vars =>
        [(answer'.kind = "value" /\ Run /\ IsOrdinal /\ answer'.type = shown.type) =>
          LET key == answer'.object.key
          IN  /\ slots.mention = ANY => key \in ToSet(shown.keys)
              /\ slots.mention = LAST => key = Last(shown.keys)
              /\ slots.mention \in Ordinal => key = shown.keys[slots.mention]]_vars
  <2> SUFFICES ASSUME Inv, Run, answer'.kind = "value", IsOrdinal, answer'.type = shown.type
               PROVE  LET key == answer'.object.key
                      IN  /\ slots.mention = ANY => key \in ToSet(shown.keys)
                          /\ slots.mention = LAST => key = Last(shown.keys)
                          /\ slots.mention \in Ordinal => key = shown.keys[slots.mention]
    OBVIOUS
  <2>1. ~Reply(Reads("rephrase"), <<>>)
    BY DEF Reply, Reads
  <2>2. PICK t : QueryAttribute(t)
    BY <2>1, ListsGiveNoValue DEF Run
  <2> QED
    BY <2>2, OrdinalsAnswerWhatWasShown
<1> QED
  BY <1>1, <1>2, <1>3, PTL DEF Spec, OrdinalsMeanWhatWasShown

-----------------------------------------------------------------------------
(* Types.                                                                  *)

\* What a slot may hold.
MayHold(x, v) ==
  /\ x = "object_type" => v \in Type \cup {None}
  /\ x = "attribute" => v \in Attribute \cup {None}
  /\ x = "mention" => v \in Mentions \cup {None}
  /\ x = "last_object" => v \in Nat \cup {None}
  /\ x = "last_object_type" => v \in Type \cup {None}
  /\ x = "listed_objects" => v \in Seq(Nat) \cup {None}
  /\ x \in Attribute => v \in Value \cup {None}
  /\ x \in Named => v \in Word \cup {None}

\* Every slot is there and holds what it may.
SlotsInv ==
  /\ OwnSlots \cup Entities \subseteq DOMAIN slots
  /\ \A x \in DOMAIN slots : MayHold(x, slots[x])

\* The history and the message.
TurnInv ==
  /\ said \in (SUBSET Entities) \cup {None}
  /\ answer.kind \in {"nothing", "list", "value", "rephrase"}
  /\ shown.type \in Type \cup {None} /\ shown.keys \in Seq(Nat)

TypeInv == StoreInv /\ SlotsInv /\ TurnInv

LEMMA NothingMayBeHeld ==
  ASSUME NEW x
  PROVE  MayHold(x, None)
BY DEF MayHold

LEMMA TypeInvImpliesTypeOK ==
  ASSUME TypeInv
  PROVE  TypeOK
<1>1. /\ MayHold("object_type", slots["object_type"])
      /\ MayHold("attribute", slots["attribute"])
      /\ MayHold("mention", slots["mention"])
      /\ MayHold("last_object", slots["last_object"])
      /\ MayHold("last_object_type", slots["last_object_type"])
      /\ MayHold("listed_objects", slots["listed_objects"])
  BY DEF TypeInv, SlotsInv, OwnSlots
<1>2. \A a \in Attribute : slots[a] \in Value \cup {None}
  BY DEF TypeInv, SlotsInv, Entities, MayHold
<1>3. \A t \in Named : slots[t] \in Word \cup {None}
  BY DEF TypeInv, SlotsInv, Entities, MayHold
<1>4. /\ slots["object_type"] \in Type \cup {None}
      /\ slots["attribute"] \in Attribute \cup {None}
      /\ slots["mention"] \in Mentions \cup {None}
  BY <1>1 DEF MayHold
<1>5. /\ slots["last_object"] \in Nat \cup {None}
      /\ slots["last_object_type"] \in Type \cup {None}
      /\ slots["listed_objects"] \in Seq(Nat) \cup {None}
  BY <1>1 DEF MayHold
<1> QED
  BY <1>2, <1>3, <1>4, <1>5 DEF TypeOK, TypeInv, StoreInv, TurnInv

\* Slots stay typed when typed slots are set.
LEMMA OverKeepsTypes ==
  ASSUME SlotsInv, NEW u, \A x \in DOMAIN u : MayHold(x, u[x]), slots' = Over(u, slots)
  PROVE  SlotsInv'
<1>1. DOMAIN slots' = DOMAIN u \cup DOMAIN slots
  BY DEF Over
<1>2. ASSUME NEW x \in DOMAIN slots'
      PROVE  MayHold(x, slots'[x])
  <2>1. CASE x \in DOMAIN u
    <3>1. slots'[x] = u[x]
      BY <2>1, <1>1 DEF Over
    <3> QED
      BY <2>1, <3>1
  <2>2. CASE x \notin DOMAIN u
    <3>1. x \in DOMAIN slots /\ slots'[x] = slots[x]
      BY <2>2, <1>1, <1>2 DEF Over
    <3> QED
      BY <3>1 DEF SlotsInv
  <2> QED
    BY <2>1, <2>2
<1>3. \A x \in DOMAIN slots' : MayHold(x, slots'[x])
  BY <1>2
<1>4. OwnSlots \cup Entities \subseteq DOMAIN slots'
  BY <1>1 DEF SlotsInv
<1>5. \A x, v : MayHold(x, v)' <=> MayHold(x, v)
  BY DEF MayHold
<1> QED
  BY <1>3, <1>4, <1>5 DEF SlotsInv, MayHold

LEMMA OverOfTyped ==
  ASSUME NEW f, NEW g,
         \A x \in DOMAIN f : MayHold(x, f[x]),
         \A x \in DOMAIN g : MayHold(x, g[x])
  PROVE  \A x \in DOMAIN Over(f, g) : MayHold(x, Over(f, g)[x])
<1> TAKE x \in DOMAIN Over(f, g)
<1>1. Over(f, g)[x] = IF x \in DOMAIN f THEN f[x] ELSE g[x]
  BY DEF Over
<1>2. x \in DOMAIN f \cup DOMAIN g
  BY DEF Over
<1>3. CASE x \in DOMAIN f
  BY <1>1, <1>3
<1>4. CASE x \notin DOMAIN f
  BY <1>1, <1>2, <1>4
<1> QED
  BY <1>3, <1>4

\* Each part of a message fits the slot of its entity.
LEMMA PartsAreTyped ==
  ASSUME NEW p,
         \/ p \in Maybe("object_type", Type)
         \/ p \in Maybe("attribute", Attribute)
         \/ p \in Maybe("mention", Mentions)
         \/ p \in {<<>>} \cup UNION {Maybe(b, Value) : b \in Attribute}
         \/ p \in {<<>>} \cup UNION {Maybe(s, Word) : s \in Named}
  PROVE  DOMAIN p \subseteq Entities /\ \A x \in DOMAIN p : MayHold(x, p[x])
<1>1. CASE p \in Maybe("object_type", Type)
  <2>1. DOMAIN p \subseteq {"object_type"} /\ \A x \in DOMAIN p : p[x] \in Type
    BY <1>1, OfOneEntity
  <2>2. \A v \in Type : MayHold("object_type", v)
    BY SlotAssumption DEF MayHold, OwnSlots, Named
  <2> QED
    BY <2>1, <2>2 DEF Entities
<1>2. CASE p \in Maybe("attribute", Attribute)
  <2>1. DOMAIN p \subseteq {"attribute"} /\ \A x \in DOMAIN p : p[x] \in Attribute
    BY <1>2, OfOneEntity
  <2>2. \A v \in Attribute : MayHold("attribute", v)
    BY SlotAssumption DEF MayHold, OwnSlots, Named
  <2> QED
    BY <2>1, <2>2 DEF Entities
<1>3. CASE p \in Maybe("mention", Mentions)
  <2>1. DOMAIN p \subseteq {"mention"} /\ \A x \in DOMAIN p : p[x] \in Mentions
    BY <1>3, OfOneEntity
  <2>2. \A v \in Mentions : MayHold("mention", v)
    BY SlotAssumption DEF MayHold, OwnSlots, Named
  <2> QED
    BY <2>1, <2>2 DEF Entities
<1>4. CASE p \in {<<>>} \cup UNION {Maybe(b, Value) : b \in Attribute}
  <2>1. CASE p = <<>>
    BY <2>1
  <2>2. ASSUME NEW b \in Attribute, p \in Maybe(b, Value)
        PROVE  DOMAIN p \subseteq Entities /\ \A x \in DOMAIN p : MayHold(x, p[x])
    <3>1. DOMAIN p \subseteq {b} /\ \A x \in DOMAIN p : p[x] \in Value
      BY <2>2, OfOneEntity
    <3>2. b \notin OwnSlots /\ b \notin Named
      BY SlotAssumption DEF Named
    <3>3. \A v \in Value : MayHold(b, v)
      BY <3>2 DEF MayHold, OwnSlots
    <3> QED
      BY <3>1, <3>3 DEF Entities
  <2> QED
    BY <1>4, <2>1, <2>2
<1>5. CASE p \in {<<>>} \cup UNION {Maybe(s, Word) : s \in Named}
  <2>1. CASE p = <<>>
    BY <2>1
  <2>2. ASSUME NEW s \in Named, p \in Maybe(s, Word)
        PROVE  DOMAIN p \subseteq Entities /\ \A x \in DOMAIN p : MayHold(x, p[x])
    <3>1. DOMAIN p \subseteq {s} /\ \A x \in DOMAIN p : p[x] \in Word
      BY <2>2, OfOneEntity
    <3>2. s \notin OwnSlots /\ s \notin Attribute
      BY SlotAssumption DEF Named
    <3>3. \A v \in Word : MayHold(s, v)
      BY <3>2 DEF MayHold, OwnSlots
    <3> QED
      BY <3>1, <3>3 DEF Entities
  <2> QED
    BY <1>5, <2>1, <2>2
<1> QED
  BY <1>1, <1>2, <1>3, <1>4, <1>5

LEMMA MessagesAreTyped ==
  ASSUME TypeInv, Say
  PROVE  TypeInv'
<1>1. PICK t \in Maybe("object_type", Type), a \in Maybe("attribute", Attribute),
           m \in Maybe("mention", Mentions),
           f \in {<<>>} \cup UNION {Maybe(b, Value) : b \in Attribute},
           n \in {<<>>} \cup UNION {Maybe(s, Word) : s \in Named} :
        /\ said' = DOMAIN Over(t, Over(a, Over(m, Over(f, n))))
        /\ slots' = Over(Over(t, Over(a, Over(m, Over(f, n)))), slots)
  BY DEF Say
<1> DEFINE o1 == Over(f, n)
           o2 == Over(m, o1)
           o3 == Over(a, o2)
           o4 == Over(t, o3)
<1>2. \A x \in DOMAIN o1 : MayHold(x, o1[x])
  BY PartsAreTyped, OverOfTyped
<1>3. \A x \in DOMAIN o2 : MayHold(x, o2[x])
  <2> HIDE DEF o1
  <2> QED
    BY <1>2, PartsAreTyped, OverOfTyped
<1>4. \A x \in DOMAIN o3 : MayHold(x, o3[x])
  <2> HIDE DEF o2
  <2> QED
    BY <1>3, PartsAreTyped, OverOfTyped
<1>5. \A x \in DOMAIN o4 : MayHold(x, o4[x])
  <2> HIDE DEF o3
  <2> QED
    BY <1>4, PartsAreTyped, OverOfTyped
<1>6. DOMAIN o4 \subseteq Entities
  <2>1. /\ DOMAIN t \subseteq Entities /\ DOMAIN a \subseteq Entities
        /\ DOMAIN m \subseteq Entities /\ DOMAIN f \subseteq Entities
        /\ DOMAIN n \subseteq Entities
    BY PartsAreTyped
  <2> QED
    BY <2>1 DEF Over
<1>7. said' = DOMAIN o4 /\ slots' = Over(o4, slots)
  BY <1>1
<1> HIDE DEF o4
<1>8. SlotsInv'
  BY <1>5, <1>7, OverKeepsTypes DEF TypeInv
<1>9. StoreInv'
  BY DEF Say, TypeInv, StoreInv
<1>10. TurnInv'
  BY <1>6, <1>7 DEF Say, TypeInv, TurnInv, Reads
<1> QED
  BY <1>8, <1>9, <1>10 DEF TypeInv

\* The slots a run sets are typed, and what it says is one of the answers.
LEMMA RepliesAreTyped ==
  ASSUME TypeInv, NEW b, NEW u, Reply(b, u), \A x \in DOMAIN u : MayHold(x, u[x]),
         b.kind \in {"nothing", "list", "value", "rephrase"}, StoreInv',
         shown'.type \in Type \cup {None}, shown'.keys \in Seq(Nat)
  PROVE  TypeInv'
<1>1. SlotsInv'
  BY OverKeepsTypes DEF TypeInv, Reply
<1>2. said' \in (SUBSET Entities) \cup {None}
  BY DEF Reply
<1>3. answer' = b
  BY DEF Reply
<1>4. TurnInv'
  BY <1>2, <1>3 DEF TurnInv, Entities, Named
<1> QED
  BY <1>1, <1>4 DEF TypeInv

LEMMA RepliesWithoutStore ==
  ASSUME TypeInv, NEW b, NEW u, Reply(b, u), \A x \in DOMAIN u : MayHold(x, u[x]),
         b.kind \in {"nothing", "list", "value", "rephrase"}, UNCHANGED <<order, shown>>
  PROVE  TypeInv'
<1>1. StoreInv'
  BY DEF TypeInv, StoreInv
<1>2. shown'.type \in Type \cup {None} /\ shown'.keys \in Seq(Nat)
  BY DEF TypeInv, TurnInv
<1> QED
  BY <1>1, <1>2, RepliesAreTyped

LEMMA RaisesAreTyped ==
  ASSUME TypeInv, Raise
  PROVE  TypeInv'
<1>1. \A x \in DOMAIN <<>> : MayHold(x, <<>>[x])
  OBVIOUS
<1>2. Reads("nothing").kind = "nothing"
  BY DEF Reads
<1>3. Reply(Reads("nothing"), <<>>) /\ UNCHANGED <<order, shown>>
  BY DEF Raise
<1> QED
  BY <1>1, <1>2, <1>3, RepliesWithoutStore

LEMMA ObjectsHaveKeys ==
  ASSUME NEW t \in Type, NEW o \in Data[t]
  PROVE  o.key \in Nat
<1>1. o \in Object
  BY DataAssumption
<1> QED
  BY <1>1 DEF Object

LEMMA ListsAreTyped ==
  ASSUME TypeInv, NEW t \in Type, QueryObjects(t)
  PROVE  TypeInv'
<1>1. CASE LacksAFilter(t) /\ Raise
  BY <1>1, RaisesAreTyped
<1>2. CASE ~(LacksAFilter(t) /\ Raise)
  <2> DEFINE found(s) == SubSeq(s, 1, Min({Limit, Len(s)}))
             r == reset_attribute_slots(t)
  <2>1. PICK s \in get_objects(t) :
          /\ order' = ShuffledStore(t, s)
          /\ \/ Reply(Reads("list"), r) /\ UNCHANGED shown
             \/ /\ found(s) # <<>>
                /\ Reply(Reads("list"), Over(ListedSlots(t, found(s)), r))
                /\ shown' = [type |-> t, keys |-> Keys(found(s))]
    BY <1>2 DEF QueryObjects
  <2>2. StoreInv'
    <3>1. get_attribute_slots(t) = {} => Passing(t) = Data[t]
      BY DEF Passing
    <3>2. get_attribute_slots(t) = {} => s \in SetToSeqs(Data[t])
      BY <3>1 DEF get_objects
    <3> QED
      BY <2>1, <3>2 DEF StoreInv, TypeInv, ShuffledStore
  <2>3. \A x \in DOMAIN r : MayHold(x, r[x])
    BY NothingMayBeHeld DEF reset_attribute_slots
  <2>4. Reads("list").kind = "list"
    BY DEF Reads
  <2>5. CASE Reply(Reads("list"), r) /\ UNCHANGED shown
    <3>1. shown'.type \in Type \cup {None} /\ shown'.keys \in Seq(Nat)
      BY <2>5 DEF TypeInv, TurnInv
    <3> HIDE DEF r
    <3> QED
      BY <2>2, <2>3, <2>4, <2>5, <3>1, RepliesAreTyped
  <2>6. CASE /\ found(s) # <<>>
             /\ Reply(Reads("list"), Over(ListedSlots(t, found(s)), r))
             /\ shown' = [type |-> t, keys |-> Keys(found(s))]
    <3> DEFINE l == ListedSlots(t, found(s))
    <3>1. \A i \in DOMAIN found(s) : found(s)[i].key \in Nat
      BY AllListedFromStore, ObjectsHaveKeys
    <3>2. found(s)[1].key \in Nat
      BY <2>6, ListedFromStore, ObjectsHaveKeys
    <3>3. DOMAIN found(s) = 1..Len(found(s)) /\ Len(found(s)) \in Nat
      <4>1. s \in Seq(Passing(t)) /\ Len(s) \in Nat
        BY PassingIsFinite, SequencesOfASet, LenProperties DEF get_objects
      <4>2. Min({Limit, Len(s)}) \in Nat /\ Min({Limit, Len(s)}) <= Len(s)
        BY <4>1, LimitAssumption DEF Min
      <4> QED
        BY <4>1, <4>2
    <3>4. Keys(found(s)) \in Seq(Nat)
      <4> HIDE DEF found
      <4> QED
        BY <3>1, <3>3 DEF Keys
    <3>5. \A x \in DOMAIN l : MayHold(x, l[x])
      <4> DEFINE k == found(s)[1].key
                 q == Keys(found(s))
                 many == Len(found(s)) > 1
      <4>1. l = [object_type |-> None, mention |-> None, attribute |-> None,
                 last_object |-> IF many THEN None ELSE k,
                 last_object_type |-> t, listed_objects |-> q]
        BY DEF ListedSlots
      <4>2. k \in Nat /\ q \in Seq(Nat)
        BY <3>2, <3>4
      <4> HIDE DEF k, q, many, l
      <4>3. \A x \in OwnSlots : x \notin Attribute /\ x \notin Named
        BY SlotAssumption DEF Named
      <4>4. MayHold("last_object", IF many THEN None ELSE k)
        BY <4>2, <4>3 DEF MayHold, OwnSlots
      <4>5. MayHold("last_object_type", t)
        BY <4>3 DEF MayHold, OwnSlots
      <4>6. MayHold("listed_objects", q)
        BY <4>2, <4>3 DEF MayHold, OwnSlots
      <4> QED
        BY <4>1, <4>4, <4>5, <4>6, NothingMayBeHeld
    <3> HIDE DEF l, r
    <3>6. \A x \in DOMAIN Over(l, r) : MayHold(x, Over(l, r)[x])
      BY <2>3, <3>5, OverOfTyped
    <3>7. shown'.type \in Type \cup {None} /\ shown'.keys \in Seq(Nat)
      BY <2>6, <3>4
    <3>8. Reply(Reads("list"), Over(l, r))
      BY <2>6 DEF l
    <3> QED
      BY <2>2, <2>4, <3>6, <3>7, <3>8, RepliesAreTyped
  <2> QED
    BY <2>1, <2>5, <2>6
<1> QED
  BY <1>1, <1>2

LEMMA AnswersAreTyped ==
  ASSUME TypeInv, NEW t \in Type, QueryAttribute(t)
  PROVE  TypeInv'
<1>1. CASE OutOfRange /\ Raise
  BY <1>1, RaisesAreTyped
<1>2. CASE UNCHANGED <<order, shown>> /\ Reply(Reads("rephrase"), [mention |-> None])
  <2>1. \A x \in DOMAIN [mention |-> None] : MayHold(x, [mention |-> None][x])
    BY NothingMayBeHeld
  <2>2. Reads("rephrase").kind = "rephrase"
    BY DEF Reads
  <2> QED
    BY <1>2, <2>1, <2>2, RepliesWithoutStore
<1>3. ASSUME UNCHANGED <<order, shown>>, NEW o \in Data[t],
             Reply(Tells(t, o), AnsweredSlots(t, o))
      PROVE  TypeInv'
  <2> DEFINE u == AnsweredSlots(t, o)
             k == o.key
  <2>1. u = [object_type |-> None, attribute |-> None, mention |-> None,
             last_object |-> k, last_object_type |-> t]
    BY DEF AnsweredSlots
  <2>2. k \in Nat
    BY ObjectsHaveKeys
  <2>3. Tells(t, o).kind = "value"
    BY DEF Tells
  <2> HIDE DEF u, k
  <2>4. \A x \in OwnSlots : x \notin Attribute /\ x \notin Named
    BY SlotAssumption DEF Named
  <2>5. MayHold("last_object", k) /\ MayHold("last_object_type", t)
    BY <2>2, <2>4 DEF MayHold, OwnSlots
  <2>6. \A x \in DOMAIN u : MayHold(x, u[x])
    BY <2>1, <2>5, NothingMayBeHeld
  <2>7. Reply(Tells(t, o), u)
    BY <1>3 DEF u
  <2> QED
    BY <1>3, <2>3, <2>6, <2>7, RepliesWithoutStore
<1>4. \A name : get_object(t, name) \subseteq Data[t]
  BY DEF get_object
<1> QED
  BY <1>1, <1>2, <1>3, <1>4 DEF QueryAttribute

LEMMA RunsAreTyped ==
  ASSUME TypeInv, Run
  PROVE  TypeInv'
<1>0. TypeSlots
  BY TypeInvImpliesTypeOK DEF TypeInv, SlotsInv, TypeOK, TypeSlots, OwnSlots
<1>1. CASE object_type # None /\ QueryObjects(object_type)
  BY <1>0, <1>1, TypeOfTheRun, ListsAreTyped
<1>2. CASE object_type # None /\ QueryAttribute(object_type)
  BY <1>0, <1>2, TypeOfTheRun, AnswersAreTyped
<1>3. CASE FollowsUp /\ QueryAttribute(slots.last_object_type)
  <2>1. slots.last_object_type \in Type
    BY <1>0, <1>3 DEF FollowsUp, TypeSlots
  <2> QED
    BY <1>3, <2>1, AnswersAreTyped
<1>4. CASE Reply(Reads("rephrase"), <<>>) /\ UNCHANGED <<order, shown>>
  <2>1. \A x \in DOMAIN <<>> : MayHold(x, <<>>[x])
    OBVIOUS
  <2>2. Reads("rephrase").kind = "rephrase"
    BY DEF Reads
  <2> QED
    BY <1>4, <2>1, <2>2, RepliesWithoutStore
<1> QED
  BY <1>1, <1>2, <1>3, <1>4 DEF Run

LEMMA TypeStep ==
  ASSUME TypeInv, [Next]_vars
  PROVE  TypeInv'
<1>1. CASE Say
  BY <1>1, MessagesAreTyped
<1>2. CASE Run
  BY <1>2, RunsAreTyped
<1>3. ASSUME NEW t \in Type, OthersList(t) PROVE TypeInv'
  <2>1. StoreInv'
    BY <1>3 DEF OthersList, TypeInv, StoreInv
  <2>2. SlotsInv'
    BY <1>3 DEF OthersList, TypeInv, SlotsInv, MayHold
  <2>3. TurnInv'
    BY <1>3 DEF OthersList, TypeInv, TurnInv
  <2> QED
    BY <2>1, <2>2, <2>3 DEF TypeInv
<1>4. CASE UNCHANGED vars
  BY <1>4 DEF vars, TypeInv, StoreInv, SlotsInv, TurnInv, MayHold
<1> QED
  BY <1>1, <1>2, <1>3, <1>4 DEF Next

LEMMA TypeInitially ==
  ASSUME Init
  PROVE  TypeInv
<1>1. StoreInv
  BY DEF Init, StoreInv
<1>2. DOMAIN slots = OwnSlots \cup Entities /\ \A x \in DOMAIN slots : slots[x] = None
  BY DEF Init
<1>3. SlotsInv
  BY <1>2, NothingMayBeHeld DEF SlotsInv
<1>4. shown.keys \in Seq(Nat)
  <2>1. shown.keys = <<>>
    BY DEF Init
  <2> QED
    BY <2>1
<1>5. said \in (SUBSET Entities) \cup {None}
  BY DEF Init
<1>6. answer.kind = "nothing"
  BY DEF Init, Reads
<1>7. shown.type = None
  BY DEF Init
<1>8. TurnInv
  BY <1>4, <1>5, <1>6, <1>7 DEF TurnInv
<1> QED
  BY <1>1, <1>3, <1>8 DEF TypeInv

\* Every slot holds what its entity or the action puts there, and every run
\* gives one of the answers (knowledge_base/actions.py:80-303).
THEOREM TypeCorrect == Spec => []TypeOK
<1>1. Init => TypeInv
  BY TypeInitially
<1>2. TypeInv /\ [Next]_vars => TypeInv'
  BY TypeStep
<1>3. TypeInv => TypeOK
  BY TypeInvImpliesTypeOK
<1> QED
  BY <1>1, <1>2, <1>3, PTL DEF Spec

-----------------------------------------------------------------------------
(* Names.                                                                  *)

\* A name that was just said is in its slot.
NamesInv == said # None => \A t \in Named : t \in said => slots[t] \in Word

LEMMA MessagesSetNames ==
  ASSUME Say
  PROVE  NamesInv'
<1>1. PICK t \in Maybe("object_type", Type), a \in Maybe("attribute", Attribute),
           m \in Maybe("mention", Mentions),
           f \in {<<>>} \cup UNION {Maybe(b, Value) : b \in Attribute},
           n \in {<<>>} \cup UNION {Maybe(s, Word) : s \in Named} :
        /\ said' = DOMAIN Over(t, Over(a, Over(m, Over(f, n))))
        /\ slots' = Over(Over(t, Over(a, Over(m, Over(f, n)))), slots)
  BY DEF Say
<1> DEFINE rest    == Over(t, Over(a, Over(m, Over(f, n))))
<1>2. /\ DOMAIN t \subseteq {"object_type"} /\ DOMAIN a \subseteq {"attribute"}
      /\ DOMAIN m \subseteq {"mention"} /\ DOMAIN f \subseteq Attribute
  BY OfOneEntity
<1>3. \A x \in DOMAIN n : n[x] \in Word
  BY OfOneEntity
<1>4. SUFFICES ASSUME NEW s \in Named, s \in said'
               PROVE  slots'[s] \in Word
  BY DEF NamesInv, Named
<1>5. s \notin DOMAIN t /\ s \notin DOMAIN a /\ s \notin DOMAIN m /\ s \notin DOMAIN f
  BY <1>2, SlotAssumption DEF OwnSlots, Named
<1>6. s \in DOMAIN n /\ rest[s] = n[s]
  BY <1>1, <1>4, <1>5 DEF Over
<1>7. slots'[s] = rest[s]
  <2>1. s \in DOMAIN rest
    BY <1>1, <1>4
  <2>2. slots' = Over(rest, slots)
    BY <1>1
  <2> HIDE DEF rest
  <2> QED
    BY <2>1, <2>2 DEF Over
<1> QED
  BY <1>3, <1>6, <1>7

\* A run answers the message.
LEMMA RunsAnswer ==
  ASSUME Run
  PROVE  said' = None
<1>1. \A t : QueryObjects(t) => said' = None
  BY DEF QueryObjects, Raise, Reply
<1>2. \A t : QueryAttribute(t) => said' = None
  BY DEF QueryAttribute, Raise, Reply
<1> QED
  BY <1>1, <1>2 DEF Run, Reply

LEMMA NamesStep ==
  ASSUME NamesInv, [Next]_vars
  PROVE  NamesInv'
<1>1. CASE Say
  BY <1>1, MessagesSetNames
<1>2. CASE Run
  BY <1>2, RunsAnswer DEF NamesInv
<1>3. ASSUME NEW t \in Type, OthersList(t) PROVE NamesInv'
  BY <1>3 DEF OthersList, NamesInv, Named
<1>4. CASE UNCHANGED vars
  BY <1>4 DEF vars, NamesInv, Named
<1> QED
  BY <1>1, <1>2, <1>3, <1>4 DEF Next

\* The run asks for an attribute of an object of the type whose name was said.
LEMMA NamedRunsAsk ==
  ASSUME Run, AsksByName, slots.object_type \in {None, Matched}, answer'.kind = "value"
  PROVE  QueryAttribute(Matched)
<1>1. object_type = Matched /\ Matched # None
  BY DEF object_type, AsksByName
<1>2. ~QueryObjects(Matched)
  BY ListsGiveNoValue
<1> QED
  BY <1>1, <1>2 DEF Run, AsksByName

\* An object that is found has the name as its key or in its representation.
LEMMA FoundByName ==
  ASSUME NEW t, NEW name, NEW o \in get_object(t, name)
  PROVE  name \in o.words \cup {o.key}
BY DEF get_object

LEMMA NamesAreAnswered ==
  ASSUME NamesInv, Run, AsksByName, slots.object_type \in {None, Matched},
         slots.mention = None, answer'.kind = "value"
  PROVE  /\ answer'.type = Matched
         /\ slots[Matched] \in answer'.object.words \cup {answer'.object.key}
<1>1. QueryAttribute(Matched)
  BY NamedRunsAsk
<1>2. PICK name \in get_object_name :
        \E o \in get_object(Matched, name) : answer' = Tells(Matched, o)
  <2>1. ~Raise
    BY DEF Raise, Reply, Reads
  <2>2. ~Reply(Reads("rephrase"), [mention |-> None])
    BY DEF Reply, Reads
  <2>3. \A o : Reply(Tells(Matched, o), AnsweredSlots(Matched, o)) => answer' = Tells(Matched, o)
    BY DEF Reply
  <2> QED
    BY <1>1, <2>1, <2>2, <2>3 DEF QueryAttribute
<1>3. PICK o \in get_object(Matched, name) : answer' = Tells(Matched, o)
  BY <1>2
<1>4. Matched \in Named /\ Matched \in said
  BY DEF AsksByName, Matched
<1>5. slots[Matched] # None
  BY <1>4, WordAssumption DEF NamesInv, Run
<1>6. object_type = Matched
  BY DEF object_type, AsksByName
<1>7. name = slots[Matched]
  BY <1>2, <1>4, <1>5, <1>6 DEF get_object_name
<1>8. answer'.type = Matched /\ answer'.object = o
  BY <1>3 DEF Tells
<1>9. name \in o.words \cup {o.key}
  BY <1>3, FoundByName
<1> QED
  BY <1>7, <1>8, <1>9

\* A message that names its object is answered about an object the name fits,
\* whatever earlier turns left in the other slots, unless that is a mention or
\* another object type (knowledge_base/utils.py:61-112, actions.py:225-300).
THEOREM NamesDecideHolds == Spec => NamesDecide
<1>1. Init => NamesInv
  BY DEF Init, NamesInv
<1>2. NamesInv /\ [Next]_vars => NamesInv'
  BY NamesStep
<1>3. NamesInv /\ [Next]_vars =>
        [(answer'.kind = "value" /\ Run /\ AsksByName
            /\ slots.mention = None /\ slots.object_type \in {None, Matched}) =>
           /\ answer'.type = Matched
           /\ slots[Matched] \in answer'.object.words \cup {answer'.object.key}]_vars
  BY NamesAreAnswered
<1> QED
  BY <1>1, <1>2, <1>3, PTL DEF Spec, NamesDecide

=============================================================================
