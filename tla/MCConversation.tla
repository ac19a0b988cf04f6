--------------------------- MODULE MCConversation ---------------------------
(* An instance of Conversation for TLC.                                     *)
EXTENDS Conversation, TLC

City(role, group) == [role |-> role, group |-> group, entity |-> "city"]

\* A message as meant, a fallback in front of it, and a fallback that was not
\* ranked (tests/test_tracker.py:143-146), with entities that have a role, a
\* group, both or neither.
SomeMessages ==
  {[intent |-> "stop", intent_ranking |-> <<"stop", "inform">>,
    entities |-> <<City("none", "first"), City("to", "none")>>],
   [intent |-> NLU_FALLBACK_INTENT_NAME,
    intent_ranking |-> <<NLU_FALLBACK_INTENT_NAME, "inform">>,
    entities |-> <<City("none", "none"), City("to", "first")>>],
   [intent |-> NLU_FALLBACK_INTENT_NAME, intent_ranking |-> <<>>, entities |-> <<>>]}

\* Before and after the form was removed.
TwoDomains == {[f \in {"booking"} |-> {"stop"}], [f \in {} |-> {}]}

\* Nothing depends on which action or which channel it is.
Symmetry == Permutations(Actions) \cup Permutations(Channels)

=============================================================================
