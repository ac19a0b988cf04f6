--------------------------- MODULE MCKnowledgeBase ---------------------------
(* An instance of KnowledgeBase for TLC.                                    *)
EXTENDS KnowledgeBase

CONSTANTS pasta, forni, inn, italian, mexican

\* Keys are unique in a type only.  One restaurant has no cuisine, one word
\* fits both restaurants, and of museums the store knows nothing.
Store ==
  [restaurant |-> {[key |-> 1, words |-> {pasta}, attrs |-> [cuisine |-> italian]],
                   [key |-> 2, words |-> {pasta, forni}, attrs |-> <<>>]},
   hotel      |-> {[key |-> 1, words |-> {inn}, attrs |-> [cuisine |-> mexican]]},
   museum     |-> {}]

=============================================================================
