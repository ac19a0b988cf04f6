-------------------------- MODULE MCFormValidation --------------------------
(* Instances of FormValidation for TLC.                                     *)
EXTENDS FormValidation

CONSTANTS a, b

BothSlots == {a, b}
InOrder   == <<a, b>>

\* The form's action and the one for global slots have methods of their own.
Extracted == [isForm \in BOOLEAN |-> IF isForm THEN {b} ELSE {}]
Checked   == [isForm \in BOOLEAN |-> IF isForm THEN {a, b} ELSE {b}]

=============================================================================
