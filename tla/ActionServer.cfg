\* Start-up with up to two servers, then one call whose action speaks up to
\* four times and returns at most one event.
SPECIFICATION Spec
CONSTANTS
  MaxSaid = 4
  MaxEvents = 1
  MaxStarts = 2
\* The call ends with its answers.
CHECK_DEADLOCK FALSE
INVARIANTS
  TypeOK
  EverythingSaidArrives
  SameAccount
  TerminalEventIsLast
  TracedOnce
