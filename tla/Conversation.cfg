\* Up to seven events, two returned by an action, over two channels; two actions,
\* a form, three messages, two intents and all small mappings.  Readers of the
\* list treat a slot, an utterance and a loop alike: actions return loops only.
SPECIFICATION Spec
CONSTANTS
  Intents = {"inform", "stop"}
  Forms = {"booking"}
  MaxHistory = 7
  MaxReturned = 2
  LeftOut = {"bot", "slot"}
  Actions = {a, b}
  Channels = {web, phone}
  Messages <- SomeMessages
  Domains <- TwoDomains
\* The conversation ends at the bound.
CHECK_DEADLOCK FALSE
SYMMETRY Symmetry
INVARIANTS
  TypeOK
  ReplayIsTimeTravel
  LastActionIsTold
  MappingsFollowConditions
  MessageIsReadAlike
PROPERTIES
  RewindTakesOneTurn
