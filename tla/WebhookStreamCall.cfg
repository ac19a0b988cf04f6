\* One call whose action makes up to four streaming calls.
SPECIFICATION ServerSpec
CONSTANTS
  RPC = {r1}
  MaxCalls = 4
INVARIANTS
  TypeOK
  RegistryIsCurrent
  NoOrphanTask
  OpenResponsesAreReachable
  ChunksArriveInOrder
  TerminalEventPending
  ResultReachesClient
PROPERTIES
  SilentAfterDisconnect
  BargeInSilencesResponse
  BargeInIsBounded
  DisconnectFreesCall
  CallsEnd
  ImplementsProtocol
