\* The barge-in promise, against an action that opens a second response.
SPECIFICATION Spec
CONSTANTS
  RPC = {r1}
  MaxCalls = 4
PROPERTIES
  AckStopsChunks
