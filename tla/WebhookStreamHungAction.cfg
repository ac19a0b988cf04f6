\* The barge-in promise of the changelog, against an action that hangs.
SPECIFICATION ServerSpec
CONSTANTS
  RPC = {r1}
  MaxCalls = 2
PROPERTIES
  AckedCallsEnd
