\* The guarantee of _run, against an action that ends in a CancelledError.
SPECIFICATION Spec
CONSTANTS
  RPC = {r1}
  MaxCalls = 2
INVARIANTS
  TerminalEventGuaranteed
