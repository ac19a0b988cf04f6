\* The order in which candidates are validated.
SPECIFICATION Spec
CONSTANTS
  a = a
  b = b
  Slot <- BothSlots
  Value = {v1, v2}
  None = None
  DomainOrder <- InOrder
  FormMapped = {b}
  FormSlots <- InOrder
  Extracts <- Extracted
  Validates <- Checked
INVARIANTS
  ValidatedInRequestedOrder
