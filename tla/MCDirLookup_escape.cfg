\* Paths that leave the root.
SPECIFICATION Spec
CONSTANTS
  MAX_PARTS = 2
  Requests <- PlainRequests
  Contested = {}
  Faults = {}
  ReadOnly = {FALSE}
  MaxLookups = 1
INVARIANTS EscapeDetected
