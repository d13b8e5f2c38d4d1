\* Two lookups in a row, any request refused, any allocation failing, and
\* other clients making and removing the files that are to be created.
SPECIFICATION Spec
CONSTANTS
  MAX_PARTS = 2
  Requests <- AllRequests
  Contested <- CreatingRequests
  Faults = {"refuse", "nomem"}
  ReadOnly = {TRUE, FALSE}
  MaxLookups = 2
INVARIANTS LiveFidsOnly ResolvesInside FidMatchesNode FidsAccounted ExclusiveMeansNew SlashMeansDir
