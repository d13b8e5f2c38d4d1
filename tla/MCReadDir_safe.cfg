\* Four entries in blocks of at most three, and replies with room for any entry.
\* Clients also ask for entries before the first and beyond the last, and for -2 of them.
SPECIFICATION Spec
CONSTANTS
  Entries = 4
  Block = 3
  RecLen <- Lengths
  FirstEntries <- AnyFirst
  Counts <- AnyCount
  BufSizes = {0, 2, 3}
  Versions = {"core", "L"}
  Faults = {"read", "open", "parse", "buffer"}
  Retried = {"read", "parse"}
INVARIANTS RightEntries EmptyMeansEnd WithinLimits OffsetContinues
PROPERTIES CallsReturn
