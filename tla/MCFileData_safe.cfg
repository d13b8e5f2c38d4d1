\* Two threads; a message has room for one to three bytes of data.
SPECIFICATION Spec
CONSTANTS
  Threads = {t1, t2}
  ReadOnly = {TRUE, FALSE}
  Limits = {27}
  Iounits = {0, 25}
  Word = 256
  Inline = 1
  Counts = {4}
  Faults = {"refuse", "nomem"}
  StatTime = 1
  Latency = 1
  StatOverlaps = FALSE
  MaxCalls = 3
  MaxRivals = 1
  MaxTime = 7
CHECK_DEADLOCK FALSE
INVARIANTS SequentialAccess FitsMessage BufferFits NeverEmpty StatFresh ReadYourChanges
