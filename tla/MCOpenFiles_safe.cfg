\* Two threads and two protids; a client waits for its file_sync; the server may
\* say it wrote more than it was sent.
SPECIFICATION Spec
CONSTANTS
  Threads = {t1, t2}
  Protids = {p1, p2}
  Versions = {"core", "L"}
  ReadOnly = {TRUE, FALSE}
  SyncOverlaps = FALSE
  Overreports = TRUE
  MaxCalls = 3
CHECK_DEADLOCK FALSE
INVARIANTS LiveFidsOnly OpenForUse FidsOwned PagerServes RefsExact
PROPERTIES CallsReturn
