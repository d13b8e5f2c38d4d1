\* A node mapped again after the pager's fid could not be walked.
SPECIFICATION Spec
CONSTANTS
  Threads = {t1, t2}
  Protids = {p1, p2}
  Versions = {"core", "L"}
  ReadOnly = {TRUE, FALSE}
  SyncOverlaps = FALSE
  Overreports = FALSE
  MaxCalls = 3
CHECK_DEADLOCK FALSE
INVARIANTS AssertionsHold
