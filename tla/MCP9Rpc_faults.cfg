\* Two callers, connection loss, interruption, tags reused while in flight.
SPECIFICATION Spec
CONSTANTS
  Thread = {t1, t2}
  NoThread = NoThread
  NoMsg = NoMsg
  NTags = 2
  Kinds = {"match"}
  Faults = {"down", "cancel"}
  TagReuse = TRUE
  OutCap = 2
  InCap = 1
SYMMETRY ThreadSymmetry
CHECK_DEADLOCK FALSE
INVARIANTS StreamMutex FlushedBeforeWaiting
