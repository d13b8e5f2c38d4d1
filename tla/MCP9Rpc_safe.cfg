\* Three callers, nothing fails but an allocation.
SPECIFICATION Spec
CONSTANTS
  Thread = {t1, t2, t3}
  NoThread = NoThread
  NoMsg = NoMsg
  NTags = 3
  Kinds = {"match", "error", "other"}
  Faults = {"nomem"}
  TagReuse = FALSE
  OutCap = 4
  InCap = 3
SYMMETRY ThreadSymmetry
INVARIANTS StreamMutex TokenHasHolder TableExact NoLostWakeup RightReply OutFramed
