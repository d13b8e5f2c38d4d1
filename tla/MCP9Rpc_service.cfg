\* Three callers under fair scheduling, with room on the connection for all
\* their requests and replies.
SPECIFICATION FairSpec
CONSTANTS
  Thread = {t1, t2, t3}
  NoThread = NoThread
  NoMsg = NoMsg
  NTags = 3
  Kinds = {"match"}
  Faults = {}
  TagReuse = FALSE
  OutCap = 2
  InCap = 3
PROPERTIES ImplementsFairService
