\* The server closes the connection while callers wait.
SPECIFICATION FairSpec
CONSTANTS
  Thread = {t1, t2}
  NoThread = NoThread
  NoMsg = NoMsg
  NTags = 2
  Kinds = {"match"}
  Faults = {"down"}
  TagReuse = FALSE
  OutCap = 2
  InCap = 2
PROPERTIES SleepersAreWoken
