SPECIFICATION FairSpec
CONSTANTS
  Null = Null
  VRange = 2
  K = 1
  N200 = 2
  N200Est = 1
  Reestablish = FALSE
  UseT203 = FALSE
  MaxF = 2
  Short <- ShortSegments
  Acch = FALSE
  Polling = TRUE
  Mode = "user"
  Active = {0}
  Chans = {1}
  Tas = {0}
  Frames <- SomeFrames
  Messages <- SomeMsgs
  Msgs <- RslMessages
  MaxCalls = 1
  MaxQ = 2
INVARIANTS CommandKept HasContext
PROPERTIES Implements Acknowledged Progress
CHECK_DEADLOCK FALSE
