SPECIFICATION FairSpec
CONSTANTS
  sock1 = sock1
  sock2 = sock2
  Conns = {sock1, sock2}
  MaxFail = 3
  Fields = {"name"}
  Failures = {"mkstemp", "unlink", "link", "chmod"}
INVARIANTS LineShown CommandsAgree OneConfigures ConfigKept
PROPERTY Delivered
CHECK_DEADLOCK FALSE
