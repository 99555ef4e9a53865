SPECIFICATION FairSpec
CONSTANTS
  Links <- Downlink
  Unnumbered <- SysInfo
  Span = 16
  MaxFrag = 3
  MaxLost = 1
  MaxAgain = 1
INVARIANTS Intact NoGap
PROPERTY Resync
