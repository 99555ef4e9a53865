SPECIFICATION Spec
CONSTANTS
  Links <- Call
  Unnumbered <- Reports
  Span = 16
  MaxFrag = 3
  MaxLost = 0
  MaxAgain = 0
INVARIANT Intact
