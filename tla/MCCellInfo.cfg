SPECIFICATION Spec
CONSTANTS
  Content = {c1, c2}
  None = None
  Word = 64
  Day = 16
  Interval = 3
  Times = {10, 13, 40}
  MaxId = 3
  MaxPaging = 2
  MaxFiles = 2
CHECK_DEADLOCK FALSE
INVARIANTS CellListConsistent PagingConserved
