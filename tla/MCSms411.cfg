SPECIFICATION FairSpec
CONSTANTS
  Destroy = TRUE
  MaxRetr = 1
  MaxSubmit = 2
  MaxLoss = 1
  Strange = {"WRONG_WAY"}
INVARIANTS ReportsTrue Orderly
PROPERTY Finishes
CHECK_DEADLOCK FALSE
