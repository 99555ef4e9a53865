SPECIFICATION FairSpec
CONSTANTS
  Msg = {m1, m2}
  NULL = NULL
  StartSid = 0
  MaxSid = 4
  MaxRows = 2
  MaxSms = 1
CHECK_DEADLOCK FALSE
INVARIANTS Ownership NoFault RowIdsUnique
PROPERTIES SmsFollowSession StartedIsReported
