SPECIFICATION Spec
CONSTANTS
  Request = {r1, r2}
  Conn = {c1, c2}
  NoRequest = NoRequest
  DailyLimit = 2
  CanCrash = FALSE
  LateFailure = FALSE
  MaxRecords = 2
CHECK_DEADLOCK FALSE
INVARIANT AlreadyMeansDone
