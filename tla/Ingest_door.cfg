SPECIFICATION FairSpec
CONSTANTS
  Request = {r1, r2}
  Conn = {c1, c2}
  NoRequest = NoRequest
  DailyLimit = 2
  CanCrash = TRUE
  LateFailure = TRUE
  MaxRecords = 2
CHECK_DEADLOCK FALSE
INVARIANTS
  TwiceOnlyAfterError
  OvershootBounded
  SoleServer
PROPERTIES
  ReservationEnds
  ImplementsInbox
