SPECIFICATION Spec
CONSTANTS
  User = {a, b, c}
  Allowed = {a, b}
  Token = {t1, t2}
  Entry = {e1}
  None = None
  MaxHouseholds = 3
  CanCrash = FALSE
CHECK_DEADLOCK FALSE
SYMMETRY Symmetry
INVARIANT LedgerFollowsRecorder
