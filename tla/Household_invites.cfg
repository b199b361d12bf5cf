SPECIFICATION Spec
CONSTANTS
  User = {a, b, c}
  Allowed = {a, b}
  Token = {t1, t2, t3}
  Entry = {e1}
  None = None
  MaxHouseholds = 3
  CanCrash = TRUE
CHECK_DEADLOCK FALSE
SYMMETRY Symmetry
INVARIANTS
  NoEntryStranded
  HouseholdsArePeopled
  StrangersOwnNothing
PROPERTIES
  AccessIsKept
  RightComesFromInvite
