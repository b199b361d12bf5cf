SPECIFICATION Spec
CONSTANTS
  Topic = {a, b}
  Limit = {5}
  None = None
  MaxGoals = 1
  Sum = {0, 4, 5}
  Member = {m1, m2}
  Task = {t1, t2}
  LostReplies = TRUE
  CanCrash = TRUE
  MaxAlerts = 2
CHECK_DEADLOCK FALSE
SYMMETRY Symmetry
INVARIANTS
  ActiveIsComplete
  LevelWasDelivered
  AlertOnce
PROPERTY LevelNeverDrops
