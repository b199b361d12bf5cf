SPECIFICATION FairSpec
CONSTANTS
  MaxTxn = 1
  MaxDebt = 1
  Clar = {c1}
  Amount = {0, 1}
  MaxSettled = 1
  Party = {p1}
  None = None
  CanCrash = TRUE
  LostReplies = TRUE
CHECK_DEADLOCK FALSE
INVARIANTS
  StatusIsTrue
  RemindedOnce
  AnswerBecomesOneRow
PROPERTY IncompleteIsAskedFor
