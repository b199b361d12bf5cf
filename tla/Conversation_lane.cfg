SPECIFICATION Spec
CONSTANTS
  Thing = {t1, t2}
  DailyLimit = 1
  MaxParts = 2
  MaxInputs = 1
  TelegramFails = TRUE
  ModelFails = TRUE
  CanCrash = TRUE
SYMMETRY Symmetry
INVARIANTS
  NoEmptyPromise
  TwiceOnlyAfterBreak
  NothingHidden
  HintIsFresh
  OvershootBounded
