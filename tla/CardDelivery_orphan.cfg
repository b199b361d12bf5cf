SPECIFICATION Spec
CONSTANTS
  MaxTxn = 2
  MaxBatch = 1
  MaxMessages = 3
  TelegramFails = FALSE
  LostReplies = FALSE
  CanCrash = FALSE
CHECK_DEADLOCK FALSE
INVARIANT DeletedHasNoLiveCard
