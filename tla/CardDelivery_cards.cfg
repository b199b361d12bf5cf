SPECIFICATION FairSpec
CONSTANTS
  MaxTxn = 3
  MaxBatch = 2
  MaxMessages = 2
  TelegramFails = TRUE
  LostReplies = TRUE
  CanCrash = TRUE
CHECK_DEADLOCK FALSE
INVARIANTS
  RememberedCardWorks
  OriginalsExist
  OneToOne
PROPERTY CardArrives
