SPECIFICATION FairSpec
CONSTANTS
  Texts = {t1}
  Voices = {v1}
  Photos = {p1}
  NoItem = NoItem
  MorningRuns = TRUE
  DailyLimit = 2
  MaxWeight = 1
  CanCrash = TRUE
  LateFailure = TRUE
  DownloadFails = TRUE
  EntryMissed = TRUE
  MaxRecords = 2
CHECK_DEADLOCK FALSE
INVARIANTS
  AcceptedIsKept
  OnceUndisturbed
PROPERTY QueueDrains
