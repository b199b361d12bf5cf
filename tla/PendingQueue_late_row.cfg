SPECIFICATION Spec
CONSTANTS
  Texts = {t1, t2}
  Voices = {}
  Photos = {}
  NoItem = NoItem
  MorningRuns = TRUE
  DailyLimit = 2
  MaxWeight = 2
  CanCrash = FALSE
  LateFailure = FALSE
  DownloadFails = FALSE
  EntryMissed = FALSE
  MaxRecords = 2
CHECK_DEADLOCK FALSE
INVARIANT AcceptedIsNeverLost
