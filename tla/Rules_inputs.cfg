SPECIFICATION Spec
CONSTANTS
  None = None
  Inputs <- MCInputs
  Tag = {"a", "b"}
  Member = {"m1", "m2"}
  ForeignCurrency = {"usd"}
  MaxLines = 2
  MaxToday = 1
  MaxDrafts = 2
  MaxDebts = 1
  MaxHits = 2
  WindowSeconds = 2
  Chunk2Parts = 2
  Chunk3Parts = 4
  ChunkMaxChars = 7
  MaxParts = 3
  Threshold = 85
CHECK_DEADLOCK FALSE
INVARIANTS
  DoublesAreFound
  SpendingIsKept
  TotalsTellTheTruth
  PeriodIsPast
  AmountsRoundTrip
  ReportAddsUp
  AnswersAgree
  WindowIsBounded
  SplitKeepsAll
  BestTagIsApplied
