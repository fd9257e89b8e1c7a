SPECIFICATION MCSpec
CONSTANTS
  Keys <- MCKeys
  Values = {"x", "y"}
  Feeds <- MCFeeds
  Retries = 1
  MaxVersions = 3
  MaxDay = 2
  MayCrash = TRUE
  Closes = {0, 1, 3, 4}
  Volumes = {5}
  KnownActions <- MCActions
  Outlying = 50
  MaxStale = 1
  MaxRows = 3
  MaxDate = 4
INVARIANTS
  CorrectionsChain
  ReplayIsFaithful
  LoadedFeedIsLatest
  RetriesAddOnce
  AdjustmentIsExact
PROPERTIES
  HistoryGrows
  PastReturnsStay
CHECK_DEADLOCK FALSE
