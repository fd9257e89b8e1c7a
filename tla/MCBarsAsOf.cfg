SPECIFICATION MCSpec
CONSTANTS
  Keys <- MCKeys
  Values = {"x", "y"}
  Feeds <- MCFeeds
  Retries = 1
  MaxVersions = 3
  MaxDay = 2
  MayCrash = FALSE
  Closes = {}
  Volumes = {}
  KnownActions <- NoActions
  Outlying = 50
  MaxStale = 1
  MaxRows = 0
  MaxDate = 0
PROPERTY
  AsOfReproduces
CHECK_DEADLOCK FALSE
