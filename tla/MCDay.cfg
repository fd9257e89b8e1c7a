SPECIFICATION Spec
CONSTANTS
  A = A
  B = B
  C = C
  D = D
  Nobody = Nobody
  NoFigure = NoFigure
  Blank = Blank
  Names = {A, B, C, D}
  MinEdge = 1
  ExitEdge = 0
  Margin = 1
  MaxPositions = 2
  TargetWeight = 10
  Keys = {"chat"}
  Limit = 2
  Window = 2
  Lookback = 1
  VolumeWindow = 1
  LiquidityWindow = 1
  VolWindow = 2
  MinTurnover = 100
  MinVolumeRatio = 150
  MinMomentum = 0
  RiskLimits <- MCRiskLimits
  Sizing <- MCSizing
  ListLimit = 100
  DayLimit = 500
  Alerts = {}
  Quiet <- MCNoQuiet
  Hours = {0}
  MaxAudit = 0
  Registered <- MCRegistered
  Environments <- MCEnvironments
  Markets <- MCMarkets
  Forecasts <- MCForecasts
  Order <- MCOrder
  TrainDays = {2, 3}
  MinBars = 3
  PaperDays = {3, 4}
  LastDay = 5
  Quantities <- MCQuantities
  StartCash = 600
  DefaultEdges <- MCDefaultEdges
  TopK = 5
  Spread = 20
  Manipulation = 10
  Uncertainty = 30
  Expiry = 5
  StopPct = 3
  TargetPct = 6
  HoldingSessions = 2
  MaxFaults = 1
  MaxClock = 4
  MaxChats = 5
  MaxRuns = 1
  MaxNotes = 1
  Noted = {A}
  Given = {"useful", "liked"}
INVARIANTS
  PlanIsSound
  PlanIsBest
  OnlyApprovedIsShown
  ViewsTellTheSameDay
  TwiceTheLimit
CHECK_DEADLOCK FALSE
