SPECIFICATION MCSpec
CONSTANTS
  Models = {m1}
  Grants = {"approved", "rejected", "shadow"}
  MayFail = FALSE
  MayCrash = FALSE
  MaxHistory = 4
  A = A
  B = B
  NoBar = NoBar
  Instruments = {A, B}
  MaxDay = 8
  Closed <- MCClosedHoliday
  Prices <- MCPrices
  Stop = 3
  Target = 6
  Horizon = 2
  TargetFirst = FALSE
  Order <- MCOrder
  Splits = 2
  Embargo = 1
INVARIANT
  TrainingIsPurged
CHECK_DEADLOCK FALSE
