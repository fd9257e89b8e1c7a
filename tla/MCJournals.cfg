SPECIFICATION MCSpec
CONSTANTS
  A = A
  B = B
  Keys = {A, B}
  Values = {1, 2}
  Splitting = {2}
  Stores = {"documents", "features", "signals", "experiments"}
  Garbage = Garbage
  None = None
  MaxPuts = 4
  MaxLines = 3
  MaxFaults = 2
  Alerts <- MCAlerts
  Quiet <- Overnight
  Hours = {3, 12, 23}
  MaxAudit = 3
  NoBar = NoBar
  Instruments = {A, B}
  MaxDay = 6
  Closed <- MCClosed
  Prices <- MCPrices
  Stop = 3
  Target = 6
  Horizon = 2
  TargetFirst = FALSE
  Slippage = 1
  Fees = 1
  StartingCash = 100000
  SignalDays = {1}
  Quantities = {0, 2}
  MaxFills = 4
INVARIANTS
  IndexedHasRaw
  ReloadIsFaithful
  DedupeFollowsDelivery
  AccountReconciles
  NothingSoldShort
  TradesStayTrue
CHECK_DEADLOCK FALSE
