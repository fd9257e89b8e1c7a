SPECIFICATION MCFairSpec
CONSTANTS
  r1 = r1
  r2 = r2
  fast = fast
  mid = mid
  p1 = p1
  p2 = p2
  a = a
  b = b
  Requests = {r1, r2}
  Routes <- MCRoutes
  Tasks <- MCTasks
  Prompts = {p1, p2}
  Asks <- MCAsks
  Ids = {a, b}
  Policy <- MCPolicy
  Threshold = 2
  DefaultRegistry <- MCRegistry
  OperatorEntries <- MCOperator
  HasProvider = TRUE
  AuditMayFail = TRUE
  NoData = NoData
INVARIANTS
  TypeOK
  BreakerAgrees
  AnswersGrounded
  OneRunPerCall
  AuditAccounts
  AttemptsFollowPolicy
PROPERTIES
  UnusableRouteDrains
  KeepsContract
  EveryCallEnds
CHECK_DEADLOCK FALSE
