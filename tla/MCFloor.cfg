SPECIFICATION MCFairSpec
CONSTANTS
  A = A
  B = B
  None = None
  NoData = NoData
  doc = doc
  notice = notice
  p1 = p1
  p2 = p2
  p3 = p3
  q1 = q1
  q2 = q2
  q3 = q3
  Pages = {p1, p2, p3}
  Questions = {q1, q2, q3}
  Instruments = {A, B}
  Traded = {A}
  About <- MCAbout
  Ids = {doc, notice}
  Stored <- MCStored
  Filing <- MCFiling
  Data <- MCData
  Analysts = {"news", "sentiment"}
  Debaters = {"bull"}
  Reviewing = TRUE
  QueueMayFail = TRUE
INVARIANTS
  TypeOK
  PagesAreWhole
  ShownIsGrounded
  DebateIsReviewed
PROPERTIES
  SettledPageStays
  EveryRequestEnds
CHECK_DEADLOCK FALSE
