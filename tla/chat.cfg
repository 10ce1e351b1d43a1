SPECIFICATION FairSpec
CONSTANTS
  a = a
  b = b
  t1 = t1
  t2 = t2
  t3 = t3
  v1 = v1
  v2 = v2
  Sessions = {a, b}
  NoSession = NoSession
  Existing = {}
  Turns = {t1, t2, t3}
  SessionOf <- TwoAndOne
  Views = {v1}
  NoView = NoView
  Versions = 2
  MaxActs = 6
  OneAtATime = TRUE
  CanStop = FALSE
  CanLose = FALSE
CHECK_DEADLOCK FALSE
INVARIANTS TypeOK SettledViewIsExact
PROPERTIES TurnIsSeenToEnd
