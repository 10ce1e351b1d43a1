SPECIFICATION Spec
CONSTANTS
  a = a
  b = b
  t1 = t1
  t2 = t2
  t3 = t3
  v1 = v1
  v2 = v2
  Sessions = {a, b}
  NoSession = NoSession
  Existing = {a}
  Turns = {t1}
  SessionOf <- OneEach
  Views = {v1, v2}
  NoView = NoView
  Versions = 1
  MaxActs = 4
  OneAtATime = FALSE
  CanStop = TRUE
  CanLose = TRUE
CHECK_DEADLOCK FALSE
INVARIANTS ShownIsCommitted HearsOnlyCurrent
