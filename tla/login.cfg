SPECIFICATION FairSpec
CONSTANTS
  l1 = l1
  l2 = l2
  k1 = k1
  k2 = k2
  k3 = k3
  r1 = r1
  r2 = r2
  Logins = {l1, l2}
  NoLogin = NoLogin
  Codes = {k1, k2, k3}
  CodeFor <- TwoAndOne
  Requests = {r1, r2}
  NoFile = NoFile
CHECK_DEADLOCK FALSE
INVARIANTS
  TypeOK
  PublishedIsWhole
  AcceptedIsStored
  StartedLoginKept
  LoginCompletesOnce
PROPERTIES
  ConnectingEnds
