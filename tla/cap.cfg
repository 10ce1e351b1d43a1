CONSTANTS
  s1 = s1
  s2 = s2
  u1 = u1
  u2 = u2
  r1 = r1
  r2 = r2
  r3 = r3
  p1 = p1
  p2 = p2
  NoRun = NoRun
  NoPid = NoPid
  Sessions = {s1, s2}
  Owner <- TwoSessionsOneUser
  Users = {u1}
  Managers = {}
  Runs = {r1, r2, r3}
  Pids = {}
  MaxRuns = 1
  HttpWorkers = 2
  Timeout = 0
  Slack = 0
  MaxUnremoved = 0
SPECIFICATION Spec
SYMMETRY RunSymmetry
INVARIANTS
  SoftCapBound
