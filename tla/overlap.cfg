CONSTANTS
  s1 = s1
  s2 = s2
  u1 = u1
  u2 = u2
  r1 = r1
  r2 = r2
  r3 = r3
  p1 = p1
  p2 = p2
  NoRun = NoRun
  NoPid = NoPid
  Sessions = {s1}
  Owner <- OneSession
  Users = {u1}
  Managers = {}
  Runs = {r1, r2}
  Pids = {p1, p2}
  MaxRuns = 0
  HttpWorkers = 2
  Timeout = 1
  Slack = 0
  MaxUnremoved = 1
SPECIFICATION Spec
SYMMETRY RunAndPidSymmetry
INVARIANTS
  TypeOK
  RunningHasSupervisor
  TurnCountExact
  CleanAfterRun
PROPERTIES
  SendSerialised
  LedgerSpec
  ReapOnlyExpired
  SignalsMeetTheirCli
