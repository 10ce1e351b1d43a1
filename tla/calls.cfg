CONSTANTS
  c1 = c1
  c2 = c2
  t1 = t1
  t2 = t2
  read = read
  write = write
  sql = sql
  web = web
  other = other
  sale = sale
  hr = hr
  NoTurn = NoTurn
  ReadTools = {read, sql}
  WriteTools = {write}
  WebTools = {web}
  SqlTool = sql
  BridgeDefault = {read}
  OtherNames = {other}
  Models = {sale, hr}
  Calls = {c1, c2}
  Turns = {t1, t2}
  TurnOf <- FirstTurn
  ToolOf <- AllWrite
  ModelOf <- AllOnSale
  SelfDeleting = {c2}
  Policies <- Settings
  Ttl = 0
  MaxTries = 2
  MaxTime = 1
SPECIFICATION Spec
INVARIANTS
  TypeOK
  SuccessIsDurable
  EffectIsTraceable
  AbandonedCallReported
PROPERTIES ImplementsGate
CHECK_DEADLOCK FALSE
