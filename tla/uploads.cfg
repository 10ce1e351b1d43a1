SPECIFICATION Spec
CONSTANTS
  a = a
  b = b
  f1 = f1
  f2 = f2
  f3 = f3
  t1 = t1
  t2 = t2
  Sessions = {a, b}
  NoSession = NoSession
  Files = {f1, f2, f3}
  Unfit = {f3}
  Turns = {t1, t2}
  MaxDirs = 1
CHECK_DEADLOCK FALSE
SYMMETRY FileSymmetry
INVARIANTS
  TypeOK
  MessageOwnsItsFiles
  PromptIsReadable
  EarlierFilesReadable
  AttachedOnce
  RefusedStaysOut
