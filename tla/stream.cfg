SPECIFICATION FairSpec
CONSTANTS
  m1 = m1
  m2 = m2
  x = x
  y = y
  k = k
  NoId = NoId
  NoText = NoText
  NoCall = NoCall
  Lines <- SomeLines
  Calls = {k}
  MaxLines = 3
  PipeSize = 1
CHECK_DEADLOCK FALSE
INVARIANTS
  TypeOK
  ReadToTheEnd
  EveryChangeIsShown
  OutcomeIsTheClis
  OnlyExceptionsLeaveTheCli
PROPERTIES
  ImplementsLog
  StreamEnds
