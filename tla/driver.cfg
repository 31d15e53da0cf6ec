SPECIFICATION LiveSpec
CONSTANTS
  MaxSeq = 6
  MaxConnects = 2
INVARIANTS TypeOK OnlyOwnReplyUnderWay NoCommandBeforeAuth
PROPERTIES FailStop RequestEnds ImplementsRpc
CHECK_DEADLOCK FALSE
