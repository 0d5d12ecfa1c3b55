CONSTANTS
  Proc = {p1, p2, p3}
  NoProc = NoProc
  MaxStale = 1
  MaxCrash = 1
  Missing = Missing
  MaxCalls = 3
  MaxDenied = 3
SPECIFICATION Spec
INVARIANTS
  TypeOK
  NothingAcknowledgedIsLost
PROPERTIES
  ChangesByOneCall
CHECK_DEADLOCK FALSE
