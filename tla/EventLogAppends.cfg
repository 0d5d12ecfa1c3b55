CONSTANTS
  Proc = {p1, p2, p3}
  NoProc = NoProc
  MaxStale = 1
  MaxCrash = 1
  Event = {e1, e2}
  NoEvent = NoEvent
  MaxCalls = 3
SPECIFICATION FairSpec
INVARIANTS
  TypeOK
  ExclusiveUntilStolen
  LogIsExact
  AcknowledgedIsLogged
PROPERTIES
  CallsEnd
CHECK_DEADLOCK FALSE
