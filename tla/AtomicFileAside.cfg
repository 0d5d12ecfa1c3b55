CONSTANTS
  Proc = {p1, p2}
  NoProc = NoProc
  MaxStale = 0
  MaxCrash = 0
  Missing = Missing
  MaxCalls = 3
  MaxDenied = 3
SPECIFICATION Spec
INVARIANTS
  NeverStartsOver
CHECK_DEADLOCK FALSE
