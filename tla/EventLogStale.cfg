CONSTANTS
  Proc = {p1, p2}
  NoProc = NoProc
  MaxStale = 1
  MaxCrash = 0
  Event = {e1, e2}
  NoEvent = NoEvent
  MaxCalls = 3
SPECIFICATION Spec
INVARIANTS
  SequencesAreMonotonic
CHECK_DEADLOCK FALSE
