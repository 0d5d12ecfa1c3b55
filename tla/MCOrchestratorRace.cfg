CONSTANTS
  Proc = {p1, p2}
  Modes = {"none"}
  LoopLimits = {1, 2}
  Tree = {t0}
  HeadTree = t0
  Evaluations <- MCEvaluationsPlain
  MaxCrashes = 0
  Nil = Nil
SPECIFICATION Spec
INVARIANTS
  HistoryExact
  CopyIsCurrent
PROPERTIES
  LifecycleImplemented
