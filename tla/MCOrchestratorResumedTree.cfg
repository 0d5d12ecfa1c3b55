CONSTANTS
  Proc = {p1}
  Modes = {"git-worktree"}
  LoopLimits = {2}
  Tree = {t0, t1}
  HeadTree = t0
  Evaluations <- MCEvaluations
  MaxCrashes = 1
  Nil = Nil
SPECIFICATION Spec
INVARIANTS
  ResumedWorktreeIsPersistedTree
