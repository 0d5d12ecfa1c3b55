CONSTANTS
  Proc = {p1}
  Modes = {"none", "git-worktree"}
  LoopLimits = {2, 3}
  Tree = {t0, t1}
  HeadTree = t0
  Evaluations <- MCEvaluationsAll
  MaxCrashes = 2
  Nil = Nil
SPECIFICATION FairSpec
INVARIANTS
  TypeOK
  TraceTellsTheLaunch
  DecisionFollowsFromArtifacts
  ReferencesResolve
  RelaunchOnlyAfterCrash
  WorktreeHasExecutorEdits
PROPERTIES
  RunCompletes
