CONSTANTS
  Nil = Nil
  Base <- MCBase
  Traits <- MCTraits
  Includes <- MCIncludes
  Memory <- MCMemory
  TaskTerms = {}
  ContextShown = FALSE
  Edits <- MCEdits
  Tree <- MCTree
  Contents <- MCContents
  Heads <- MCHeads
  TreeHash <- MCTreeHash
  Command <- MCCommand
  Begins <- MCBegins
  Plans <- MCPlans
  Findings <- MCFindings
  OverBudget = {}
  StartTrees = {"base", "built", "committed"}
  Passes <- MCPasses
  Runs <- MCRuns
  Captured <- MCCaptured
  Named <- MCNamed
  ToldExits = {0}
  MaxLoops = 2
  MaxEdits = 1
  MaxSteps = 2
SPECIFICATION Spec
INVARIANTS
  TypeOK
  FinalizesTestedTrees
  ForbiddenNeverFinalizes
  FinalizesQuietIterations
PROPERTIES
  CapturedResultsAreKept
CHECK_DEADLOCK FALSE
