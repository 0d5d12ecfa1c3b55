--------------------------- MODULE DecisionEngine ---------------------------
(***************************************************************************)
(* The pure part of the harness control plane: which action an evaluation  *)
(* of an iteration leads to (decision-engine.ts), and whether the run stops *)
(* after it (convergence.ts).  The operators are used by the orchestrator,  *)
(* which supplies the evaluations, and proved about in OrchestratorProofs. *)
(*                                                                         *)
(* A candidate is reduced to its action: its confidence and id only order   *)
(* candidates of equal priority, that is of the same action, and its        *)
(* reasons, commands and artifacts are carried along without being read.    *)
(***************************************************************************)
EXTENDS Naturals

\* HarnessDecisionAction with HARNESS_DECISION_PRIORITY.
Priority ==
  [ action \in {"no-progress", "max-loops-reached", "rollback",
                "executor-failure", "block", "repack", "repair", "run-tests",
                "human-review", "finalize"} |->
      CASE action = "no-progress"       -> 110
        [] action = "max-loops-reached" -> 105
        [] action = "rollback"          -> 100
        [] action = "executor-failure"  -> 95
        [] action = "block"             -> 90
        [] action = "repack"            -> 80
        [] action = "repair"            -> 70
        [] action = "run-tests"         -> 65
        [] action = "human-review"      -> 60
        [] action = "finalize"          -> 10 ]

Action == DOMAIN Priority

CheckpointModes == {"none", "git-worktree"}

GateAction == {"repack", "expand-context", "rollback", "human-review",
               "run-tests", "repair", "block", "run-regression-tests"}

\* Actions of the loop controller's blocking decisions.
LoopAction == {"rebuild-context", "replan", "repair-contracts",
               "add-or-update-tests", "expand-context", "run-tests",
               "human-review"}

(***************************************************************************)
(* What an evaluation says: forbidden policy findings, the actions of the  *)
(* blocked guard gates and of the blocking loop decisions, missing required *)
(* evidence with or without a command that would produce it, and risk.      *)
(***************************************************************************)
Evaluation ==
  [ forbidden : BOOLEAN,
    gates     : SUBSET GateAction,
    loop      : SUBSET LoopAction,
    required  : {"satisfied", "runnable", "not-runnable"},
    risk      : BOOLEAN ]

CleanEvaluation ==
  [ forbidden |-> FALSE, gates |-> {}, loop |-> {},
    required |-> "satisfied", risk |-> FALSE ]

\* A change that must not stay: only a sandboxed run can roll it back.
UndoAction(mode) == IF mode = "git-worktree" THEN "rollback" ELSE "block"

\* decisionForGate
GateDecision(gate, mode) ==
  CASE gate = "rollback"                               -> UndoAction(mode)
    [] gate = "block"                                  -> "block"
    [] gate \in {"repack", "expand-context"}           -> "repack"
    [] gate \in {"run-tests", "run-regression-tests"}  -> "run-tests"
    [] gate = "repair"                                 -> "repair"
    [] OTHER                                           -> "human-review"

\* actionForLoopDecision
LoopDecision(step) ==
  CASE step \in {"rebuild-context", "replan", "expand-context"} -> "repack"
    [] step \in {"repair-contracts", "add-or-update-tests"}     -> "repair"
    [] step = "run-tests"                                       -> "run-tests"
    [] OTHER                                                    -> "human-review"

\* The candidates that speak against finalizing (collectDecisionCandidates).
Objections(exit, e, mode) ==
  UNION { IF exit # 0 THEN {"executor-failure"} ELSE {},
          IF e.forbidden THEN {UndoAction(mode)} ELSE {},
          { GateDecision(gate, mode) : gate \in e.gates },
          { LoopDecision(step) : step \in e.loop },
          CASE e.required = "satisfied"    -> {}
            [] e.required = "runnable"     -> {"repair"}
            [] e.required = "not-runnable" -> {"human-review"},
          IF e.risk THEN {"human-review"} ELSE {} }

Candidates(exit, e, mode) ==
  IF Objections(exit, e, mode) = {} THEN {"finalize"} ELSE Objections(exit, e, mode)

\* arbitrateDecisionCandidates: the candidates that sort first.
Selected(candidates) ==
  { a \in candidates : \A b \in candidates : Priority[b] <= Priority[a] }

Blocking(action) == action # "finalize"

-----------------------------------------------------------------------------

ConvergenceStatus == {"progressing", "terminal", "repeated-state",
                      "max-loops-reached", "executor-failure"}

\* isTerminalAction
TerminalAction == {"finalize", "block", "rollback", "human-review",
                   "executor-failure", "no-progress", "max-loops-reached"}

(***************************************************************************)
(* evaluateConvergence.  A fingerprint is any value that determines the     *)
(* tree, the raw action and the open findings; the orchestrator builds it.  *)
(***************************************************************************)
Repeated(print, previous, action) == previous = print /\ Blocking(action)

Convergence(print, previous, action, exit, index, limit) ==
  CASE exit # 0                                    -> "executor-failure"
    [] exit = 0 /\ action \in TerminalAction       -> "terminal"
    [] exit = 0 /\ action \notin TerminalAction ->
         IF Repeated(print, previous, action) THEN "repeated-state"
         ELSE IF index = limit THEN "max-loops-reached"
         ELSE "progressing"

\* Mutant: a used up budget does not set shouldStop.
ShouldStopExceptBudget(status) == status \notin {"progressing", "max-loops-reached"}

ShouldStop(status) == status # "progressing"

\* What the run reports: no-progress and max-loops replace the raw action.
ReportedAction(status, action) ==
  CASE status = "repeated-state"    -> "no-progress"
    [] status = "max-loops-reached" -> "max-loops-reached"
    [] OTHER                        -> action
=============================================================================
