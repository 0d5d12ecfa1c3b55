--------------------------- MODULE MCOrchestrator ---------------------------
(* Values for the runs of Orchestrator. *)
EXTENDS Orchestrator

\* Nothing found; a repairable finding; a finding a human must look at.
MCEvaluations ==
  { CleanEvaluation,
    [CleanEvaluation EXCEPT !.gates = {"run-tests"}, !.required = "runnable"],
    [CleanEvaluation EXCEPT !.risk = TRUE] }

\* The same with a forbidden change and a plan to revise.
MCEvaluationsAll ==
  MCEvaluations \cup
  { [CleanEvaluation EXCEPT !.loop = {"replan"}],
    [CleanEvaluation EXCEPT !.forbidden = TRUE, !.gates = {"repair"}] }

\* For two writers, whose races do not depend on what is found.
MCEvaluationsPlain ==
  { [CleanEvaluation EXCEPT !.loop = {"run-tests"}] }
=============================================================================
