------------------------ MODULE OrchestratorLifecycle ------------------------
(***************************************************************************)
(* What the persisted state file of a harness run promises, whoever writes *)
(* it and however often its writers die: the run moves through the phases  *)
(* of OrchestratorPhase in order, one at a time, an iteration goes back to *)
(* plan only after it persisted, and a completed run stays completed.       *)
(* Orchestrator.tla implements this with an optimistic revision check.      *)
(***************************************************************************)
EXTENDS Naturals

VARIABLES
  phase,   \* the phase the run is in
  iter     \* the iteration it is working on, counted from 1

Phase == {"plan", "prepare-sandbox", "execute", "collect", "evaluate",
          "decide", "persist", "finalize", "completed"}

\* The order of the phases within an iteration.
Rank == [ ph \in Phase |->
            CASE ph = "plan"            -> 1
              [] ph = "prepare-sandbox" -> 2
              [] ph = "execute"         -> 3
              [] ph = "collect"         -> 4
              [] ph = "evaluate"        -> 5
              [] ph = "decide"          -> 6
              [] ph = "persist"         -> 7
              [] ph = "finalize"        -> 8
              [] ph = "completed"       -> 9 ]

Init == phase = "plan" /\ iter = 1

\* One phase further; the sandbox is prepared in the first iteration only.
Forward ==
  /\ phase # "completed"
  /\ phase' \in Phase
  /\ IF phase = "plan" /\ iter > 1 THEN phase' = "execute"
                                   ELSE Rank[phase'] = Rank[phase] + 1
  /\ UNCHANGED iter

\* Another iteration, after the current one was persisted.
Again == phase = "persist" /\ phase' = "plan" /\ iter' = iter + 1

Next == Forward \/ Again

Spec == Init /\ [][Next]_<<phase, iter>>
=============================================================================
