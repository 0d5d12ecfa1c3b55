-------------------------- MODULE MCPluginWorkflow --------------------------
(* Values for the runs of PluginWorkflow. *)
EXTENDS PluginWorkflow, TLC

CONSTANTS in, out, prot

MCFile == {in, out, prot}

\* Nothing to object to; the guards could not run.
MCVerdict ==
  { [ decision |-> "ready-for-review", noTest |-> FALSE, guardsRan |-> TRUE ],
    [ decision |-> "ready-for-review", noTest |-> FALSE, guardsRan |-> FALSE ] }

Sessions == Permutations(Session)
=============================================================================
