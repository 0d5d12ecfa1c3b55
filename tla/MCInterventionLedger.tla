------------------------ MODULE MCInterventionLedger ------------------------
(* Values for the runs of InterventionLedger. *)
EXTENDS InterventionLedger

Of(k, outcomes) == [kind |-> k, may |-> outcomes]

First == CHOOSE i \in Item : TRUE

\* Each kind on its own ...
Alone ==
  { Of("required", {"satisfied", "missing"}), Of("required", {"stale"}),
    Of("upkeep", {"satisfied"}), Of("forbidden", {"failed"}), Of("risk", {"warned"}),
    Of("warning", {"warned"}), Of("blocker", {"failed"}), Of("suggestion", {"rejected"}),
    Of("guard", {"failed", "passed"}), Of("hallucination", {"failed"}),
    Of("gate", {"repair", "repair-failed"}), Of("gate", {"human-review"}),
    Of("decision", {"no-progress"}), Of("decision", {"finalize"}),
    Of("plugin-decision", {"repair"}), Of("plugin-decision", {"finalize"}) }

\* ... and a finding next to the decision it leads to.
MCProfiles ==
  { [i \in Item |-> IF i = First THEN c ELSE Of("risk", {Nil})] : c \in Alone }
  \cup { [i \in Item |-> IF i = First THEN Of("forbidden", {"failed"})
                         ELSE Of("decision", {"block"})] }
=============================================================================
