------------------------- MODULE InterventionLedger -------------------------
(***************************************************************************)
(* The intervention ledger of a task: what the harness found, asked for and *)
(* saw fixed.  The orchestrator records the findings of an iteration before *)
(* it persists it, the plugin those of an evaluation; both read the last    *)
(* event of an intervention without a lock and append events under the lock *)
(* of the ledger, which checks the transition.  Every event is then copied  *)
(* to a JSONL mirror under another lock, and a snapshot of the plugin       *)
(* copies what the mirror lacks.  A process may die between any two steps,  *)
(* and in the middle of a line of the mirror.                               *)
(*                                                                         *)
(* What an evaluation finds is arbitrary here; Verification says what it    *)
(* computes.  A trace is reduced to the captured passes it has for a tree.  *)
(***************************************************************************)
EXTENDS Naturals, Sequences, FiniteSetsExt

CONSTANTS
  Orchestrator, Plugin,  \* processes that record
  Item,            \* interventions: id, category and message of a finding
  Profiles,        \* the classes the interventions may have
  Text,            \* what the evidence of a finding may say
  Tree,            \* working trees
  MaxReports,      \* bound: evaluations
  MaxCaptures,     \* bound: captured passes in the trace
  MaxDisturbances, \* bound: changes of the tree, deaths and failing calls together
  Nil

Writer == Orchestrator \cup Plugin

Status == {"observed", "prevented", "requested", "repaired", "verified",
           "unresolved", "human-review", "stale"}

(***************************************************************************)
(* Whose findings they are.  Requirements and forbidden changes have one id *)
(* for both; "upkeep" is the satisfied context-refresh requirement, with    *)
(* which no captured command has to do for the orchestrator.                *)
(***************************************************************************)
SharedKind == {"required", "upkeep", "forbidden"}
OrchestratorKind == SharedKind \cup
  {"risk", "suggestion", "guard", "hallucination", "gate", "decision"}
PluginKind == SharedKind \cup {"warning", "blocker", "plugin-decision"}

Outcome == {"satisfied", "missing", "stale", "failed", "warned", "rejected",
            "passed", "rollback", "repair", "repair-failed", "human-review",
            "block", "no-progress", "finalize"}

\* An intervention's id fixes most of a finding: "may" is what is left open,
\* Nil that it is not found.
Class == [kind : OrchestratorKind \cup PluginKind, may : SUBSET (Outcome \cup {Nil})]

ASSUME NilAssumption == Nil \notin Writer \cup Tree \cup Item \cup Outcome
ASSUME TreeAssumption == Tree # {}
ASSUME WriterAssumption == Orchestrator \cap Plugin = {}
ASSUME ProfileAssumption == Profiles \subseteq [Item -> Class]
ASSUME BoundAssumption == {MaxReports, MaxCaptures, MaxDisturbances} \subseteq Nat

VARIABLES
  class,     \* class[i] of intervention i, fixed
  tree,      \* the working tree
  trace,     \* execution trace: its revision, and its captured passes on a tree
  ledger,    \* .agent-context/interventions/<task>.json
  mirror,    \* <task>.jsonl: the ledger positions of its lines, Torn if unreadable
  cut,       \* the last line of the mirror lacks its newline
  found,     \* found[w]: the findings w has to record
  pc,        \* where w is
  copy,      \* copy[w]: the trace as w read it
  hash,      \* hash[w]: the tree w's recording goes by
  left,      \* left[w]: interventions w has still to look at
  queue,     \* queue[w]: the events w is appending
  line,      \* line[w]: ledger position w copies to the mirror, or up to which
  \* Ghosts
  alone,     \* alone[w]: no one else appended and nothing failed since w began
  abandoned, \* positions whose copy was given up; a snapshot that goes through is after them
  glued,     \* positions of two copies that share a line of the mirror
  reports, captures, disturbances

work   == <<found, pc, copy, hash, left, queue, line, alone>>
bounds == <<reports, captures, disturbances>>
file   == <<mirror, cut, glued, abandoned>>
vars   == <<class, tree, trace, ledger, file, work, bounds>>

-----------------------------------------------------------------------------
(* intervention-ledger.ts                                                  *)

Trace == [revision : Nat, passes : [Tree -> Nat]]

Evidence == [tree : Tree, passes : Nat]

Event == [item : Item, status : Status, by : {"orchestrator", "plugin"},
          text : Text, evidence : Evidence]

Finding == [outcome : Outcome, text : Text]

After(s) ==
  CASE s = "none"         -> Status \ {"verified", "stale"}
    [] s = "observed"     -> {"prevented", "requested", "repaired", "unresolved", "human-review"}
    [] s = "prevented"    -> {"requested", "unresolved", "human-review", "stale"}
    [] s = "requested"    -> {"repaired", "unresolved", "human-review", "stale"}
    [] s = "repaired"     -> {"verified", "unresolved", "human-review", "stale"}
    [] s = "verified"     -> {"stale"}
    [] s = "unresolved"   -> {"requested", "repaired", "human-review", "stale"}
    [] s = "human-review" -> {"requested", "repaired", "unresolved", "stale"}
    [] s = "stale"        -> {"observed", "requested", "repaired", "unresolved", "human-review"}

Positions(i) == { n \in DOMAIN ledger : ledger[n].item = i }

\* latestIntervention
LastStatus(i) == IF Positions(i) = {} THEN "none" ELSE ledger[Max(Positions(i))].status

\* Mutant: the table is only asked for a first event.
ValidFirst(e) ==
  /\ e.status = "verified" => e.evidence.passes > 0
  /\ LastStatus(e.item) = "none" => e.status \in After("none")

\* validateInterventionTransition
Valid(e) ==
  /\ e.status = "verified" => e.evidence.passes > 0
  /\ e.status \in After(LastStatus(e.item)) \cup {LastStatus(e.item)}

\* The plugin's ids are made of intervention and status only.
SameId(d, e) ==
  /\ d.by = e.by /\ d.item = e.item /\ d.status = e.status
  /\ d.by = "orchestrator" => d.text = e.text /\ d.evidence = e.evidence

Duplicates(e) == { n \in DOMAIN ledger : SameId(ledger[n], e) }

-----------------------------------------------------------------------------
(* intervention-mapper.ts and the plugin's interventions.ts                 *)

\* Mutant: the outcome is taken for the status.
RequirementStatusRaw(outcome, proven) ==
  IF outcome = "satisfied" /\ proven THEN "verified" ELSE outcome

\* statusForFinding, for a requirement
RequirementStatus(outcome, proven) ==
  CASE outcome = "stale" -> "stale"
    [] outcome = "missing" -> "requested"
    [] outcome = "satisfied" /\ proven -> "verified"
    [] OTHER -> "observed"

\* statusForGate
GateStatus(outcome) ==
  CASE outcome = "rollback" -> "prevented"
    [] outcome = "repair-failed" -> "unresolved"
    [] outcome = "human-review" -> "human-review"
    [] OTHER -> "requested"

\* statusForDecision
DecisionStatus(outcome, proven) ==
  CASE outcome = "block" -> "prevented"
    [] outcome = "no-progress" -> "unresolved"
    [] outcome = "human-review" -> "human-review"
    [] outcome = "finalize" /\ proven -> "verified"
    [] outcome = "repair" -> "requested"
    [] OTHER -> "observed"

OrchestratorStatus(k, outcome, proven) ==
  CASE k = "required" -> RequirementStatus(outcome, proven)
    [] k = "forbidden" -> "prevented"
    [] k = "risk" -> "human-review"
    [] k = "suggestion" /\ outcome = "rejected" -> "prevented"
    [] k = "hallucination" /\ outcome = "failed" -> "prevented"
    [] k = "guard" /\ outcome = "failed" -> "requested"
    [] k = "gate" -> GateStatus(outcome)
    [] k = "decision" -> DecisionStatus(outcome, proven)
    [] OTHER -> "observed"

\* statusForPolicyFinding, decisionStatus, and blockers; never "stale"
PluginStatus(k, outcome, proven) ==
  CASE k \in {"forbidden", "blocker"} -> "prevented"
    [] k \in {"required", "upkeep"} /\ outcome = "satisfied" /\ proven -> "verified"
    [] k = "required" /\ outcome # "satisfied" -> "requested"
    [] k = "warning" -> "human-review"
    [] k = "plugin-decision" /\ outcome = "no-progress" -> "human-review"
    [] k = "plugin-decision" /\ outcome # "no-progress" -> DecisionStatus(outcome, proven)
    [] OTHER -> "observed"

\* Captured passes, in the trace as w read it, on the tree it hashed.
PassesFor(w) == copy[w].passes[hash[w]]

StatusFor(w, i) ==
  LET k == class[i].kind  outcome == found[w][i].outcome  proven == PassesFor(w) > 0
  IN IF w \in Plugin THEN PluginStatus(k, outcome, proven)
     ELSE OrchestratorStatus(k, outcome, proven)

(***************************************************************************)
(* appendForStatus of the orchestrator and transitionStatuses of the plugin *)
(* differ in what they leave out.                                           *)
(***************************************************************************)
Skipped(w, previous, status) ==
  IF w \in Plugin THEN previous = status ELSE previous # "none" /\ status = "observed"

Statuses(w, previous, status) ==
  IF Skipped(w, previous, status) THEN << >>
  ELSE CASE status = "verified" /\ previous = "none" -> <<"requested", "repaired", "verified">>
         [] status = "verified" /\ previous \in {"requested", "stale", "unresolved", "human-review"}
              -> <<"repaired", "verified">>
         [] status = "stale" /\ previous = "none" -> <<"requested", "stale">>
         [] OTHER -> <<status>>

(***************************************************************************)
(* The findings that captured passes are evidence for.  The orchestrator    *)
(* asks what the step was for (resolutionEvidenceForFinding); the plugin    *)
(* for a keyword in the finding, the action or the command                  *)
(* (resolutionEvidenceForTrace), and "run-test" is one: to it any pass is   *)
(* evidence for any policy finding.                                         *)
(***************************************************************************)
Provable(w) ==
  IF w \in Plugin THEN PluginKind \ {"blocker"} ELSE {"required", "decision"}

EvidenceFor(w, i) ==
  [ tree   |-> hash[w],
    passes |-> IF class[i].kind \in Provable(w) THEN PassesFor(w) ELSE 0 ]

\* Mutant: the trace's revision tells the events of one process apart.
NewEventRevised(w, i, status) ==
  [ item |-> i, status |-> status, by |-> IF w \in Plugin THEN "plugin" ELSE "orchestrator",
    text |-> found[w][i].text,
    evidence |-> [EvidenceFor(w, i) EXCEPT !.passes = trace.revision] ]

NewEvent(w, i, status) ==
  [ item |-> i, status |-> status, by |-> IF w \in Plugin THEN "plugin" ELSE "orchestrator",
    text |-> found[w][i].text, evidence |-> EvidenceFor(w, i) ]

NewEvents(w, i) ==
  LET statuses == Statuses(w, LastStatus(i), StatusFor(w, i))
  IN [n \in DOMAIN statuses |-> NewEvent(w, i, statuses[n])]

-----------------------------------------------------------------------------

NoTrace == [revision |-> 0, passes |-> [t \in Tree |-> 0]]

NothingFound == [i \in Item |-> Nil]

Init ==
  /\ class \in Profiles
  /\ tree = CHOOSE t \in Tree : TRUE
  /\ trace = NoTrace
  /\ ledger = << >>
  /\ mirror = << >> /\ cut = FALSE /\ glued = {} /\ abandoned = {}
  /\ found = [w \in Writer |-> NothingFound]
  /\ pc = [w \in Writer |-> "idle"]
  /\ copy = [w \in Writer |-> NoTrace]
  /\ hash = [w \in Writer |-> Nil]
  /\ left = [w \in Writer |-> {}]
  /\ queue = [w \in Writer |-> << >>]
  /\ line = [w \in Writer |-> 0]
  /\ alone = [w \in Writer |-> FALSE]
  /\ reports = 0 /\ captures = 0 /\ disturbances = 0

Goto(w, place) == pc' = [pc EXCEPT ![w] = place]

\* A step is added to the trace if a hook saw the edit.
Edit(t) ==
  /\ disturbances < MaxDisturbances /\ t # tree
  /\ tree' = t
  /\ \E seen \in {0, 1} : trace' = [trace EXCEPT !.revision = @ + seen]
  /\ disturbances' = disturbances + 1
  /\ UNCHANGED <<class, ledger, file, work, reports, captures>>

\* A command that passed is recorded in the trace.
Capture ==
  /\ captures < MaxCaptures
  /\ trace' = [trace EXCEPT !.revision = @ + 1, !.passes[tree] = @ + 1]
  /\ captures' = captures + 1
  /\ UNCHANGED <<class, tree, ledger, file, work, reports, disturbances>>

-----------------------------------------------------------------------------
(* A recording                                                             *)

Concerns(w) ==
  { i \in Item : class[i].kind \in IF w \in Plugin THEN PluginKind ELSE OrchestratorKind }

IsDecision(i) == class[i].kind \in {"decision", "plugin-decision"}

\* What an evaluation may find
Findings(w) ==
  { f \in [Item -> Finding \cup {Nil}] : \A i \in Item :
      IF i \notin Concerns(w) THEN f[i] = Nil
      ELSE (IF f[i] = Nil THEN Nil ELSE f[i].outcome) \in class[i].may }

(***************************************************************************)
(* The evaluation ends.  The plugin reads the trace before it evaluates,    *)
(* the orchestrator after it has persisted the decision.                    *)
(***************************************************************************)
Evaluate(w, f) ==
  /\ pc[w] = "idle" /\ reports < MaxReports
  /\ Goto(w, "found")
  /\ found' = [found EXCEPT ![w] = f]
  /\ copy' = [copy EXCEPT ![w] = IF w \in Plugin THEN trace ELSE @]
  /\ reports' = reports + 1
  /\ UNCHANGED <<class, tree, trace, ledger, file, hash, left, queue, line, alone,
                 captures, disturbances>>

Begin(w) ==
  /\ pc[w] = "found"
  /\ Goto(w, "findings")
  /\ hash' = [hash EXCEPT ![w] = tree]
  /\ copy' = [copy EXCEPT ![w] = IF w \in Plugin THEN @ ELSE trace]
  /\ left' = [left EXCEPT ![w] = { i \in Item : found[w][i] # Nil }]
  /\ alone' = [alone EXCEPT ![w] = TRUE]
  /\ UNCHANGED <<class, tree, trace, ledger, file, found, queue, line, bounds>>

Free(w) == queue[w] = << >> /\ line[w] = 0

\* The last event of the intervention is read and the events to append are made.
Look(w, i) ==
  /\ Free(w) /\ i \in left[w]
  /\ pc[w] = IF IsDecision(i) THEN "decision" ELSE "findings"
  /\ queue' = [queue EXCEPT ![w] = NewEvents(w, i)]
  /\ left' = [left EXCEPT ![w] = @ \ {i}]
  /\ UNCHANGED <<class, tree, trace, ledger, file, found, pc, copy, hash, line, alone, bounds>>

\* appendInterventionEvent, under the lock of the ledger
AppendEvent(w) ==
  /\ queue[w] # << >> /\ line[w] = 0
  /\ LET e == Head(queue[w])
     IN IF Duplicates(e) # {}
        THEN /\ line' = [line EXCEPT ![w] = Min(Duplicates(e))]
             /\ UNCHANGED <<ledger, alone>>
        ELSE /\ Valid(e)
             /\ ledger' = Append(ledger, e)
             /\ line' = [line EXCEPT ![w] = Len(ledger')]
             /\ alone' = [v \in Writer |-> alone[v] /\ v = w]
  /\ queue' = [queue EXCEPT ![w] = Tail(@)]
  /\ UNCHANGED <<class, tree, trace, file, found, pc, copy, hash, left, bounds>>

-----------------------------------------------------------------------------
(* atomic-store.ts: appendJsonLineLocked on the mirror                     *)

\* A line that does not parse; no position is 0.
Torn == 0

\* The lines are read one after the other, and a torn one ends the search.
Mirrored == { mirror[n] : n \in { m \in DOMAIN mirror : \A k \in 1 .. m : mirror[k] # Torn } }

Readable == \A n \in DOMAIN mirror : mirror[n] # Torn

\* What the file ends with is continued: behind a newline by a line of its own.
Put(n) ==
  IF cut
  THEN /\ mirror' = [mirror EXCEPT ![Len(mirror)] = Torn]
       /\ glued' = glued \cup ({mirror[Len(mirror)], n} \ {Torn})
  ELSE mirror' = Append(mirror, n) /\ UNCHANGED glued

CopyToMirror(n) ==
  IF n \in Mirrored THEN UNCHANGED <<mirror, cut, glued>>
  ELSE Readable /\ Put(n) /\ cut' = FALSE

\* An interrupted copy leaves nothing, a part, all but the newline, or all of it.
CopySome(n) ==
  \/ UNCHANGED <<mirror, cut, glued>>
  \/ /\ n \notin Mirrored /\ Readable
     /\ \E m \in {Torn, n}, short \in BOOLEAN :
          (m = Torn => short) /\ Put(m) /\ cut' = short

Mirror(w) ==
  /\ pc[w] # "snapshot" /\ line[w] # 0
  /\ CopyToMirror(line[w])
  /\ line' = [line EXCEPT ![w] = 0]
  /\ UNCHANGED <<class, tree, trace, ledger, abandoned, found, pc, copy, hash, left, queue,
                 alone, bounds>>

-----------------------------------------------------------------------------

FindingsDone(w) ==
  /\ pc[w] = "findings" /\ Free(w)
  /\ \A i \in left[w] : IsDecision(i)

\* A step of w's copy of the trace matches a finding and got its id.
Marked(w) ==
  w \in Orchestrator /\ (\E t \in Tree : copy[w].passes[t] > 0)
    /\ \E i \in Item : found[w][i] # Nil /\ class[i].kind = "required"

\* The trace is written with the ids, if nobody wrote it since it was read.
ToDecision(w) ==
  /\ FindingsDone(w)
  /\ IF Marked(w)
     THEN copy[w].revision = trace.revision /\ trace' = [trace EXCEPT !.revision = @ + 1]
     ELSE UNCHANGED trace
  /\ Goto(w, "decision")
  /\ UNCHANGED <<class, tree, ledger, file, found, copy, hash, left, queue, line, alone, bounds>>

DecisionDone(w) == pc[w] = "decision" /\ Free(w) /\ left[w] = {}

\* The orchestrator goes on to persist the iteration, the plugin to its snapshot.
Recorded(w) ==
  /\ DecisionDone(w)
  /\ IF w \in Plugin
     THEN Goto(w, "snapshot") /\ line' = [line EXCEPT ![w] = Len(ledger)]
     ELSE Goto(w, "recorded") /\ UNCHANGED line
  /\ UNCHANGED <<class, tree, trace, ledger, file, found, copy, hash, left, queue, alone, bounds>>

\* The call ends, or the process does.
End(w) ==
  /\ Goto(w, "idle")
  /\ found' = [found EXCEPT ![w] = NothingFound]
  /\ copy' = [copy EXCEPT ![w] = NoTrace]
  /\ hash' = [hash EXCEPT ![w] = Nil]
  /\ left' = [left EXCEPT ![w] = {}]
  /\ queue' = [queue EXCEPT ![w] = << >>]
  /\ line' = [line EXCEPT ![w] = 0]
  /\ alone' = [alone EXCEPT ![w] = FALSE]
  /\ UNCHANGED <<class, tree, trace, ledger>>

\* The iteration is persisted; what was found is not recorded again.
Persist(w) ==
  /\ pc[w] = "recorded"
  /\ End(w)
  /\ UNCHANGED <<file, bounds>>

\* pluginInterventionSnapshot of another tool: the events are read (a snapshot
\* that finds them all mirrored changes nothing) ...
Snapshot(w) ==
  /\ w \in Plugin /\ pc[w] = "idle" /\ Mirrored # DOMAIN ledger
  /\ Goto(w, "snapshot")
  /\ line' = [line EXCEPT ![w] = Len(ledger)]
  /\ UNCHANGED <<class, tree, trace, ledger, file, found, copy, hash, left, queue, alone, bounds>>

\* Mutant: only the newest event is compared.
UnmirroredNewest(w) == {line[w]} \ (Mirrored \cup {0})

Unmirrored(w) == (1 .. line[w]) \ Mirrored

\* ... and copied one after the other (syncJsonlLedger).
Sync(w) ==
  /\ pc[w] = "snapshot" /\ Unmirrored(w) # {}
  /\ CopyToMirror(Min(Unmirrored(w)))
  /\ UNCHANGED <<class, tree, trace, ledger, abandoned, work, bounds>>

Synced(w) ==
  /\ pc[w] = "snapshot" /\ Unmirrored(w) = {}
  /\ End(w)
  /\ abandoned' = abandoned \ (1 .. line[w])
  /\ UNCHANGED <<mirror, cut, glued, bounds>>

-----------------------------------------------------------------------------
(* Failures                                                                *)

(***************************************************************************)
(* An exception ends the orchestrator, whose resume begins the recording    *)
(* again; the plugin swallows it and gives up the statuses of this          *)
(* intervention, or the snapshot.                                           *)
(***************************************************************************)
Fail(w) ==
  /\ IF w \in Plugin THEN UNCHANGED <<pc, copy, hash, left>>
     ELSE /\ Goto(w, "found")
          /\ copy' = [copy EXCEPT ![w] = NoTrace]
          /\ hash' = [hash EXCEPT ![w] = Nil]
          /\ left' = [left EXCEPT ![w] = {}]
  /\ queue' = [queue EXCEPT ![w] = << >>]
  /\ line' = [line EXCEPT ![w] = 0]
  /\ alone' = [alone EXCEPT ![w] = FALSE]
  /\ UNCHANGED <<class, tree, trace, ledger, found>>

\* The transition is refused.
Refused(w) ==
  /\ queue[w] # << >> /\ line[w] = 0
  /\ Duplicates(Head(queue[w])) = {} /\ ~Valid(Head(queue[w]))
  /\ Fail(w)
  /\ UNCHANGED <<file, bounds>>

\* RevisionConflictError of the trace
TraceConflict(w) ==
  /\ FindingsDone(w) /\ Marked(w)
  /\ copy[w].revision # trace.revision
  /\ Fail(w)
  /\ UNCHANGED <<file, bounds>>

\* The event w is copying to the mirror, 0 if none.
Copying(w) ==
  IF pc[w] # "snapshot" THEN line[w]
  ELSE IF Unmirrored(w) = {} THEN 0 ELSE Min(Unmirrored(w))

Abandon(w) ==
  abandoned' = abandoned \cup (IF pc[w] = "snapshot" THEN {} ELSE {line[w]} \ {0})

GiveUp(w) == IF pc[w] = "snapshot" THEN End(w) ELSE Fail(w)

\* The mirror has a line that does not parse.
Unreadable(w) ==
  /\ Copying(w) # 0 /\ Copying(w) \notin Mirrored /\ ~Readable
  /\ Abandon(w) /\ GiveUp(w)
  /\ UNCHANGED <<mirror, cut, glued, bounds>>

\* A lock is not free in time, or the line cannot be written as a whole.
CallFails(w) ==
  /\ disturbances < MaxDisturbances
  /\ disturbances' = disturbances + 1
  /\ \/ Copying(w) # 0 /\ CopySome(Copying(w))
     \/ Copying(w) = 0 /\ queue[w] # << >> /\ UNCHANGED <<mirror, cut, glued>>
  /\ Abandon(w) /\ GiveUp(w)
  /\ UNCHANGED <<reports, captures>>

\* The process dies; the orchestrator's findings are in the run's artifacts.
Die(w) ==
  /\ disturbances < MaxDisturbances
  /\ disturbances' = disturbances + 1
  /\ pc[w] \notin {"idle", "found"}
  /\ \/ UNCHANGED <<mirror, cut, glued>>
     \/ Copying(w) # 0 /\ CopySome(Copying(w))
  /\ Abandon(w)
  /\ IF w \in Plugin THEN End(w) ELSE Fail(w)
  /\ UNCHANGED <<reports, captures>>

Work(w) ==
  \/ Begin(w) \/ (\E i \in Item : Look(w, i)) \/ AppendEvent(w) \/ Mirror(w)
  \/ ToDecision(w) \/ Recorded(w) \/ Persist(w)
  \/ Snapshot(w) \/ Sync(w) \/ Synced(w)
  \/ Refused(w) \/ TraceConflict(w) \/ Unreadable(w)

Next ==
  \/ \E t \in Tree : Edit(t)
  \/ Capture
  \/ \E w \in Writer :
       \/ Work(w) \/ CallFails(w) \/ Die(w)
       \/ \E f \in Findings(w) : Evaluate(w, f)

Spec == Init /\ [][Next]_vars

-----------------------------------------------------------------------------

Place == {"idle", "found", "findings", "decision", "recorded", "snapshot"}

TypeOK ==
  /\ class \in Profiles
  /\ tree \in Tree /\ trace \in Trace
  /\ ledger \in Seq(Event)
  /\ mirror \in Seq(0 .. Len(ledger))
  /\ cut \in BOOLEAN /\ (cut => mirror # << >>)
  /\ {abandoned, glued} \subseteq SUBSET (1 .. Len(ledger))
  /\ found \in [Writer -> [Item -> Finding \cup {Nil}]]
  /\ pc \in [Writer -> Place]
  /\ copy \in [Writer -> Trace] /\ hash \in [Writer -> Tree \cup {Nil}]
  /\ left \in [Writer -> SUBSET Item]
  /\ queue \in [Writer -> Seq(Event)]
  /\ line \in [Writer -> 0 .. Len(ledger)]
  /\ alone \in [Writer -> BOOLEAN]
  /\ {reports, captures, disturbances} \subseteq Nat

\* Statuses that say that something is to be done.
Demand == {"requested", "unresolved", "human-review", "stale"}

(***************************************************************************)
(* What the ledger calls verified was earned: a command passed on the tree  *)
(* the event names, and before it the ledger asked for the repair and then  *)
(* called it repaired.  A prevention or a suggestion is never a fix.  Only  *)
(* the orchestrator's evidence has to do with the finding: the plugin calls *)
(* every satisfied requirement verified once any command passed.            *)
(***************************************************************************)
VerifiedIsEarned ==
  \A n \in DOMAIN ledger : ledger[n].status = "verified" =>
    /\ ledger[n].evidence.passes > 0
    /\ ledger[n].evidence.passes <= trace.passes[ledger[n].evidence.tree]
    /\ \E r \in Positions(ledger[n].item), d \in Positions(ledger[n].item) :
         d < r /\ r < n /\ ledger[r].status = "repaired" /\ ledger[d].status \in Demand

(***************************************************************************)
(* A repeated resume is idempotent: to record the same findings again, on   *)
(* the same evidence and with nothing else recorded in between, adds        *)
(* nothing.                                                                 *)
(***************************************************************************)
RepeatedRecordingAddsNothing ==
  \A w \in Writer : alone[w] /\ pc[w] \in {"recorded", "snapshot"} =>
    \A i \in Item : found[w][i] # Nil =>
      LET again == NewEvents(w, i)
      IN \A n \in DOMAIN again : Duplicates(again[n]) # {}

(***************************************************************************)
(* The mirror has every event of the ledger, and has it once, but for       *)
(* events that are being copied, events whose copy a death or an exception  *)
(* cut off, until a snapshot that is not cut off itself reads them, and the *)
(* two that share a line because the first lacked its newline.              *)
(***************************************************************************)
MirroredOnce ==
  \A m, n \in DOMAIN mirror : mirror[m] = mirror[n] => m = n

BeingCopied == { line[w] : w \in { v \in Writer : pc[v] # "snapshot" } }

MirrorIsComplete ==
  /\ MirroredOnce
  /\ DOMAIN ledger \subseteq Mirrored \cup BeingCopied \cup abandoned \cup glued
  /\ glued # {} => ~Readable
=============================================================================
