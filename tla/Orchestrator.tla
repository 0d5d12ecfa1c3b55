---------------------------- MODULE Orchestrator ----------------------------
(***************************************************************************)
(* One harness-led run (runHarnessOrchestrator): a loop of phases around a *)
(* code agent that edits the working tree, persisted after every phase so  *)
(* that a run interrupted anywhere can be resumed from disk.               *)
(*                                                                         *)
(* Several processes may work on the same run id (a resume started while   *)
(* the first process is still alive).  Every transition of the state file  *)
(* is guarded by its revision; the phase artifacts, the trace and the       *)
(* working tree are not.  A process may die between any two steps, and      *)
(* what it held in memory is lost.                                          *)
(***************************************************************************)
EXTENDS DecisionEngine, Sequences, FiniteSets

CONSTANTS
  Proc,            \* processes that may run or resume the run
  Modes,           \* the --checkpoint modes a run may have; "none" works on
                   \* the host tree itself
  LoopLimits,      \* the --max-loops values an invocation may be given
  Tree,            \* contents the source tree may have
  HeadTree,        \* its content at HEAD; any other content is uncommitted
  Evaluations,     \* what an evaluation may find
  MaxCrashes,      \* bound: how often a process dies
  Nil              \* a file or a value that is not there

ASSUME LimitsAssumption == LoopLimits \subseteq Nat \ {0} /\ LoopLimits # {}
ASSUME TreeAssumption == HeadTree \in Tree
ASSUME ModeAssumption == Modes \subseteq CheckpointModes
ASSUME EvaluationsAssumption == Evaluations \subseteq Evaluation
ASSUME BoundAssumption == MaxCrashes \in Nat

Iteration == UNION { 1 .. limit : limit \in LoopLimits }

VARIABLES
  mode,        \* --checkpoint of every invocation, fixed
  \* On disk
  disk,        \* .agent-context/orchestrator/<run>/state.json
  execution,   \* iterations/<i>/phase.execute.json
  evaluated,   \* iterations/<i>/phase.evaluate.json
  report,      \* iterations/<i>/iteration.report.json
  trace,       \* the executor steps of the execution trace
  published,   \* orchestrator.json
  memory,      \* a memory candidate was written
  hostTree,    \* the source tree of the host repository
  \* In the memory of each process
  pc,          \* where it is
  mem,         \* its copy of the state file
  limit,       \* its --max-loops
  sandbox,     \* its git worktree
  result,      \* executorResult of the current iteration
  finding,     \* evaluation of the current iteration
  outcome,     \* latestDecision and latestConvergence
  previous,    \* previousFingerprint
  \* Ghosts
  launches,    \* how often an executor was launched
  crashes      \* how often a process died

diskVars == <<disk, execution, evaluated, report, trace, published, memory, hostTree>>
procVars == <<pc, mem, limit, sandbox, result, finding, outcome, previous>>
vars == <<mode, diskVars, procVars, launches, crashes>>

L == INSTANCE OrchestratorLifecycle WITH phase <- disk.phase, iter <- disk.iter

-----------------------------------------------------------------------------
(* Types *)

Result == [ launch : Nat, exit : {0, 1}, tree : Tree ]

Fingerprint == [ tree : Tree, action : Action, findings : Evaluation ]

Outcome == [ action : Action, status : ConvergenceStatus, print : Fingerprint ]

ASSUME NilAssumption == Nil \notin Outcome \cup Result \cup Evaluation

RunState ==
  [ revision : Nat,
    phase    : L!Phase,
    iter     : Nat \ {0},
    done     : SUBSET ((Nat \ {0}) \X L!Phase),
    hasExec  : BOOLEAN,       \* executorResultReference is set
    hasEval  : BOOLEAN,       \* evaluationReference is set
    tree     : Tree,          \* workingTreeHash
    outcome  : Outcome \cup {Nil} ]   \* latestDecision and convergence

\* Mutant: iterations counted from zero.
NewRunFromZero(t) ==
  [ revision |-> 0, phase |-> "plan", iter |-> 0, done |-> {},
    hasExec |-> FALSE, hasEval |-> FALSE, tree |-> t, outcome |-> Nil ]

NewRun(t) ==
  [ revision |-> 0, phase |-> "plan", iter |-> 1, done |-> {},
    hasExec |-> FALSE, hasEval |-> FALSE, tree |-> t, outcome |-> Nil ]

Place == {"down", "started", "sandboxed", "loop", "executed", "collected",
          "finalizing", "recorded"}

TypeOK ==
  /\ mode \in Modes
  /\ disk \in RunState
  /\ execution \in [Iteration -> Result \cup {Nil}]
  /\ evaluated \in [Iteration -> Evaluation \cup {Nil}]
  /\ report \in [Iteration -> Outcome \cup {Nil}]
  /\ trace \in Seq(Iteration \X Result)
  /\ published \in Outcome \cup {Nil}
  /\ memory \in BOOLEAN
  /\ hostTree \in Tree
  /\ pc \in [Proc -> Place]
  /\ mem \in [Proc -> RunState]
  /\ limit \in [Proc -> Nat]
  /\ sandbox \in [Proc -> Tree \cup {Nil}]
  /\ result \in [Proc -> Result \cup {Nil}]
  /\ finding \in [Proc -> Evaluation \cup {Nil}]
  /\ outcome \in [Proc -> Outcome \cup {Nil}]
  /\ previous \in [Proc -> Fingerprint \cup {Nil}]
  /\ launches \in Nat
  /\ crashes \in Nat

-----------------------------------------------------------------------------
(* Helpers *)

\* The tree a process works on and fingerprints (currentWorkingTreeHash).
WorkTree(p) == IF mode = "git-worktree" THEN sandbox[p] ELSE hostTree

SetWorkTree(p, tree) ==
  IF mode = "git-worktree"
  THEN sandbox' = [sandbox EXCEPT ![p] = tree] /\ UNCHANGED hostTree
  ELSE hostTree' = tree /\ UNCHANGED sandbox

\* Mutants: a save that ignores the revision of the file; a save that leaves
\* the revision as it was; a phase completed in the iteration that follows it.
AdvanceUnchecked(p, next, updated) ==
  /\ disk' = [updated EXCEPT !.revision = mem[p].revision + 1,
                             !.phase    = next,
                             !.done     = @ \cup {<<mem[p].iter, mem[p].phase>>}]
  /\ mem' = [mem EXCEPT ![p] = disk']

AdvanceSameRevision(p, next, updated) ==
  /\ disk.revision = mem[p].revision
  /\ disk' = [updated EXCEPT !.phase    = next,
                             !.done     = @ \cup {<<mem[p].iter, mem[p].phase>>}]
  /\ mem' = [mem EXCEPT ![p] = disk']

AdvanceLateIteration(p, next, updated) ==
  /\ disk.revision = mem[p].revision
  /\ disk' = [updated EXCEPT !.revision = disk.revision + 1,
                             !.phase    = next,
                             !.done     = @ \cup {<<updated.iter, mem[p].phase>>}]
  /\ mem' = [mem EXCEPT ![p] = disk']

\* completePhase, then a save that the revision of the file must allow.
Advance(p, next, updated) ==
  /\ disk.revision = mem[p].revision
  /\ disk' = [updated EXCEPT !.revision = disk.revision + 1,
                             !.phase    = next,
                             !.done     = @ \cup {<<mem[p].iter, mem[p].phase>>}]
  /\ mem' = [mem EXCEPT ![p] = disk']

Unstarted(p) == mem[p].phase = "plan" /\ mem[p].iter = 1 /\ mem[p].done = {}

\* In the body of the loop, at a phase of the current iteration.
At(p, phase) ==
  /\ pc[p] = "loop" /\ mem[p].phase = phase /\ mem[p].iter <= limit[p]

Goto(p, place) == pc' = [pc EXCEPT ![p] = place]

\* The process ends; the worktree is discarded and its memory is gone.
Halt(p) ==
  /\ Goto(p, "down")
  /\ mem' = [mem EXCEPT ![p] = NewRun(HeadTree)]
  /\ limit' = [limit EXCEPT ![p] = 0]
  /\ sandbox' = [sandbox EXCEPT ![p] = Nil]
  /\ result' = [result EXCEPT ![p] = Nil]
  /\ finding' = [finding EXCEPT ![p] = Nil]
  /\ outcome' = [outcome EXCEPT ![p] = Nil]
  /\ previous' = [previous EXCEPT ![p] = Nil]

\* loadPersistedIterationReports(...).at(-1)
Reported == { i \in Iteration : report[i] # Nil }
\* Mutant: a resumed process has nothing to compare with.
LastFingerprintForgotten == Nil

LastFingerprint ==
  IF Reported = {} THEN Nil
  ELSE report[CHOOSE i \in Reported : \A j \in Reported : j <= i].print

-----------------------------------------------------------------------------
(* Starting and resuming *)

Init ==
  /\ mode \in Modes
  /\ hostTree \in Tree
  /\ disk = NewRun(hostTree)
  /\ execution = [i \in Iteration |-> Nil]
  /\ evaluated = [i \in Iteration |-> Nil]
  /\ report = [i \in Iteration |-> Nil]
  /\ trace = <<>>
  /\ published = Nil
  /\ memory = FALSE
  /\ pc = [p \in Proc |-> "down"]
  /\ mem = [p \in Proc |-> NewRun(HeadTree)]
  /\ limit = [p \in Proc |-> 0]
  /\ sandbox = [p \in Proc |-> Nil]
  /\ result = [p \in Proc |-> Nil]
  /\ finding = [p \in Proc |-> Nil]
  /\ outcome = [p \in Proc |-> Nil]
  /\ previous = [p \in Proc |-> Nil]
  /\ launches = 0
  /\ crashes = 0

(***************************************************************************)
(* An invocation reads the state file; a run without one starts from       *)
(* NewRun, whose revision 0 is what a missing file counts as.  (A resume   *)
(* that finds the run completed returns its report and changes nothing.)   *)
(***************************************************************************)
Start(p) ==
  /\ pc[p] = "down"
  /\ Goto(p, "started")
  /\ mem' = [mem EXCEPT ![p] = disk]
  /\ \E l \in LoopLimits : limit' = [limit EXCEPT ![p] = l]
  /\ UNCHANGED <<diskVars, sandbox, result, finding, outcome, previous, launches, crashes>>

Plan(p) ==
  /\ pc[p] = "started" /\ Unstarted(p)
  /\ Advance(p, "prepare-sandbox", mem[p])
  /\ UNCHANGED <<execution, evaluated, report, trace, published, memory, hostTree,
                 pc, limit, sandbox, result, finding, outcome, previous, launches, crashes>>

\* Mutant: no patch is reapplied from persist on.
NeedsPatchUntilDecide(p) ==
  /\ mode = "git-worktree"
  /\ mem[p].phase \in {"collect", "evaluate", "decide"}
  /\ hostTree # mem[p].tree

\* restoreSandboxForResume looks for a patch of the current iteration only.
NeedsPatch(p) ==
  /\ mode = "git-worktree"
  /\ mem[p].hasExec
  /\ mem[p].phase \notin {"plan", "execute"}
  /\ hostTree # mem[p].tree

(***************************************************************************)
(* A fresh worktree holds the host's tracked files; the executor's patch, a *)
(* diff against HEAD, takes it to the tree the executor left.               *)
(***************************************************************************)
PrepareSandbox(p) ==
  /\ pc[p] = "started" /\ ~Unstarted(p)
  /\ NeedsPatch(p) => hostTree = HeadTree
  /\ Goto(p, "sandboxed")
  /\ sandbox' = [sandbox EXCEPT ![p] =
                   IF mode = "none" THEN Nil
                   ELSE IF NeedsPatch(p) THEN execution[mem[p].iter].tree
                   ELSE hostTree]
  /\ UNCHANGED <<diskVars, mem, limit, result, finding, outcome, previous, launches, crashes>>

(***************************************************************************)
(* The host's own uncommitted edits are in the fresh worktree and in the   *)
(* patch: git refuses to apply them twice and the resume fails.            *)
(***************************************************************************)
PatchRejected(p) ==
  /\ pc[p] = "started" /\ ~Unstarted(p)
  /\ NeedsPatch(p) /\ hostTree # HeadTree
  /\ Halt(p)
  /\ UNCHANGED <<diskVars, launches, crashes>>

\* What the phases that are already completed left behind.
LoadPersisted(p) ==
  /\ pc[p] = "sandboxed"
  /\ Goto(p, "loop")
  /\ result' = [result EXCEPT ![p] =
                  IF mem[p].hasExec THEN execution[mem[p].iter] ELSE Nil]
  /\ finding' = [finding EXCEPT ![p] =
                   IF mem[p].hasEval THEN evaluated[mem[p].iter] ELSE Nil]
  /\ outcome' = [outcome EXCEPT ![p] =
                   IF mem[p].phase = "finalize" THEN mem[p].outcome ELSE Nil]
  /\ previous' = [previous EXCEPT ![p] = LastFingerprint]
  /\ UNCHANGED <<diskVars, mem, limit, sandbox, launches, crashes>>

EnterExecute(p) ==
  /\ At(p, "prepare-sandbox")
  /\ Advance(p, "execute", [mem[p] EXCEPT !.tree = WorkTree(p)])
  /\ UNCHANGED <<execution, evaluated, report, trace, published, memory, hostTree,
                 pc, limit, sandbox, result, finding, outcome, previous, launches, crashes>>

-----------------------------------------------------------------------------
(* The phases of an iteration: do the work, write its artifact, advance. *)

PlanNext(p) ==
  /\ At(p, "plan")
  /\ Advance(p, "execute", [mem[p] EXCEPT !.tree = WorkTree(p),
                                          !.hasExec = FALSE, !.hasEval = FALSE])
  /\ UNCHANGED <<execution, evaluated, report, trace, published, memory, hostTree,
                 pc, limit, sandbox, result, finding, outcome, previous, launches, crashes>>

\* The code agent edits the tree and exits; nothing is recorded yet.
Execute(p) ==
  /\ At(p, "execute")
  /\ Goto(p, "executed")
  /\ \E tree \in Tree, exit \in {0, 1} :
       /\ SetWorkTree(p, tree)
       /\ result' = [result EXCEPT ![p] =
                       [launch |-> launches + 1, exit |-> exit, tree |-> tree]]
  /\ launches' = launches + 1
  /\ UNCHANGED <<disk, execution, evaluated, report, trace, published, memory,
                 mem, limit, finding, outcome, previous, crashes>>

\* Mutant: the phase is advanced before its artifact is written.
RecordExecutionLate(p) ==
  /\ pc[p] = "executed"
  /\ Goto(p, "recorded")
  /\ UNCHANGED <<diskVars, mem, limit, sandbox, result, finding, outcome, previous,
                 launches, crashes>>

RecordExecution(p) ==
  /\ pc[p] = "executed"
  /\ Goto(p, "recorded")
  /\ execution' = [execution EXCEPT ![mem[p].iter] = result[p]]
  /\ UNCHANGED <<disk, evaluated, report, trace, published, memory, hostTree,
                 mem, limit, sandbox, result, finding, outcome, previous, launches, crashes>>

\* Mutant: no marker is looked for.
TracedNever(i) == FALSE

\* traceContainsMarker: the marker names the iteration.
Traced(i) == \E n \in DOMAIN trace : trace[n][1] = i

CollectTrace(p) ==
  /\ At(p, "collect")
  /\ Goto(p, "collected")
  /\ trace' = IF Traced(mem[p].iter) THEN trace
              ELSE Append(trace, <<mem[p].iter, result[p]>>)
  /\ UNCHANGED <<disk, execution, evaluated, report, published, memory, hostTree,
                 mem, limit, sandbox, result, finding, outcome, previous, launches, crashes>>

\* phase.execute.json is written again, with the normalized events.
RecordCollect(p) ==
  /\ pc[p] = "collected"
  /\ Goto(p, "recorded")
  /\ execution' = [execution EXCEPT ![mem[p].iter] = result[p]]
  /\ UNCHANGED <<disk, evaluated, report, trace, published, memory, hostTree,
                 mem, limit, sandbox, result, finding, outcome, previous, launches, crashes>>

Evaluate(p) ==
  /\ At(p, "evaluate")
  /\ Goto(p, "recorded")
  /\ \E e \in Evaluations :
       /\ finding' = [finding EXCEPT ![p] = e]
       /\ evaluated' = [evaluated EXCEPT ![mem[p].iter] = e]
  /\ UNCHANGED <<disk, execution, report, trace, published, memory, hostTree,
                 mem, limit, sandbox, result, outcome, previous, launches, crashes>>

\* The outcome of an iteration whose raw decision is the given action.
Judge(exit, e, tree, action, before, index, max) ==
  LET print  == [tree |-> tree, action |-> action, findings |-> e]
      status == Convergence(print, before, action, exit, index, max)
  IN  [action |-> ReportedAction(status, action), status |-> status, print |-> print]

Decide(p) ==
  /\ At(p, "decide")
  /\ Goto(p, "recorded")
  /\ \E action \in Selected(Candidates(result[p].exit, finding[p], mode)) :
       outcome' = [outcome EXCEPT ![p] =
                     Judge(result[p].exit, finding[p], WorkTree(p), action,
                           previous[p], mem[p].iter, limit[p])]
  /\ UNCHANGED <<diskVars, mem, limit, sandbox, result, finding, previous, launches, crashes>>

(***************************************************************************)
(* Before an iteration is persisted, its findings are recorded in the       *)
(* intervention ledger (recordIterationInterventions).  A transition that   *)
(* the ledger refuses, or a trace written by somebody else meanwhile, ends  *)
(* the process with an exception.  InterventionLedger says when; here it    *)
(* may happen at any attempt, and nothing says that it does not happen at   *)
(* every resume: what is refused once is refused until somebody else writes *)
(* to the ledger.                                                           *)
(***************************************************************************)
RecordingRefused(p) ==
  /\ At(p, "persist")
  /\ Halt(p)
  /\ UNCHANGED <<diskVars, launches, crashes>>

\* A resumed process takes the decision from the state file.
Persist(p) ==
  /\ At(p, "persist")
  /\ Goto(p, "recorded")
  /\ outcome' = [outcome EXCEPT ![p] = mem[p].outcome]
  /\ report' = [report EXCEPT ![mem[p].iter] = mem[p].outcome]
  /\ previous' = [previous EXCEPT ![p] = mem[p].outcome.print]
  /\ UNCHANGED <<disk, execution, evaluated, trace, published, memory, hostTree,
                 mem, limit, sandbox, result, finding, launches, crashes>>

Commit(p, phase, next, updated) ==
  /\ pc[p] = "recorded" /\ mem[p].phase = phase
  /\ Goto(p, "loop")
  /\ Advance(p, next, updated)
  /\ UNCHANGED <<execution, evaluated, report, trace, published, memory, hostTree,
                 limit, sandbox, result, finding, outcome, previous, launches, crashes>>

\* Mutant: the state file stays in execute.
CommitExecuteStays(p) ==
  Commit(p, "execute", "execute", [mem[p] EXCEPT !.hasExec = TRUE, !.tree = WorkTree(p)])

CommitExecute(p) ==
  Commit(p, "execute", "collect", [mem[p] EXCEPT !.hasExec = TRUE, !.tree = WorkTree(p)])

CommitCollect(p) ==
  Commit(p, "collect", "evaluate", [mem[p] EXCEPT !.tree = WorkTree(p)])

CommitEvaluate(p) ==
  Commit(p, "evaluate", "decide", [mem[p] EXCEPT !.hasEval = TRUE, !.tree = WorkTree(p)])

CommitDecide(p) ==
  Commit(p, "decide", "persist", [mem[p] EXCEPT !.outcome = outcome[p]])

\* The run stops,
CommitStop(p) ==
  /\ Commit(p, "persist", "finalize", mem[p])
  /\ ShouldStop(outcome[p].status)

\* or goes round again, without the references of this iteration.
CommitAgain(p) ==
  /\ Commit(p, "persist", "plan",
            [mem[p] EXCEPT !.iter = @ + 1, !.hasExec = FALSE, !.hasEval = FALSE])
  /\ ~ShouldStop(outcome[p].status)

-----------------------------------------------------------------------------
(* The end of the loop *)

LoopEnded(p) ==
  /\ pc[p] = "loop"
  /\ mem[p].phase = "finalize" \/ mem[p].iter > limit[p]

\* writeFinalizeMemoryCandidate
WriteMemory(p) ==
  /\ LoopEnded(p) /\ outcome[p] # Nil
  /\ Goto(p, "finalizing")
  /\ memory' = (memory \/ outcome[p].action = "finalize")
  /\ UNCHANGED <<disk, execution, evaluated, report, trace, published, hostTree,
                 mem, limit, sandbox, result, finding, outcome, previous, launches, crashes>>

Publish(p) ==
  /\ pc[p] = "finalizing" /\ mem[p].phase = "finalize"
  /\ Goto(p, "recorded")
  /\ published' = outcome[p]
  /\ sandbox' = [sandbox EXCEPT ![p] = Nil]
  /\ UNCHANGED <<disk, execution, evaluated, report, trace, memory, hostTree,
                 mem, limit, result, finding, outcome, previous, launches, crashes>>

(***************************************************************************)
(* The loop ran out under a limit lower than the one the last decision was *)
(* made with: the report is written and returned, the state file stays.    *)
(***************************************************************************)
PublishUnfinished(p) ==
  /\ pc[p] = "finalizing" /\ mem[p].phase # "finalize"
  /\ published' = outcome[p]
  /\ Halt(p)
  /\ UNCHANGED <<disk, execution, evaluated, report, trace, memory, hostTree,
                 launches, crashes>>

CommitFinalize(p) ==
  /\ pc[p] = "recorded" /\ mem[p].phase = "finalize"
  /\ disk.revision = mem[p].revision
  /\ disk' = [mem[p] EXCEPT !.revision = @ + 1,
                            !.phase    = "completed",
                            !.done     = @ \cup {<<mem[p].iter, "finalize">>},
                            !.outcome  = outcome[p]]
  /\ Halt(p)
  /\ UNCHANGED <<execution, evaluated, report, trace, published, memory, hostTree,
                 launches, crashes>>

(***************************************************************************)
(* "did not produce an iteration": the limit is below the iteration the    *)
(* run is in.  "Unexpected orchestrator phase": the task was started again *)
(* after its run had completed, without --resume.                          *)
(***************************************************************************)
NothingToDo(p) ==
  /\ pc[p] = "loop" /\ outcome[p] = Nil
  /\ mem[p].phase = "completed" \/ (mem[p].phase # "finalize" /\ mem[p].iter > limit[p])
  /\ Halt(p)
  /\ UNCHANGED <<diskVars, launches, crashes>>

-----------------------------------------------------------------------------
(* Failures *)

WantsToAdvance(p) ==
  \/ pc[p] = "recorded"
  \/ pc[p] = "started" /\ Unstarted(p)
  \/ At(p, "prepare-sandbox") \/ At(p, "plan")

\* RevisionConflictError: another process moved the run on.
RevisionConflict(p) ==
  /\ WantsToAdvance(p)
  /\ disk.revision # mem[p].revision
  /\ Halt(p)
  /\ UNCHANGED <<diskVars, launches, crashes>>

\* The process dies or an exception ends it, also right after an advance.
Crash(p) ==
  /\ pc[p] # "down"
  /\ crashes < MaxCrashes
  /\ crashes' = crashes + 1
  /\ Halt(p)
  /\ UNCHANGED <<mode, diskVars, launches>>

Step(p) ==
  /\ UNCHANGED mode
  /\ \/ Start(p) \/ Plan(p) \/ PrepareSandbox(p) \/ PatchRejected(p)
     \/ LoadPersisted(p) \/ EnterExecute(p) \/ PlanNext(p)
     \/ Execute(p) \/ RecordExecution(p) \/ CommitExecute(p)
     \/ CollectTrace(p) \/ RecordCollect(p) \/ CommitCollect(p)
     \/ Evaluate(p) \/ CommitEvaluate(p)
     \/ Decide(p) \/ CommitDecide(p)
     \/ RecordingRefused(p) \/ Persist(p) \/ CommitStop(p) \/ CommitAgain(p)
     \/ WriteMemory(p) \/ Publish(p) \/ PublishUnfinished(p) \/ CommitFinalize(p)
     \/ NothingToDo(p) \/ RevisionConflict(p)

Next == \E p \in Proc : Step(p) \/ Crash(p)

(***************************************************************************)
(* Every process that runs goes on running, and a run that is not complete *)
(* is invoked again: the executor has a timeout, and resuming is what the   *)
(* interruption message asks the user for.                                  *)
(***************************************************************************)
Spec == Init /\ [][Next]_vars
FairSpec == Spec /\ \A p \in Proc : WF_vars(Step(p))

-----------------------------------------------------------------------------
(* Properties *)

Committed(i, phase) == <<i, phase>> \in disk.done

(***************************************************************************)
(* The completed phases are exactly those that come before the current one *)
(* in the lifecycle: a resumed, raced or repeated invocation neither skips *)
(* a phase of completePhase nor completes one twice.                        *)
(***************************************************************************)
History(iter, phase) ==
  { step \in (1 .. iter) \X L!Phase :
      /\ step[2] = "prepare-sandbox" => step[1] = 1
      /\ L!Rank[step[2]] < IF step[1] = iter THEN L!Rank[phase] ELSE L!Rank["finalize"] }

HistoryExact == disk.done = History(disk.iter, disk.phase)

(***************************************************************************)
(* A process whose revision is the one on disk knows the whole state: what *)
(* makes the revision check of writeJsonAtomicWithRevision sufficient.      *)
(***************************************************************************)
CopyIsCurrent ==
  \A p \in Proc :
    /\ mem[p].revision <= disk.revision
    /\ pc[p] # "down" /\ mem[p].revision = disk.revision => mem[p] = disk

(***************************************************************************)
(* The trace holds at most one executor step per iteration, for the launch *)
(* whose result is the iteration's artifact, and holds it once the collect *)
(* phase is completed: a retried collect must not duplicate it, a repeated *)
(* execute must not leave the lost launch in it.                            *)
(***************************************************************************)
TraceTellsTheLaunch ==
  /\ \A m, n \in DOMAIN trace : trace[m][1] = trace[n][1] => m = n
  /\ \A n \in DOMAIN trace : trace[n][2] = execution[trace[n][1]]
  /\ \A i \in Iteration : Committed(i, "collect") => Traced(i)

(***************************************************************************)
(* The decision on disk is one the artifacts on disk lead to, whatever     *)
(* happened between the phases that wrote them; in particular no run        *)
(* finalizes past a failed executor or an open objection.                   *)
(***************************************************************************)
DecisionFollowsFromArtifacts ==
  disk.phase \in {"persist", "finalize", "completed"} =>
    LET x == execution[disk.iter]
        e == evaluated[disk.iter]
        before == IF disk.iter = 1 THEN Nil ELSE report[disk.iter - 1].print
    IN \E action \in Selected(Candidates(x.exit, e, mode)), max \in LoopLimits :
         disk.outcome = Judge(x.exit, e, x.tree, action, before, disk.iter, max)

(***************************************************************************)
(* What a resume needs is there: the reports of the iterations that were   *)
(* persisted, and the artifacts the state file refers to.  A completed run  *)
(* has its report, and a memory candidate is of a run that decided to       *)
(* finalize.                                                                *)
(***************************************************************************)
ReferencesResolve ==
  /\ \A i \in Iteration : Committed(i, "persist") => report[i] # Nil
  /\ disk.hasExec => execution[disk.iter] # Nil
  /\ disk.hasEval => evaluated[disk.iter] # Nil
  /\ disk.phase = "completed" => published = disk.outcome
  /\ memory => disk.outcome # Nil /\ disk.outcome.action = "finalize"

(***************************************************************************)
(* With one process, the executor is launched again only for a launch that  *)
(* a crash kept from being recorded: a resume never repeats the edits of an  *)
(* iteration whose execute phase is completed.                              *)
(***************************************************************************)
RelaunchOnlyAfterCrash ==
  launches <= crashes
              + Cardinality({i \in Iteration : Committed(i, "execute")})
              + Cardinality({p \in Proc : pc[p] # "down" /\ mem[p].phase = "execute"})

\* An iteration is only entered by a run whose budget allowed it.
IterationWithinBudget == disk.iter \in Iteration

(***************************************************************************)
(* The worktree of a run that is past execute holds the executor's edits,  *)
(* also when it was recreated by a resume.                                  *)
(***************************************************************************)
WorktreeHasExecutorEdits ==
  \A p \in Proc :
    (mode = "git-worktree" /\ pc[p] = "loop" /\ mem[p].hasExec)
      => sandbox[p] = execution[mem[p].iter].tree

(***************************************************************************)
(* "A resumed git-worktree run creates a fresh worktree and reapplies the  *)
(* persisted executor patch before continuing": in the loop, the worktree  *)
(* is the tree the state file was saved with.                               *)
(***************************************************************************)
ResumedWorktreeIsPersistedTree ==
  \A p \in Proc :
    (mode = "git-worktree" /\ pc[p] = "loop") => sandbox[p] = mem[p].tree

\* The state file follows the lifecycle, with any number of writers.
LifecycleImplemented == L!Spec

\* No invocation gets a smaller budget than another may.
BudgetKept == \A p \in Proc : pc[p] # "down" => \A max \in LoopLimits : max <= limit[p]

(***************************************************************************)
(* A run on the host tree that is always given the same --max-loops is      *)
(* completed in the end, if its recordings are not refused for ever.  Given *)
(* less than it has used, a resume stops at once; the patch of a worktree   *)
(* may be rejected at every resume, and so may a recording.                 *)
(***************************************************************************)
RefusalsEnd == <>[][\A p \in Proc : ~RecordingRefused(p)]_vars

RunCompletes ==
  mode = "none" /\ []BudgetKept /\ RefusalsEnd => <>(disk.phase = "completed")
=============================================================================
