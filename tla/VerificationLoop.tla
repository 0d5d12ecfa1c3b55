-------------------------- MODULE VerificationLoop --------------------------
(***************************************************************************)
(* How an orchestrated run comes to a verdict about a tree that others may  *)
(* edit meanwhile.  Four parties: the run itself (plan, execute, collect,   *)
(* evaluate, decide; orchestrator.ts, phases/evaluate.ts), whoever edits    *)
(* the working tree, whoever reports steps with "trace add", and a          *)
(* "trace run" that executes a command and records what it captured.        *)
(*                                                                         *)
(* An evaluation is not a moment: the guards, the policy report, the loop   *)
(* report and the gates each read the tree and the trace when they get to   *)
(* it; what one of them reads, it reads at once here.  Who edits the tree   *)
(* may also commit, pull and check out: HEAD moves, the base of the run     *)
(* does not.  Crashes and the state file are the subject of Orchestrator;   *)
(* here the run works on the host tree and dies for nobody.                 *)
(***************************************************************************)
EXTENDS Verification

CONSTANTS
  StartTrees,    \* trees a run may start from: unchanged, or changed before
  Edits,         \* pairs of trees: the edits and commits somebody may make
  Passes,        \* Passes[t]: the commands that exit with 0 on t
  Runs,          \* evidence policy and executor's command of the runs looked at
  Captured,      \* commands somebody gives to trace run,
  Named,         \* Named[c]: the files given with c by --files
  ToldExits,     \* exit codes that agents and CI tell of
  MaxLoops,      \* iterations of a run
  MaxEdits,      \* bound on edits of the tree
  MaxSteps       \* bound on reported steps and captured commands

ASSUME LoopAssumption ==
  /\ StartTrees \subseteq Tree
  /\ Edits \subseteq Tree \X Tree
  /\ Passes \in [Tree -> SUBSET Command]
  /\ Runs \subseteq Policies \X Command
  /\ Captured \subseteq Command
  /\ \A c \in Captured : Named[c] \subseteq UNION { DOMAIN Contents[t] : t \in Tree }
  /\ ToldExits \subseteq {0, 1}
  /\ {MaxLoops, MaxEdits, MaxSteps} \subseteq Nat /\ MaxLoops # 0

VARIABLES
  policy,        \* evidence policy of the run
  executor,      \* command of the run's executor
  tree,          \* the working tree
  now,           \* clock: one tick per recorded time
  trace,         \* the execution trace
  running,       \* a trace run that has its result and is not recorded yet
  package,       \* tree the context package in memory describes
  hashed,        \* tree that was current when the package was last refreshed or reused
  manifest,      \* package and tree the generated context on disk describes
  pc, iteration, \* of the run
  launch,        \* result of the executor
  guards, policyReport, loopReport,   \* the evaluation so far
  verdict,       \* decision of the iteration
  edits, steps,  \* ghosts: used up bounds
  mixed          \* ghost: a command's tree changed before it was hashed

runVars  == <<package, hashed, manifest, pc, iteration, launch, guards, policyReport,
              loopReport, verdict>>
fixed    == <<policy, executor>>
ghosts   == <<edits, steps, mixed>>
vars     == <<fixed, tree, now, trace, running, runVars, ghosts>>

Phase == {"plan", "write", "execute", "collect", "guards", "policy", "loop", "gates", "ended"}

Init ==
  /\ \E r \in Runs : policy = r[1] /\ executor = r[2]
  /\ tree \in StartTrees
  /\ now = 1
  /\ trace = << >>
  /\ running = Nil
  /\ package = tree /\ hashed = tree
  /\ manifest = [package |-> tree, tree |-> tree]
  /\ pc = "execute" /\ iteration = 1
  /\ launch = Nil
  /\ guards = Nil /\ policyReport = Nil /\ loopReport = Nil
  /\ verdict = Nil
  /\ edits = 0 /\ steps = 0
  /\ mixed = FALSE

-----------------------------------------------------------------------------
(* The others                                                              *)

Outcome(exit) == IF exit = 0 THEN "passed" ELSE "failed"

\* The agent or a person changes the working tree or moves HEAD; nobody records it.
Edit(t) ==
  /\ edits < MaxEdits /\ pc # "ended"
  /\ <<tree, t>> \in Edits
  /\ tree' = t
  /\ edits' = edits + 1
  /\ UNCHANGED <<fixed, now, trace, running, runVars, steps, mixed>>

Reported(action, command, by, exit, outcome, hash) ==
  [ action |-> action, command |-> command, by |-> by, exit |-> exit, outcome |-> outcome,
    files |-> {}, at |-> now, tree |-> hash ]

\* The steps somebody reports: an edit, a test's outcome, the import of a CI result.
ReportedStep ==
  { Reported("edit", Nil, "manual", Nil, "unknown", Nil) }
    \cup { Reported("run-test", Nil, "manual", Nil, o, Nil) : o \in {"passed", "fail-output"} }
    \cup { Reported("run-test", c, "ci", e, Outcome(e), tree) : c \in Plans[package][tree].tests, e \in ToldExits }

\* trace add: a claim, recorded as it is told.
Report(s) ==
  /\ steps < MaxSteps /\ pc # "ended"
  /\ trace' = Recorded(trace, s)
  /\ now' = now + 1
  /\ steps' = steps + 1
  /\ UNCHANGED <<fixed, tree, running, runVars, edits, mixed>>

\* runTraceCommand: the command has ended.
RunCommand(c) ==
  /\ running = Nil /\ steps < MaxSteps /\ pc # "ended"
  /\ running' = [ command |-> c, at |-> now, ran |-> tree,
                  exit |-> IF c \in Passes[tree] THEN 0 ELSE 1 ]
  /\ now' = now + 1
  /\ steps' = steps + 1
  /\ UNCHANGED <<fixed, tree, trace, runVars, edits, mixed>>

\* The tree is hashed again and the step is recorded.
RecordCommand ==
  /\ running # Nil
  /\ trace' = Recorded(trace,
       [ action |-> "run-test", command |-> running.command, by |-> "harness",
         exit |-> running.exit, outcome |-> Outcome(running.exit),
         files |-> Named[running.command], at |-> running.at, tree |-> tree ])
  /\ mixed' = (mixed \/ running.ran # tree)
  /\ running' = Nil
  /\ UNCHANGED <<fixed, tree, now, runVars, edits, steps>>

-----------------------------------------------------------------------------
(* The run                                                                 *)

\* The analyses read the contracts on disk, the package in memory and the tree.
Current == View(manifest.package, package, tree)

\* Mutant: the contents on disk are not hashed again.
FreshPackage == SameIndexes[manifest.package][package]

\* assessFreshness: scanned contents are hashed again, new files are not seen.
Fresh == SameIndexes[manifest.package][package] /\ SameFiles[package][manifest.tree][tree]

(***************************************************************************)
(* selectContextRefresh.  The package is rebuilt after a repack decision    *)
(* and when the generated context drifted: when the dependency graph is     *)
(* another one, and perhaps when anything else is.  With files the executor *)
(* modified it is refreshed incrementally.                                  *)
(***************************************************************************)
Refreshed(repack, unmodified) ==
  LET rebuild == {tree}
      drifted == IF SameIndexes[manifest.package][package] THEN {} ELSE rebuild
  IN IF repack \/ ~SameGraphs[manifest.package][package] THEN rebuild
     ELSE drifted \cup (IF unmodified \/ TreeHash[tree] = TreeHash[hashed]
                        THEN {package} ELSE rebuild)

\* A further iteration: the package is refreshed ...
Plan ==
  /\ pc = "plan"
  /\ package' \in Refreshed(verdict = "repack", TRUE)
  /\ pc' = "write"
  /\ launch' = Nil /\ verdict' = Nil
  /\ guards' = Nil /\ policyReport' = Nil /\ loopReport' = Nil
  /\ UNCHANGED <<fixed, tree, now, trace, running, hashed, manifest, iteration, ghosts>>

\* ... and the generated context written: its hashes are of the tree by then.
WriteContext ==
  /\ pc = "write"
  /\ hashed' = tree
  /\ manifest' = [package |-> package, tree |-> tree]
  /\ pc' = "execute"
  /\ UNCHANGED <<fixed, tree, now, trace, running, package, iteration, launch, guards,
                 policyReport, loopReport, verdict, ghosts>>

(***************************************************************************)
(* The executor has ended; its edits are Edit steps since the plan, whose   *)
(* tree is the one its modified files are told from.  An agent may fail for *)
(* its own reasons, a test command tells about the tree.                    *)
(***************************************************************************)
Execute ==
  /\ pc = "execute"
  /\ \E e \in IF TestExecution(executor)
              THEN {IF executor \in Passes[tree] THEN 0 ELSE 1}
              ELSE {0, 1} :
       launch' = [ exit |-> e, at |-> now, tree |-> tree,
                   modified |-> Contents[tree] # Contents[manifest.tree] ]
  /\ now' = now + 1
  /\ pc' = "collect"
  /\ UNCHANGED <<fixed, tree, trace, running, package, hashed, manifest, iteration, guards,
                 policyReport, loopReport, verdict, ghosts>>

\* A test the agent ran itself, as its transcript has it.
AgentEvents ==
  { << >> } \cup
  { << [ action |-> "run-test", command |-> c, by |-> "external", exit |-> e,
         outcome |-> Outcome(e), files |-> {}, at |-> launch.at, tree |-> Nil ] >> :
      c \in IF TestExecution(executor) THEN {} ELSE Plans[package][launch.tree].tests, e \in ToldExits }

ExecutorStep ==
  [ action |-> "agent-execute", command |-> executor, by |-> "harness",
    exit |-> launch.exit, outcome |-> Outcome(launch.exit),
    files |-> ChangedFiles[launch.tree], at |-> launch.at, tree |-> launch.tree ]

\* The agent's events go into the trace first, then the executor's step.
Collect ==
  /\ pc = "collect"
  /\ \E events \in AgentEvents :
       LET told == IF events = << >> THEN trace ELSE Recorded(trace, events[1])
       IN trace' = Recorded(told, ExecutorStep)
  /\ pc' = "guards"
  /\ UNCHANGED <<fixed, tree, now, running, package, hashed, manifest, iteration, launch, guards,
                 policyReport, loopReport, verdict, ghosts>>

(***************************************************************************)
(* The package of the evaluation is refreshed, but not written; the         *)
(* hallucination and regression guards report on it.                        *)
(***************************************************************************)
Guards ==
  /\ pc = "guards"
  /\ package' \in Refreshed(FALSE, ~launch.modified)
  /\ hashed' = tree
  /\ LET v == View(manifest.package, package', tree)
     IN guards' = [ hallucination |-> HallucinationReport(v, PlanOf(v), trace),
                    regression    |-> RegressionReport(v, PlanOf(v), trace, policy) ]
  /\ pc' = "policy"
  /\ UNCHANGED <<fixed, tree, now, trace, running, manifest, iteration, launch,
                 policyReport, loopReport, verdict, ghosts>>

CheckPolicy ==
  /\ pc = "policy"
  /\ policyReport' = PolicyReport(Current, PlanOf(Current), trace, policy, Fresh)
  /\ pc' = "loop"
  /\ UNCHANGED <<fixed, tree, now, trace, running, package, hashed, manifest, iteration, launch,
                 guards, loopReport, verdict, ghosts>>

ControlLoop ==
  /\ pc = "loop"
  /\ loopReport' = LoopReport(Current, PlanOf(Current), trace, policy, Fresh)
  /\ pc' = "gates"
  /\ UNCHANGED <<fixed, tree, now, trace, running, package, hashed, manifest, iteration, launch,
                 guards, policyReport, verdict, ghosts>>

\* Mutant: the budget is compared after the increment.
DecideOneMore ==
  /\ pc = "gates"
  /\ verdict' \in Selected(Candidates(launch.exit,
                     Evaluate(guards, policyReport, loopReport, trace), "none"))
  /\ IF verdict' \in TerminalAction \/ iteration > MaxLoops
     THEN pc' = "ended" /\ UNCHANGED iteration
     ELSE pc' = "plan" /\ iteration' = iteration + 1
  /\ UNCHANGED <<fixed, tree, now, trace, running, package, hashed, manifest, launch,
                 guards, policyReport, loopReport, ghosts>>

(***************************************************************************)
(* Gates and decision: the trace is read once more.  A blocking verdict     *)
(* that is not terminal leads to the next iteration.                        *)
(***************************************************************************)
Decide ==
  /\ pc = "gates"
  /\ verdict' \in Selected(Candidates(launch.exit,
                     Evaluate(guards, policyReport, loopReport, trace), "none"))
  /\ IF verdict' \in TerminalAction \/ iteration = MaxLoops
     THEN pc' = "ended" /\ UNCHANGED iteration
     ELSE pc' = "plan" /\ iteration' = iteration + 1
  /\ UNCHANGED <<fixed, tree, now, trace, running, package, hashed, manifest, launch,
                 guards, policyReport, loopReport, ghosts>>

Others ==
  \/ \E t \in Tree : Edit(t)
  \/ \E s \in ReportedStep : Report(s)
  \/ \E c \in Captured : RunCommand(c)
  \/ RecordCommand

Run ==
  \/ Plan \/ WriteContext \/ Execute \/ Collect
  \/ Guards \/ CheckPolicy \/ ControlLoop \/ Decide

Next == Others \/ Run

Spec == Init /\ [][Next]_vars

-----------------------------------------------------------------------------

TypeOK ==
  /\ <<policy, executor>> \in Runs
  /\ tree \in Tree /\ now \in Nat
  /\ trace \in Seq(Step)
  /\ running = Nil \/ running \in [command : Command, at : Nat,
                                   ran : Tree, exit : {0, 1}]
  /\ package \in Tree /\ hashed \in Tree
  /\ manifest \in [package : Tree, tree : Tree]
  /\ pc \in Phase /\ iteration \in 1 .. MaxLoops
  /\ launch = Nil \/ launch \in [exit : {0, 1}, at : Nat, tree : Tree, modified : BOOLEAN]
  /\ verdict = Nil \/ verdict \in Action
  /\ mixed \in BOOLEAN

Finalized == verdict = "finalize"

\* All that lies in t lay in u as well, but for files of which HEAD has another version
\* since: those that somebody committed, pulled or checked out.
SameButForCommits(u, t) ==
  \A f \in DOMAIN Contents[u] \cup DOMAIN Contents[t] :
    \/ Read(Contents[u], f) = Read(Contents[t], f)
    \/ Read(Heads[u], f) # Read(Heads[t], f)
    \/ f[1] \in {".agent-context", "AGENTS.md"}

\* A captured or imported success of a test command that the requirement accepts:
\* of any one if the plan found none to ask for.
Proves(s, v) ==
  /\ IsTestStep(s) /\ s.by \in {"harness", "ci"} /\ s.exit = 0
  /\ s.tree # Nil /\ SameButForCommits(s.tree, v.tree)
  /\ \/ s.command = Nil \/ PlanOf(v).tests = {}
     \/ \E c \in PlanOf(v).tests : CommandMatches(s.command, c)

\* Nobody had run the same command again when the report was made.
NewestOfItsCommand(i, seen) ==
  \A j \in i + 1 .. seen : ResultKey(trace[j]) = ResultKey(trace[i]) => ~Terminal(trace[j])

TestsWereRun(report) ==
  \E i \in 1 .. report.seen :
    /\ Proves(trace[i], report.view) /\ NewestOfItsCommand(i, report.seen)
    /\ ~mixed /\ trace[i].by = "harness" => trace[i].command \in Passes[trace[i].tree]

ContractsWereValidated(report) ==
  \E i \in 1 .. report.seen :
    /\ IsContractStep(trace[i]) /\ trace[i].by \in {"harness", "ci"}
    /\ trace[i].exit = 0 /\ trace[i].tree # Nil
    /\ SameButForCommits(trace[i].tree, report.view.tree)

(***************************************************************************)
(* Unless the policy is advisory, a run with source changes finalizes only  *)
(* if a test command succeeded on the tree that was evaluated, by the       *)
(* newest result of that command: both for the tree the policy looked at    *)
(* and for the one the loop controller looked at.  What was evaluated may   *)
(* differ from what was tested in files that were committed or pulled in    *)
(* between, and in no others: while HEAD stays, it is the very tree.  If no  *)
(* tree changed between the end of a command and its hash, the tree it was  *)
(* hashed with really passes.  Under the strict policy a captured or        *)
(* imported command must also have validated the contracts, on the tree of  *)
(* the policy report in the same sense.                                     *)
(***************************************************************************)
FinalizesTestedTrees ==
  Finalized /\ policy # "advisory" =>
    /\ \A report \in {policyReport, loopReport} :
         PlanOf(report.view).source => TestsWereRun(report)
    /\ policy = "strict" /\ PlanOf(policyReport.view).source
         => ContractsWereValidated(policyReport)

(***************************************************************************)
(* No policy finalizes a forbidden change.  In the tree of the policy report *)
(* no build output and no generated file that the package knows is changed, *)
(* no changed file that the package knows imports what does not exist or    *)
(* what the contracts on disk keep from its module, and every package       *)
(* script somebody named is there.                                          *)
(***************************************************************************)
ForbiddenNeverFinalizes ==
  Finalized =>
    LET m == Contents[manifest.package]
        p == Contents[package]
        t == Contents[policyReport.view.tree]
    IN /\ \A f \in Changed(t) : ~IsBuildOutput(f)
       /\ \A f \in Changed(t) \cap Scanned(p) :
            /\ ~IsGeneratedPath(f)
            /\ FileKind(f) = "source" =>
                 /\ p[f].imports \subseteq Scanned(p)
                 /\ \A g \in p[f].imports, n \in BoundaryModules(m, p, f) :
                      ~OutsideBoundary(m, n, g)
       /\ \A i \in 1 .. policyReport.seen :
            LET c == trace[i].command
            IN c # Nil => c.tool \notin ScriptRunners \/ c.name \in ScriptNames(t)

(***************************************************************************)
(* A run finalizes only if the generated context on disk tells of the       *)
(* contents that were evaluated.  As an evaluation does not write it, this  *)
(* takes an iteration in which nothing was changed.                         *)
(***************************************************************************)
FinalizesQuietIterations ==
  Finalized =>
    /\ SameIndexes[manifest.package][package]
    /\ SameFiles[package][manifest.tree][policyReport.view.tree]
    /\ SameFiles[package][manifest.tree][loopReport.view.tree]

(***************************************************************************)
(* What a captured command showed is not lost in the trace: two runs of one *)
(* command with one exit code are not duplicates.                           *)
(***************************************************************************)
CapturedResultsAreKept ==
  [][running # Nil /\ running' = Nil => Len(trace') = Len(trace) + 1]_vars
=============================================================================
