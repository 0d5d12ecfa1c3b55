---------------------------- MODULE Verification ----------------------------
(***************************************************************************)
(* What an evaluation computes from a working tree, the context generated   *)
(* for it and the execution trace: the evidence the trace holds             *)
(* (evidence.ts), the guard reports, the policy report, the loop            *)
(* controller's decisions and the guard gates.  Evaluate puts them together *)
(* into the Evaluation that the decision engine reads.  Everything here is  *)
(* a function of its arguments; VerificationLoop says when the code         *)
(* computes which of them.                                                  *)
(*                                                                         *)
(* A tree goes by a name here, which stands for the files on disk and for   *)
(* the commit that HEAD names; VerificationPlan, RepositoryContracts and    *)
(* RepositoryGuards say what is to be said about its contents.              *)
(***************************************************************************)
EXTENDS RepositoryGuards

CONSTANTS
  Tree,          \* the working trees that can arise
  Contents,      \* Contents[t]: what lies in the tree t
  Heads,         \* Heads[t]: what the commit holds that it was checked out from
  TreeHash,      \* TreeHash[t]: currentWorkingTreeHash, a name for the fingerprint
  Command,       \* the commands a step may name
  Begins,        \* pairs of script names: the second begins with the first
  Plans,         \* tables of PlanFor and FindingFor, so that
  Findings,      \*   they are worked out once
  OverBudget     \* packages from which no task pack fits its budget

ASSUME TreeAssumption ==
  /\ OverBudget \subseteq Tree
  /\ Base \in { Contents[t] : t \in Tree }

ASSUME HashAssumption ==
  \A t, u \in Tree : TreeHash[t] = TreeHash[u] <=>
    WorkingTreeFingerprint(Heads[t], Contents[t]) = WorkingTreeFingerprint(Heads[u], Contents[u])

ASSUME CommandAssumption ==
  /\ \A c \in Command : c = Cmd(c.tool, c.name, c.file)
  /\ \A c \in Command : Nil # c /\ Nil # [c EXCEPT !.tool = "npm run"]
  /\ Nil \notin Action
  /\ \A n \in DOMAIN Traits : <<n, n>> \in Begins

-----------------------------------------------------------------------------
(* Facts about trees, each written down once.                              *)

ChangedFiles == [ t \in Tree |-> Changed(Contents[t]) ]

\* buildVerificationPlan and the guards' part that the trace has no say in.
PlanWith(p, t, selected) ==
  [ source     |-> RequiresSource(p, t),
    required   |-> VerificationRequired(t, selected),
    tests      |-> RequiredTests(selected),
    useful     |-> UsefulCommands(p, t, selected),
    broken     |-> BrokenReference(p, t),
    doubtful   |-> DoubtfulReference(p, t),
    remembered |-> MatchedMemory(p, t) # {},
    regression |-> RegressionCommands(p, t) ]

PlanFor(known, current) ==
  PlanWith(Contents[known], Contents[current],
           SelectedCommands(Contents[known], Contents[current]))

\* What validateContracts and buildChangeImpactReport say.
FindingFor(contracts, known, current) ==
  LET m == Contents[contracts]
      p == Contents[known]
      t == Contents[current]
  IN [ forbidden    |-> ForbiddenChanges(m, p, t),
       risk         |-> RiskyChange(m, p, t),
       missingTests |-> \E v \in ContractViolations(m, p, t) : v.tests,
       highImpact   |-> HighImpact(p, t) ]

ASSUME TableAssumption ==
  /\ Plans = [ known \in Tree |-> [ current \in Tree |-> PlanFor(known, current) ] ]
  /\ Findings = [ contracts \in Tree |-> [ known \in Tree |-> [ current \in Tree |->
                    FindingFor(contracts, known, current) ] ] ]
  /\ \A known, current \in Tree : Plans[known][current].tests \subseteq Command

\* The hashes of the generated context: of the graph, of the index, of the sources.
SameGraphs ==
  [ a \in Tree |-> [ b \in Tree |-> FileEdges(Contents[a]) = FileEdges(Contents[b]) ] ]

SameIndexes ==
  [ a \in Tree |-> [ b \in Tree |-> Index(Contents[a]) = Index(Contents[b]) ] ]

SameFiles ==
  [ known \in Tree |-> [ old \in Tree |-> [ new \in Tree |->
      SameContents(Contents[known], Contents[old], Contents[new]) ] ] ]

\* Which trees an analysis looks at.
View(contracts, package, tree) == [ contracts |-> contracts, package |-> package, tree |-> tree ]

PlanOf(v) == Plans[v.package][v.tree]

FindingOf(v) == Findings[v.contracts][v.package][v.tree]

SomethingChanged(v) == ChangedFiles[v.tree] # {}

-----------------------------------------------------------------------------
(* harness/observability/execution-trace.ts                                *)

Policies == {"advisory", "balanced", "strict"}

StepAction == {"run-test", "edit", "validate-contracts", "agent-execute", "run-command"}

(***************************************************************************)
(* A trace step.  "by" joins evidenceSource and capturedBy; "harness" steps *)
(* have both output hashes and both tree hashes.  "fail-output" is a step   *)
(* that did not pass and whose output speaks of a failure; "files" are those *)
(* it names other than generated ones; "at" is its finishedAt, else the     *)
(* time it was appended; "tree" is the tree whose hash it has, taken after  *)
(* it.                                                                      *)
(***************************************************************************)
Step ==
  [ action  : StepAction,
    command : Command \cup {Nil},
    by      : {"manual", "external", "harness", "ci"},
    exit    : {0, 1, Nil},
    outcome : {"passed", "failed", "unknown", "fail-output"},
    files   : SUBSET UNION { DOMAIN Contents[t] : t \in Tree },
    at      : Nat,
    tree    : Tree \cup {Nil} ]

\* Mutant: the times are not part of what makes a step a duplicate.
FingerprintTimeless(s) == << s.action, s.command, s.exit >>

(***************************************************************************)
(* traceStepFingerprint.  A reported step has no startedAt and finishedAt,  *)
(* so every further report of the same action is a duplicate.               *)
(***************************************************************************)
Fingerprint(s) ==
  << s.action, s.command, s.exit,
     IF s.by = "manual" /\ s.action # "agent-execute" THEN 0 ELSE s.at >>

\* appendExecutionTraceStep
Recorded(trace, s) ==
  IF \E i \in DOMAIN trace : Fingerprint(trace[i]) = Fingerprint(s)
  THEN trace
  ELSE Append(trace, s)

-----------------------------------------------------------------------------
(* outputs/evidence.ts                                                     *)

\* evidenceLevelForStep
Level(s) ==
  CASE s.by = "ci" -> "ci"
    [] s.by = "harness" /\ s.exit = 0 /\ s.command # Nil -> "command"
    [] OTHER -> "manual"

\* evidenceRank
Rank == [ none |-> 0, manual |-> 1, command |-> 2, ci |-> 3 ]

\* matchesTestStep
IsTestStep(s) ==
  IF s.command # Nil THEN TestExecution(s.command) ELSE s.action = "run-test"

IsContractStep(s) ==
  \/ s.action = "validate-contracts"
  \/ s.command # Nil /\ s.command.name = "validate-contracts"

\* matchesRequirement
IsStepFor(s, kind) == IF kind = "tests" THEN IsTestStep(s) ELSE IsContractStep(s)

\* hasTerminalTestResult
Terminal(s) == s.exit # Nil \/ s.outcome # "unknown"

FailedByExit(s) == s.exit = 1

HasFailureOutput(s) == s.exit # 0 /\ s.outcome = "fail-output"

\* stepPassed
StepPassed(s) ==
  /\ ~FailedByExit(s) /\ ~HasFailureOutput(s)
  /\ IF s.by = "manual" THEN s.outcome = "passed" ELSE s.exit = 0

\* isEditStep, findLastEditIndex (0 when there is none)
IsEditStep(s) == s.action = "edit" \/ s.files # {}

LastEdit(trace) ==
  CHOOSE i \in 0 .. Len(trace) :
    /\ i # 0 => IsEditStep(trace[i])
    /\ \A j \in i + 1 .. Len(trace) : ~IsEditStep(trace[j])

LastEditTime(trace) ==
  IF LastEdit(trace) = 0 THEN 0 ELSE trace[LastEdit(trace)].at

TestResults(trace, from) ==
  { i \in from + 1 .. Len(trace) : IsTestStep(trace[i]) /\ Terminal(trace[i]) }

\* testResultKey: "npm test" and "npm run test" are one command.
ResultKey(s) ==
  IF s.command = Nil THEN Nil
  ELSE IF s.command.tool = "npm" /\ s.command.name = "test"
       THEN [s.command EXCEPT !.tool = "npm run"] ELSE s.command

\* latestTestResultSteps: the last result of each command.
LatestResults(trace, from) ==
  LET results == TestResults(trace, from)
  IN { i \in results :
         \A j \in results : i < j => ResultKey(trace[j]) # ResultKey(trace[i]) }

\* The call sites of evidenceSatisfies differ in these.
Requirement(kind, t, commands, policy, source) ==
  [ kind |-> kind, tree |-> t, commands |-> commands, policy |-> policy, source |-> source ]

\* requiredEvidenceLevel
RequiredLevel(r) ==
  IF r.policy = "strict" \/ (r.policy = "balanced" /\ r.kind = "tests" /\ r.source)
  THEN "command" ELSE "manual"

(***************************************************************************)
(* commandMatches.  The text of the step is its action and its command, and *)
(* must contain that of the required command, or what that has before the   *)
(* file it is given.  So a longer script name is accepted as well; that     *)
(* "npm test" is rewritten helps only a required one, as the action comes   *)
(* first in the step's text.                                                *)
(***************************************************************************)
CommandMatches(actual, required) ==
  /\ <<required.name, actual.name>> \in Begins
  /\ \/ actual.tool = required.tool
     \/ actual.tool = "npm run" /\ required.tool = "npm" /\ required.name = "test"

\* commandMatchFor, where a missing match is an objection
CommandAccepted(s, r) ==
  \/ r.commands = {}
  \/ r.kind = "contract-validation"
  \/ s.command = Nil
  \/ \E c \in r.commands : CommandMatches(s.command, c)

\* Mutant: the tree the command ran in is not compared.
TreeMatchesAny(s, r) == s.tree # Nil

TreeMatches(s, r) == s.tree # Nil /\ TreeHash[s.tree] = TreeHash[r.tree]

\* evaluateCandidate: no reason against the step.
Accepted(s, r, editTime) ==
  /\ Rank[Level(s)] >= Rank[RequiredLevel(r)]
  /\ s.at >= editTime
  /\ Level(s) # "manual" => s.exit = 0 /\ CommandAccepted(s, r) /\ TreeMatches(s, r)

CandidateSteps(trace, kind) ==
  { i \in IF kind = "tests" THEN LatestResults(trace, 0) ELSE DOMAIN trace :
      IsStepFor(trace[i], kind) /\ StepPassed(trace[i]) }

\* The order of the candidates: by level, then by time.
NoWorse(trace, i, j) ==
  \/ Rank[Level(trace[i])] > Rank[Level(trace[j])]
  \/ Level(trace[i]) = Level(trace[j]) /\ trace[i].at >= trace[j].at

(***************************************************************************)
(* evidenceSatisfies.  "claimed" is reported also when nothing satisfies;   *)
(* then the best candidate's reasons are, a stale tree among them.          *)
(***************************************************************************)
Evidence(trace, r) ==
  LET candidates == CandidateSteps(trace, r.kind)
      editTime   == LastEditTime(trace)
      accepted   == { i \in candidates : Accepted(trace[i], r, editTime) }
      best       == { i \in candidates : \A j \in candidates : NoWorse(trace, i, j) }
      level      == IF accepted = {} THEN "none"
                    ELSE CHOOSE l \in {"manual", "command", "ci"} :
                           /\ \E i \in accepted : Level(trace[i]) = l
                           /\ \A i \in accepted : Rank[Level(trace[i])] <= Rank[l]
  IN [ satisfied |-> accepted # {},
       level     |-> level,
       claimed   |-> candidates # {},
       verified  |-> level \in {"command", "ci"},
       staleTree |-> accepted = {} /\ \E i \in best : Level(trace[i]) # "manual"
                                        /\ trace[i].tree # Nil
                                        /\ ~TreeMatches(trace[i], r) ]

-----------------------------------------------------------------------------
(* The guards' reports                                                     *)

(***************************************************************************)
(* collectCommandClaims and packageScriptClaim: a package script that the   *)
(* trace names and package.json does not have.  No later step takes a claim *)
(* back.                                                                    *)
(***************************************************************************)
ClaimsMissingScript(trace, tree) ==
  \E i \in DOMAIN trace :
    /\ trace[i].command # Nil /\ IsScriptClaim(trace[i].command)
    /\ trace[i].command.name \notin ScriptNames(Contents[tree])

NamedPaths(trace) == UNION { trace[i].files : i \in DOMAIN trace }

\* buildHallucinationReport
HallucinationReport(v, plan, trace) ==
  LET missing == MissingPaths(Contents[v.package], Contents[v.tree],
                              MentionedPaths(Contents[v.tree]) \cup NamedPaths(trace))
  IN [ missingCommand |-> ClaimsMissingScript(trace, v.tree),
       error          |-> plan.broken,
       warning        |-> plan.doubtful \/ missing # {} ]

\* buildRegressionReport
RegressionReport(v, plan, trace, policy) ==
  LET required == plan.regression
      evidence == Evidence(trace, Requirement("tests", v.tree, required, policy, SomethingChanged(v)))
  IN [ matched   |-> plan.remembered,
       missing   |-> required # {} /\ ~evidence.satisfied,
       staleTree |-> plan.remembered /\ evidence.staleTree ]

\* Mutant: build output and generated files are not looked for.
ForbiddenFindingsNoOutput(finding, hallucination) ==
  (finding.forbidden \cap {"contract-error"})
    \cup (IF hallucination.error THEN {"hallucination"} ELSE {})

(***************************************************************************)
(* buildPolicyReport: forbidden findings, missing requirements, risks, and  *)
(* whether a finding quotes a stale tree hash.                              *)
(***************************************************************************)
ForbiddenFindings(finding, hallucination) ==
  finding.forbidden \cup (IF hallucination.error THEN {"hallucination"} ELSE {})

TestEvidence(v, plan, trace, policy) ==
  Evidence(trace, Requirement("tests", v.tree, plan.tests, policy, plan.source))

ContractCommand == Cmd("opencode-plusplus", "validate-contracts", Nil)

ContractEvidence(v, plan, trace, policy) ==
  Evidence(trace, Requirement("contract-validation", v.tree, {ContractCommand}, policy,
                              plan.source))

EvidenceFor(v, plan, trace, policy) ==
  [ tests     |-> TestEvidence(v, plan, trace, policy),
    contracts |-> ContractEvidence(v, plan, trace, policy) ]

MissingEvidence(evidence) ==
  (IF evidence.tests.satisfied THEN {} ELSE {"tests"})
    \cup (IF evidence.contracts.satisfied THEN {} ELSE {"contract-validation"})

MissingRequirements(v, plan, evidence, fresh, hallucination, regression) ==
  (IF plan.source THEN MissingEvidence(evidence) ELSE {})
    \cup (IF fresh THEN {} ELSE {"context-refresh"})
    \cup (IF ContractsNotRegenerated(Contents[v.tree]) THEN {"contract-regeneration"} ELSE {})
    \cup (IF regression.missing THEN {"regression-tests"} ELSE {})
    \cup (IF hallucination.missingCommand THEN {"missing-command"} ELSE {})

PolicyRisk(plan, finding, evidence, hallucination) ==
  \/ finding.risk \/ hallucination.warning
  \/ plan.source /\ evidence.tests.claimed /\ ~evidence.tests.verified

(***************************************************************************)
(* commandFromRequiredAction: only what a package manager or the program    *)
(* itself runs counts as a command; of several the first one is asked.      *)
(***************************************************************************)
Runnable(commands) == \E c \in commands : c.tool \in ScriptRunners \cup {"npx"}

RunnableRequirement(plan, missing) ==
  \/ missing \cap {"contract-validation", "context-refresh", "contract-regeneration"} # {}
  \/ "regression-tests" \in missing /\ Runnable(plan.regression)
  \/ "tests" \in missing /\ Runnable({ c \in plan.tests : TestExecution(c) })

RequiredState(plan, missing) ==
  CASE missing = {} -> "satisfied"
    [] missing # {} /\ RunnableRequirement(plan, missing) -> "runnable"
    [] OTHER -> "not-runnable"

\* The report, with what it is made from.
PolicyReportWith(v, plan, finding, trace, evidence, missing, hallucination, regression) ==
  [ view      |-> v,
    seen      |-> Len(trace),
    forbidden |-> ForbiddenFindings(finding, hallucination),
    missing   |-> missing,
    required  |-> RequiredState(plan, missing),
    risk      |-> PolicyRisk(plan, finding, evidence, hallucination),
    staleTree |-> \/ plan.source /\ (evidence.tests.staleTree \/ evidence.contracts.staleTree)
                  \/ regression.staleTree ]

PolicyReport(v, plan, trace, policy, fresh) ==
  LET evidence      == EvidenceFor(v, plan, trace, policy)
      hallucination == HallucinationReport(v, plan, trace)
      regression    == RegressionReport(v, plan, trace, policy)
      missing       == MissingRequirements(v, plan, evidence, fresh, hallucination, regression)
  IN PolicyReportWith(v, plan, FindingOf(v), trace, evidence, missing, hallucination, regression)

-----------------------------------------------------------------------------
(* control-plane/loop-controller.ts: the blocking decisions.               *)

\* decideNextSteps; "level" is what inspectTraceEvidence found.
LoopDecisions(v, plan, finding, fresh, level) ==
  (IF fresh THEN {} ELSE {"rebuild-context"})
    \cup (IF v.package \in OverBudget THEN {"replan"} ELSE {})
    \cup (IF "contract-error" \in finding.forbidden THEN {"repair-contracts"} ELSE {})
    \cup (IF finding.missingTests THEN {"add-or-update-tests"} ELSE {})
    \cup (IF finding.highImpact THEN {"expand-context"} ELSE {})
    \cup (IF SomethingChanged(v) /\ plan.required /\ level = "none"
          THEN {IF plan.useful = {} THEN "human-review" ELSE "run-tests"} ELSE {})

\* buildLoopControllerReport, inspectTraceEvidence
LoopReport(v, plan, trace, policy, fresh) ==
  LET level == TestEvidence(v, plan, trace, policy).level
  IN [ view      |-> v,
       seen      |-> Len(trace),
       level     |-> level,
       decisions |-> LoopDecisions(v, plan, FindingOf(v), fresh, level) ]

-----------------------------------------------------------------------------
(* outputs/guard-gates.ts: the actions of the blocked gates.               *)

\* contextGates
ContextGates(p, l) ==
  IF "context-refresh" \in p.missing \/ l.decisions \cap {"rebuild-context", "replan"} # {}
  THEN {"repack"} ELSE {}

\* boundaryGates: the forbidden and the protected paths.
BoundaryGates(p) == IF p.forbidden = {} THEN {} ELSE {"rollback"}

\* evidenceGates: only results behind the last edit step can fail.
EvidenceGates(p, l, trace) ==
  LET latest == LatestResults(trace, LastEdit(trace))
  IN (IF "tests" \in p.missing \/ (SomethingChanged(l.view) /\ l.level = "none") \/ p.staleTree
      THEN {"run-tests"} ELSE {})
       \cup (IF \E i \in latest : FailedByExit(trace[i]) \/ HasFailureOutput(trace[i])
             THEN {"repair"} ELSE {})

\* hallucinationGates
HallucinationGates(hallucination) ==
  CASE hallucination.missingCommand -> {"repair"}
    [] hallucination.error /\ ~hallucination.missingCommand -> {"block"}
    [] OTHER -> {}

\* regressionGates
RegressionGates(regression, p) ==
  IF regression.matched /\ (regression.missing \/ "regression-tests" \in p.missing)
  THEN {"run-regression-tests"} ELSE {}

\* What the decide phase reads of the reports (buildGuardGateReport among them).
Evaluate(guards, p, l, trace) ==
  [ forbidden |-> p.forbidden # {},
    gates     |-> ContextGates(p, l) \cup BoundaryGates(p) \cup EvidenceGates(p, l, trace)
                    \cup HallucinationGates(guards.hallucination)
                    \cup RegressionGates(guards.regression, p),
    loop      |-> l.decisions,
    required  |-> p.required,
    risk      |-> "expand-context" \in l.decisions \/ p.risk ]
=============================================================================
