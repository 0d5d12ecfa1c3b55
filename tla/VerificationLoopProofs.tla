------------------------- MODULE VerificationLoopProofs -------------------------
(***************************************************************************)
(* Theorems of VerificationLoop, for any repository and any trees that its  *)
(* edits lead to, any reported steps and captured commands, at any moment   *)
(* of an evaluation, and any number of iterations.                          *)
(***************************************************************************)
EXTENDS VerificationLoop, TLAPS

-----------------------------------------------------------------------------
(* The invariant *)

\* What a report has seen of the trace.
Told(report) == [ n \in 1 .. report.seen |-> trace[n] ]

FreshFor(t) == SameIndexes[manifest.package][package] /\ SameFiles[package][manifest.tree][t]

\* The policy report and the loop report are those of the package, of the generated
\* context that is on disk and of one tree.
PolicyInv ==
  LET v == policyReport.view
  IN /\ policyReport.seen \in 0 .. Len(trace)
     /\ v.tree \in Tree /\ v = View(manifest.package, package, v.tree)
     /\ policyReport = PolicyReport(v, PlanOf(v), Told(policyReport), policy, FreshFor(v.tree))

LoopInv ==
  LET v == loopReport.view
  IN /\ loopReport.seen \in 0 .. Len(trace)
     /\ v.tree \in Tree /\ v = View(manifest.package, package, v.tree)
     /\ loopReport = LoopReport(v, PlanOf(v), Told(loopReport), policy, FreshFor(v.tree))

ReportsInv ==
  /\ pc \in {"loop", "gates"} \/ verdict # Nil => PolicyInv
  /\ pc = "gates" \/ verdict # Nil => LoopInv

\* There is a verdict only between two iterations and at the end.
PhaseInv == verdict # Nil => pc \in {"plan", "ended"}

\* Nothing spoke against a run that finalized.
CleanInv ==
  Finalized =>
    /\ policyReport.forbidden = {} /\ policyReport.required = "satisfied"
    /\ loopReport.decisions = {}
    /\ SomethingChanged(loopReport.view) => loopReport.level # "none"

\* A step has a time of its own from that of a command that is not recorded yet.
Timely(s) == s.at < now /\ (running # Nil => s.at # running.at)

\* A captured success of a test command tells of the tree it names.
Truthful(s) ==
  /\ s.command = Nil /\ Terminal(s) => s.action = "run-test"
  /\ ~mixed /\ s.by = "harness" /\ s.exit = 0 /\ s.command # Nil /\ TestExecution(s.command)
       => s.command \in Passes[s.tree]

StepsInv == \A n \in DOMAIN trace : Timely(trace[n]) /\ Truthful(trace[n])

RunningInv ==
  running # Nil =>
    /\ running.at >= 1 /\ running.at < now
    /\ running.command \in Captured
    /\ running.exit = 0 => running.command \in Passes[running.ran]

LaunchInv ==
  pc = "collect" =>
    /\ launch \in [exit : {0, 1}, at : Nat, tree : Tree, modified : BOOLEAN]
    /\ Timely(launch)
    /\ launch.exit = 0 /\ TestExecution(executor) => executor \in Passes[launch.tree]

IInv ==
  /\ TypeOK /\ now >= 1
  /\ PhaseInv /\ ReportsInv /\ CleanInv
  /\ StepsInv /\ RunningInv /\ LaunchInv

-----------------------------------------------------------------------------
(* What the evidence and the decision engine say of a report               *)

\* Where missing evidence is required at the level of a command, and there is some,
\* it is a captured or imported success on the tree that the requirement is about.
LEMMA EvidenceFacts ==
  ASSUME NEW told, NEW r, RequiredLevel(r) = "command",
         Evidence(told, r).satisfied \/ Evidence(told, r).level # "none"
  PROVE  \E i \in CandidateSteps(told, r.kind) :
           /\ told[i].by \in {"harness", "ci"} /\ told[i].exit = 0
           /\ told[i].by = "harness" => told[i].command # Nil
           /\ CommandAccepted(told[i], r) /\ TreeMatches(told[i], r)
<1> DEFINE accepted == { i \in CandidateSteps(told, r.kind) :
                           Accepted(told[i], r, LastEditTime(told)) }
<1>1. accepted # {}
  BY DEF Evidence
<1>2. PICK i \in CandidateSteps(told, r.kind) : Accepted(told[i], r, LastEditTime(told))
  BY <1>1
<1>3. Rank[Level(told[i])] >= Rank["command"]
  BY <1>2 DEF Accepted
<1>4. Level(told[i]) # "manual"
  BY <1>3 DEF Rank
<1>5. told[i].by \in {"harness", "ci"} /\ (told[i].by = "harness" => told[i].command # Nil)
  BY <1>4 DEF Level
<1> QED
  BY <1>2, <1>4, <1>5 DEF Accepted

\* Two trees with one fingerprint differ only in files that HEAD has in two versions.
LEMMA OneFingerprint ==
  ASSUME NEW u \in Tree, NEW t \in Tree, TreeHash[u] = TreeHash[t]
  PROVE  SameButForCommits(u, t)
<1> DEFINE Left(f)  == Read(Heads[u], f)
           Right(f) == Read(Heads[t], f)
<1>1. WorkingTreeFingerprint(Heads[u], Contents[u]) = WorkingTreeFingerprint(Heads[t], Contents[t])
  BY HashAssumption
<1>2. ASSUME NEW a, NEW b, NEW c, NEW d,
             WorkingTreeFingerprint(a, b) = WorkingTreeFingerprint(c, d),
             NEW f, f[1] \notin {".agent-context", "AGENTS.md"}, Read(a, f) # Read(b, f)
      PROVE  Read(b, f) = Read(d, f)
  <2>1. f \in DOMAIN a \cup DOMAIN b
    BY <1>2 DEF Read
  <2>2. f \in Uncommitted(a, b)
    BY <1>2, <2>1 DEF Uncommitted
  <2>3. <<f, Read(a, f), Read(b, f)>> \in WorkingTreeFingerprint(a, b)
    BY <2>2 DEF WorkingTreeFingerprint
  <2>4. <<f, Read(a, f), Read(b, f)>> \in WorkingTreeFingerprint(c, d)
    BY <1>2, <2>3
  <2>5. PICK g : <<f, Read(a, f), Read(b, f)>> = <<g, Read(c, g), Read(d, g)>>
    BY <2>4 DEF WorkingTreeFingerprint
  <2> QED
    BY <2>5
<1> SUFFICES ASSUME NEW f, f[1] \notin {".agent-context", "AGENTS.md"},
                    Read(Heads[u], f) = Read(Heads[t], f)
             PROVE  Read(Contents[u], f) = Read(Contents[t], f)
  BY DEF SameButForCommits
<1>3. CASE Read(Heads[u], f) # Read(Contents[u], f)
  BY <1>1, <1>2, <1>3
<1>4. CASE Read(Heads[t], f) # Read(Contents[t], f)
  <2>1. Read(Contents[t], f) = Read(Contents[u], f)
    BY <1>1, <1>2, <1>4
  <2> QED
    BY <2>1
<1> QED
  BY <1>3, <1>4

LEMMA MatchIsSame ==
  ASSUME NEW s \in Step, NEW r, r.tree \in Tree, TreeMatches(s, r)
  PROVE  s.tree \in Tree /\ SameButForCommits(s.tree, r.tree)
<1>1. s.tree \in Tree
  BY DEF Step, TreeMatches
<1> QED
  BY <1>1, OneFingerprint DEF TreeMatches

\* "finalize" is selected only if nothing objects.
LEMMA NothingObjects ==
  ASSUME NEW exit, NEW e, NEW mode, e.required \in {"satisfied", "runnable", "not-runnable"},
         "finalize" \in Selected(Candidates(exit, e, mode))
  PROVE  ~e.forbidden /\ e.gates = {} /\ e.loop = {} /\ e.required = "satisfied"
<1> DEFINE Required == CASE e.required = "satisfied"    -> {}
                         [] e.required = "runnable"     -> {"repair"}
                         [] e.required = "not-runnable" -> {"human-review"}
<1>1. \A gate : GateDecision(gate, mode) # "finalize"
  BY DEF GateDecision, UndoAction
<1>2. \A step : LoopDecision(step) # "finalize"
  <2>1. \A step : LoopDecision(step) \in {"repack", "repair", "run-tests", "human-review"}
    BY DEF LoopDecision
  <2> QED
    BY <2>1
<1>3. "finalize" \notin Required
  OBVIOUS
<1>4. UndoAction(mode) # "finalize"
  BY DEF UndoAction
<1>5. e.required # "satisfied" => Required # {}
  OBVIOUS
<1> HIDE DEF Required
<1>6. Objections(exit, e, mode)
        = UNION { IF exit # 0 THEN {"executor-failure"} ELSE {},
                  IF e.forbidden THEN {UndoAction(mode)} ELSE {},
                  { GateDecision(gate, mode) : gate \in e.gates },
                  { LoopDecision(step) : step \in e.loop },
                  Required,
                  IF e.risk THEN {"human-review"} ELSE {} }
  BY DEF Objections, Required
<1>7. "finalize" \notin Objections(exit, e, mode)
  BY <1>1, <1>2, <1>3, <1>4, <1>6
<1>8. Objections(exit, e, mode) = {}
  BY <1>7 DEF Selected, Candidates
<1>9. /\ (IF e.forbidden THEN {UndoAction(mode)} ELSE {}) = {}
      /\ { GateDecision(gate, mode) : gate \in e.gates } = {}
      /\ { LoopDecision(step) : step \in e.loop } = {}
      /\ Required = {}
  BY <1>6, <1>8
<1> QED
  BY <1>5, <1>9

\* What is selected is an action.
LEMMA SelectedIsAction ==
  ASSUME NEW exit, NEW e, NEW mode, e.required \in {"satisfied", "runnable", "not-runnable"},
         NEW action \in Selected(Candidates(exit, e, mode))
  PROVE  action \in Action
<1>0. Action = {"no-progress", "max-loops-reached", "rollback", "executor-failure",
            "block", "repack", "repair", "run-tests", "human-review", "finalize"}
  BY DEF Action, Priority
<1> DEFINE Required == CASE e.required = "satisfied"    -> {}
                         [] e.required = "runnable"     -> {"repair"}
                         [] e.required = "not-runnable" -> {"human-review"}
<1>1. \A gate : GateDecision(gate, mode) \in Action
  BY <1>0 DEF GateDecision, UndoAction
<1>2. \A step : LoopDecision(step) \in Action
  BY <1>0 DEF LoopDecision
<1>3. Required \subseteq Action
  BY <1>0
<1>4. UndoAction(mode) \in Action /\ "executor-failure" \in Action /\ "human-review" \in Action
      /\ "finalize" \in Action
  BY <1>0 DEF UndoAction
<1> HIDE DEF Required
<1>5. Objections(exit, e, mode)
        = UNION { IF exit # 0 THEN {"executor-failure"} ELSE {},
                  IF e.forbidden THEN {UndoAction(mode)} ELSE {},
                  { GateDecision(gate, mode) : gate \in e.gates },
                  { LoopDecision(step) : step \in e.loop },
                  Required,
                  IF e.risk THEN {"human-review"} ELSE {} }
  BY DEF Objections, Required
<1>6. Objections(exit, e, mode) \subseteq Action
  <2> SUFFICES ASSUME NEW a \in Objections(exit, e, mode)
               PROVE  a \in Action
    OBVIOUS
  <2> QED
    BY <1>1, <1>2, <1>3, <1>4, <1>5
<1>7. action \in Candidates(exit, e, mode)
  BY DEF Selected
<1> QED
  BY <1>4, <1>6, <1>7 DEF Candidates

\* A policy report requires something or nothing.
LEMMA RequiredStates ==
  ASSUME NEW plan, NEW missing
  PROVE  /\ RequiredState(plan, missing) \in {"satisfied", "runnable", "not-runnable"}
         /\ RequiredState(plan, missing) = "satisfied" => missing = {}
<1>1. CASE missing = {}
  BY <1>1 DEF RequiredState
<1>2. CASE missing # {}
  BY <1>2 DEF RequiredState
<1> QED
  BY <1>1, <1>2

\* A change that requires source verification is a change.
LEMMA SourceIsChange ==
  ASSUME NEW p, NEW t, RequiresSource(p, t)
  PROVE  Changed(t) # {}
<1> SUFFICES ASSUME Changed(t) = {}
             PROVE  FALSE
  OBVIOUS
<1>1. DocsOnly(t)
  BY DEF DocsOnly
<1>2. ChangeKinds(p, t) = {"docs-only"}
  BY <1>1 DEF ChangeKinds
<1> QED
  BY <1>2 DEF RequiresSource

\* Of a command and its renaming both or none execute tests.
LEMMA SameKeyIsTest ==
  ASSUME NEW s \in Step, NEW u \in Step, s.command # Nil, IsTestStep(s),
         ResultKey(u) = ResultKey(s)
  PROVE  IsTestStep(u)
<1>1. s.command \in Command /\ u.command \in Command \cup {Nil}
  BY DEF Step
<1>2. s.command = Cmd(s.command.tool, s.command.name, s.command.file)
  BY <1>1, CommandAssumption
<1>3. ResultKey(s) # Nil
  BY <1>1, CommandAssumption DEF ResultKey
<1>4. u.command \in Command /\ u.command # Nil
  BY <1>1, <1>3 DEF ResultKey
<1>5. u.command = Cmd(u.command.tool, u.command.name, u.command.file)
  BY <1>4, CommandAssumption
<1>6. ASSUME NEW c \in Command, NEW k,
             k = IF c.tool = "npm" /\ c.name = "test" THEN [c EXCEPT !.tool = "npm run"] ELSE c
      PROVE  k.name = c.name /\ (k.tool = c.tool \/ (c.tool = "npm" /\ k.tool = "npm run"))
  <2>1. c = [tool |-> c.tool, name |-> c.name, file |-> c.file]
    BY CommandAssumption DEF Cmd
  <2> QED
    BY <1>6, <2>1
<1>7. PICK k : k = ResultKey(s)
  OBVIOUS
<1>8. /\ k.name = s.command.name
      /\ k.tool = s.command.tool \/ (s.command.tool = "npm" /\ k.tool = "npm run")
  <2>1. k = IF s.command.tool = "npm" /\ s.command.name = "test"
            THEN [s.command EXCEPT !.tool = "npm run"] ELSE s.command
    BY <1>7 DEF ResultKey
  <2> QED
    BY <1>1, <1>6, <2>1
<1>9. /\ k.name = u.command.name
      /\ k.tool = u.command.tool \/ (u.command.tool = "npm" /\ k.tool = "npm run")
  <2>1. k = IF u.command.tool = "npm" /\ u.command.name = "test"
            THEN [u.command EXCEPT !.tool = "npm run"] ELSE u.command
    BY <1>4, <1>7 DEF ResultKey
  <2> QED
    BY <1>4, <1>6, <2>1
<1>10. TestExecution(s.command)
  BY DEF IsTestStep
<1>11. TestExecution(u.command)
  BY <1>8, <1>9, <1>10 DEF TestExecution, ScriptRunners
<1> QED
  BY <1>4, <1>11 DEF IsTestStep

-----------------------------------------------------------------------------
(* Traces *)

\* The files a step may name
AnyFile == UNION { DOMAIN Contents[t] : t \in Tree }

LEMMA ChangedFilesFacts ==
  ASSUME NEW t \in Tree
  PROVE  ChangedFiles[t] \subseteq AnyFile
<1>1. PICK b \in Tree : Base = Contents[b]
  BY TreeAssumption
<1>2. Changed(Contents[t]) \subseteq DOMAIN Contents[t] \cup DOMAIN Contents[b]
  BY <1>1 DEF Changed
<1>3. ChangedFiles[t] = Changed(Contents[t])
  BY DEF ChangedFiles
<1> QED
  BY <1>2, <1>3 DEF AnyFile

\* A step is appended or was there.
Longer(told, s, new) ==
  /\ new \in Seq(Step) /\ Len(told) <= Len(new)
  /\ \A n \in 1 .. Len(told) : new[n] = told[n]
  /\ \A n \in DOMAIN new : n \in DOMAIN told \/ new[n] = s

LEMMA RecordedFacts ==
  ASSUME NEW told \in Seq(Step), NEW s \in Step, NEW new, new = Recorded(told, s)
  PROVE  Longer(told, s, new)
<1>1. Len(told) \in Nat /\ DOMAIN told = 1 .. Len(told)
  OBVIOUS
<1>2. CASE new = told
  BY <1>1, <1>2 DEF Longer
<1>3. CASE new = Append(told, s)
  <2>1. /\ new \in Seq(Step) /\ Len(new) = Len(told) + 1 /\ DOMAIN new = 1 .. Len(told) + 1
        /\ \A n \in 1 .. Len(told) : new[n] = told[n]
        /\ new[Len(told) + 1] = s
    BY <1>1, <1>3
  <2>2. \A n \in DOMAIN new : n \in 1 .. Len(told) \/ n = Len(told) + 1
    BY <1>1, <2>1
  <2> QED
    BY <1>1, <2>1, <2>2 DEF Longer
<1> QED
  BY <1>2, <1>3 DEF Recorded

\* The trace only grows.
Grows ==
  Len(trace) <= Len(trace') /\ \A n \in 1 .. Len(trace) : trace'[n] = trace[n]

LEMMA GrowsFacts ==
  ASSUME TypeOK
  PROVE  /\ trace \in Seq(Step) /\ Len(trace) \in Nat /\ DOMAIN trace = 1 .. Len(trace)
         /\ \A n \in DOMAIN trace : trace[n] \in Step /\ trace[n].at \in Nat
         /\ trace' = trace => Grows
<1>1. trace \in Seq(Step) /\ Len(trace) \in Nat /\ DOMAIN trace = 1 .. Len(trace)
  BY DEF TypeOK
<1>2. \A n \in DOMAIN trace : trace[n] \in Step
  BY <1>1
<1>3. \A s \in Step : s.at \in Nat
  BY DEF Step
<1> QED
  BY <1>1, <1>2, <1>3 DEF Grows

\* Reports that were made stay what they are.
LEMMA ReportsStay ==
  ASSUME TypeOK, TypeOK', Grows, ReportsInv,
         policy' = policy, package' = package, manifest' = manifest,
         policyReport' = policyReport, loopReport' = loopReport,
         pc' \in {"loop", "gates"} \/ verdict' # Nil => pc \in {"loop", "gates"} \/ verdict # Nil,
         pc' = "gates" \/ verdict' # Nil => pc = "gates" \/ verdict # Nil
  PROVE  ReportsInv'
<1>1. Len(trace) \in Nat /\ Len(trace') \in Nat
  BY DEF TypeOK
<1>2. ASSUME NEW report, report.seen \in 0 .. Len(trace)
      PROVE  Told(report)' = Told(report) /\ report.seen \in 0 .. Len(trace')
  <2>1. \A n \in 1 .. report.seen : n \in 1 .. Len(trace)
    BY <1>1, <1>2
  <2> QED
    BY <1>1, <1>2, <2>1 DEF Told, Grows
<1>3. PolicyInv => PolicyInv'
  <2> SUFFICES ASSUME PolicyInv
               PROVE  PolicyInv'
    OBVIOUS
  <2>1. PICK report : report = policyReport
    OBVIOUS
  <2>2. Told(report)' = Told(report) /\ report.seen \in 0 .. Len(trace')
    BY <1>2, <2>1 DEF PolicyInv
  <2>3. \A t : FreshFor(t)' = FreshFor(t)
    BY DEF FreshFor
  <2>4. Told(policyReport)' = Told(policyReport) /\ policyReport'.seen \in 0 .. Len(trace')
    BY <2>1, <2>2
  <2>5. FreshFor(policyReport.view.tree)' = FreshFor(policyReport.view.tree)
    BY DEF FreshFor
  <2> QED
    BY <2>4, <2>5 DEF PolicyInv
<1>4. LoopInv => LoopInv'
  <2> SUFFICES ASSUME LoopInv
               PROVE  LoopInv'
    OBVIOUS
  <2>1. PICK report : report = loopReport
    OBVIOUS
  <2>2. Told(report)' = Told(report) /\ report.seen \in 0 .. Len(trace')
    BY <1>2, <2>1 DEF LoopInv
  <2>4. Told(loopReport)' = Told(loopReport) /\ loopReport'.seen \in 0 .. Len(trace')
    BY <2>1, <2>2
  <2>5. FreshFor(loopReport.view.tree)' = FreshFor(loopReport.view.tree)
    BY DEF FreshFor
  <2> QED
    BY <2>4, <2>5 DEF LoopInv
<1> QED
  BY <1>3, <1>4 DEF ReportsInv

\* Nor does what others do change the verdict.
LEMMA CleanStays ==
  ASSUME CleanInv, policyReport' = policyReport, loopReport' = loopReport,
         verdict' \in {verdict, Nil}
  PROVE  CleanInv'
<1>1. Nil # "finalize"
  BY CommandAssumption DEF Action, Priority
<1>2. Finalized' => Finalized
  BY <1>1 DEF Finalized
<1> QED
  BY <1>2 DEF CleanInv, SomethingChanged

\* Time passes, and a command that ends gets a time of its own.
Passing ==
  /\ now' \in {now, now + 1}
  /\ \/ running' = running \/ running' = Nil
     \/ running' # Nil /\ running'.at = now
  /\ mixed => mixed'

LEMMA PassingFacts ==
  ASSUME TypeOK, Passing
  PROVE  /\ \A s : s.at \in Nat /\ Timely(s) => Timely(s)'
         /\ \A s : Truthful(s) => Truthful(s)'
         /\ now >= 1 => now' >= 1
<1>1. now \in Nat /\ now' \in Nat /\ now <= now'
  BY DEF TypeOK, Passing
<1>2. ASSUME NEW s, s.at \in Nat, Timely(s)
      PROVE  Timely(s)'
  <2>1. s.at < now /\ s.at < now'
    BY <1>1, <1>2 DEF Timely
  <2>2. ASSUME running' # Nil
        PROVE  s.at # running'.at
    BY <1>1, <1>2, <2>1, <2>2 DEF Timely, Passing
  <2> QED
    BY <2>1, <2>2 DEF Timely
<1>3. ASSUME NEW s, Truthful(s)
      PROVE  Truthful(s)'
  BY <1>3 DEF Truthful, Passing
<1> QED
  BY <1>1, <1>2, <1>3

\* Steps that were recorded keep their time and their truth; new ones have to have them.
LEMMA StepsStay ==
  ASSUME TypeOK, TypeOK', StepsInv, Passing, Grows,
         \A n \in DOMAIN trace' : n \in DOMAIN trace \/ (Timely(trace[n])' /\ Truthful(trace[n])')
  PROVE  StepsInv'
<1> SUFFICES ASSUME NEW n \in DOMAIN trace'
             PROVE  Timely(trace[n])' /\ Truthful(trace[n])'
  BY DEF StepsInv
<1>1. CASE n \in DOMAIN trace
  <2>1. trace'[n] = trace[n] /\ trace[n].at \in Nat
    BY <1>1, GrowsFacts DEF Grows
  <2>2. PICK s : s = trace[n]
    OBVIOUS
  <2>3. Timely(s) /\ Truthful(s) /\ s.at \in Nat
    BY <1>1, <2>1, <2>2 DEF StepsInv
  <2>4. Timely(s)' /\ Truthful(s)'
    BY <2>3, PassingFacts
  <2> QED
    BY <2>1, <2>2, <2>4 DEF Timely, Truthful
<1>2. CASE n \notin DOMAIN trace
  BY <1>2
<1> QED
  BY <1>1, <1>2

LEMMA LaunchStays ==
  ASSUME TypeOK, LaunchInv, Passing, launch' = launch, executor' = executor,
         pc' = "collect" => pc = "collect"
  PROVE  LaunchInv'
<1> SUFFICES ASSUME pc' = "collect"
             PROVE  LaunchInv'
  BY DEF LaunchInv
<1>1. PICK s : s = launch
  OBVIOUS
<1>2. s \in [exit : {0, 1}, at : Nat, tree : Tree, modified : BOOLEAN] /\ Timely(s)
  BY <1>1 DEF LaunchInv
<1>3. s.at \in Nat
  BY <1>2
<1>4. Timely(s)'
  BY <1>2, <1>3, PassingFacts
<1>5. Timely(launch)'
  BY <1>1, <1>4 DEF Timely
<1> QED
  BY <1>1, <1>2, <1>5 DEF LaunchInv

\* A step of the others leaves the run alone.
LEMMA OthersKeep ==
  ASSUME IInv, TypeOK', fixed' = fixed, runVars' = runVars, Grows, Passing,
         StepsInv', RunningInv'
  PROVE  IInv'
<1>1. /\ policy' = policy /\ executor' = executor /\ package' = package
      /\ manifest' = manifest /\ pc' = pc /\ launch' = launch
      /\ policyReport' = policyReport /\ loopReport' = loopReport /\ verdict' = verdict
  BY DEF fixed, runVars
<1>2. TypeOK /\ now >= 1 /\ PhaseInv /\ ReportsInv /\ CleanInv /\ LaunchInv
  BY DEF IInv
<1>3. ReportsInv'
  BY <1>1, <1>2, ReportsStay
<1>4. CleanInv'
  BY <1>1, <1>2, CleanStays
<1>5. LaunchInv'
  BY <1>1, <1>2, LaunchStays
<1>6. PhaseInv'
  BY <1>1, <1>2 DEF PhaseInv
<1> QED
  BY <1>2, <1>3, <1>4, <1>5, <1>6, PassingFacts DEF IInv

LEMMA InitInv == Init => IInv
<1> SUFFICES ASSUME Init
             PROVE  IInv
  OBVIOUS
<1>1. Nil # "finalize"
  BY CommandAssumption DEF Action, Priority
<1>2. TypeOK
  <2>1. <<policy, executor>> \in Runs
    <3>1. PICK r \in Runs : policy = r[1] /\ executor = r[2]
      BY DEF Init
    <3>2. r = <<r[1], r[2]>>
      BY LoopAssumption
    <3> QED
      BY <3>1, <3>2
  <2>2. tree \in Tree
    BY LoopAssumption DEF Init
  <2>3. 1 \in 1 .. MaxLoops
    BY LoopAssumption
  <2>4. trace \in Seq(Step)
    BY DEF Init
  <2> QED
    BY <2>1, <2>2, <2>3, <2>4 DEF Init, TypeOK, Phase
<1>3. DOMAIN trace = {}
  BY DEF Init
<1>4. PhaseInv /\ ReportsInv /\ StepsInv /\ RunningInv /\ LaunchInv
  BY <1>3 DEF Init, PhaseInv, ReportsInv, StepsInv, RunningInv, LaunchInv
<1>5. CleanInv
  BY <1>1 DEF Init, CleanInv, Finalized
<1> QED
  BY <1>2, <1>4, <1>5 DEF IInv, Init

-----------------------------------------------------------------------------
(* The others *)

LEMMA EditInv ==
  ASSUME IInv, NEW t \in Tree, Edit(t)
  PROVE  IInv'
<1>1. TypeOK /\ StepsInv /\ RunningInv
  BY DEF IInv
<1>2. TypeOK'
  BY <1>1 DEF Edit, TypeOK, fixed, runVars
<1>3. Passing /\ Grows
  BY <1>1, GrowsFacts DEF Edit, Passing
<1>4. StepsInv'
  BY <1>1, <1>2, <1>3, StepsStay DEF Edit
<1>5. RunningInv'
  BY <1>1 DEF Edit, RunningInv
<1> QED
  BY <1>2, <1>3, <1>4, <1>5, OthersKeep DEF Edit

LEMMA ReportedStepFacts ==
  ASSUME TypeOK, NEW s \in ReportedStep
  PROVE  /\ s \in Step /\ s.at = now /\ s.by # "harness"
         /\ s.command = Nil /\ Terminal(s) => s.action = "run-test"
<1>1. now \in Nat /\ tree \in Tree /\ package \in Tree
  BY DEF TypeOK
<1>2. ASSUME NEW action \in {"edit", "run-test"}, NEW c \in Command \cup {Nil},
             NEW by \in {"manual", "ci"}, NEW e \in {0, 1, Nil},
             NEW o \in {"passed", "failed", "unknown", "fail-output"},
             NEW h \in Tree \cup {Nil}
      PROVE  Reported(action, c, by, e, o, h) \in Step
  BY <1>1, <1>2 DEF Reported, Step, StepAction
<1>3. CASE s = Reported("edit", Nil, "manual", Nil, "unknown", Nil)
  BY <1>2, <1>3 DEF Reported, Terminal
<1>4. CASE \E o \in {"passed", "fail-output"} : s = Reported("run-test", Nil, "manual", Nil, o, Nil)
  BY <1>2, <1>4 DEF Reported
<1>5. CASE \E c \in Plans[package][tree].tests, e \in ToldExits :
             s = Reported("run-test", c, "ci", e, Outcome(e), tree)
  <2>1. PICK c \in Plans[package][tree].tests, e \in ToldExits :
               s = Reported("run-test", c, "ci", e, Outcome(e), tree)
    BY <1>5
  <2>2. c \in Command
    BY <1>1, TableAssumption
  <2>3. e \in {0, 1}
    BY LoopAssumption
  <2>4. Outcome(e) \in {"passed", "failed"}
    BY DEF Outcome
  <2>5. s \in Step
    BY <1>1, <1>2, <2>1, <2>2, <2>3, <2>4
  <2> QED
    BY <2>1, <2>5 DEF Reported
<1> QED
  BY <1>3, <1>4, <1>5 DEF ReportedStep

LEMMA ReportInv ==
  ASSUME IInv, NEW s \in ReportedStep, Report(s)
  PROVE  IInv'
<1>1. TypeOK /\ StepsInv /\ RunningInv
  BY DEF IInv
<1>2. /\ s \in Step /\ s.at = now /\ s.by # "harness"
      /\ s.command = Nil /\ Terminal(s) => s.action = "run-test"
  BY <1>1, ReportedStepFacts
<1>3. now \in Nat /\ trace \in Seq(Step) /\ running' = running /\ now' = now + 1
  BY <1>1 DEF TypeOK, Report
<1>4. PICK new : new = Recorded(trace, s)
  OBVIOUS
<1>5. trace' = new
  BY <1>4 DEF Report
<1>6. Longer(trace, s, new)
  BY <1>2, <1>3, <1>4, RecordedFacts
<1>7. TypeOK'
  BY <1>1, <1>5, <1>6 DEF Report, TypeOK, fixed, runVars, Longer
<1>8. Passing /\ Grows
  BY <1>3, <1>5, <1>6 DEF Report, Passing, Grows, Longer
<1>9. Timely(s)' /\ Truthful(s)'
  <2>1. running # Nil => running.at < now
    BY <1>1 DEF RunningInv
  <2>2. running # Nil => running.at \in Nat
    BY <1>1 DEF TypeOK
  <2>3. Timely(s)'
    BY <1>2, <1>3, <2>1, <2>2 DEF Timely
  <2>4. Truthful(s)'
    BY <1>2 DEF Truthful
  <2> QED
    BY <2>3, <2>4
<1>10. \A n \in DOMAIN trace' : n \in DOMAIN trace \/ (Timely(trace[n])' /\ Truthful(trace[n])')
  BY <1>5, <1>6, <1>9 DEF Timely, Truthful, Longer
<1>11. StepsInv'
  BY <1>1, <1>7, <1>8, <1>10, StepsStay
<1>12. RunningInv'
  <2>1. running # Nil => running.at \in Nat
    BY <1>1 DEF TypeOK
  <2> QED
    BY <1>1, <1>3, <2>1 DEF RunningInv
<1> QED
  BY <1>7, <1>8, <1>11, <1>12, OthersKeep DEF Report

LEMMA RunCommandInv ==
  ASSUME IInv, NEW c \in Captured, RunCommand(c)
  PROVE  IInv'
<1>1. TypeOK /\ StepsInv /\ now >= 1
  BY DEF IInv
<1>2. c \in Command /\ now \in Nat /\ tree \in Tree
  BY <1>1, LoopAssumption DEF TypeOK
<1>3. PICK r : r = [ command |-> c, at |-> now, ran |-> tree,
                     exit |-> IF c \in Passes[tree] THEN 0 ELSE 1 ]
  OBVIOUS
<1>4. running' = r /\ now' = now + 1 /\ trace' = trace
  BY <1>3 DEF RunCommand
<1>5. /\ r \in [command : Command, at : Nat, ran : Tree, exit : {0, 1}]
      /\ r.at = now /\ r.command = c /\ r.ran = tree
      /\ r.exit = 0 => c \in Passes[tree]
  BY <1>2, <1>3
<1>6. TypeOK'
  BY <1>1, <1>2, <1>4, <1>5 DEF RunCommand, TypeOK, fixed, runVars
<1>7. Passing /\ Grows
  BY <1>1, <1>4, <1>5, GrowsFacts DEF RunCommand, Passing
<1>8. StepsInv'
  BY <1>1, <1>4, <1>6, <1>7, StepsStay
<1>9. RunningInv'
  BY <1>1, <1>2, <1>4, <1>5 DEF RunningInv
<1> QED
  BY <1>6, <1>7, <1>8, <1>9, OthersKeep DEF RunCommand

\* The step a captured command is recorded as
CapturedStep ==
  [ action |-> "run-test", command |-> running.command, by |-> "harness",
    exit |-> running.exit, outcome |-> Outcome(running.exit),
    files |-> Named[running.command], at |-> running.at, tree |-> tree ]

LEMMA CapturedStepFacts ==
  ASSUME TypeOK, RunningInv, running # Nil, NEW s, s = CapturedStep
  PROVE  /\ s \in Step /\ s.at = running.at /\ s.tree = tree /\ s.by = "harness"
         /\ s.command = running.command /\ s.command # Nil /\ s.exit = running.exit
         /\ s.action = "run-test"
<1>1. running \in [command : Command, at : Nat, ran : Tree, exit : {0, 1}] /\ tree \in Tree
  BY DEF TypeOK
<1>2. running.command \in Command /\ running.at \in Nat /\ running.exit \in {0, 1}
  BY <1>1
<1>3. Named[running.command] \subseteq UNION { DOMAIN Contents[t] : t \in Tree }
  BY LoopAssumption DEF RunningInv
<1>4. Outcome(running.exit) \in {"passed", "failed"}
  BY DEF Outcome
<1>5. s \in Step
  BY <1>1, <1>2, <1>3, <1>4 DEF CapturedStep, Step, StepAction
<1>6. Nil # running.command
  BY <1>2, CommandAssumption
<1> QED
  BY <1>5, <1>6 DEF CapturedStep

LEMMA RecordCommandInv ==
  ASSUME IInv, RecordCommand
  PROVE  IInv'
<1>1. TypeOK /\ StepsInv /\ RunningInv /\ running # Nil
  BY DEF IInv, RecordCommand
<1>2. PICK s : s = CapturedStep
  OBVIOUS
<1>3. /\ s \in Step /\ s.at = running.at /\ s.tree = tree /\ s.by = "harness"
      /\ s.command = running.command /\ s.command # Nil /\ s.exit = running.exit
      /\ s.action = "run-test"
  BY <1>1, <1>2, CapturedStepFacts
<1>4. PICK new : new = Recorded(trace, s)
  OBVIOUS
<1>5. trace' = new /\ running' = Nil /\ now' = now /\ tree' = tree
  BY <1>2, <1>4 DEF RecordCommand, CapturedStep
<1>6. trace \in Seq(Step)
  BY <1>1 DEF TypeOK
<1>7. Longer(trace, s, new)
  BY <1>3, <1>4, <1>6, RecordedFacts
<1>8. mixed \in BOOLEAN /\ mixed' = (mixed \/ running.ran # tree)
  BY <1>1 DEF RecordCommand, TypeOK
<1>9. TypeOK'
  <2>1. mixed' \in BOOLEAN
    BY <1>8
  <2> QED
    BY <1>1, <1>5, <1>7, <2>1 DEF RecordCommand, TypeOK, fixed, runVars, Longer
<1>10. Passing /\ Grows
  <2>1. mixed => mixed'
    BY <1>8
  <2> QED
    BY <1>5, <1>7, <2>1 DEF Passing, Grows, Longer
<1>11. Timely(s)' /\ Truthful(s)'
  <2>1. Timely(s)'
    BY <1>1, <1>3, <1>5 DEF Timely, RunningInv
  <2>2. ~mixed' => running.ran = tree
    BY <1>8
  <2>3. ~mixed' /\ s.exit = 0 => s.command \in Passes[s.tree]
    BY <1>1, <1>3, <2>2 DEF RunningInv
  <2> QED
    BY <1>3, <2>1, <2>3 DEF Truthful
<1>12. \A n \in DOMAIN trace' : n \in DOMAIN trace \/ (Timely(trace[n])' /\ Truthful(trace[n])')
  BY <1>5, <1>7, <1>11 DEF Timely, Truthful, Longer
<1>13. StepsInv'
  BY <1>1, <1>9, <1>10, <1>12, StepsStay
<1>14. RunningInv'
  BY <1>5 DEF RunningInv
<1> QED
  BY <1>9, <1>10, <1>13, <1>14, OthersKeep DEF RecordCommand

-----------------------------------------------------------------------------
(* The run *)

LEMMA RefreshedFacts ==
  ASSUME TypeOK, NEW repack, NEW unmodified, NEW p \in Refreshed(repack, unmodified)
  PROVE  p \in Tree
BY DEF Refreshed, TypeOK


LEMMA PlanInv ==
  ASSUME IInv, Plan
  PROVE  IInv'
<1>1. TypeOK /\ StepsInv /\ RunningInv /\ now >= 1
  BY DEF IInv
<1>2. package' \in Tree
  BY <1>1, RefreshedFacts DEF Plan
<1>3. TypeOK'
  BY <1>1, <1>2 DEF Plan, TypeOK, fixed, ghosts, Phase
<1>4. Passing /\ Grows
  BY <1>1, GrowsFacts DEF Plan, Passing, ghosts
<1>5. StepsInv'
  BY <1>1, <1>3, <1>4, StepsStay DEF Plan
<1>6. RunningInv'
  BY <1>1 DEF RunningInv, Plan
<1>7. LaunchInv' /\ PhaseInv' /\ ReportsInv'
  BY DEF Plan, LaunchInv, PhaseInv, ReportsInv
<1>8. CleanInv'
  BY CommandAssumption DEF Plan, CleanInv, Finalized, Action, Priority
<1> QED
  BY <1>1, <1>3, <1>5, <1>6, <1>7, <1>8 DEF IInv, Plan

LEMMA WriteContextInv ==
  ASSUME IInv, WriteContext
  PROVE  IInv'
<1>1. TypeOK /\ StepsInv /\ RunningInv /\ LaunchInv /\ CleanInv /\ PhaseInv /\ now >= 1
  BY DEF IInv
<1>2. verdict = Nil
  BY <1>1 DEF WriteContext, PhaseInv
<1>3. TypeOK'
  BY <1>1 DEF WriteContext, TypeOK, fixed, ghosts, Phase
<1>4. Passing /\ Grows
  BY <1>1, GrowsFacts DEF WriteContext, Passing, ghosts
<1>5. StepsInv'
  BY <1>1, <1>3, <1>4, StepsStay DEF WriteContext
<1>6. RunningInv'
  BY <1>1 DEF RunningInv, WriteContext
<1>7. LaunchInv'
  BY <1>1, <1>4, LaunchStays DEF WriteContext, fixed
<1>8. CleanInv'
  BY <1>1, CleanStays DEF WriteContext
<1>9. PhaseInv' /\ ReportsInv'
  BY <1>2 DEF WriteContext, PhaseInv, ReportsInv
<1> QED
  BY <1>1, <1>3, <1>5, <1>6, <1>7, <1>8, <1>9 DEF IInv, WriteContext

LEMMA ExecuteInv ==
  ASSUME IInv, Execute
  PROVE  IInv'
<1>1. TypeOK /\ StepsInv /\ RunningInv /\ CleanInv /\ PhaseInv /\ now >= 1
  BY DEF IInv
<1>2. verdict = Nil
  BY <1>1 DEF Execute, PhaseInv
<1>3. now \in Nat /\ now' = now + 1 /\ running' = running /\ tree \in Tree
  BY <1>1 DEF Execute, TypeOK
<1>4. PICK e \in {0, 1} :
        /\ launch' = [ exit |-> e, at |-> now, tree |-> tree,
                       modified |-> Contents[tree] # Contents[manifest.tree] ]
        /\ e = 0 /\ TestExecution(executor) => executor \in Passes[tree]
  BY DEF Execute
<1>5. PICK l : l = [ exit |-> e, at |-> now, tree |-> tree,
                     modified |-> Contents[tree] # Contents[manifest.tree] ]
  OBVIOUS
<1>6. /\ launch' = l /\ l \in [exit : {0, 1}, at : Nat, tree : Tree, modified : BOOLEAN]
      /\ l.at = now /\ l.exit = e /\ l.tree = tree
  BY <1>3, <1>4, <1>5
<1>7. TypeOK'
  BY <1>1, <1>3, <1>6 DEF Execute, TypeOK, fixed, ghosts, Phase
<1>8. Passing /\ Grows
  BY <1>1, <1>3, GrowsFacts DEF Execute, Passing, ghosts
<1>9. StepsInv'
  BY <1>1, <1>7, <1>8, StepsStay DEF Execute
<1>10. RunningInv'
  <2>1. running # Nil => running.at \in Nat
    BY <1>1 DEF TypeOK
  <2> QED
    BY <1>1, <1>3, <2>1 DEF RunningInv
<1>11. LaunchInv'
  <2>1. running # Nil => running.at \in Nat /\ running.at < now
    BY <1>1 DEF TypeOK, RunningInv
  <2>2. Timely(launch)'
    BY <1>3, <1>6, <2>1 DEF Timely
  <2>3. executor' = executor
    BY DEF Execute, fixed
  <2> QED
    BY <1>4, <1>6, <2>2, <2>3 DEF LaunchInv
<1>12. CleanInv'
  BY <1>1, CleanStays DEF Execute
<1>13. PhaseInv' /\ ReportsInv'
  BY <1>2 DEF Execute, PhaseInv, ReportsInv
<1> QED
  BY <1>1, <1>3, <1>7, <1>9, <1>10, <1>11, <1>12, <1>13 DEF IInv

\* What the agent ran itself, and the executor's step.
LEMMA AgentEventFacts ==
  ASSUME TypeOK, launch \in [exit : {0, 1}, at : Nat, tree : Tree, modified : BOOLEAN],
         NEW events \in AgentEvents, events # << >>
  PROVE  /\ events[1] \in Step /\ events[1].at = launch.at
         /\ events[1].by # "harness" /\ events[1].action = "run-test"
<1>1. package \in Tree /\ launch.tree \in Tree /\ launch.at \in Nat
  BY DEF TypeOK
<1>2. PICK c \in IF TestExecution(executor) THEN {} ELSE Plans[package][launch.tree].tests,
           e \in ToldExits :
        events = << [ action |-> "run-test", command |-> c, by |-> "external", exit |-> e,
                      outcome |-> Outcome(e), files |-> {}, at |-> launch.at, tree |-> Nil ] >>
  BY DEF AgentEvents
<1>3. c \in Plans[package][launch.tree].tests
  BY <1>2
<1>4. c \in Command
  BY <1>1, <1>3, TableAssumption
<1>5. e \in {0, 1}
  BY LoopAssumption
<1>6. Outcome(e) \in {"passed", "failed"}
  BY DEF Outcome
<1>7. PICK s : s = [ action |-> "run-test", command |-> c, by |-> "external", exit |-> e,
                     outcome |-> Outcome(e), files |-> {}, at |-> launch.at, tree |-> Nil ]
  OBVIOUS
<1>8. s \in Step /\ s.at = launch.at /\ s.by # "harness" /\ s.action = "run-test"
  BY <1>1, <1>4, <1>5, <1>6, <1>7 DEF Step, StepAction
<1>9. events[1] = s
  BY <1>2, <1>7
<1> QED
  BY <1>8, <1>9

LEMMA ExecutorStepFacts ==
  ASSUME TypeOK, LaunchInv, pc = "collect", NEW s, s = ExecutorStep
  PROVE  /\ s \in Step /\ s.at = launch.at /\ s.tree = launch.tree
         /\ s.command = executor /\ executor \in Command /\ executor # Nil
         /\ s.exit = launch.exit
<1>1. launch \in [exit : {0, 1}, at : Nat, tree : Tree, modified : BOOLEAN]
  BY DEF LaunchInv
<1>2. launch.exit \in {0, 1} /\ launch.at \in Nat /\ launch.tree \in Tree
  BY <1>1
<1>3. executor \in Command
  <2>1. <<policy, executor>> \in Policies \X Command
    BY LoopAssumption DEF TypeOK
  <2> QED
    BY <2>1
<1>4. Nil # executor
  BY <1>3, CommandAssumption
<1>5. ChangedFiles[launch.tree] \subseteq UNION { DOMAIN Contents[t] : t \in Tree }
  BY <1>2, ChangedFilesFacts DEF AnyFile
<1>6. Outcome(launch.exit) \in {"passed", "failed"}
  BY DEF Outcome
<1>7. s \in Step
  BY <1>2, <1>3, <1>5, <1>6 DEF ExecutorStep, Step, StepAction
<1> QED
  BY <1>3, <1>4, <1>7 DEF ExecutorStep

LEMMA CollectInv ==
  ASSUME IInv, Collect
  PROVE  IInv'
<1>1. TypeOK /\ StepsInv /\ RunningInv /\ CleanInv /\ PhaseInv /\ LaunchInv /\ now >= 1
  BY DEF IInv
<1>2. pc = "collect" /\ verdict = Nil
  BY <1>1 DEF Collect, PhaseInv
<1>3. launch \in [exit : {0, 1}, at : Nat, tree : Tree, modified : BOOLEAN] /\ Timely(launch)
  BY <1>1, <1>2 DEF LaunchInv
<1>4. trace \in Seq(Step)
  BY <1>1 DEF TypeOK
<1>5. PICK s : s = ExecutorStep
  OBVIOUS
<1>6. /\ s \in Step /\ s.at = launch.at /\ s.tree = launch.tree
      /\ s.command = executor /\ executor \in Command /\ executor # Nil
      /\ s.exit = launch.exit
  BY <1>1, <1>2, <1>5, ExecutorStepFacts
<1>7. Timely(s) /\ Truthful(s)
  <2>1. Timely(s)
    BY <1>3, <1>6 DEF Timely
  <2>2. s.exit = 0 /\ TestExecution(s.command) => s.command \in Passes[s.tree]
    BY <1>1, <1>2, <1>6 DEF LaunchInv
  <2> QED
    BY <1>6, <2>1, <2>2 DEF Truthful
<1>8a. PICK events \in AgentEvents :
         trace' = Recorded(IF events = << >> THEN trace ELSE Recorded(trace, events[1]), s)
  BY <1>5 DEF Collect
<1>8b. PICK told : told = IF events = << >> THEN trace ELSE Recorded(trace, events[1])
  OBVIOUS
<1>8. /\ told = IF events = << >> THEN trace ELSE Recorded(trace, events[1])
      /\ trace' = Recorded(told, s)
  BY <1>8a, <1>8b
<1>9. /\ told \in Seq(Step) /\ Len(trace) <= Len(told)
      /\ \A n \in 1 .. Len(trace) : told[n] = trace[n]
      /\ \A n \in DOMAIN told : n \in DOMAIN trace \/ (Timely(told[n]) /\ Truthful(told[n]))
  <2>1. CASE events = << >>
    BY <1>4, <1>8, <2>1
  <2>2. CASE events # << >>
    <3>1. PICK u : u = events[1]
      OBVIOUS
    <3>2. u \in Step /\ u.at = launch.at /\ u.by # "harness" /\ u.action = "run-test"
      BY <1>1, <1>3, <2>2, <3>1, AgentEventFacts
    <3>3. told = Recorded(trace, u)
      BY <1>8, <2>2, <3>1
    <3>4. Longer(trace, u, told)
      BY <1>4, <3>2, <3>3, RecordedFacts
    <3>5. Timely(u) /\ Truthful(u)
      BY <1>3, <3>2 DEF Timely, Truthful
    <3> QED
      BY <3>4, <3>5 DEF Longer
  <2> QED
    BY <2>1, <2>2
<1>10. PICK new : new = Recorded(told, s)
  OBVIOUS
<1>11. Longer(told, s, new) /\ trace' = new
  BY <1>6, <1>8, <1>9, <1>10, RecordedFacts
<1>12. Len(trace) \in Nat /\ Len(told) \in Nat /\ DOMAIN told = 1 .. Len(told)
       /\ DOMAIN trace = 1 .. Len(trace)
  BY <1>4, <1>9
<1>13. /\ new \in Seq(Step) /\ Len(trace) <= Len(new)
       /\ \A n \in 1 .. Len(trace) : new[n] = trace[n]
  <2>1. Len(new) \in Nat
    BY <1>11 DEF Longer
  <2>2. \A n \in 1 .. Len(trace) : n \in 1 .. Len(told)
    BY <1>9, <1>12
  <2> QED
    BY <1>9, <1>11, <1>12, <2>1, <2>2 DEF Longer
<1>14. ASSUME NEW n \in DOMAIN new, n \notin DOMAIN trace
       PROVE  Timely(new[n]) /\ Truthful(new[n])
  <2>1. CASE n \in DOMAIN told
    <3>1. new[n] = told[n]
      BY <1>11, <1>12, <2>1 DEF Longer
    <3> QED
      BY <1>9, <1>14, <2>1, <3>1
  <2>2. CASE n \notin DOMAIN told
    <3>1. new[n] = s
      BY <1>11, <1>14, <2>2 DEF Longer
    <3> QED
      BY <1>7, <3>1
  <2> QED
    BY <2>1, <2>2
<1>15. TypeOK'
  BY <1>1, <1>11, <1>13 DEF Collect, TypeOK, fixed, ghosts, Phase
<1>16. now' = now /\ running' = running /\ mixed' = mixed /\ executor' = executor
  BY DEF Collect, ghosts, fixed
<1>17. Passing /\ Grows
  <2>1. Passing
    BY <1>1, <1>16 DEF Passing, TypeOK
  <2> QED
    BY <1>11, <1>13, <2>1 DEF Grows
<1>18. StepsInv'
  <2>1. \A n \in DOMAIN trace' : n \in DOMAIN trace \/ (Timely(trace[n])' /\ Truthful(trace[n])')
    <3> SUFFICES ASSUME NEW n \in DOMAIN trace', n \notin DOMAIN trace
                 PROVE  Timely(trace[n])' /\ Truthful(trace[n])'
      OBVIOUS
    <3>1. PICK u : u = new[n]
      OBVIOUS
    <3>2. Timely(u) /\ Truthful(u)
      BY <1>11, <1>14, <3>1
    <3>3. Timely(u)' /\ Truthful(u)'
      BY <1>16, <3>2 DEF Timely, Truthful
    <3> QED
      BY <1>11, <3>1, <3>3 DEF Timely, Truthful
  <2> QED
    BY <1>1, <1>15, <1>17, <2>1, StepsStay
<1>19. RunningInv'
  BY <1>1, <1>16 DEF RunningInv
<1>20. LaunchInv' /\ PhaseInv' /\ ReportsInv'
  BY <1>2 DEF Collect, LaunchInv, PhaseInv, ReportsInv
<1>21. CleanInv'
  BY <1>1, CleanStays DEF Collect
<1> QED
  BY <1>1, <1>15, <1>16, <1>18, <1>19, <1>20, <1>21 DEF IInv

LEMMA GuardsInv ==
  ASSUME IInv, Guards
  PROVE  IInv'
<1>1. TypeOK /\ StepsInv /\ RunningInv /\ CleanInv /\ PhaseInv /\ now >= 1
  BY DEF IInv
<1>2. pc = "guards" /\ verdict = Nil
  BY <1>1 DEF Guards, PhaseInv
<1>3. package' \in Tree
  BY <1>1, RefreshedFacts DEF Guards
<1>4. TypeOK'
  BY <1>1, <1>3 DEF Guards, TypeOK, fixed, ghosts, Phase
<1>5. Passing /\ Grows
  BY <1>1, GrowsFacts DEF Guards, Passing, ghosts
<1>6. StepsInv'
  BY <1>1, <1>4, <1>5, StepsStay DEF Guards
<1>7. RunningInv'
  BY <1>1 DEF RunningInv, Guards
<1>8. LaunchInv' /\ PhaseInv' /\ ReportsInv'
  BY <1>2 DEF Guards, LaunchInv, PhaseInv, ReportsInv
<1>9. CleanInv'
  BY <1>1, CleanStays DEF Guards
<1> QED
  BY <1>1, <1>4, <1>6, <1>7, <1>8, <1>9 DEF IInv, Guards

\* A report that is made now has seen the whole trace.
LEMMA ToldAll ==
  ASSUME TypeOK, NEW report, report.seen = Len(trace)
  PROVE  Told(report) = trace /\ report.seen \in 0 .. Len(trace)
<1>1. trace \in Seq(Step) /\ Len(trace) \in Nat /\ DOMAIN trace = 1 .. Len(trace)
  BY GrowsFacts
<1>2. Told(report) = [ n \in 1 .. Len(trace) |-> trace[n] ]
  BY DEF Told
<1>3. trace = [ n \in 1 .. Len(trace) |-> trace[n] ]
  BY <1>1
<1> QED
  BY <1>1, <1>2, <1>3

LEMMA PolicyReportFacts ==
  ASSUME NEW v, NEW plan, NEW told, NEW p, NEW fresh
  PROVE  /\ PolicyReport(v, plan, told, p, fresh).view = v
         /\ PolicyReport(v, plan, told, p, fresh).seen = Len(told)
BY DEF PolicyReport, PolicyReportWith

LEMMA LoopReportFacts ==
  ASSUME NEW v, NEW plan, NEW told, NEW p, NEW fresh
  PROVE  /\ LoopReport(v, plan, told, p, fresh).view = v
         /\ LoopReport(v, plan, told, p, fresh).seen = Len(told)
BY DEF LoopReport

LEMMA CheckPolicyInv ==
  ASSUME IInv, CheckPolicy
  PROVE  IInv'
<1>1. TypeOK /\ StepsInv /\ RunningInv /\ CleanInv /\ PhaseInv /\ now >= 1
  BY DEF IInv
<1>2. pc = "policy" /\ verdict = Nil
  BY <1>1 DEF CheckPolicy, PhaseInv
<1>3. /\ policy' = policy /\ executor' = executor /\ tree' = tree /\ now' = now /\ trace' = trace
      /\ running' = running /\ package' = package /\ manifest' = manifest /\ mixed' = mixed
      /\ verdict' = verdict /\ pc' = "loop"
  BY DEF CheckPolicy, fixed, ghosts
<1>4. TypeOK'
  BY <1>1, <1>3 DEF CheckPolicy, TypeOK, Phase
<1>5. Passing /\ Grows
  BY <1>1, <1>3, GrowsFacts DEF Passing
<1>6. StepsInv'
  BY <1>1, <1>3, <1>4, <1>5, StepsStay
<1>7. RunningInv'
  BY <1>1, <1>3 DEF RunningInv
<1>8. LaunchInv' /\ PhaseInv'
  BY <1>2, <1>3 DEF LaunchInv, PhaseInv
<1>9. CleanInv'
  BY <1>2, <1>3, CommandAssumption DEF CleanInv, Finalized, Action, Priority
<1>10. PICK v : v = Current
  OBVIOUS
<1>11. v.tree = tree /\ v = View(manifest.package, package, v.tree) /\ v.tree \in Tree
  BY <1>1, <1>10 DEF Current, View, TypeOK
<1>12. PICK r : r = PolicyReport(v, PlanOf(v), trace, policy, Fresh)
  OBVIOUS
<1>13. policyReport' = r
  BY <1>10, <1>12 DEF CheckPolicy
<1>14. r.view = v /\ r.seen = Len(trace)
  BY <1>12, PolicyReportFacts
<1>15. Told(r) = trace /\ r.seen \in 0 .. Len(trace)
  BY <1>1, <1>14, ToldAll
<1>16. FreshFor(v.tree) = Fresh
  BY <1>11 DEF FreshFor, Fresh
<1>17. r = PolicyReport(v, PlanOf(v), Told(r), policy, FreshFor(v.tree))
  BY <1>12, <1>15, <1>16
<1>18. Told(r)' = Told(r) /\ FreshFor(v.tree)' = FreshFor(v.tree)
  BY <1>3 DEF Told, FreshFor
<1>19. Told(policyReport)' = Told(r)
  BY <1>13, <1>18 DEF Told
<1>20. FreshFor(policyReport.view.tree)' = FreshFor(v.tree)
  BY <1>13, <1>14, <1>18 DEF FreshFor
<1>21. PolicyInv'
  BY <1>3, <1>11, <1>13, <1>14, <1>15, <1>17, <1>19, <1>20 DEF PolicyInv
<1>22. ReportsInv'
  BY <1>2, <1>3, <1>21 DEF ReportsInv
<1> QED
  BY <1>1, <1>3, <1>4, <1>6, <1>7, <1>8, <1>9, <1>22 DEF IInv

LEMMA ControlLoopInv ==
  ASSUME IInv, ControlLoop
  PROVE  IInv'
<1>1. TypeOK /\ StepsInv /\ RunningInv /\ CleanInv /\ PhaseInv /\ ReportsInv /\ now >= 1
  BY DEF IInv
<1>2. pc = "loop" /\ verdict = Nil /\ PolicyInv
  BY <1>1 DEF ControlLoop, PhaseInv, ReportsInv
<1>3. /\ policy' = policy /\ executor' = executor /\ tree' = tree /\ now' = now /\ trace' = trace
      /\ running' = running /\ package' = package /\ manifest' = manifest /\ mixed' = mixed
      /\ verdict' = verdict /\ pc' = "gates" /\ policyReport' = policyReport
  BY DEF ControlLoop, fixed, ghosts
<1>4. TypeOK'
  BY <1>1, <1>3 DEF ControlLoop, TypeOK, Phase
<1>5. Passing /\ Grows
  BY <1>1, <1>3, GrowsFacts DEF Passing
<1>6. StepsInv'
  BY <1>1, <1>3, <1>4, <1>5, StepsStay
<1>7. RunningInv'
  BY <1>1, <1>3 DEF RunningInv
<1>8. LaunchInv' /\ PhaseInv'
  BY <1>2, <1>3 DEF LaunchInv, PhaseInv
<1>9. CleanInv'
  BY <1>2, <1>3, CommandAssumption DEF CleanInv, Finalized, Action, Priority
<1>10. PICK v : v = Current
  OBVIOUS
<1>11. v.tree = tree /\ v = View(manifest.package, package, v.tree) /\ v.tree \in Tree
  BY <1>1, <1>10 DEF Current, View, TypeOK
<1>12. PICK r : r = LoopReport(v, PlanOf(v), trace, policy, Fresh)
  OBVIOUS
<1>13. loopReport' = r
  BY <1>10, <1>12 DEF ControlLoop
<1>14. r.view = v /\ r.seen = Len(trace)
  BY <1>12, LoopReportFacts
<1>15. Told(r) = trace /\ r.seen \in 0 .. Len(trace)
  BY <1>1, <1>14, ToldAll
<1>16. FreshFor(v.tree) = Fresh
  BY <1>11 DEF FreshFor, Fresh
<1>17. r = LoopReport(v, PlanOf(v), Told(r), policy, FreshFor(v.tree))
  BY <1>12, <1>15, <1>16
<1>18. Told(r)' = Told(r) /\ FreshFor(v.tree)' = FreshFor(v.tree)
  BY <1>3 DEF Told, FreshFor
<1>19. Told(loopReport)' = Told(r)
  BY <1>13, <1>18 DEF Told
<1>20. FreshFor(loopReport.view.tree)' = FreshFor(v.tree)
  BY <1>13, <1>14, <1>18 DEF FreshFor
<1>21. LoopInv'
  BY <1>3, <1>11, <1>13, <1>14, <1>15, <1>17, <1>19, <1>20 DEF LoopInv
<1>22. Told(policyReport)' = Told(policyReport)
       /\ FreshFor(policyReport.view.tree)' = FreshFor(policyReport.view.tree)
  BY <1>3 DEF Told, FreshFor
<1>23. PolicyInv'
  BY <1>2, <1>3, <1>22 DEF PolicyInv
<1>24. ReportsInv'
  BY <1>21, <1>23 DEF ReportsInv
<1> QED
  BY <1>1, <1>3, <1>4, <1>6, <1>7, <1>8, <1>9, <1>24 DEF IInv

LEMMA EvaluateFacts ==
  ASSUME NEW g, NEW p, NEW l, NEW told, NEW e, e = Evaluate(g, p, l, told)
  PROVE  /\ ~e.forbidden => p.forbidden = {}
         /\ e.loop = l.decisions /\ e.required = p.required
         /\ e.gates = {} /\ SomethingChanged(l.view) => l.level # "none"
<1>1. /\ e.forbidden = (p.forbidden # {}) /\ e.loop = l.decisions /\ e.required = p.required
      /\ e.gates = ContextGates(p, l) \cup BoundaryGates(p) \cup EvidenceGates(p, l, told)
                     \cup HallucinationGates(g.hallucination) \cup RegressionGates(g.regression, p)
  BY DEF Evaluate
<1>2. e.gates = {} => EvidenceGates(p, l, told) = {}
  BY <1>1
<1>3. SomethingChanged(l.view) /\ l.level = "none" => "run-tests" \in EvidenceGates(p, l, told)
  BY DEF EvidenceGates
<1> QED
  BY <1>1, <1>2, <1>3

LEMMA DecideInv ==
  ASSUME IInv, Decide
  PROVE  IInv'
<1>1. TypeOK /\ StepsInv /\ RunningInv /\ PhaseInv /\ ReportsInv /\ now >= 1
  BY DEF IInv
<1>2. pc = "gates" /\ PolicyInv /\ LoopInv
  BY <1>1 DEF Decide, ReportsInv
<1>3. /\ policy' = policy /\ executor' = executor /\ tree' = tree /\ now' = now /\ trace' = trace
      /\ running' = running /\ package' = package /\ manifest' = manifest /\ mixed' = mixed
      /\ policyReport' = policyReport /\ loopReport' = loopReport /\ launch' = launch
      /\ hashed' = hashed
  BY DEF Decide, fixed, ghosts
<1>4. PICK e : e = Evaluate(guards, policyReport, loopReport, trace)
  OBVIOUS
<1>5. /\ ~e.forbidden => policyReport.forbidden = {}
      /\ e.loop = loopReport.decisions /\ e.required = policyReport.required
      /\ e.gates = {} /\ SomethingChanged(loopReport.view) => loopReport.level # "none"
  BY <1>4, EvaluateFacts
<1>6. verdict' \in Selected(Candidates(launch.exit, e, "none"))
  BY <1>4 DEF Decide
<1>7. e.required \in {"satisfied", "runnable", "not-runnable"}
  <2>1. PICK v, missing : policyReport.required = RequiredState(PlanOf(v), missing)
    BY <1>2 DEF PolicyInv, PolicyReport, PolicyReportWith
  <2> QED
    BY <1>5, <2>1, RequiredStates
<1>8. verdict' \in Action
  BY <1>6, <1>7, SelectedIsAction
<1>9. pc' \in {"ended", "plan"} /\ iteration' \in 1 .. MaxLoops
  <2>1. iteration \in 1 .. MaxLoops /\ MaxLoops \in Nat
    BY <1>1, LoopAssumption DEF TypeOK
  <2> QED
    BY <2>1 DEF Decide
<1>10. TypeOK'
  BY <1>1, <1>3, <1>8, <1>9 DEF TypeOK, Phase
<1>11. Passing /\ Grows
  BY <1>1, <1>3, GrowsFacts DEF Passing
<1>12. StepsInv'
  BY <1>1, <1>3, <1>10, <1>11, StepsStay
<1>13. RunningInv'
  BY <1>1, <1>3 DEF RunningInv
<1>14. LaunchInv' /\ PhaseInv'
  BY <1>9 DEF LaunchInv, PhaseInv
<1>15. CleanInv'
  <2> SUFFICES ASSUME verdict' = "finalize"
               PROVE  CleanInv'
    BY DEF CleanInv, Finalized
  <2>1. ~e.forbidden /\ e.gates = {} /\ e.loop = {} /\ e.required = "satisfied"
    BY <1>6, <1>7, NothingObjects
  <2> QED
    BY <1>3, <1>5, <2>1 DEF CleanInv, SomethingChanged
<1>16. ReportsInv'
  BY <1>1, <1>2, <1>3, <1>10, <1>11, ReportsStay
<1> QED
  BY <1>1, <1>3, <1>10, <1>12, <1>13, <1>14, <1>15, <1>16 DEF IInv

-----------------------------------------------------------------------------

LEMMA StutterInv ==
  ASSUME IInv, UNCHANGED vars
  PROVE  IInv'
<1>1. /\ policy' = policy /\ executor' = executor /\ tree' = tree /\ now' = now /\ trace' = trace
      /\ running' = running /\ fixed' = fixed /\ runVars' = runVars /\ mixed' = mixed
  BY DEF vars, fixed, ghosts
<1>2. TypeOK /\ StepsInv /\ RunningInv
  BY DEF IInv
<1>3. TypeOK'
  BY <1>1, <1>2 DEF TypeOK, runVars
<1>4. Passing /\ Grows
  BY <1>1, <1>2, GrowsFacts DEF Passing
<1>5. StepsInv'
  BY <1>1, <1>2, <1>3, <1>4, StepsStay
<1>6. RunningInv'
  BY <1>1, <1>2 DEF RunningInv
<1> QED
  BY <1>1, <1>3, <1>4, <1>5, <1>6, OthersKeep

LEMMA NextInv == IInv /\ [Next]_vars => IInv'
<1> SUFFICES ASSUME IInv, [Next]_vars
             PROVE  IInv'
  OBVIOUS
<1>1. CASE \E t \in Tree : Edit(t)
  BY <1>1, EditInv
<1>2. CASE \E s \in ReportedStep : Report(s)
  BY <1>2, ReportInv
<1>3. CASE \E c \in Captured : RunCommand(c)
  BY <1>3, RunCommandInv
<1>4. CASE RecordCommand
  BY <1>4, RecordCommandInv
<1>5. CASE Plan
  BY <1>5, PlanInv
<1>6. CASE WriteContext
  BY <1>6, WriteContextInv
<1>7. CASE Execute
  BY <1>7, ExecuteInv
<1>8. CASE Collect
  BY <1>8, CollectInv
<1>9. CASE Guards
  BY <1>9, GuardsInv
<1>10. CASE CheckPolicy
  BY <1>10, CheckPolicyInv
<1>11. CASE ControlLoop
  BY <1>11, ControlLoopInv
<1>12. CASE Decide
  BY <1>12, DecideInv
<1>13. CASE UNCHANGED vars
  BY <1>13, StutterInv
<1> QED
  BY <1>1, <1>2, <1>3, <1>4, <1>5, <1>6, <1>7, <1>8, <1>9, <1>10, <1>11, <1>12, <1>13
     DEF Next, Others, Run

(***************************************************************************)
(* What holds at every moment of a run: the reports are those of a part of  *)
(* the trace and of one tree each, nothing spoke against a run that         *)
(* finalized, and the captured successes in the trace tell of their trees.  *)
(***************************************************************************)
THEOREM Invariance == Spec => []IInv
<1>1. Init => IInv
  BY InitInv
<1>2. IInv /\ [Next]_vars => IInv'
  BY NextInv
<1> QED
  BY <1>1, <1>2, PTL DEF Spec

\* Every variable of a run keeps its type, whatever is edited and reported meanwhile.
THEOREM TypeCorrect == Spec => []TypeOK
<1>1. IInv => TypeOK
  BY DEF IInv
<1> QED
  BY <1>1, Invariance, PTL

-----------------------------------------------------------------------------
(* What follows for a run that finalized                                   *)

\* What a policy report with nothing missing says.
LEMMA SatisfiedPolicy ==
  ASSUME NEW v, NEW plan, NEW told, NEW fresh, NEW r,
         r = PolicyReport(v, plan, told, policy, fresh), r.required = "satisfied"
  PROVE  /\ fresh
         /\ ~HallucinationReport(v, plan, told).missingCommand
         /\ plan.source => /\ TestEvidence(v, plan, told, policy).satisfied
                           /\ ContractEvidence(v, plan, told, policy).satisfied
         /\ r.forbidden = ForbiddenFindings(FindingOf(v), HallucinationReport(v, plan, told))
<1> DEFINE evidence      == EvidenceFor(v, plan, told, policy)
           hallucination == HallucinationReport(v, plan, told)
           regression    == RegressionReport(v, plan, told, policy)
           missing       == MissingRequirements(v, plan, evidence, fresh, hallucination, regression)
<1>1. /\ r.required = RequiredState(plan, missing)
      /\ r.forbidden = ForbiddenFindings(FindingOf(v), hallucination)
  BY DEF PolicyReport, PolicyReportWith
<1>2. missing = {}
  BY <1>1, RequiredStates
<1>3. fresh /\ ~hallucination.missingCommand /\ (plan.source => MissingEvidence(evidence) = {})
  BY <1>2 DEF MissingRequirements
<1>4. MissingEvidence(evidence) = {} => evidence.tests.satisfied /\ evidence.contracts.satisfied
  BY DEF MissingEvidence
<1>5. /\ evidence.tests = TestEvidence(v, plan, told, policy)
      /\ evidence.contracts = ContractEvidence(v, plan, told, policy)
  BY DEF EvidenceFor
<1> QED
  BY <1>1, <1>3, <1>4, <1>5

\* Both reports of a run that finalized speak for it.
LEMMA FinalizedFacts ==
  ASSUME IInv, Finalized
  PROVE  /\ PolicyInv /\ LoopInv
         /\ policyReport.required = "satisfied" /\ policyReport.forbidden = {}
         /\ loopReport.decisions = {}
         /\ SomethingChanged(loopReport.view) => loopReport.level # "none"
<1>1. verdict # Nil
  BY CommandAssumption DEF Finalized, Action, Priority
<1> QED
  BY <1>1 DEF IInv, ReportsInv, CleanInv

\* A later result of the same command, however it is told of, is one of a test.
LEMMA SameCommandIsTest ==
  ASSUME NEW s \in Step, NEW u \in Step, Truthful(u), Terminal(u), IsTestStep(s),
         ResultKey(u) = ResultKey(s)
  PROVE  IsTestStep(u)
<1>1. CASE s.command # Nil
  BY <1>1, SameKeyIsTest
<1>2. CASE s.command = Nil
  <2>1. ResultKey(u) = Nil
    BY <1>2 DEF ResultKey
  <2>2. u.command \in Command \cup {Nil}
    BY DEF Step
  <2>3. u.command = Nil
    BY <2>1, <2>2, CommandAssumption DEF ResultKey
  <2>4. u.action = "run-test"
    BY <2>3 DEF Truthful
  <2> QED
    BY <2>3, <2>4 DEF IsTestStep
<1> QED
  BY <1>1, <1>2

\* Unless the policy is advisory, evidence for the tests of a source change is a result
\* of a test command on the tree that was evaluated, and the newest one of its command.
LEMMA EvidenceIsTests ==
  ASSUME TypeOK, StepsInv, policy # "advisory", NEW report, report.seen \in 0 .. Len(trace),
         NEW v, v = report.view, v.tree \in Tree, PlanOf(v).source,
         LET evidence == TestEvidence(v, PlanOf(v), Told(report), policy)
         IN evidence.satisfied \/ evidence.level # "none"
  PROVE  TestsWereRun(report)
<1> DEFINE r == Requirement("tests", v.tree, PlanOf(v).tests, policy, PlanOf(v).source)
<1>1. policy \in {"balanced", "strict"}
  <2>1. <<policy, executor>> \in Policies \X Command
    BY LoopAssumption DEF TypeOK
  <2> QED
    BY <2>1 DEF Policies
<1>2. /\ r.kind = "tests" /\ r.tree = v.tree /\ r.commands = PlanOf(v).tests
      /\ r.policy = policy /\ r.source = PlanOf(v).source
  BY DEF Requirement
<1>3. RequiredLevel(r) = "command"
  BY <1>1, <1>2 DEF RequiredLevel
<1>4. PICK told : told = Told(report)
  OBVIOUS
<1>5. Evidence(told, r).satisfied \/ Evidence(told, r).level # "none"
  BY <1>4 DEF TestEvidence
<1> HIDE DEF r
<1>6. PICK i \in CandidateSteps(told, "tests") :
        /\ told[i].by \in {"harness", "ci"} /\ told[i].exit = 0
        /\ told[i].by = "harness" => told[i].command # Nil
        /\ CommandAccepted(told[i], r) /\ TreeMatches(told[i], r)
  BY <1>2, <1>3, <1>5, EvidenceFacts
<1>7. /\ Len(trace) \in Nat /\ DOMAIN trace = 1 .. Len(trace)
      /\ \A n \in DOMAIN trace : trace[n] \in Step /\ trace[n].at \in Nat
  BY GrowsFacts
<1>8. report.seen \in Nat /\ \A n \in 1 .. report.seen : n \in DOMAIN trace
  BY <1>7
<1>9. Len(told) = report.seen /\ \A n \in 1 .. report.seen : told[n] = trace[n]
  <2>1. told = [ n \in 1 .. report.seen |-> trace[n] ]
    BY <1>4 DEF Told
  <2>2. \A n \in 1 .. report.seen : told[n] = trace[n]
    BY <2>1
  <2>3. told \in Seq(Step)
    BY <1>7, <1>8, <2>1
  <2> QED
    BY <1>8, <2>1, <2>2, <2>3
<1>10. /\ i \in TestResults(told, 0)
       /\ \A j \in TestResults(told, 0) : i < j => ResultKey(told[j]) # ResultKey(told[i])
  BY <1>6 DEF CandidateSteps, LatestResults
<1>11. TestResults(told, 0) = { n \in 1 .. report.seen : IsTestStep(told[n]) /\ Terminal(told[n]) }
  BY <1>8, <1>9 DEF TestResults
<1>12. i \in 1 .. report.seen /\ told[i] = trace[i] /\ IsTestStep(trace[i])
  BY <1>9, <1>10, <1>11
<1>13. PICK s : s = trace[i]
  OBVIOUS
<1>14. s \in Step /\ Truthful(s) /\ IsTestStep(s) /\ told[i] = s
  BY <1>7, <1>8, <1>12, <1>13 DEF StepsInv
<1>14a. s.tree \in Tree /\ SameButForCommits(s.tree, v.tree)
  BY <1>2, <1>6, <1>14, MatchIsSame
<1>14b. s.tree # Nil
  BY <1>6, <1>14 DEF TreeMatches
<1>15. Proves(s, v)
  <2>1. \/ r.commands = {} \/ s.command = Nil
        \/ \E c \in r.commands : CommandMatches(s.command, c)
    BY <1>2, <1>6, <1>14 DEF CommandAccepted
  <2> QED
    BY <1>2, <1>6, <1>14, <1>14a, <1>14b, <2>1 DEF Proves
<1>16. NewestOfItsCommand(i, report.seen)
  <2> SUFFICES ASSUME NEW j \in i + 1 .. report.seen, ResultKey(trace[j]) = ResultKey(trace[i]),
                      Terminal(trace[j])
               PROVE  FALSE
    BY DEF NewestOfItsCommand
  <2>1. j \in 1 .. report.seen /\ i < j
    BY <1>8, <1>12
  <2>2. PICK u : u = trace[j]
    OBVIOUS
  <2>3. u \in Step /\ Truthful(u) /\ told[j] = u
    BY <1>7, <1>8, <1>9, <2>1, <2>2 DEF StepsInv
  <2>4. IsTestStep(u)
    BY <1>13, <1>14, <2>2, <2>3, SameCommandIsTest
  <2>5. j \in TestResults(told, 0)
    BY <1>11, <2>1, <2>2, <2>3, <2>4
  <2> QED
    BY <1>10, <1>13, <1>14, <2>1, <2>2, <2>3, <2>5
<1>17. ~mixed /\ s.by = "harness" => s.command \in Passes[s.tree]
  <2> SUFFICES ASSUME ~mixed, s.by = "harness"
               PROVE  s.command \in Passes[s.tree]
    OBVIOUS
  <2>1. s.command # Nil /\ s.exit = 0
    BY <1>2, <1>6, <1>14
  <2>2. TestExecution(s.command)
    BY <1>14, <2>1 DEF IsTestStep
  <2> QED
    BY <1>14, <2>1, <2>2 DEF Truthful
<1> QED
  BY <1>12, <1>13, <1>15, <1>16, <1>17 DEF TestsWereRun

\* Under the strict policy, evidence for the contracts is a captured or imported success.
LEMMA EvidenceIsValidation ==
  ASSUME TypeOK, policy = "strict", NEW report, report.seen \in 0 .. Len(trace),
         NEW v, v = report.view, v.tree \in Tree,
         ContractEvidence(v, PlanOf(v), Told(report), policy).satisfied
  PROVE  ContractsWereValidated(report)
<1> DEFINE r == Requirement("contract-validation", v.tree, {ContractCommand}, policy,
                            PlanOf(v).source)
<1>1. r.kind = "contract-validation" /\ r.tree = v.tree /\ r.policy = policy
  BY DEF Requirement
<1>2. RequiredLevel(r) = "command"
  BY <1>1 DEF RequiredLevel
<1>3. PICK told : told = Told(report)
  OBVIOUS
<1>4. Evidence(told, r).satisfied
  BY <1>3 DEF ContractEvidence
<1> HIDE DEF r
<1>5. PICK i \in CandidateSteps(told, "contract-validation") :
        told[i].by \in {"harness", "ci"} /\ told[i].exit = 0 /\ TreeMatches(told[i], r)
  BY <1>1, <1>2, <1>4, EvidenceFacts
<1>6. i \in DOMAIN told /\ IsContractStep(told[i])
  BY <1>5 DEF CandidateSteps, IsStepFor
<1>7. i \in 1 .. report.seen /\ told[i] = trace[i]
  BY <1>3, <1>6 DEF Told
<1>8. trace[i] \in Step
  BY <1>7, GrowsFacts
<1>9. trace[i].tree # Nil /\ SameButForCommits(trace[i].tree, v.tree)
  <2>1. TreeMatches(trace[i], r)
    BY <1>5, <1>7
  <2> QED
    BY <1>1, <1>8, <2>1, MatchIsSame DEF TreeMatches
<1> QED
  BY <1>1, <1>5, <1>6, <1>7, <1>9 DEF ContractsWereValidated

(***************************************************************************)
(* outputs/evidence.ts, policy-engine.ts, loop-controller.ts: unless the    *)
(* policy is advisory, a run with source changes finalizes only if a test   *)
(* command that the requirement accepts succeeded, by the newest result of  *)
(* that command, on the tree that was evaluated - on all of it but the files *)
(* of which HEAD has another version since - whoever edits the tree, moves  *)
(* HEAD or reports steps at whatever moment of the evaluation.              *)
(***************************************************************************)
THEOREM FinalizesTested == Spec => []FinalizesTestedTrees
<1>1. IInv => FinalizesTestedTrees
  <2> SUFFICES ASSUME IInv, Finalized, policy # "advisory"
               PROVE  /\ PlanOf(policyReport.view).source => TestsWereRun(policyReport)
                      /\ PlanOf(loopReport.view).source => TestsWereRun(loopReport)
                      /\ policy = "strict" /\ PlanOf(policyReport.view).source
                           => ContractsWereValidated(policyReport)
    BY DEF FinalizesTestedTrees
  <2>1. TypeOK /\ StepsInv
    BY DEF IInv
  <2>2. /\ PolicyInv /\ LoopInv
        /\ policyReport.required = "satisfied" /\ policyReport.forbidden = {}
        /\ loopReport.decisions = {}
        /\ SomethingChanged(loopReport.view) => loopReport.level # "none"
    BY FinalizedFacts
  <2>3. PICK v : v = policyReport.view
    OBVIOUS
  <2>4. ASSUME PlanOf(v).source
        PROVE  /\ TestEvidence(v, PlanOf(v), Told(policyReport), policy).satisfied
               /\ ContractEvidence(v, PlanOf(v), Told(policyReport), policy).satisfied
    <3>1. policyReport
            = PolicyReport(v, PlanOf(v), Told(policyReport), policy, FreshFor(v.tree))
      BY <2>2, <2>3 DEF PolicyInv
    <3> QED
      BY <2>2, <2>4, <3>1, SatisfiedPolicy
  <2>5. policyReport.seen \in 0 .. Len(trace) /\ v.tree \in Tree
    BY <2>2, <2>3 DEF PolicyInv
  <2>6. PlanOf(v).source => TestsWereRun(policyReport)
    BY <2>1, <2>3, <2>4, <2>5, EvidenceIsTests
  <2>7. policy = "strict" /\ PlanOf(v).source => ContractsWereValidated(policyReport)
    BY <2>1, <2>3, <2>4, <2>5, EvidenceIsValidation
  <2>8. PICK w : w = loopReport.view
    OBVIOUS
  <2>9. /\ loopReport.seen \in 0 .. Len(trace) /\ w.tree \in Tree
        /\ w = View(manifest.package, package, w.tree)
        /\ loopReport = LoopReport(w, PlanOf(w), Told(loopReport), policy, FreshFor(w.tree))
    BY <2>2, <2>8 DEF LoopInv
  <2>10. loopReport.level = TestEvidence(w, PlanOf(w), Told(loopReport), policy).level
    BY <2>9 DEF LoopReport
  <2>11. PlanOf(w).source => SomethingChanged(w)
    <3>1. package \in Tree /\ w.package = package
      BY <2>1, <2>9 DEF TypeOK, View
    <3>2. PlanOf(w) = PlanFor(package, w.tree)
      BY <2>9, <3>1, TableAssumption DEF PlanOf
    <3>3. PlanOf(w).source = RequiresSource(Contents[package], Contents[w.tree])
      BY <3>2 DEF PlanFor, PlanWith
    <3>4. ChangedFiles[w.tree] = Changed(Contents[w.tree])
      BY <2>9 DEF ChangedFiles
    <3> QED
      BY <3>3, <3>4, SourceIsChange DEF SomethingChanged
  <2>12. PlanOf(w).source => TestsWereRun(loopReport)
    BY <2>1, <2>2, <2>8, <2>9, <2>10, <2>11, EvidenceIsTests
  <2> QED
    BY <2>3, <2>6, <2>7, <2>8, <2>12
<1> QED
  BY <1>1, Invariance, PTL

(***************************************************************************)
(* policy-engine.ts, hallucination.ts, contract-validator.ts: under no      *)
(* policy does a run finalize a change of build output or of a known        *)
(* generated file, an import of what does not exist or of what the          *)
(* contracts keep from the module, or a step that names a package script    *)
(* that is not there.                                                       *)
(***************************************************************************)
THEOREM ForbiddenNever == Spec => []ForbiddenNeverFinalizes
<1>1. IInv => ForbiddenNeverFinalizes
  <2> SUFFICES ASSUME IInv, Finalized
               PROVE  ForbiddenNeverFinalizes
    BY DEF ForbiddenNeverFinalizes
  <2>1. PolicyInv /\ policyReport.required = "satisfied" /\ policyReport.forbidden = {}
    BY FinalizedFacts
  <2>2. PICK v : v = policyReport.view
    OBVIOUS
  <2>3. /\ policyReport.seen \in 0 .. Len(trace) /\ v.tree \in Tree
        /\ v = View(manifest.package, package, v.tree)
        /\ policyReport
             = PolicyReport(v, PlanOf(v), Told(policyReport), policy, FreshFor(v.tree))
    BY <2>1, <2>2 DEF PolicyInv
  <2>4. PICK told : told = Told(policyReport)
    OBVIOUS
  <2>5. PICK h : h = HallucinationReport(v, PlanOf(v), told)
    OBVIOUS
  <2>6. ~h.missingCommand /\ ForbiddenFindings(FindingOf(v), h) = {}
    BY <2>1, <2>3, <2>4, <2>5, SatisfiedPolicy
  <2>7. FindingOf(v).forbidden = {} /\ ~h.error
    BY <2>6 DEF ForbiddenFindings
  <2>8. /\ manifest.package \in Tree /\ package \in Tree
        /\ v.contracts = manifest.package /\ v.package = package
    BY <2>3 DEF IInv, TypeOK, View
  <2>9. PICK m, p, t : m = Contents[manifest.package] /\ p = Contents[package]
                       /\ t = Contents[v.tree]
    OBVIOUS
  <2>10. ForbiddenChanges(m, p, t) = {}
    <3>1. FindingOf(v) = FindingFor(manifest.package, package, v.tree)
      BY <2>3, <2>8, TableAssumption DEF FindingOf
    <3> QED
      BY <2>7, <2>9, <3>1 DEF FindingFor
  <2>11. ~BrokenReference(p, t)
    <3>1. PlanOf(v) = PlanFor(package, v.tree)
      BY <2>3, <2>8, TableAssumption DEF PlanOf
    <3>2. PlanOf(v).broken = BrokenReference(p, t)
      BY <2>9, <3>1 DEF PlanFor, PlanWith
    <3>3. h.error = PlanOf(v).broken
      BY <2>5 DEF HallucinationReport
    <3> QED
      BY <2>7, <3>2, <3>3
  <2>12. \A f \in Changed(t) : ~IsBuildOutput(f)
    BY <2>10 DEF ForbiddenChanges
  <2>13. \A f \in Changed(t) \cap Scanned(p) : ~IsGeneratedPath(f)
    BY <2>10 DEF ForbiddenChanges, Modified
  <2>14. \A x \in ContractViolations(m, p, t) : x.severity # "error"
    BY <2>10 DEF ForbiddenChanges
  <2>15. ASSUME NEW f \in Changed(t) \cap Scanned(p), FileKind(f) = "source"
         PROVE  /\ p[f].imports \subseteq Scanned(p)
                /\ \A g \in p[f].imports, n \in BoundaryModules(m, p, f) :
                     ~OutsideBoundary(m, n, g)
    <3>1. f \in Checked(p, t)
      BY <2>15 DEF Checked, Modified
    <3>2. Unresolved(p, f) = {}
      BY <2>11, <3>1 DEF BrokenReference
    <3>3. p[f].imports \subseteq Scanned(p)
      BY <3>2 DEF Unresolved
    <3>4. ASSUME NEW g \in p[f].imports, NEW n \in BoundaryModules(m, p, f),
                 OutsideBoundary(m, n, g)
          PROVE  FALSE
      <4>1. g \in Resolved(p, f)
        BY <3>3 DEF Resolved
      <4>2. PICK e : e = <<f, g>>
        OBVIOUS
      <4>3. e \in FileEdges(p) /\ e[1] = f /\ e[2] = g
        BY <2>15, <4>1, <4>2 DEF FileEdges
      <4>4. e \in { d \in FileEdges(p) :
                    d[1] \in Changed(t)
                    /\ \E module \in BoundaryModules(m, p, d[1]) : OutsideBoundary(m, module, d[2]) }
        BY <2>15, <3>4, <4>3
      <4>5. PICK x : x = Violation(f, "error", "boundary", \E i \in DOMAIN ModuleOf(p, f) :
                                     "test-mention" \in Traits[ModuleOf(p, f)[i]])
        OBVIOUS
      <4>6. x \in BoundaryViolations(m, p, t)
        BY <4>3, <4>4, <4>5 DEF BoundaryViolations
      <4>7. x.severity = "error"
        BY <4>5 DEF Violation
      <4> QED
        BY <2>14, <4>6, <4>7 DEF ContractViolations
    <3> QED
      BY <3>3, <3>4
  <2>16. ASSUME NEW i \in 1 .. policyReport.seen, trace[i].command # Nil
         PROVE  trace[i].command.tool \notin ScriptRunners \/ trace[i].command.name \in ScriptNames(t)
    <3>1. i \in DOMAIN told /\ told[i] = trace[i]
      BY <2>4 DEF Told
    <3>2. ~ClaimsMissingScript(told, v.tree)
      BY <2>5, <2>6 DEF HallucinationReport
    <3> QED
      BY <2>9, <2>16, <3>1, <3>2 DEF ClaimsMissingScript, IsScriptClaim
  <2> QED
    BY <2>2, <2>9, <2>12, <2>13, <2>15, <2>16 DEF ForbiddenNeverFinalizes
<1> QED
  BY <1>1, Invariance, PTL

(***************************************************************************)
(* freshness.ts: a run finalizes only if the generated context on disk      *)
(* tells of the contents that the policy report and the loop report, each   *)
(* at its own moment, were made of.                                         *)
(***************************************************************************)
THEOREM FinalizesQuiet == Spec => []FinalizesQuietIterations
<1>1. IInv => FinalizesQuietIterations
  <2> SUFFICES ASSUME IInv, Finalized
               PROVE  FreshFor(policyReport.view.tree) /\ FreshFor(loopReport.view.tree)
    BY DEF FinalizesQuietIterations, FreshFor
  <2>1. PolicyInv /\ LoopInv /\ policyReport.required = "satisfied" /\ loopReport.decisions = {}
    BY FinalizedFacts
  <2>2. FreshFor(policyReport.view.tree)
    <3>1. PICK v, told : policyReport
                   = PolicyReport(v, PlanOf(v), told, policy, FreshFor(policyReport.view.tree))
      BY <2>1 DEF PolicyInv
    <3> QED
      BY <2>1, <3>1, SatisfiedPolicy
  <2>3. FreshFor(loopReport.view.tree)
    <3>1. PICK v, level : loopReport.decisions
                  = LoopDecisions(v, PlanOf(v), FindingOf(v), FreshFor(loopReport.view.tree), level)
      BY <2>1 DEF LoopInv, LoopReport
    <3> QED
      BY <2>1, <3>1 DEF LoopDecisions
  <2> QED
    BY <2>2, <2>3
<1> QED
  BY <1>1, Invariance, PTL

(***************************************************************************)
(* execution-trace.ts: what a captured command showed is never taken for a  *)
(* duplicate of a step in the trace.                                        *)
(***************************************************************************)
THEOREM CapturedKept == Spec => CapturedResultsAreKept
<1>1. IInv /\ [Next]_vars => [running # Nil /\ running' = Nil => Len(trace') = Len(trace) + 1]_vars
  <2> SUFFICES ASSUME IInv, [Next]_vars, running # Nil, running' = Nil
               PROVE  Len(trace') = Len(trace) + 1
    OBVIOUS
  <2>1. RecordCommand
    <3>1. CASE UNCHANGED vars
      BY <3>1 DEF vars
    <3>2. CASE Run
      BY <3>2 DEF Run, Plan, WriteContext, Execute, Collect, Guards, CheckPolicy, ControlLoop, Decide
    <3>3. CASE Others
      BY <3>3 DEF Others, Edit, Report, RunCommand
    <3> QED
      BY <3>1, <3>2, <3>3 DEF Next
  <2>2. TypeOK /\ StepsInv /\ RunningInv
    BY DEF IInv
  <2>3. PICK s : s = CapturedStep
    OBVIOUS
  <2>4. s \in Step /\ s.at = running.at /\ s.by = "harness"
    BY <2>2, <2>3, CapturedStepFacts
  <2>5. /\ Len(trace) \in Nat /\ DOMAIN trace = 1 .. Len(trace) /\ trace \in Seq(Step)
        /\ \A n \in DOMAIN trace : trace[n] \in Step /\ trace[n].at \in Nat
    BY <2>2, GrowsFacts
  <2>6. running.at >= 1 /\ running.at \in Nat
    BY <2>2 DEF RunningInv, TypeOK
  <2>7. ASSUME NEW n \in DOMAIN trace
        PROVE  Fingerprint(trace[n]) # Fingerprint(s)
    <3>1. trace[n].at # running.at
      BY <2>2 DEF StepsInv, Timely
    <3>2. Fingerprint(s)[4] = running.at
      BY <2>4 DEF Fingerprint
    <3>3. Fingerprint(trace[n])[4] # running.at
      BY <2>6, <3>1 DEF Fingerprint
    <3> QED
      BY <3>2, <3>3
  <2>8. trace' = Recorded(trace, s)
    BY <2>1, <2>3 DEF RecordCommand, CapturedStep
  <2>9. trace' = Append(trace, s)
    BY <2>7, <2>8 DEF Recorded
  <2> QED
    BY <2>4, <2>5, <2>9
<1> QED
  BY <1>1, Invariance, PTL DEF Spec, CapturedResultsAreKept
=============================================================================
