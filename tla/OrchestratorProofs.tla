------------------------- MODULE OrchestratorProofs -------------------------
(***************************************************************************)
(* Theorems of DecisionEngine, for every evaluation an iteration may have,  *)
(* and of Orchestrator, for any budgets, any trees and any number of        *)
(* crashes: first with any number of processes on one run, then with one    *)
(* process at a time.                                                       *)
(***************************************************************************)
EXTENDS Orchestrator, FiniteSetTheorems, TLAPS

-----------------------------------------------------------------------------
(* What arbitration and the convergence test guarantee *)

\* HARNESS_DECISION_PRIORITY, entry by entry.
LEMMA PriorityValues ==
  /\ Priority["no-progress"] = 110 /\ Priority["max-loops-reached"] = 105
  /\ Priority["rollback"] = 100 /\ Priority["executor-failure"] = 95
  /\ Priority["block"] = 90 /\ Priority["repack"] = 80 /\ Priority["repair"] = 70
  /\ Priority["run-tests"] = 65 /\ Priority["human-review"] = 60
  /\ Priority["finalize"] = 10
BY DEF Priority

\* The actions are those with a priority.
LEMMA ActionValues ==
  Action = {"no-progress", "max-loops-reached", "rollback", "executor-failure",
            "block", "repack", "repair", "run-tests", "human-review", "finalize"}
BY DEF Action, Priority

\* Convergence adds no-progress and max-loops-reached to the reported action.
ObjectingAction == Action \ {"finalize", "no-progress", "max-loops-reached"}

\* What blocked gates ask for never is to finalize.
LEMMA GateDecisionValues ==
  ASSUME NEW gate \in GateAction, NEW isolation
  PROVE  GateDecision(gate, isolation) \in ObjectingAction
BY ActionValues DEF ObjectingAction, GateDecision, GateAction, UndoAction

\* What blocking loop decisions ask for never is to finalize.
LEMMA LoopDecisionValues ==
  ASSUME NEW step \in LoopAction
  PROVE  LoopDecision(step) \in ObjectingAction
BY ActionValues DEF ObjectingAction, LoopDecision, LoopAction

\* Every objection is an action a human or a next iteration can act on.
LEMMA ObjectionsAreActions ==
  ASSUME NEW exit, NEW e \in Evaluation, NEW isolation
  PROVE  Objections(exit, e, isolation) \subseteq ObjectingAction
<1> DEFINE Required == CASE e.required = "satisfied"    -> {}
                         [] e.required = "runnable"     -> {"repair"}
                         [] e.required = "not-runnable" -> {"human-review"}
<1>1. (IF exit # 0 THEN {"executor-failure"} ELSE {}) \subseteq ObjectingAction
  BY ActionValues DEF ObjectingAction
<1>2. (IF e.forbidden THEN {UndoAction(isolation)} ELSE {}) \subseteq ObjectingAction
  BY ActionValues DEF ObjectingAction, UndoAction
<1>3. { GateDecision(gate, isolation) : gate \in e.gates } \subseteq ObjectingAction
  BY GateDecisionValues DEF Evaluation
<1>4. { LoopDecision(step) : step \in e.loop } \subseteq ObjectingAction
  BY LoopDecisionValues DEF Evaluation
<1>5. Required \subseteq ObjectingAction
  BY ActionValues DEF ObjectingAction, Evaluation
<1>6. (IF e.risk THEN {"human-review"} ELSE {}) \subseteq ObjectingAction
  BY ActionValues DEF ObjectingAction
<1> HIDE DEF Required
<1>7. Objections(exit, e, isolation)
        = UNION { IF exit # 0 THEN {"executor-failure"} ELSE {},
                  IF e.forbidden THEN {UndoAction(isolation)} ELSE {},
                  { GateDecision(gate, isolation) : gate \in e.gates },
                  { LoopDecision(step) : step \in e.loop },
                  Required,
                  IF e.risk THEN {"human-review"} ELSE {} }
  BY DEF Objections, Required
<1> QED
  BY <1>1, <1>2, <1>3, <1>4, <1>5, <1>6, <1>7, Zenon

\* There always is a candidate to select.
LEMMA CandidatesAreActions ==
  ASSUME NEW exit, NEW e \in Evaluation, NEW isolation
  PROVE  Candidates(exit, e, isolation) \in (SUBSET Action) \ {{}}
<1>1. Objections(exit, e, isolation) \subseteq Action
  BY ObjectionsAreActions DEF ObjectingAction
<1> QED
  BY <1>1, ActionValues DEF Candidates

(***************************************************************************)
(* Arbitration always selects exactly one action, whatever the candidates: *)
(* arbitrateDecisionCandidates neither fails nor depends on their order.    *)
(***************************************************************************)
THEOREM SelectionIsUnique ==
  ASSUME NEW C \in (SUBSET Action) \ {{}}
  PROVE  \E a \in C : Selected(C) = {a}
<1> DEFINE Top(a) == a \in C /\ \A b \in C : Priority[b] <= Priority[a]
<1>1. \E a \in C : Top(a)
  BY ActionValues, PriorityValues
<1>2. ASSUME NEW a \in C, NEW b \in C, Top(a), Top(b)
      PROVE  a = b
  BY <1>2, ActionValues, PriorityValues
<1> QED
  BY <1>1, <1>2 DEF Selected

(***************************************************************************)
(* A run finalizes an iteration if and only if nothing speaks against it:  *)
(* no objection is outranked by the default candidate.                      *)
(***************************************************************************)
THEOREM FinalizeWithoutObjections ==
  ASSUME NEW exit, NEW e \in Evaluation, NEW isolation
  PROVE  "finalize" \in Selected(Candidates(exit, e, isolation))
           <=> Objections(exit, e, isolation) = {}
BY ObjectionsAreActions, PriorityValues DEF ObjectingAction, Selected, Candidates

(***************************************************************************)
(* A failed executor or a forbidden change ends the run in this iteration, *)
(* whatever else was found: neither is retried or repaired.                 *)
(***************************************************************************)
THEOREM ForbiddenOrFailedStops ==
  ASSUME NEW exit \in {0, 1}, NEW e \in Evaluation, NEW isolation, NEW print, NEW before,
         NEW index, NEW loops,
         exit # 0 \/ e.forbidden,
         NEW action \in Selected(Candidates(exit, e, isolation))
  PROVE  /\ action \in {"rollback", "block", "executor-failure"}
         /\ ShouldStop(Convergence(print, before, action, exit, index, loops))
<1>1. \E a \in Objections(exit, e, isolation) : a \in {"rollback", "block", "executor-failure"}
  <2>1. CASE exit # 0
    BY <2>1 DEF Objections
  <2>2. CASE e.forbidden
    BY <2>2 DEF Objections, UndoAction
  <2> QED
    BY <2>1, <2>2
<1>2. action \in Objections(exit, e, isolation)
  BY <1>1 DEF Selected, Candidates
<1>3. PICK a \in Objections(exit, e, isolation) : a \in {"rollback", "block", "executor-failure"}
  BY <1>1
<1>4. Priority[a] <= Priority[action]
  BY <1>1, <1>3 DEF Selected, Candidates
<1>5. action \in {"rollback", "block", "executor-failure"}
  BY <1>2, <1>3, <1>4, ObjectionsAreActions, ActionValues, PriorityValues DEF ObjectingAction
<1> QED
  BY <1>5 DEF ShouldStop, Convergence, TerminalAction

-----------------------------------------------------------------------------
(* The invariant *)

(***************************************************************************)
(* The inductive invariant.  A saved state is the state of a run that went *)
(* through the lifecycle, its references resolve, and it carries what its   *)
(* phase needs.                                                             *)
(***************************************************************************)
Sound(s) ==
  /\ s.iter \in Iteration
  /\ s.done = History(s.iter, s.phase)
  /\ s.phase = "prepare-sandbox" => s.iter = 1
  /\ s.phase \in {"collect", "evaluate", "decide", "persist", "finalize", "completed"} => s.hasExec
  /\ s.phase \in {"decide", "persist", "finalize", "completed"} => s.hasEval
  /\ s.phase \in {"persist", "finalize", "completed"} => s.outcome \in Outcome
  /\ s.phase = "persist" /\ ~ShouldStop(s.outcome.status) => s.iter + 1 \in Iteration

Resolved(s) ==
  /\ s.hasExec => execution[s.iter] \in Result
  /\ s.hasEval => evaluated[s.iter] \in Evaluation

\* Where a process is and what it holds there.
Placed(p) ==
  /\ pc[p] # "down" => limit[p] \in LoopLimits
  /\ pc[p] = "executed" => mem[p].phase = "execute"
  /\ pc[p] = "collected" => mem[p].phase = "collect"
  /\ pc[p] = "recorded" =>
       mem[p].phase \in {"execute", "collect", "evaluate", "decide", "persist", "finalize"}
  /\ pc[p] \in {"sandboxed", "loop"} /\ mem[p].phase = "plan" => mem[p].iter > 1

Working(p) ==
  \/ pc[p] \in {"sandboxed", "loop", "executed", "collected"}
  \/ pc[p] = "recorded" /\ mem[p].phase # "finalize"

Holding(p) ==
  /\ mode = "git-worktree" /\ Working(p) => sandbox[p] \in Tree
  /\ pc[p] \in {"executed", "collected"} => result[p] \in Result
  /\ pc[p] \in {"loop", "recorded"} /\ mem[p].phase \in {"collect", "evaluate", "decide"}
       => result[p] \in Result
  /\ pc[p] = "recorded" /\ mem[p].phase = "execute"
       => result[p] \in Result /\ execution[mem[p].iter] \in Result
  /\ pc[p] = "recorded" /\ mem[p].phase = "evaluate"
       => finding[p] \in Evaluation /\ evaluated[mem[p].iter] \in Evaluation
  /\ pc[p] = "loop" /\ mem[p].phase = "decide" => finding[p] \in Evaluation
  /\ pc[p] = "recorded" /\ mem[p].phase = "decide"
       => /\ outcome[p] \in Outcome
          /\ ~ShouldStop(outcome[p].status) => mem[p].iter + 1 \in Iteration
  /\ pc[p] = "recorded" /\ mem[p].phase = "persist"
       => outcome[p] = mem[p].outcome /\ report[mem[p].iter] \in Outcome
  /\ pc[p] = "finalizing" => outcome[p] \in Outcome
  /\ pc[p] = "recorded" /\ mem[p].phase = "finalize" => outcome[p] \in Outcome

\* The reports are those of the iterations that persisted.
ReportsAreAPrefix ==
  \A i \in Iteration :
    /\ i < disk.iter => report[i] \in Outcome
    /\ i > disk.iter => report[i] = Nil

ProcessOK(p) ==
  /\ Sound(mem[p]) /\ Resolved(mem[p])
  /\ mem[p].iter <= disk.iter
  /\ Placed(p) /\ Holding(p)

IInv ==
  /\ TypeOK
  /\ CopyIsCurrent
  /\ Sound(disk) /\ Resolved(disk)
  /\ ReportsAreAPrefix
  /\ \A p \in Proc : ProcessOK(p)

-----------------------------------------------------------------------------
(* The history of a run *)

\* The order of the phases of OrchestratorPhase, as numbers.
LEMMA RankValues ==
  /\ L!Rank["plan"] = 1 /\ L!Rank["prepare-sandbox"] = 2 /\ L!Rank["execute"] = 3
  /\ L!Rank["collect"] = 4 /\ L!Rank["evaluate"] = 5 /\ L!Rank["decide"] = 6
  /\ L!Rank["persist"] = 7 /\ L!Rank["finalize"] = 8 /\ L!Rank["completed"] = 9
BY DEF L!Rank, L!Phase

\* A run without a completed phase is at its beginning.
LEMMA HistoryEmpty ==
  ASSUME NEW iter \in Nat \ {0}, NEW ph \in L!Phase,
         ph = "prepare-sandbox" => iter = 1
  PROVE  History(iter, ph) = {} <=> iter = 1 /\ ph = "plan"
<1>1. CASE iter = 1 /\ ph = "plan"
  BY <1>1, RankValues DEF History, L!Phase
<1>2. CASE iter > 1
  <2>1. <<1, "plan">> \in History(iter, ph)
    BY <1>2, RankValues DEF History, L!Phase
  <2> QED
    BY <1>2, <2>1
<1>3. CASE iter = 1 /\ ph # "plan"
  <2>1. <<1, "plan">> \in History(iter, ph)
    BY <1>3, RankValues DEF History, L!Phase
  <2> QED
    BY <1>3, <2>1
<1> QED
  BY <1>1, <1>2, <1>3

\* Completing a phase of an iteration adds exactly this phase to the history.
LEMMA HistoryForward ==
  ASSUME NEW iter \in Nat \ {0}, NEW ph \in L!Phase, NEW next \in L!Phase,
         IF ph = "plan" /\ iter > 1 THEN next = "execute"
                                    ELSE L!Rank[next] = L!Rank[ph] + 1,
         ph = "prepare-sandbox" => iter = 1
  PROVE  History(iter, next) = History(iter, ph) \cup {<<iter, ph>>}
<1>1. ASSUME NEW step \in (1 .. iter) \X L!Phase
      PROVE  step \in History(iter, next)
               <=> step \in History(iter, ph) \/ step = <<iter, ph>>
  BY <1>1, RankValues DEF History, L!Phase
<1> QED
  BY <1>1 DEF History

\* So does going round again after persist.
LEMMA HistoryAgain ==
  ASSUME NEW iter \in Nat \ {0}
  PROVE  History(iter + 1, "plan") = History(iter, "persist") \cup {<<iter, "persist">>}
<1>1. ASSUME NEW step \in (1 .. iter + 1) \X L!Phase
      PROVE  step \in History(iter + 1, "plan")
               <=> step \in History(iter, "persist") \/ step = <<iter, "persist">>
  BY <1>1, RankValues DEF History, L!Phase
<1>2. History(iter, "persist") \cup {<<iter, "persist">>} \subseteq (1 .. iter + 1) \X L!Phase
  BY DEF History, L!Phase
<1> QED
  BY <1>1, <1>2 DEF History

-----------------------------------------------------------------------------
(* Values *)

\* An iteration is within the budget iff all the iterations before it are.
LEMMA IterationFacts ==
  /\ Iteration \subseteq Nat \ {0}
  /\ 1 \in Iteration
  /\ \A i \in Iteration, j \in Nat \ {0} : j <= i => j \in Iteration
  /\ \A l \in LoopLimits, j \in Nat \ {0} : j <= l => j \in Iteration
<1>1. \A j : j \in Iteration <=> \E l \in LoopLimits : j \in 1 .. l
  BY DEF Iteration
<1>2. \A l \in LoopLimits : l \in Nat /\ l >= 1
  BY LimitsAssumption
<1>3. \E l \in LoopLimits : TRUE
  BY LimitsAssumption
<1>4. \A l \in LoopLimits, j \in Nat \ {0} : j <= l => j \in Iteration
  BY <1>1, <1>2
<1>5. \A i \in Iteration : i \in Nat \ {0} /\ \E l \in LoopLimits : i <= l
  BY <1>1, <1>2
<1>6. \A i \in Iteration, j \in Nat \ {0} : j <= i => j \in Iteration
  BY <1>1, <1>2, <1>5
<1> QED
  BY <1>2, <1>3, <1>4, <1>5, <1>6

\* The state createOrchestratorState makes is that of a run that did nothing.
LEMMA NewRunSound ==
  ASSUME NEW t \in Tree
  PROVE  /\ NewRun(t) \in RunState
         /\ Sound(NewRun(t)) /\ Resolved(NewRun(t))
<1>1. NewRun(t) \in RunState
  BY DEF NewRun, RunState, L!Phase
<1>2. History(1, "plan") = {}
  BY HistoryEmpty DEF L!Phase
<1> QED
  BY <1>1, <1>2, IterationFacts DEF NewRun, Sound, Resolved

\* evaluateConvergence lets the run go on only below the budget.
LEMMA ConvergenceValues ==
  ASSUME NEW print, NEW before, NEW action, NEW exit, NEW index, NEW max
  PROVE  /\ Convergence(print, before, action, exit, index, max) \in ConvergenceStatus
         /\ ~ShouldStop(Convergence(print, before, action, exit, index, max)) => index # max
BY DEF Convergence, ConvergenceStatus, ShouldStop

\* The action a report carries is one of HarnessDecisionAction.
LEMMA ReportedValues ==
  ASSUME NEW status, NEW action \in Action
  PROVE  ReportedAction(status, action) \in Action
BY ActionValues DEF ReportedAction

\* The outcome that decide makes of typed artifacts is well formed.
LEMMA JudgeType ==
  ASSUME NEW exit, NEW e \in Evaluation, NEW tree \in Tree, NEW action \in Action,
         NEW before, NEW index, NEW max
  PROVE  /\ Judge(exit, e, tree, action, before, index, max) \in Outcome
         /\ ~ShouldStop(Judge(exit, e, tree, action, before, index, max).status) => index # max
<1> DEFINE print == [tree |-> tree, action |-> action, findings |-> e]
           status == Convergence(print, before, action, exit, index, max)
<1>1. print \in Fingerprint
  BY DEF Fingerprint
<1>2. status \in ConvergenceStatus /\ (~ShouldStop(status) => index # max)
  BY ConvergenceValues
<1>3. ReportedAction(status, action) \in Action
  BY ReportedValues
<1>4. Judge(exit, e, tree, action, before, index, max)
        = [action |-> ReportedAction(status, action), status |-> status, print |-> print]
  BY DEF Judge
<1> HIDE DEF print, status
<1> QED
  BY <1>1, <1>2, <1>3, <1>4 DEF Outcome

-----------------------------------------------------------------------------
(* The invariant holds initially. *)

\* The invariant holds of a run that nobody has invoked yet.
LEMMA InitIInv == Init => IInv
<1> SUFFICES ASSUME Init
             PROVE  IInv
  OBVIOUS
<1>1. HeadTree \in Tree /\ hostTree \in Tree
  BY TreeAssumption DEF Init
<1>2. NewRun(HeadTree) \in RunState /\ NewRun(hostTree) \in RunState
  BY <1>1, NewRunSound
<1>3. TypeOK
  <2>1. mode \in Modes /\ trace \in Seq(Iteration \X Result)
    BY DEF Init
  <2>2. /\ disk \in RunState
        /\ execution \in [Iteration -> Result \cup {Nil}]
        /\ evaluated \in [Iteration -> Evaluation \cup {Nil}]
        /\ report \in [Iteration -> Outcome \cup {Nil}]
        /\ published \in Outcome \cup {Nil}
        /\ memory \in BOOLEAN
        /\ hostTree \in Tree
    BY <1>1, <1>2 DEF Init
  <2>3. /\ pc \in [Proc -> Place]
        /\ mem \in [Proc -> RunState]
        /\ limit \in [Proc -> Nat]
        /\ sandbox \in [Proc -> Tree \cup {Nil}]
        /\ result \in [Proc -> Result \cup {Nil}]
        /\ finding \in [Proc -> Evaluation \cup {Nil}]
        /\ outcome \in [Proc -> Outcome \cup {Nil}]
        /\ previous \in [Proc -> Fingerprint \cup {Nil}]
        /\ launches \in Nat
        /\ crashes \in Nat
    BY <1>1, <1>2 DEF Init, Place
  <2> QED
    BY <2>1, <2>2, <2>3 DEF TypeOK
<1>4. CopyIsCurrent
  BY DEF Init, CopyIsCurrent, NewRun
<1>5. Sound(disk) /\ Resolved(disk)
  BY <1>1, NewRunSound DEF Init
<1>6. ReportsAreAPrefix
  BY IterationFacts DEF Init, ReportsAreAPrefix, NewRun
<1>7. ASSUME NEW p \in Proc
      PROVE  ProcessOK(p)
  BY <1>1, NewRunSound DEF Init, ProcessOK, NewRun, Placed, Holding, Working
<1> QED
  BY <1>3, <1>4, <1>5, <1>6, <1>7 DEF IInv

-----------------------------------------------------------------------------
(* What a step changes *)

\* A save that passed the revision check was made by a process whose copy is the file.
LEMMA AdvanceFacts ==
  ASSUME IInv, NEW p \in Proc, pc[p] # "down", NEW next \in L!Phase,
         NEW updated \in RunState, updated.done = mem[p].done, Advance(p, next, updated)
  PROVE  /\ mem[p] = disk
         /\ disk' \in RunState
         /\ mem' = [mem EXCEPT ![p] = disk']
         /\ mem' \in [Proc -> RunState]
         /\ disk'.revision = disk.revision + 1
         /\ disk'.phase = next
         /\ disk'.iter = updated.iter
         /\ disk'.done = disk.done \cup {<<disk.iter, disk.phase>>}
         /\ disk'.hasExec = updated.hasExec
         /\ disk'.hasEval = updated.hasEval
         /\ disk'.outcome = updated.outcome
         /\ disk'.tree = updated.tree
         /\ CopyIsCurrent'
<1>1. disk \in RunState /\ mem \in [Proc -> RunState]
  BY DEF IInv, TypeOK
<1>2. mem[p] = disk
  BY DEF IInv, CopyIsCurrent, Advance
<1>3. disk' = [updated EXCEPT !.revision = disk.revision + 1,
                              !.phase    = next,
                              !.done     = @ \cup {<<disk.iter, disk.phase>>}]
  BY <1>2 DEF Advance
<1>4. disk' \in RunState
  <2>1. /\ disk.revision + 1 \in Nat
        /\ <<disk.iter, disk.phase>> \in (Nat \ {0}) \X L!Phase
        /\ updated.done \in SUBSET ((Nat \ {0}) \X L!Phase)
    BY <1>1 DEF RunState
  <2>2. updated.done \cup {<<disk.iter, disk.phase>>} \in SUBSET ((Nat \ {0}) \X L!Phase)
    BY <2>1
  <2> QED
    BY <1>3, <2>1, <2>2 DEF RunState
<1>5. mem' = [mem EXCEPT ![p] = disk']
  BY DEF Advance
<1>6. mem' \in [Proc -> RunState]
  BY <1>1, <1>4, <1>5
<1>7. /\ disk'.revision = disk.revision + 1
      /\ disk'.phase = next
      /\ disk'.iter = updated.iter
      /\ disk'.done = disk.done \cup {<<disk.iter, disk.phase>>}
      /\ disk'.hasExec = updated.hasExec
      /\ disk'.hasEval = updated.hasEval
      /\ disk'.outcome = updated.outcome
      /\ disk'.tree = updated.tree
  BY <1>1, <1>2, <1>3 DEF RunState
<1>8. \A q \in Proc : mem[q].revision <= disk.revision /\ mem[q].revision \in Nat
  BY <1>1 DEF IInv, CopyIsCurrent, RunState
<1>9. disk.revision \in Nat
  BY <1>1 DEF RunState
<1>10. CopyIsCurrent'
  BY <1>1, <1>5, <1>6, <1>7, <1>8, <1>9 DEF CopyIsCurrent
<1> QED
  BY <1>2, <1>4, <1>5, <1>6, <1>7, <1>10

-----------------------------------------------------------------------------
(* Steps that leave the state file alone *)

\* What a resumed process compares with is nothing or a fingerprint.
LEMMA LastFingerprintType ==
  ASSUME IInv
  PROVE  LastFingerprint \in Fingerprint \cup {Nil}
<1>1. CASE Reported = {}
  BY <1>1 DEF LastFingerprint
<1>2. CASE Reported # {}
  <2>1. disk.iter \in Iteration /\ disk.iter \in Nat \ {0}
    BY IterationFacts DEF IInv, Sound
  <2>2. ASSUME NEW i \in Reported
        PROVE  /\ i \in Iteration /\ i \in Nat \ {0}
               /\ i <= disk.iter /\ report[i] \in Outcome
    <3>1. i \in Iteration /\ i \in Nat \ {0} /\ report[i] # Nil
      BY IterationFacts DEF Reported
    <3>2. report[i] \in Outcome
      BY <3>1 DEF IInv, TypeOK
    <3>3. i <= disk.iter
      BY <2>1, <3>1 DEF IInv, ReportsAreAPrefix
    <3> QED
      BY <3>1, <3>2, <3>3
  <2>3. \A i \in Iteration : i < disk.iter => i \in Reported
    BY NilAssumption DEF IInv, ReportsAreAPrefix, Reported
  <2>4. \E i \in Reported : \A j \in Reported : j <= i
    <3>1. CASE disk.iter \in Reported
      BY <2>2, <3>1
    <3>2. CASE disk.iter \notin Reported
      <4>1. \A i \in Reported : i \in Nat /\ i <= disk.iter - 1
        BY <2>1, <2>2, <3>2
      <4>2. disk.iter - 1 \in Iteration
        BY <1>2, <2>1, <2>2, <4>1, IterationFacts
      <4>3. disk.iter - 1 \in Reported
        BY <2>1, <2>3, <4>2
      <4> QED
        BY <4>1, <4>3
    <3> QED
      BY <3>1, <3>2
  <2>5. PICK i \in Reported : LastFingerprint = report[i].print
    BY <1>2, <2>4 DEF LastFingerprint
  <2> QED
    BY <2>2, <2>5 DEF Outcome
<1> QED
  BY <1>1, <1>2

\* A process that is past Plan is not at the beginning of the run.
LEMMA StartedBeyondPlan ==
  ASSUME IInv, NEW p \in Proc, ~Unstarted(p), mem[p].phase = "plan"
  PROVE  mem[p].iter > 1
<1>1. mem[p].iter \in Nat \ {0} /\ mem[p].done = History(mem[p].iter, "plan")
  BY IterationFacts DEF IInv, ProcessOK, Sound
<1>2. mem[p].iter = 1 => mem[p].done = {}
  BY <1>1, HistoryEmpty DEF L!Phase
<1> QED
  BY <1>1, <1>2 DEF Unstarted

\* Reading the state file makes the copy of the process current.
LEMMA StartInv ==
  ASSUME IInv, UNCHANGED mode, NEW p \in Proc, Start(p)
  PROVE  IInv'
<1> USE DEF IInv
<1>1. TypeOK'
  BY LimitsAssumption DEF TypeOK, Start, Goto, Place, ProcessOK, Holding, diskVars
<1>2. CopyIsCurrent'
  BY DEF TypeOK, CopyIsCurrent, Start, Goto, RunState, diskVars
<1>3. Sound(disk)' /\ Resolved(disk)'
  BY DEF Start, Sound, Resolved, TypeOK, ProcessOK, Holding, diskVars
<1>4. ReportsAreAPrefix'
  BY DEF Start, ReportsAreAPrefix, TypeOK, ProcessOK, Holding, Sound, diskVars
<1>5. ASSUME NEW q \in Proc
      PROVE  ProcessOK(q)'
  BY LimitsAssumption DEF TypeOK, Start, Goto, ProcessOK, Sound, Resolved, Placed, Holding,
         Working, RunState, diskVars
<1> QED
  BY <1>1, <1>2, <1>3, <1>4, <1>5

\* A process gets a worktree exactly in git-worktree mode.
LEMMA PrepareSandboxInv ==
  ASSUME IInv, UNCHANGED mode, NEW p \in Proc, PrepareSandbox(p)
  PROVE  IInv'
<1> USE DEF IInv
<1>1. TypeOK'
  BY DEF TypeOK, PrepareSandbox, Goto, Place, ProcessOK, Holding, diskVars, NeedsPatch, Sound, Resolved, Result
<1>2. CopyIsCurrent'
  BY DEF TypeOK, CopyIsCurrent, PrepareSandbox, Goto, RunState, diskVars
<1>3. Sound(disk)' /\ Resolved(disk)'
  BY DEF PrepareSandbox, Sound, Resolved, TypeOK, ProcessOK, Holding, diskVars
<1>4. ReportsAreAPrefix'
  BY DEF PrepareSandbox, ReportsAreAPrefix, TypeOK, ProcessOK, Holding, Sound, diskVars
<1>5. ASSUME NEW q \in Proc
      PROVE  ProcessOK(q)'
  BY StartedBeyondPlan DEF TypeOK, PrepareSandbox, Goto, ProcessOK, Sound, Resolved, Placed, Holding,
         Working, RunState, diskVars, NeedsPatch, Result
<1> QED
  BY <1>1, <1>2, <1>3, <1>4, <1>5

\* What a resumed process needs in its phase is on disk, so it finds it.
LEMMA LoadPersistedInv ==
  ASSUME IInv, UNCHANGED mode, NEW p \in Proc, LoadPersisted(p)
  PROVE  IInv'
<1> USE DEF IInv
<1>1. TypeOK'
  BY LastFingerprintType DEF TypeOK, LoadPersisted, Goto, Place, ProcessOK, Holding, diskVars, Sound, Resolved, RunState
<1>2. CopyIsCurrent'
  BY DEF TypeOK, CopyIsCurrent, LoadPersisted, Goto, RunState, diskVars
<1>3. Sound(disk)' /\ Resolved(disk)'
  BY DEF LoadPersisted, Sound, Resolved, TypeOK, ProcessOK, Holding, diskVars
<1>4. ReportsAreAPrefix'
  BY DEF LoadPersisted, ReportsAreAPrefix, TypeOK, ProcessOK, Holding, Sound, diskVars
<1>5. ASSUME NEW q \in Proc
      PROVE  ProcessOK(q)'
  BY DEF TypeOK, LoadPersisted, Goto, ProcessOK, Sound, Resolved, Placed, Holding,
         Working, RunState, diskVars
<1> QED
  BY <1>1, <1>2, <1>3, <1>4, <1>5

\* A launch edits the tree and leaves a result in memory.
LEMMA ExecuteInv ==
  ASSUME IInv, UNCHANGED mode, NEW p \in Proc, Execute(p)
  PROVE  IInv'
<1> USE DEF IInv
<1>1. TypeOK'
  <2>1. PICK tree \in Tree, exit \in {0, 1} :
          /\ SetWorkTree(p, tree)
          /\ result' = [result EXCEPT ![p] =
                          [launch |-> launches + 1, exit |-> exit, tree |-> tree]]
    BY DEF Execute
  <2>2. [launch |-> launches + 1, exit |-> exit, tree |-> tree] \in Result
    BY DEF TypeOK, Result
  <2>3. result' \in [Proc -> Result \cup {Nil}] /\ launches' \in Nat
    BY <2>1, <2>2 DEF TypeOK, Execute
  <2>4. hostTree' \in Tree /\ sandbox' \in [Proc -> Tree \cup {Nil}]
    BY <2>1 DEF TypeOK, SetWorkTree
  <2> QED
    BY <2>3, <2>4 DEF TypeOK, Execute, Goto, Place
<1>2. CopyIsCurrent'
  BY DEF TypeOK, CopyIsCurrent, Execute, Goto, RunState, diskVars, At, SetWorkTree
<1>3. Sound(disk)' /\ Resolved(disk)'
  BY DEF Execute, Sound, Resolved, TypeOK, ProcessOK, Holding, diskVars, SetWorkTree
<1>4. ReportsAreAPrefix'
  BY DEF Execute, ReportsAreAPrefix, TypeOK, ProcessOK, Holding, Sound, diskVars, SetWorkTree
<1>5. ASSUME NEW q \in Proc
      PROVE  ProcessOK(q)'
  BY DEF TypeOK, Execute, Goto, ProcessOK, Sound, Resolved, Placed, Holding,
         Working, RunState, diskVars, At, SetWorkTree, Result
<1> QED
  BY <1>1, <1>2, <1>3, <1>4, <1>5

\* Writing phase.execute.json keeps the references of every state resolved.
LEMMA RecordExecutionInv ==
  ASSUME IInv, UNCHANGED mode, NEW p \in Proc, RecordExecution(p)
  PROVE  IInv'
<1> USE DEF IInv
<1>1. TypeOK'
  BY DEF TypeOK, RecordExecution, Goto, Place, ProcessOK, Holding, diskVars
<1>2. CopyIsCurrent'
  BY DEF TypeOK, CopyIsCurrent, RecordExecution, Goto, RunState, diskVars
<1>3. Sound(disk)' /\ Resolved(disk)'
  BY DEF RecordExecution, Sound, Resolved, TypeOK, ProcessOK, Holding, diskVars
<1>4. ReportsAreAPrefix'
  BY DEF RecordExecution, ReportsAreAPrefix, TypeOK, ProcessOK, Holding, Sound, diskVars
<1>5. ASSUME NEW q \in Proc
      PROVE  ProcessOK(q)'
  BY DEF TypeOK, RecordExecution, Goto, ProcessOK, Sound, Resolved, Placed, Holding,
         Working, RunState, diskVars
<1> QED
  BY <1>1, <1>2, <1>3, <1>4, <1>5

\* Merging the executor step touches the trace only.
LEMMA CollectTraceInv ==
  ASSUME IInv, UNCHANGED mode, NEW p \in Proc, CollectTrace(p)
  PROVE  IInv'
<1> USE DEF IInv
<1>1. TypeOK'
  BY DEF TypeOK, CollectTrace, Goto, Place, ProcessOK, Holding, diskVars, At, Sound
<1>2. CopyIsCurrent'
  BY DEF TypeOK, CopyIsCurrent, CollectTrace, Goto, RunState, diskVars, At
<1>3. Sound(disk)' /\ Resolved(disk)'
  BY DEF CollectTrace, Sound, Resolved, TypeOK, ProcessOK, Holding, diskVars
<1>4. ReportsAreAPrefix'
  BY DEF CollectTrace, ReportsAreAPrefix, TypeOK, ProcessOK, Holding, Sound, diskVars
<1>5. ASSUME NEW q \in Proc
      PROVE  ProcessOK(q)'
  BY DEF TypeOK, CollectTrace, Goto, ProcessOK, Sound, Resolved, Placed, Holding,
         Working, RunState, diskVars, At
<1> QED
  BY <1>1, <1>2, <1>3, <1>4, <1>5

\* Writing phase.execute.json again keeps the references resolved.
LEMMA RecordCollectInv ==
  ASSUME IInv, UNCHANGED mode, NEW p \in Proc, RecordCollect(p)
  PROVE  IInv'
<1> USE DEF IInv
<1>1. TypeOK'
  BY DEF TypeOK, RecordCollect, Goto, Place, ProcessOK, Holding, diskVars
<1>2. CopyIsCurrent'
  BY DEF TypeOK, CopyIsCurrent, RecordCollect, Goto, RunState, diskVars
<1>3. Sound(disk)' /\ Resolved(disk)'
  BY DEF RecordCollect, Sound, Resolved, TypeOK, ProcessOK, Holding, diskVars
<1>4. ReportsAreAPrefix'
  BY DEF RecordCollect, ReportsAreAPrefix, TypeOK, ProcessOK, Holding, Sound, diskVars
<1>5. ASSUME NEW q \in Proc
      PROVE  ProcessOK(q)'
  BY DEF TypeOK, RecordCollect, Goto, ProcessOK, Sound, Resolved, Placed, Holding,
         Working, RunState, diskVars
<1> QED
  BY <1>1, <1>2, <1>3, <1>4, <1>5

\* Writing phase.evaluate.json keeps the references of every state resolved.
LEMMA EvaluateInv ==
  ASSUME IInv, UNCHANGED mode, NEW p \in Proc, Evaluate(p)
  PROVE  IInv'
<1> USE DEF IInv
<1>1. TypeOK'
  BY EvaluationsAssumption DEF TypeOK, Evaluate, Goto, Place, ProcessOK, Holding, diskVars, At, Sound
<1>2. CopyIsCurrent'
  BY DEF TypeOK, CopyIsCurrent, Evaluate, Goto, RunState, diskVars, At
<1>3. Sound(disk)' /\ Resolved(disk)'
  BY EvaluationsAssumption DEF Evaluate, Sound, Resolved, TypeOK, ProcessOK, Holding, diskVars
<1>4. ReportsAreAPrefix'
  BY DEF Evaluate, ReportsAreAPrefix, TypeOK, ProcessOK, Holding, Sound, diskVars
<1>5. ASSUME NEW q \in Proc
      PROVE  ProcessOK(q)'
  BY EvaluationsAssumption DEF TypeOK, Evaluate, Goto, ProcessOK, Sound, Resolved, Placed, Holding,
         Working, RunState, diskVars, At
<1> QED
  BY <1>1, <1>2, <1>3, <1>4, <1>5

\* A decision to go on leaves budget for another iteration.
LEMMA DecideInv ==
  ASSUME IInv, UNCHANGED mode, NEW p \in Proc, Decide(p)
  PROVE  IInv'
<1> USE DEF IInv
<1>1. /\ pc[p] = "loop" /\ mem[p].phase = "decide"
      /\ mem[p].iter \in Nat \ {0} /\ mem[p].iter <= limit[p] /\ limit[p] \in LoopLimits
      /\ result[p] \in Result /\ finding[p] \in Evaluation
  BY IterationFacts DEF Decide, At, ProcessOK, Placed, Holding, Sound
<1>2. WorkTree(p) \in Tree
  BY <1>1 DEF WorkTree, TypeOK, ProcessOK, Holding, Working
<1>3. PICK action \in Selected(Candidates(result[p].exit, finding[p], mode)) :
        outcome' = [outcome EXCEPT ![p] =
                      Judge(result[p].exit, finding[p], WorkTree(p), action,
                            previous[p], mem[p].iter, limit[p])]
  BY DEF Decide
<1>4. action \in Action
  BY <1>1, CandidatesAreActions DEF Selected
<1>5. /\ outcome'[p] \in Outcome
      /\ ~ShouldStop(outcome'[p].status) => mem[p].iter # limit[p]
  BY <1>1, <1>2, <1>3, <1>4, JudgeType DEF TypeOK
<1>6. ~ShouldStop(outcome'[p].status) => mem[p].iter + 1 \in Iteration
  <2>1. limit[p] \in Nat
    BY <1>1, LimitsAssumption
  <2>2. mem[p].iter # limit[p] => mem[p].iter + 1 \in Nat \ {0} /\ mem[p].iter + 1 <= limit[p]
    BY <1>1, <2>1
  <2> QED
    BY <1>1, <1>5, <2>2, IterationFacts
<1>7. TypeOK'
  BY <1>3, <1>5 DEF TypeOK, Decide, Goto, Place, diskVars
<1>8. CopyIsCurrent'
  BY <1>1 DEF CopyIsCurrent, Decide, Goto, TypeOK, diskVars
<1>9. Sound(disk)' /\ Resolved(disk)' /\ ReportsAreAPrefix'
  BY DEF Decide, Sound, Resolved, ReportsAreAPrefix, diskVars
<1>10. ASSUME NEW q \in Proc
       PROVE  ProcessOK(q)'
  <2>1. /\ (Sound(mem[q]) /\ Resolved(mem[q]) /\ mem[q].iter <= disk.iter)'
        /\ Placed(q)'
    BY <1>1 DEF Decide, Goto, ProcessOK, Sound, Resolved, Placed, TypeOK, diskVars
  <2>2. CASE q = p
    BY <1>1, <1>5, <1>6, <2>1, <2>2 DEF Decide, Goto, ProcessOK, Holding, Working, TypeOK, diskVars
  <2>3. CASE q # p
    BY <1>3, <2>1, <2>3 DEF Decide, Goto, ProcessOK, Holding, Working, TypeOK, diskVars
  <2> QED
    BY <2>2, <2>3
<1> QED
  BY <1>7, <1>8, <1>9, <1>10

\* Writing the iteration report leaves the reports a prefix of the iterations.
LEMMA PersistInv ==
  ASSUME IInv, UNCHANGED mode, NEW p \in Proc, Persist(p)
  PROVE  IInv'
<1> USE DEF IInv
<1>1. TypeOK'
  BY DEF TypeOK, Persist, Goto, Place, ProcessOK, Holding, diskVars, At, Sound, Outcome
<1>2. CopyIsCurrent'
  BY DEF TypeOK, CopyIsCurrent, Persist, Goto, RunState, diskVars, At
<1>3. Sound(disk)' /\ Resolved(disk)'
  BY DEF Persist, Sound, Resolved, TypeOK, ProcessOK, Holding, diskVars
<1>4. ReportsAreAPrefix'
  <2>1. mem[p].outcome \in Outcome
    BY DEF Persist, At, ProcessOK, Sound
  <2>2. mem[p].iter \in Nat /\ disk.iter \in Nat /\ mem[p].iter <= disk.iter
    BY IterationFacts DEF ProcessOK, Sound
  <2> QED
    BY <2>1, <2>2, IterationFacts DEF Persist, ReportsAreAPrefix, TypeOK
<1>5. ASSUME NEW q \in Proc
      PROVE  ProcessOK(q)'
  BY DEF TypeOK, Persist, Goto, ProcessOK, Sound, Resolved, Placed, Holding,
         Working, RunState, diskVars, At
<1> QED
  BY <1>1, <1>2, <1>3, <1>4, <1>5

\* Writing a memory candidate touches nothing the run is resumed from.
LEMMA WriteMemoryInv ==
  ASSUME IInv, UNCHANGED mode, NEW p \in Proc, WriteMemory(p)
  PROVE  IInv'
<1> USE DEF IInv
<1>1. TypeOK'
  BY DEF TypeOK, WriteMemory, Goto, Place, ProcessOK, Holding, diskVars, LoopEnded
<1>2. CopyIsCurrent'
  BY DEF TypeOK, CopyIsCurrent, WriteMemory, Goto, RunState, diskVars, LoopEnded
<1>3. Sound(disk)' /\ Resolved(disk)'
  BY DEF WriteMemory, Sound, Resolved, TypeOK, ProcessOK, Holding, diskVars
<1>4. ReportsAreAPrefix'
  BY DEF WriteMemory, ReportsAreAPrefix, TypeOK, ProcessOK, Holding, Sound, diskVars
<1>5. ASSUME NEW q \in Proc
      PROVE  ProcessOK(q)'
  BY DEF TypeOK, WriteMemory, Goto, ProcessOK, Sound, Resolved, Placed, Holding,
         Working, RunState, diskVars, LoopEnded
<1> QED
  BY <1>1, <1>2, <1>3, <1>4, <1>5

\* Publishing keeps the outcome that the final save will write.
LEMMA PublishInv ==
  ASSUME IInv, UNCHANGED mode, NEW p \in Proc, Publish(p)
  PROVE  IInv'
<1> USE DEF IInv
<1>1. TypeOK'
  BY DEF TypeOK, Publish, Goto, Place, ProcessOK, Holding, diskVars
<1>2. CopyIsCurrent'
  BY DEF TypeOK, CopyIsCurrent, Publish, Goto, RunState, diskVars
<1>3. Sound(disk)' /\ Resolved(disk)'
  BY DEF Publish, Sound, Resolved, TypeOK, ProcessOK, Holding, diskVars
<1>4. ReportsAreAPrefix'
  BY DEF Publish, ReportsAreAPrefix, TypeOK, ProcessOK, Holding, Sound, diskVars
<1>5. ASSUME NEW q \in Proc
      PROVE  ProcessOK(q)'
  BY DEF TypeOK, Publish, Goto, ProcessOK, Sound, Resolved, Placed, Holding,
         Working, RunState, diskVars
<1> QED
  BY <1>1, <1>2, <1>3, <1>4, <1>5

-----------------------------------------------------------------------------
(* Steps that end a process *)

\* A process that ends, having saved a sound state or nothing, leaves a sound run.
LEMMA HaltInv ==
  ASSUME IInv, UNCHANGED mode, NEW p \in Proc, Halt(p),
         disk' \in RunState, disk'.revision >= disk.revision, disk'.iter = disk.iter,
         \A q \in Proc : q # p /\ pc[q] # "down" /\ mem[q].revision = disk'.revision
                          => mem[q] = disk',
         Sound(disk)', Resolved(disk)',
         published' \in Outcome \cup {Nil}, launches' \in Nat, crashes' \in Nat,
         UNCHANGED <<execution, evaluated, report, trace, memory, hostTree>>
  PROVE  IInv'
<1> USE DEF IInv
<1>1. /\ NewRun(HeadTree) \in RunState
      /\ NewRun(HeadTree).revision = 0 /\ NewRun(HeadTree).iter = 1
      /\ NewRun(HeadTree).hasExec = FALSE /\ NewRun(HeadTree).hasEval = FALSE
      /\ Sound(NewRun(HeadTree))
  BY TreeAssumption, NewRunSound DEF NewRun
<1>2. TypeOK'
  BY <1>1 DEF TypeOK, Halt, Goto, Place
<1>3. CopyIsCurrent'
  BY <1>1 DEF TypeOK, CopyIsCurrent, Halt, Goto, RunState
<1>4. ReportsAreAPrefix'
  BY DEF ReportsAreAPrefix
<1>5. ASSUME NEW q \in Proc
      PROVE  ProcessOK(q)'
  <2>1. disk.iter \in Nat \ {0}
    BY IterationFacts DEF Sound
  <2>2. CASE q = p
    BY <1>1, <2>1, <2>2 DEF Halt, Goto, TypeOK, ProcessOK, Sound, Resolved, Placed, Holding, Working
  <2>3. CASE q # p
    BY <2>3 DEF Halt, Goto, TypeOK, ProcessOK, Sound, Resolved, Placed, Holding, Working
  <2> QED
    BY <2>2, <2>3
<1> QED
  BY <1>2, <1>3, <1>4, <1>5

\* Ends that leave the state file alone.
LEMMA QuietHaltInv ==
  ASSUME IInv, UNCHANGED mode, NEW p \in Proc, pc[p] # "down",
         PatchRejected(p) \/ RecordingRefused(p) \/ PublishUnfinished(p) \/ NothingToDo(p) \/ RevisionConflict(p)
           \/ Crash(p)
  PROVE  IInv'
<1>1. Halt(p) /\ UNCHANGED <<disk, execution, evaluated, report, trace, memory, hostTree, launches>>
  BY DEF PatchRejected, RecordingRefused, PublishUnfinished, NothingToDo, RevisionConflict, Crash, diskVars
<1>2. published' \in Outcome \cup {Nil} /\ crashes' \in Nat
  BY DEF PatchRejected, RecordingRefused, PublishUnfinished, NothingToDo, RevisionConflict, Crash, diskVars,
         IInv, TypeOK
<1>3. /\ \A q \in Proc : q # p /\ pc[q] # "down" /\ mem[q].revision = disk'.revision
                         => mem[q] = disk'
      /\ disk' \in RunState /\ disk'.revision >= disk.revision /\ disk'.iter = disk.iter
      /\ launches' \in Nat
  BY <1>1 DEF IInv, CopyIsCurrent, TypeOK, RunState
<1>4. Sound(disk)' /\ Resolved(disk)'
  BY <1>1 DEF IInv, Sound, Resolved
<1> QED
  BY <1>1, <1>2, <1>3, <1>4, HaltInv

-----------------------------------------------------------------------------
(* Steps that advance the state file *)

\* Saving a sound state with its phase advanced along the lifecycle keeps the invariant.
LEMMA AdvanceInv ==
  ASSUME IInv, UNCHANGED mode, NEW p \in Proc, pc[p] # "down", NEW next \in L!Phase,
         NEW updated \in RunState, updated.done = mem[p].done, Advance(p, next, updated),
         \/ updated.iter = mem[p].iter
         \/ updated.iter = mem[p].iter + 1 /\ report[mem[p].iter] \in Outcome,
         pc' = pc \/ pc' = [pc EXCEPT ![p] = "loop"],
         UNCHANGED <<execution, evaluated, report, trace, published, memory, hostTree,
                     limit, sandbox, result, finding, outcome, previous, launches, crashes>>,
         Sound(disk)', Resolved(disk)', (Placed(p) /\ Holding(p))'
  PROVE  IInv'
<1> USE DEF IInv
<1>1. /\ mem[p] = disk /\ disk' \in RunState
      /\ mem' = [mem EXCEPT ![p] = disk'] /\ mem' \in [Proc -> RunState]
      /\ disk'.iter = updated.iter
      /\ CopyIsCurrent'
  BY AdvanceFacts
<1>2. TypeOK'
  BY <1>1 DEF TypeOK, Place
<1>3. disk.iter \in Nat \ {0} /\ disk'.iter \in {disk.iter, disk.iter + 1}
  BY <1>1, IterationFacts DEF Sound
<1>4. ReportsAreAPrefix'
  BY <1>1, <1>3, IterationFacts DEF ReportsAreAPrefix
<1>5. ASSUME NEW q \in Proc
      PROVE  ProcessOK(q)'
  <2>1. CASE q = p
    BY <1>1, <1>3, <2>1 DEF ProcessOK, Sound, Resolved, TypeOK
  <2>2. CASE q # p
    <3>1. mem'[q] = mem[q] /\ pc'[q] = pc[q]
      BY <1>1, <2>2 DEF TypeOK
    <3>2. Sound(mem[q])' /\ Resolved(mem[q])' /\ Placed(q)' /\ Holding(q)'
      BY <3>1 DEF ProcessOK, Sound, Resolved, Placed, Holding, Working
    <3>3. mem[q].iter \in Nat /\ mem[q].iter <= disk.iter
      BY IterationFacts DEF ProcessOK, Sound
    <3> QED
      BY <1>3, <3>1, <3>2, <3>3 DEF ProcessOK
  <2> QED
    BY <2>1, <2>2
<1> QED
  BY <1>1, <1>2, <1>4, <1>5

\* What an advance within the iteration has to bring along.
Ready(p, next, updated) ==
  /\ updated \in RunState /\ updated.done = mem[p].done /\ updated.iter = mem[p].iter
  /\ next \in L!Phase
  /\ IF mem[p].phase = "plan" /\ mem[p].iter > 1
     THEN next = "execute" ELSE L!Rank[next] = L!Rank[mem[p].phase] + 1
  /\ next = "prepare-sandbox" => mem[p].iter = 1
  /\ next \in {"collect", "evaluate", "decide", "persist", "finalize", "completed"}
       => updated.hasExec
  /\ next \in {"decide", "persist", "finalize", "completed"} => updated.hasEval
  /\ next \in {"persist", "finalize", "completed"} => updated.outcome \in Outcome
  /\ next = "persist" /\ ~ShouldStop(updated.outcome.status) => mem[p].iter + 1 \in Iteration
  /\ updated.hasExec => execution[mem[p].iter] \in Result
  /\ updated.hasEval => evaluated[mem[p].iter] \in Evaluation
  /\ next \in {"collect", "evaluate", "decide"} => result[p] \in Result
  /\ next = "decide" => finding[p] \in Evaluation

\* The shape of the steps Plan, EnterExecute, PlanNext and most commits.
Advances(p) ==
  \E next, updated :
    /\ Advance(p, next, updated) /\ Ready(p, next, updated)
    /\ \/ pc[p] = "started" /\ pc' = pc /\ next = "prepare-sandbox"
       \/ /\ pc[p] \in {"loop", "recorded"} /\ mem[p].phase # "finalize"
          /\ pc' = [pc EXCEPT ![p] = "loop"] /\ next # "plan"
    /\ UNCHANGED <<execution, evaluated, report, trace, published, memory, hostTree,
                   limit, sandbox, result, finding, outcome, previous, launches, crashes>>

\* So does every action that is one of these saves.
LEMMA AdvancesInv ==
  ASSUME IInv, UNCHANGED mode, NEW p \in Proc, Advances(p)
  PROVE  IInv'
<1>0. PICK next, updated :
        /\ Advance(p, next, updated) /\ Ready(p, next, updated)
        /\ \/ pc[p] = "started" /\ pc' = pc /\ next = "prepare-sandbox"
           \/ /\ pc[p] \in {"loop", "recorded"} /\ mem[p].phase # "finalize"
              /\ pc' = [pc EXCEPT ![p] = "loop"] /\ next # "plan"
        /\ UNCHANGED <<execution, evaluated, report, trace, published, memory, hostTree,
                       limit, sandbox, result, finding, outcome, previous, launches, crashes>>
  BY DEF Advances
<1>1. /\ next \in L!Phase /\ updated \in RunState
      /\ updated.done = mem[p].done /\ updated.iter = mem[p].iter
      /\ pc[p] # "down"
  BY <1>0 DEF Ready
<1>2. /\ mem[p] = disk /\ mem'[p] = disk'
      /\ disk'.phase = next /\ disk'.iter = mem[p].iter
      /\ disk'.done = disk.done \cup {<<disk.iter, disk.phase>>}
      /\ disk'.hasExec = updated.hasExec /\ disk'.hasEval = updated.hasEval
      /\ disk'.outcome = updated.outcome
  BY <1>0, <1>1, AdvanceFacts DEF IInv, TypeOK
<1>3. Sound(disk) /\ disk.phase \in L!Phase /\ disk.iter \in Nat \ {0}
  BY IterationFacts DEF IInv, TypeOK, RunState, Sound
<1>4. disk'.done = History(disk'.iter, disk'.phase)
  BY <1>0, <1>1, <1>2, <1>3, HistoryForward DEF Sound, Ready
<1>5. Sound(disk)' /\ Resolved(disk)'
  BY <1>0, <1>2, <1>3, <1>4 DEF Sound, Resolved, Ready
<1>6. (Placed(p) /\ Holding(p))'
  BY <1>0, <1>2 DEF IInv, TypeOK, ProcessOK, Placed, Holding, Working, Ready
<1> QED
  BY <1>0, <1>1, <1>5, <1>6, AdvanceInv

\* Plan is a save that leads to prepare-sandbox.
LEMMA PlanAdvances ==
  ASSUME IInv, NEW p \in Proc, Plan(p)
  PROVE  Advances(p)
<1> DEFINE updated == mem[p]
<1>1. /\ pc[p] = "started" /\ mem[p].phase = "plan" /\ pc' = pc
      /\ Advance(p, "prepare-sandbox", updated)
      /\ UNCHANGED <<execution, evaluated, report, trace, published, memory, hostTree,
                     limit, sandbox, result, finding, outcome, previous, launches, crashes>>
  BY DEF Plan, Unstarted, Goto, IInv, TypeOK
<1>2. /\ mem[p] \in RunState /\ Sound(mem[p]) /\ Resolved(mem[p])
      /\ Placed(p) /\ Holding(p)
  BY DEF IInv, TypeOK, ProcessOK
<1>4. Ready(p, "prepare-sandbox", updated)
  BY <1>1, <1>2, RankValues DEF Ready, RunState, L!Phase, Sound, Resolved, Placed, Holding, Plan, Unstarted
<1> HIDE DEF updated
<1> QED
  BY <1>1, <1>4 DEF Advances

\* EnterExecute is a save that leads to execute.
LEMMA EnterExecuteAdvances ==
  ASSUME IInv, NEW p \in Proc, EnterExecute(p)
  PROVE  Advances(p)
<1> DEFINE updated == [mem[p] EXCEPT !.tree = WorkTree(p)]
<1>1. /\ pc[p] = "loop" /\ mem[p].phase = "prepare-sandbox" /\ pc' = [pc EXCEPT ![p] = "loop"]
      /\ Advance(p, "execute", updated)
      /\ UNCHANGED <<execution, evaluated, report, trace, published, memory, hostTree,
                     limit, sandbox, result, finding, outcome, previous, launches, crashes>>
  BY DEF EnterExecute, At, Goto, IInv, TypeOK
<1>2. /\ mem[p] \in RunState /\ Sound(mem[p]) /\ Resolved(mem[p])
      /\ Placed(p) /\ Holding(p)
  BY DEF IInv, TypeOK, ProcessOK
<1>3. WorkTree(p) \in Tree
  BY <1>1, <1>2 DEF WorkTree, Holding, Working, IInv, TypeOK
<1>4. Ready(p, "execute", updated)
  BY <1>1, <1>2, <1>3, RankValues DEF Ready, RunState, L!Phase, Sound, Resolved, Placed, Holding
<1> HIDE DEF updated
<1> QED
  BY <1>1, <1>4 DEF Advances

\* PlanNext is a save that leads from plan to execute in a later iteration.
LEMMA PlanNextAdvances ==
  ASSUME IInv, NEW p \in Proc, PlanNext(p)
  PROVE  Advances(p)
<1> DEFINE updated == [mem[p] EXCEPT !.tree = WorkTree(p),
                                      !.hasExec = FALSE, !.hasEval = FALSE]
<1>1. /\ pc[p] = "loop" /\ mem[p].phase = "plan" /\ pc' = [pc EXCEPT ![p] = "loop"]
      /\ Advance(p, "execute", updated)
      /\ UNCHANGED <<execution, evaluated, report, trace, published, memory, hostTree,
                     limit, sandbox, result, finding, outcome, previous, launches, crashes>>
  BY DEF PlanNext, At, Goto, IInv, TypeOK
<1>2. /\ mem[p] \in RunState /\ Sound(mem[p]) /\ Resolved(mem[p])
      /\ Placed(p) /\ Holding(p)
  BY DEF IInv, TypeOK, ProcessOK
<1>3. WorkTree(p) \in Tree
  BY <1>1, <1>2 DEF WorkTree, Holding, Working, IInv, TypeOK
<1>4. Ready(p, "execute", updated)
  BY <1>1, <1>2, <1>3, RankValues DEF Ready, RunState, L!Phase, Sound, Resolved, Placed, Holding
<1> HIDE DEF updated
<1> QED
  BY <1>1, <1>4 DEF Advances

\* CommitExecute is a save whose reference to the execution resolves.
LEMMA CommitExecuteAdvances ==
  ASSUME IInv, NEW p \in Proc, CommitExecute(p)
  PROVE  Advances(p)
<1> DEFINE updated == [mem[p] EXCEPT !.hasExec = TRUE, !.tree = WorkTree(p)]
<1>1. /\ pc[p] = "recorded" /\ mem[p].phase = "execute" /\ pc' = [pc EXCEPT ![p] = "loop"]
      /\ Advance(p, "collect", updated)
      /\ UNCHANGED <<execution, evaluated, report, trace, published, memory, hostTree,
                     limit, sandbox, result, finding, outcome, previous, launches, crashes>>
  BY DEF CommitExecute, Commit, Goto, IInv, TypeOK
<1>2. /\ mem[p] \in RunState /\ Sound(mem[p]) /\ Resolved(mem[p])
      /\ Placed(p) /\ Holding(p)
  BY DEF IInv, TypeOK, ProcessOK
<1>3. WorkTree(p) \in Tree
  BY <1>1, <1>2 DEF WorkTree, Holding, Working, IInv, TypeOK
<1>4. /\ updated \in RunState /\ updated.done = mem[p].done /\ updated.iter = mem[p].iter
      /\ updated.hasExec = TRUE /\ updated.hasEval = mem[p].hasEval
  BY <1>2, <1>3 DEF RunState
<1> HIDE DEF updated
<1>5. Ready(p, "collect", updated)
  BY <1>1, <1>2, <1>4, RankValues DEF Ready, L!Phase, Sound, Resolved, Holding
<1> QED
  BY <1>1, <1>5 DEF Advances

\* CommitCollect is a save that keeps the references.
LEMMA CommitCollectAdvances ==
  ASSUME IInv, NEW p \in Proc, CommitCollect(p)
  PROVE  Advances(p)
<1> DEFINE updated == [mem[p] EXCEPT !.tree = WorkTree(p)]
<1>1. /\ pc[p] = "recorded" /\ mem[p].phase = "collect" /\ pc' = [pc EXCEPT ![p] = "loop"]
      /\ Advance(p, "evaluate", updated)
      /\ UNCHANGED <<execution, evaluated, report, trace, published, memory, hostTree,
                     limit, sandbox, result, finding, outcome, previous, launches, crashes>>
  BY DEF CommitCollect, Commit, Goto, IInv, TypeOK
<1>2. /\ mem[p] \in RunState /\ Sound(mem[p]) /\ Resolved(mem[p])
      /\ Placed(p) /\ Holding(p)
  BY DEF IInv, TypeOK, ProcessOK
<1>3. WorkTree(p) \in Tree
  BY <1>1, <1>2 DEF WorkTree, Holding, Working, IInv, TypeOK
<1>4. Ready(p, "evaluate", updated)
  BY <1>1, <1>2, <1>3, RankValues DEF Ready, RunState, L!Phase, Sound, Resolved, Placed, Holding
<1> HIDE DEF updated
<1> QED
  BY <1>1, <1>4 DEF Advances

\* CommitEvaluate is a save whose reference to the evaluation resolves.
LEMMA CommitEvaluateAdvances ==
  ASSUME IInv, NEW p \in Proc, CommitEvaluate(p)
  PROVE  Advances(p)
<1> DEFINE updated == [mem[p] EXCEPT !.hasEval = TRUE, !.tree = WorkTree(p)]
<1>1. /\ pc[p] = "recorded" /\ mem[p].phase = "evaluate" /\ pc' = [pc EXCEPT ![p] = "loop"]
      /\ Advance(p, "decide", updated)
      /\ UNCHANGED <<execution, evaluated, report, trace, published, memory, hostTree,
                     limit, sandbox, result, finding, outcome, previous, launches, crashes>>
  BY DEF CommitEvaluate, Commit, Goto, IInv, TypeOK
<1>2. /\ mem[p] \in RunState /\ Sound(mem[p]) /\ Resolved(mem[p])
      /\ Placed(p) /\ Holding(p)
  BY DEF IInv, TypeOK, ProcessOK
<1>3. WorkTree(p) \in Tree
  BY <1>1, <1>2 DEF WorkTree, Holding, Working, IInv, TypeOK
<1>4. /\ updated \in RunState /\ updated.done = mem[p].done /\ updated.iter = mem[p].iter
      /\ updated.hasExec = mem[p].hasExec /\ updated.hasEval = TRUE
  BY <1>2, <1>3 DEF RunState
<1> HIDE DEF updated
<1>5. Ready(p, "decide", updated)
  BY <1>1, <1>2, <1>4, RankValues DEF Ready, L!Phase, Sound, Resolved, Holding
<1> QED
  BY <1>1, <1>5 DEF Advances

\* CommitDecide is a save that carries an outcome.
LEMMA CommitDecideAdvances ==
  ASSUME IInv, NEW p \in Proc, CommitDecide(p)
  PROVE  Advances(p)
<1> DEFINE updated == [mem[p] EXCEPT !.outcome = outcome[p]]
<1>1. /\ pc[p] = "recorded" /\ mem[p].phase = "decide" /\ pc' = [pc EXCEPT ![p] = "loop"]
      /\ Advance(p, "persist", updated)
      /\ UNCHANGED <<execution, evaluated, report, trace, published, memory, hostTree,
                     limit, sandbox, result, finding, outcome, previous, launches, crashes>>
  BY DEF CommitDecide, Commit, Goto, IInv, TypeOK
<1>2. /\ mem[p] \in RunState /\ Sound(mem[p]) /\ Resolved(mem[p])
      /\ Placed(p) /\ Holding(p)
  BY DEF IInv, TypeOK, ProcessOK
<1>4. Ready(p, "persist", updated)
  BY <1>1, <1>2, RankValues DEF Ready, RunState, L!Phase, Sound, Resolved, Placed, Holding
<1> HIDE DEF updated
<1> QED
  BY <1>1, <1>4 DEF Advances

\* CommitStop is a save that leads to finalize.
LEMMA CommitStopAdvances ==
  ASSUME IInv, NEW p \in Proc, CommitStop(p)
  PROVE  Advances(p)
<1> DEFINE updated == mem[p]
<1>1. /\ pc[p] = "recorded" /\ mem[p].phase = "persist" /\ pc' = [pc EXCEPT ![p] = "loop"]
      /\ Advance(p, "finalize", updated)
      /\ UNCHANGED <<execution, evaluated, report, trace, published, memory, hostTree,
                     limit, sandbox, result, finding, outcome, previous, launches, crashes>>
  BY DEF CommitStop, Commit, Goto, IInv, TypeOK
<1>2. /\ mem[p] \in RunState /\ Sound(mem[p]) /\ Resolved(mem[p])
      /\ Placed(p) /\ Holding(p)
  BY DEF IInv, TypeOK, ProcessOK
<1>4. Ready(p, "finalize", updated)
  BY <1>1, <1>2, RankValues DEF Ready, RunState, L!Phase, Sound, Resolved, Placed, Holding
<1> HIDE DEF updated
<1> QED
  BY <1>1, <1>4 DEF Advances

\* Going round again enters an iteration the budget allows, with nothing to resolve.
LEMMA CommitAgainInv ==
  ASSUME IInv, UNCHANGED mode, NEW p \in Proc, CommitAgain(p)
  PROVE  IInv'
<1> DEFINE updated == [mem[p] EXCEPT !.iter = @ + 1, !.hasExec = FALSE, !.hasEval = FALSE]
<1>1. /\ pc[p] = "recorded" /\ mem[p].phase = "persist"
      /\ pc' = [pc EXCEPT ![p] = "loop"]
      /\ Advance(p, "plan", updated)
      /\ ~ShouldStop(outcome[p].status)
      /\ UNCHANGED <<execution, evaluated, report, trace, published, memory, hostTree,
                     limit, sandbox, result, finding, outcome, previous, launches, crashes>>
  BY DEF CommitAgain, Commit, Goto
<1>2. /\ mem[p] \in RunState /\ Sound(mem[p]) /\ Resolved(mem[p])
      /\ Placed(p) /\ Holding(p)
  BY DEF IInv, TypeOK, ProcessOK
<1>3. mem[p].iter \in Nat \ {0} /\ mem[p].iter + 1 \in Iteration /\ mem[p].iter + 1 \in Nat \ {0}
  BY <1>1, <1>2, IterationFacts DEF Sound, Holding
<1>4. /\ updated \in RunState /\ updated.done = mem[p].done
      /\ updated.iter = mem[p].iter + 1
      /\ updated.hasExec = FALSE /\ updated.hasEval = FALSE
  BY <1>2, <1>3 DEF RunState
<1> HIDE DEF updated
<1>5. "plan" \in L!Phase
  BY DEF L!Phase
<1>6. /\ mem[p] = disk /\ mem'[p] = disk'
      /\ disk'.phase = "plan" /\ disk'.iter = mem[p].iter + 1
      /\ disk'.done = disk.done \cup {<<disk.iter, disk.phase>>}
      /\ disk'.hasExec = FALSE /\ disk'.hasEval = FALSE
  BY <1>1, <1>4, <1>5, AdvanceFacts DEF IInv, TypeOK
<1>7. disk'.done = History(disk'.iter, disk'.phase)
  BY <1>1, <1>2, <1>3, <1>6, HistoryAgain DEF Sound
<1>8. Sound(disk)' /\ Resolved(disk)'
  BY <1>3, <1>6, <1>7 DEF Sound, Resolved
<1>9. (Placed(p) /\ Holding(p))'
  BY <1>1, <1>2, <1>3, <1>6 DEF Placed, Holding, Working, IInv, TypeOK
<1>10. report[mem[p].iter] \in Outcome
  BY <1>1, <1>2 DEF Holding
<1> QED
  BY <1>1, <1>4, <1>5, <1>8, <1>9, <1>10, AdvanceInv

\* The last save completes a run whose history is whole.
LEMMA CommitFinalizeInv ==
  ASSUME IInv, UNCHANGED mode, NEW p \in Proc, CommitFinalize(p)
  PROVE  IInv'
<1>1. /\ pc[p] = "recorded" /\ mem[p].phase = "finalize"
      /\ disk.revision = mem[p].revision
      /\ Halt(p)
      /\ UNCHANGED <<execution, evaluated, report, trace, published, memory, hostTree,
                     launches, crashes>>
  BY DEF CommitFinalize
<1>2. /\ mem[p] = disk /\ disk \in RunState /\ Sound(disk) /\ Resolved(disk)
      /\ outcome[p] \in Outcome
  BY <1>1 DEF IInv, CopyIsCurrent, TypeOK, ProcessOK, Holding
<1>3. disk' = [disk EXCEPT !.revision = @ + 1,
                           !.phase    = "completed",
                           !.done     = @ \cup {<<disk.iter, "finalize">>},
                           !.outcome  = outcome[p]]
  BY <1>2 DEF CommitFinalize
<1>4. /\ disk.iter \in Nat \ {0} /\ disk.revision \in Nat
      /\ "finalize" \in L!Phase /\ "completed" \in L!Phase
      /\ disk.done \cup {<<disk.iter, "finalize">>} \in SUBSET ((Nat \ {0}) \X L!Phase)
  BY <1>2 DEF RunState, L!Phase
<1>5. /\ disk'.revision = disk.revision + 1
      /\ disk'.phase = "completed" /\ disk'.iter = disk.iter
      /\ disk'.done = disk.done \cup {<<disk.iter, "finalize">>}
      /\ disk'.hasExec = disk.hasExec /\ disk'.hasEval = disk.hasEval
      /\ disk'.outcome = outcome[p]
  BY <1>2, <1>3 DEF RunState
<1>6. disk' \in RunState
  <2>1. disk.revision + 1 \in Nat
    BY <1>4
  <2> QED
    BY <1>2, <1>3, <1>4, <2>1 DEF RunState
<1>7. disk'.done = History(disk'.iter, disk'.phase)
  BY <1>1, <1>2, <1>4, <1>5, HistoryForward, RankValues DEF Sound
<1>8. Sound(disk)' /\ Resolved(disk)'
  BY <1>1, <1>2, <1>5, <1>7 DEF Sound, Resolved
<1>9. \A q \in Proc : q # p /\ pc[q] # "down" /\ mem[q].revision = disk'.revision
                        => mem[q] = disk'
  BY <1>4, <1>5 DEF IInv, CopyIsCurrent, TypeOK, RunState
<1>10. /\ published' \in Outcome \cup {Nil} /\ launches' \in Nat /\ crashes' \in Nat
       /\ disk'.revision >= disk.revision
  BY <1>1, <1>4, <1>5 DEF IInv, TypeOK
<1> QED
  BY <1>1, <1>5, <1>6, <1>8, <1>9, <1>10, HaltInv

-----------------------------------------------------------------------------
(* Theorems *)

\* The invariant reads only variables.
LEMMA StutterInv ==
  ASSUME IInv, UNCHANGED vars
  PROVE  IInv'
BY DEF IInv, vars, diskVars, procVars, TypeOK, CopyIsCurrent, ReportsAreAPrefix, Sound,
       Resolved, ProcessOK, Placed, Holding, Working

\* Every step of every process keeps the invariant.
LEMMA NextInv ==
  ASSUME IInv, [Next]_vars
  PROVE  IInv'
<1>1. CASE UNCHANGED vars
  BY <1>1, StutterInv
<1>2. ASSUME NEW p \in Proc, Step(p) \/ Crash(p)
      PROVE  IInv'
  <2>0. UNCHANGED mode
    BY <1>2 DEF Step, Crash
  <2>1. CASE \/ Start(p) \/ PrepareSandbox(p) \/ LoadPersisted(p) \/ Execute(p)
             \/ RecordExecution(p) \/ CollectTrace(p) \/ RecordCollect(p) \/ Evaluate(p)
             \/ Decide(p) \/ Persist(p) \/ WriteMemory(p) \/ Publish(p)
    BY <2>0, <2>1, StartInv, PrepareSandboxInv, LoadPersistedInv, ExecuteInv, RecordExecutionInv,
       CollectTraceInv, RecordCollectInv, EvaluateInv, DecideInv, PersistInv,
       WriteMemoryInv, PublishInv
  <2>2. CASE \/ Plan(p) \/ EnterExecute(p) \/ PlanNext(p) \/ CommitExecute(p)
             \/ CommitCollect(p) \/ CommitEvaluate(p) \/ CommitDecide(p) \/ CommitStop(p)
             \/ CommitAgain(p) \/ CommitFinalize(p)
    BY <2>0, <2>2, PlanAdvances, EnterExecuteAdvances, PlanNextAdvances, CommitExecuteAdvances,
       CommitCollectAdvances, CommitEvaluateAdvances, CommitDecideAdvances,
       CommitStopAdvances, AdvancesInv, CommitAgainInv, CommitFinalizeInv
  <2>3. CASE \/ PatchRejected(p) \/ RecordingRefused(p) \/ PublishUnfinished(p) \/ NothingToDo(p)
             \/ RevisionConflict(p) \/ Crash(p)
    <3>1. pc[p] # "down"
      BY <2>3 DEF PatchRejected, RecordingRefused, PublishUnfinished, NothingToDo, RevisionConflict, Crash,
             WantsToAdvance, At
    <3> QED
      BY <2>0, <2>3, <3>1, QuietHaltInv
  <2> QED
    BY <1>2, <2>1, <2>2, <2>3 DEF Step
<1> QED
  BY <1>1, <1>2 DEF Next

(***************************************************************************)
(* The inductive invariant holds of every behaviour: any number of         *)
(* processes started, interrupted and resumed in any order.                 *)
(***************************************************************************)
THEOREM Invariance == Spec => []IInv
<1>1. Init => IInv
  BY InitIInv
<1>2. IInv /\ [Next]_vars => IInv'
  BY NextInv
<1> QED
  BY <1>1, <1>2, PTL DEF Spec

\* Type correctness: no phase works on a result, an evaluation, a decision or
\* a worktree that is not there.
THEOREM TypeCorrect == Spec => []TypeOK
<1>1. IInv => TypeOK
  BY DEF IInv
<1> QED
  BY <1>1, Invariance, PTL

\* A process that has the revision on disk has the state on disk: the revision
\* check of the save is as good as a comparison of the whole state.
THEOREM CopyCurrent == Spec => []CopyIsCurrent
<1>1. IInv => CopyIsCurrent
  BY DEF IInv
<1> QED
  BY <1>1, Invariance, PTL

\* No phase of the run is skipped or completed out of order, whoever runs it.
THEOREM HistoryIsExact == Spec => []HistoryExact
<1>1. IInv => HistoryExact
  BY DEF IInv, Sound, HistoryExact
<1> QED
  BY <1>1, Invariance, PTL

\* No run enters an iteration that no invocation had budget for.
THEOREM BudgetRespected == Spec => []IterationWithinBudget
<1>1. IInv => IterationWithinBudget
  BY DEF IInv, Sound, IterationWithinBudget
<1> QED
  BY <1>1, Invariance, PTL

\* What the state file refers to is on disk, in whatever phase a run is resumed.
THEOREM ReferencesAreOnDisk ==
  Spec => [](/\ disk.hasExec => execution[disk.iter] \in Result
             /\ disk.hasEval => evaluated[disk.iter] \in Evaluation)
<1>1. IInv => /\ disk.hasExec => execution[disk.iter] \in Result
              /\ disk.hasEval => evaluated[disk.iter] \in Evaluation
  BY DEF IInv, Resolved
<1> QED
  BY <1>1, Invariance, PTL

\* An advance of the state file is a step of the lifecycle.
LEMMA AdvancesIsForward ==
  ASSUME IInv, NEW p \in Proc, Advances(p)
  PROVE  L!Forward
<1>1. PICK next, updated :
        Advance(p, next, updated) /\ Ready(p, next, updated) /\ pc[p] # "down"
  BY DEF Advances
<1>2. /\ next \in L!Phase /\ updated \in RunState
      /\ updated.done = mem[p].done /\ updated.iter = mem[p].iter
  BY <1>1 DEF Ready
<1>3. mem[p] = disk /\ disk'.phase = next /\ disk'.iter = disk.iter
  BY <1>1, <1>2, AdvanceFacts
<1>4. L!Rank[next] # 10 /\ L!Rank["completed"] = 9
  BY <1>2, RankValues DEF L!Phase
<1> QED
  BY <1>1, <1>2, <1>3, <1>4 DEF Ready, L!Forward

\* Every step of every process is a step of the lifecycle or leaves it alone.
LEMMA StepIsLifecycle ==
  ASSUME IInv, [Next]_vars
  PROVE  L!Next \/ UNCHANGED <<disk.phase, disk.iter>>
<1>1. CASE UNCHANGED vars
  BY <1>1 DEF vars, diskVars
<1>2. ASSUME NEW p \in Proc, Step(p) \/ Crash(p)
      PROVE  L!Next \/ UNCHANGED <<disk.phase, disk.iter>>
  <2>0. mem[p] \in RunState /\ Sound(mem[p]) /\ Placed(p) /\ Holding(p)
    BY DEF IInv, TypeOK, ProcessOK
  <2>1. CASE UNCHANGED disk
    BY <2>1
  <2>2. CASE \/ Plan(p) \/ EnterExecute(p) \/ PlanNext(p) \/ CommitExecute(p)
             \/ CommitCollect(p) \/ CommitEvaluate(p) \/ CommitDecide(p) \/ CommitStop(p)
    BY <2>2, PlanAdvances, EnterExecuteAdvances, PlanNextAdvances, CommitExecuteAdvances,
       CommitCollectAdvances, CommitEvaluateAdvances, CommitDecideAdvances,
       CommitStopAdvances, AdvancesIsForward DEF L!Next
  <2>3. CASE CommitAgain(p)
    <3> DEFINE updated == [mem[p] EXCEPT !.iter = @ + 1, !.hasExec = FALSE, !.hasEval = FALSE]
    <3>1. /\ pc[p] # "down" /\ mem[p].phase = "persist" /\ Advance(p, "plan", updated)
      BY <2>3 DEF CommitAgain, Commit
    <3>2. /\ updated \in RunState /\ updated.done = mem[p].done
          /\ updated.iter = mem[p].iter + 1 /\ "plan" \in L!Phase
      <4>1. mem[p].iter \in Nat \ {0} /\ mem[p].iter + 1 \in Nat \ {0}
        BY <2>0 DEF RunState
      <4> QED
        BY <2>0, <4>1 DEF RunState, L!Phase
    <3> HIDE DEF updated
    <3>3. mem[p] = disk /\ disk'.phase = "plan" /\ disk'.iter = disk.iter + 1
      BY <3>1, <3>2, AdvanceFacts
    <3> QED
      BY <3>1, <3>3 DEF L!Next, L!Again
  <2>4. CASE CommitFinalize(p)
    <3>1. /\ mem[p] = disk /\ disk.phase = "finalize" /\ disk \in RunState
      BY <2>4 DEF CommitFinalize, IInv, CopyIsCurrent, TypeOK
    <3>2. disk'.phase = "completed" /\ disk'.iter = disk.iter
      BY <2>4, <3>1 DEF CommitFinalize, RunState
    <3> QED
      BY <3>1, <3>2, RankValues DEF L!Next, L!Forward, L!Phase
  <2> QED
    BY <1>2, <2>1, <2>2, <2>3, <2>4
    DEF Step, Start, PrepareSandbox, PatchRejected, RecordingRefused, LoadPersisted, Execute, RecordExecution,
        CollectTrace, RecordCollect, Evaluate, Decide, Persist, WriteMemory, Publish,
        PublishUnfinished, NothingToDo, RevisionConflict, Crash, diskVars
<1> QED
  BY <1>1, <1>2 DEF Next

(***************************************************************************)
(* The orchestrator implements the lifecycle: whatever its processes do,   *)
(* the state file moves one phase at a time and never back.                 *)
(***************************************************************************)
THEOREM ImplementsLifecycle == Spec => LifecycleImplemented
<1>1. Init => L!Init
  BY DEF Init, L!Init, NewRun
<1>2. IInv /\ [Next]_vars => [L!Next]_<<disk.phase, disk.iter>>
  BY StepIsLifecycle
<1> QED
  BY <1>1, <1>2, Invariance, PTL DEF Spec, LifecycleImplemented, L!Spec


-----------------------------------------------------------------------------
(* One process at a time *)

(***************************************************************************)
(* The artifacts, the trace and the working tree have no revision: what     *)
(* they tell is only sure if the invocations of a run follow one another,   *)
(* each after the last one ended or died.  What a sole process p and the    *)
(* files it leaves know of each other:                                      *)
(***************************************************************************)
AfterExecute == {"collect", "evaluate", "decide", "persist", "finalize", "completed"}

AfterCollect == AfterExecute \ {"collect"}

Decided == {"persist", "finalize", "completed"}

Current(p) == pc[p] # "down" => mem[p] = disk

\* The trace has the executor step of every iteration that is past collect.
TraceInv(p) ==
  /\ \A m, n \in DOMAIN trace : trace[m][1] = trace[n][1] => m = n
  /\ \A n \in DOMAIN trace : trace[n][2] = execution[trace[n][1]]
  /\ \A n \in DOMAIN trace :
       \/ trace[n][1] < disk.iter
       \/ trace[n][1] = disk.iter /\ disk.phase \in AfterExecute
  /\ \A i \in Iteration :
       i < disk.iter \/ (i = disk.iter /\ disk.phase \in AfterCollect) => Traced(i)
  /\ disk.phase = "collect" /\ pc[p] \in {"collected", "recorded"} => Traced(disk.iter)

\* A process works on the result and the evaluation that are on disk,
ResultInv(p) ==
  /\ \/ /\ pc[p] \in {"loop", "collected", "recorded"}
        /\ disk.phase \in {"collect", "evaluate", "decide"}
     \/ pc[p] = "recorded" /\ disk.phase = "execute"
     => result[p] = execution[disk.iter]
  /\ \/ pc[p] = "recorded" /\ disk.phase = "evaluate"
     \/ pc[p] \in {"loop", "recorded"} /\ disk.phase = "decide"
     => finding[p] = evaluated[disk.iter]

\* ... on the tree that the executor left,
Unrecorded(p) == pc[p] = "executed" \/ (pc[p] = "recorded" /\ disk.phase = "execute")

TreeInv(p) ==
  /\ disk.hasExec => disk.phase \in AfterExecute
  /\ disk.hasExec /\ mode = "git-worktree" => disk.tree = execution[disk.iter].tree
  /\ disk.hasExec /\ mode # "git-worktree" => hostTree = execution[disk.iter].tree
  /\ disk.hasExec /\ mode = "git-worktree" /\ Working(p)
       => sandbox[p] = execution[disk.iter].tree
  /\ Unrecorded(p) => WorkTree(p) = result[p].tree

\* ... and compares with the iteration before.
Before(i) == IF i = 1 THEN Nil ELSE report[i - 1].print

PreviousInv(p) ==
  /\ disk.phase \notin Decided => report[disk.iter] = Nil
  /\ disk.phase \in {"finalize", "completed"} => report[disk.iter] \in Outcome
  /\ pc[p] \in {"loop", "executed", "collected", "recorded"} /\ disk.phase \notin Decided
       => previous[p] = Before(disk.iter)
  /\ pc[p] = "recorded" /\ disk.phase = "persist"
       => report[disk.iter] = disk.outcome /\ previous[p] = disk.outcome.print

\* The outcome o is one that the result x and the evaluation e of iteration i lead to.
Leads(o, x, e, before, i, m) ==
  \E action \in Selected(Candidates(x.exit, e, m)), max \in LoopLimits :
    o = Judge(x.exit, e, x.tree, action, before, i, max)

\* An outcome on disk follows from the artifacts and stays the one that is published.
OutcomeInv(p) ==
  /\ disk.phase \in Decided =>
       Leads(disk.outcome, execution[disk.iter], evaluated[disk.iter], Before(disk.iter),
             disk.iter, mode)
  /\ pc[p] = "recorded" /\ disk.phase = "decide" =>
       Leads(outcome[p], execution[disk.iter], evaluated[disk.iter], Before(disk.iter),
             disk.iter, mode)
  /\ pc[p] \in {"loop", "recorded", "finalizing"} /\ disk.phase = "persist"
       => outcome[p] \in {Nil, disk.outcome}
  /\ pc[p] \in {"loop", "recorded", "finalizing"} /\ disk.phase = "finalize"
       => outcome[p] = disk.outcome
  /\ /\ pc[p] \in {"loop", "executed", "collected", "recorded", "finalizing"}
     /\ disk.phase \notin Decided /\ ~(pc[p] = "recorded" /\ disk.phase = "decide")
     => outcome[p] = Nil \/ outcome[p].action # "finalize"

PublishedInv(p) ==
  /\ memory => disk.phase \in Decided /\ disk.outcome.action = "finalize"
  /\ disk.phase = "completed" => published = disk.outcome
  /\ pc[p] = "recorded" /\ disk.phase = "finalize" => published = outcome[p]
  /\ disk.phase = "completed" => pc[p] \in {"down", "started", "sandboxed", "loop"}
  /\ disk.phase = "completed" /\ pc[p] = "loop" => outcome[p] = Nil

\* Every launch is recorded, or is still to be, or died with its process.
LaunchInv(p) ==
  launches <= crashes + (IF disk.phase \in AfterExecute THEN disk.iter ELSE disk.iter - 1)
                      + (IF Unrecorded(p) THEN 1 ELSE 0)

Sole(p) ==
  /\ Current(p) /\ TraceInv(p) /\ ResultInv(p) /\ TreeInv(p) /\ PreviousInv(p)
  /\ OutcomeInv(p) /\ PublishedInv(p) /\ LaunchInv(p)

\* An outcome that says to finalize stops the run.
LEMMA FinalizeStops ==
  ASSUME NEW o, NEW x, NEW e, NEW before, NEW i, NEW m, Leads(o, x, e, before, i, m),
         o.action = "finalize"
  PROVE  ShouldStop(o.status)
<1>1. PICK action \in Selected(Candidates(x.exit, e, m)), max \in LoopLimits :
        o = Judge(x.exit, e, x.tree, action, before, i, max)
  BY DEF Leads
<1> DEFINE print == [tree |-> x.tree, action |-> action, findings |-> e]
           status == Convergence(print, before, action, x.exit, i, max)
<1>2. o = [action |-> ReportedAction(status, action), status |-> status, print |-> print]
  BY <1>1 DEF Judge
<1>3. status # "progressing" \/ action \notin TerminalAction
  BY DEF Convergence
<1> HIDE DEF status, print
<1>4. ReportedAction(status, action) = "finalize" /\ o.status = status
  BY <1>2
<1>5. action = "finalize"
  BY <1>4 DEF ReportedAction
<1> QED
  BY <1>3, <1>4, <1>5 DEF ShouldStop, TerminalAction

\* What the state file is like for a process that holds its copy.
LEMMA SoleFacts ==
  ASSUME IInv, NEW p \in Proc, Current(p), pc[p] # "down"
  PROVE  /\ mem[p] = disk /\ disk \in RunState /\ disk.iter \in Nat \ {0}
         /\ disk.iter \in Iteration /\ disk.phase \in L!Phase /\ Sound(disk) /\ Resolved(disk)
         /\ Placed(p) /\ Holding(p) /\ pc[p] \in Place
BY IterationFacts DEF IInv, Current, TypeOK, ProcessOK, Sound, RunState

LEMMA InitSole ==
  ASSUME NEW p \in Proc, Init
  PROVE  Sole(p)
<1>1. /\ disk.phase = "plan" /\ disk.iter = 1 /\ disk.hasExec = FALSE /\ pc[p] = "down"
      /\ launches = 0 /\ crashes = 0 /\ memory = FALSE /\ trace = <<>>
      /\ \A i \in Iteration : report[i] = Nil
  BY DEF Init, NewRun
<1>2. DOMAIN trace = {} /\ \A i \in Iteration : ~(i < 1) /\ i \in Nat
  BY <1>1, IterationFacts
<1> QED
  BY <1>1, <1>2, IterationFacts
  DEF Sole, Current, TraceInv, ResultInv, TreeInv, PreviousInv, OutcomeInv, PublishedInv,
      LaunchInv, Unrecorded, Working, AfterExecute, AfterCollect, Decided


-----------------------------------------------------------------------------
(* Steps of a sole process that leave the files alone *)

LEMMA StartSole ==
  ASSUME IInv, NEW p \in Proc, Sole(p), UNCHANGED mode, Start(p)
  PROVE  Sole(p)'
<1>1. /\ pc[p] = "down" /\ pc' = [pc EXCEPT ![p] = "started"] /\ mem' = [mem EXCEPT ![p] = disk]
      /\ UNCHANGED <<mode, diskVars, sandbox, result, finding, outcome, previous, launches, crashes>>
      /\ pc \in [Proc -> Place] /\ mem \in [Proc -> RunState]
  BY DEF Start, Goto, IInv, TypeOK
<1>2. pc'[p] = "started" /\ mem'[p] = disk
  BY <1>1
<1>3. Current(p)'
  BY <1>1, <1>2 DEF Current, diskVars
<1>4. TraceInv(p)' /\ ResultInv(p)'
  BY <1>1, <1>2 DEF Sole, TraceInv, ResultInv, Traced, diskVars
<1>5. TreeInv(p)' /\ PreviousInv(p)'
  BY <1>1, <1>2 DEF Sole, TreeInv, PreviousInv, Working, Unrecorded, diskVars
<1>6. OutcomeInv(p)' /\ PublishedInv(p)'
  BY <1>1, <1>2 DEF Sole, OutcomeInv, PublishedInv, Before, diskVars
<1>7. LaunchInv(p)'
  BY <1>1, <1>2 DEF Sole, LaunchInv, Unrecorded, diskVars
<1> QED
  BY <1>3, <1>4, <1>5, <1>6, <1>7 DEF Sole

\* A fresh worktree has the edits of the executor, from the patch if need be.
LEMMA PrepareSandboxSole ==
  ASSUME IInv, NEW p \in Proc, Sole(p), UNCHANGED mode, PrepareSandbox(p)
  PROVE  Sole(p)'
<1>1. /\ pc[p] = "started" /\ pc' = [pc EXCEPT ![p] = "sandboxed"]
      /\ UNCHANGED <<mode, diskVars, mem, result, finding, outcome, previous, launches, crashes>>
      /\ pc \in [Proc -> Place] /\ sandbox \in [Proc -> Tree \cup {Nil}]
      /\ sandbox' = [sandbox EXCEPT ![p] =
                       IF mode = "none" THEN Nil
                       ELSE IF NeedsPatch(p) THEN execution[mem[p].iter].tree
                       ELSE hostTree]
  BY DEF PrepareSandbox, Goto, IInv, TypeOK
<1>2. pc'[p] = "sandboxed" /\ mem[p] = disk /\ mem'[p] = disk
  BY <1>1 DEF Sole, Current
<1>3. Current(p)'
  BY <1>1, <1>2 DEF Current, diskVars
<1>4. TraceInv(p)' /\ ResultInv(p)'
  BY <1>1, <1>2 DEF Sole, TraceInv, ResultInv, Traced, diskVars
<1>5. disk.hasExec /\ mode = "git-worktree" => sandbox'[p] = execution[disk.iter].tree
  BY <1>1, <1>2 DEF Sole, TreeInv, NeedsPatch, AfterExecute
<1>6. TreeInv(p)'
  BY <1>1, <1>2, <1>5 DEF Sole, TreeInv, Working, Unrecorded, diskVars
<1>7. PreviousInv(p)' /\ OutcomeInv(p)' /\ PublishedInv(p)'
  BY <1>1, <1>2 DEF Sole, PreviousInv, OutcomeInv, PublishedInv, Before, diskVars
<1>8. LaunchInv(p)'
  BY <1>1, <1>2 DEF Sole, LaunchInv, Unrecorded, diskVars
<1> QED
  BY <1>3, <1>4, <1>6, <1>7, <1>8 DEF Sole

\* The fingerprint a resumed process finds is that of the iteration before.
LEMMA LastFingerprintIsBefore ==
  ASSUME IInv, report[disk.iter] = Nil
  PROVE  LastFingerprint = Before(disk.iter)
<1>1. disk.iter \in Nat \ {0} /\ disk.iter \in Iteration
  BY IterationFacts DEF IInv, Sound
<1>2. \A i \in Iteration : i \in Nat \ {0} /\ (i \in Reported <=> i < disk.iter)
  BY <1>1, IterationFacts, NilAssumption DEF IInv, ReportsAreAPrefix, Reported
<1>3. CASE disk.iter = 1
  <2>1. Reported = {}
    BY <1>2, <1>3 DEF Reported
  <2> QED
    BY <1>3, <2>1 DEF LastFingerprint, Before
<1>4. CASE disk.iter # 1
  <2>1. /\ disk.iter - 1 \in Nat \ {0} /\ disk.iter - 1 < disk.iter
        /\ disk.iter - 1 \in Iteration /\ disk.iter - 1 \in Reported
    <3>1. disk.iter - 1 \in Nat \ {0} /\ disk.iter - 1 < disk.iter /\ disk.iter - 1 <= disk.iter
      BY <1>1, <1>4
    <3>2. disk.iter - 1 \in Iteration
      BY <1>1, <3>1, IterationFacts
    <3> QED
      BY <1>2, <3>1, <3>2
  <2>2. \A i \in Reported : i \in Nat /\ i <= disk.iter - 1
    BY <1>1, <1>2 DEF Reported
  <2>3. \A i \in Reported : (\A j \in Reported : j <= i) <=> i = disk.iter - 1
    BY <1>1, <2>1, <2>2
  <2>4. (CHOOSE i \in Reported : \A j \in Reported : j <= i) = disk.iter - 1
    BY <2>1, <2>3
  <2>5. Reported # {}
    BY <2>1
  <2> DEFINE last == CHOOSE i \in Reported : \A j \in Reported : j <= i
  <2>6. LastFingerprint = report[last].print
    BY <2>5 DEF LastFingerprint
  <2>7. last = disk.iter - 1
    BY <2>4
  <2> HIDE DEF last
  <2>8. Before(disk.iter) = report[disk.iter - 1].print
    BY <1>4 DEF Before
  <2> QED
    BY <2>6, <2>7, <2>8
<1> QED
  BY <1>3, <1>4

LEMMA LoadPersistedSole ==
  ASSUME IInv, NEW p \in Proc, Sole(p), UNCHANGED mode, LoadPersisted(p)
  PROVE  Sole(p)'
<1>1. /\ pc[p] = "sandboxed" /\ pc' = [pc EXCEPT ![p] = "loop"]
      /\ UNCHANGED <<mode, diskVars, mem, limit, sandbox, launches, crashes>>
      /\ pc \in [Proc -> Place] /\ mem[p] = disk /\ Sound(disk)
  BY DEF LoadPersisted, Goto, IInv, TypeOK, Sole, Current
<1>2. /\ result'[p] = IF disk.hasExec THEN execution[disk.iter] ELSE Nil
      /\ finding'[p] = IF disk.hasEval THEN evaluated[disk.iter] ELSE Nil
      /\ outcome'[p] = IF disk.phase = "finalize" THEN disk.outcome ELSE Nil
      /\ previous'[p] = LastFingerprint
  BY <1>1 DEF LoadPersisted, IInv, TypeOK
<1>3. pc'[p] = "loop" /\ mem'[p] = disk
  BY <1>1
<1>4. Current(p)'
  BY <1>1, <1>3 DEF Current, diskVars
<1>5. TraceInv(p)'
  BY <1>1, <1>3 DEF Sole, TraceInv, Traced, diskVars
<1>6. ResultInv(p)'
  BY <1>1, <1>2, <1>3 DEF Sound, ResultInv, diskVars
<1>7. TreeInv(p)'
  BY <1>1, <1>3 DEF Sole, TreeInv, Working, Unrecorded, diskVars
<1>8. PreviousInv(p)'
  BY <1>1, <1>2, <1>3, LastFingerprintIsBefore DEF Sole, PreviousInv, Before, diskVars
<1>9. OutcomeInv(p)' /\ PublishedInv(p)'
  BY <1>1, <1>2, <1>3 DEF Sole, OutcomeInv, PublishedInv, Before, Decided, diskVars
<1>10. LaunchInv(p)'
  BY <1>1, <1>3 DEF Sole, LaunchInv, Unrecorded, diskVars
<1> QED
  BY <1>4, <1>5, <1>6, <1>7, <1>8, <1>9, <1>10 DEF Sole

\* The decision is made of what is on disk, so it follows from that.
LEMMA DecideSole ==
  ASSUME IInv, NEW p \in Proc, Sole(p), UNCHANGED mode, Decide(p)
  PROVE  Sole(p)'
<1>1. /\ pc[p] = "loop" /\ pc' = [pc EXCEPT ![p] = "recorded"]
      /\ UNCHANGED <<mode, diskVars, mem, limit, sandbox, result, finding, previous, launches, crashes>>
      /\ pc \in [Proc -> Place] /\ outcome \in [Proc -> Outcome \cup {Nil}]
      /\ mem[p] = disk /\ Sound(disk) /\ Placed(p) /\ disk.phase = "decide"
  BY DEF Decide, At, Goto, IInv, TypeOK, Sole, Current, ProcessOK
<1>2. /\ result[p] = execution[disk.iter] /\ finding[p] = evaluated[disk.iter]
      /\ previous[p] = Before(disk.iter) /\ limit[p] \in LoopLimits /\ disk.hasExec
      /\ WorkTree(p) = execution[disk.iter].tree
  BY <1>1 DEF Sole, ResultInv, PreviousInv, TreeInv, Working, WorkTree, Placed, Sound, Decided
<1>3. PICK action \in Selected(Candidates(result[p].exit, finding[p], mode)) :
        outcome' = [outcome EXCEPT ![p] =
                      Judge(result[p].exit, finding[p], WorkTree(p), action,
                            previous[p], mem[p].iter, limit[p])]
  BY DEF Decide
<1>4. outcome'[p] = Judge(execution[disk.iter].exit, evaluated[disk.iter],
                          execution[disk.iter].tree, action, Before(disk.iter),
                          disk.iter, limit[p])
  BY <1>1, <1>2, <1>3
<1>5. Leads(outcome'[p], execution[disk.iter], evaluated[disk.iter], Before(disk.iter),
            disk.iter, mode)
  <2>1. action \in Selected(Candidates(execution[disk.iter].exit, evaluated[disk.iter], mode))
    BY <1>2, <1>3
  <2> QED
    BY <1>2, <1>4, <2>1 DEF Leads
<1>6. pc'[p] = "recorded" /\ mem'[p] = disk
  BY <1>1
<1>7. Current(p)' /\ TraceInv(p)' /\ ResultInv(p)'
  BY <1>1, <1>6 DEF Sole, Current, TraceInv, ResultInv, Traced, diskVars
<1>8. TreeInv(p)' /\ PreviousInv(p)'
  BY <1>1, <1>6 DEF Sole, TreeInv, PreviousInv, Working, Unrecorded, Before, diskVars
<1>9. OutcomeInv(p)' /\ PublishedInv(p)'
  BY <1>1, <1>5, <1>6 DEF Sole, OutcomeInv, PublishedInv, Before, Decided, diskVars
<1>10. LaunchInv(p)'
  BY <1>1, <1>6 DEF Sole, LaunchInv, Unrecorded, diskVars
<1> QED
  BY <1>7, <1>8, <1>9, <1>10 DEF Sole


-----------------------------------------------------------------------------
(* Steps of a sole process that write a file *)

\* A launch edits the tree and is owed a record.
LEMMA ExecuteSole ==
  ASSUME IInv, NEW p \in Proc, Sole(p), UNCHANGED mode, Execute(p)
  PROVE  Sole(p)'
<1>1. /\ pc[p] = "loop" /\ pc' = [pc EXCEPT ![p] = "executed"]
      /\ UNCHANGED <<mode, disk, execution, evaluated, report, trace, published, memory,
                     mem, limit, finding, outcome, previous, crashes>>
      /\ launches' = launches + 1 /\ launches \in Nat /\ crashes \in Nat
      /\ pc \in [Proc -> Place] /\ mem[p] = disk /\ disk.phase = "execute"
      /\ disk.iter \in Nat \ {0}
  BY DEF Execute, At, Goto, IInv, TypeOK, Sole, Current, RunState
<1>2. /\ pc'[p] = "executed" /\ mem'[p] = disk /\ disk.hasExec = FALSE
      /\ disk.phase \notin AfterExecute /\ disk.phase \notin Decided
  BY <1>1 DEF Sole, TreeInv, AfterExecute, Decided, IInv, TypeOK, RunState
<1>3. PICK tree \in Tree, exit \in {0, 1} :
        /\ SetWorkTree(p, tree)
        /\ result' = [result EXCEPT ![p] =
                        [launch |-> launches + 1, exit |-> exit, tree |-> tree]]
  BY DEF Execute
<1>4. WorkTree(p)' = tree /\ result'[p].tree = tree
  BY <1>1, <1>3 DEF SetWorkTree, WorkTree, IInv, TypeOK
<1>5. Current(p)' /\ TraceInv(p)' /\ ResultInv(p)'
  BY <1>1, <1>2 DEF Sole, Current, TraceInv, ResultInv, Traced
<1>6. TreeInv(p)' /\ PreviousInv(p)'
  BY <1>1, <1>2, <1>4 DEF Sole, TreeInv, PreviousInv, Before
<1>7. OutcomeInv(p)' /\ PublishedInv(p)'
  BY <1>1, <1>2 DEF Sole, OutcomeInv, PublishedInv
<1>8. LaunchInv(p)'
  <2>1. launches <= crashes + (disk.iter - 1) + 0
    BY <1>1, <1>2 DEF Sole, LaunchInv, Unrecorded
  <2>2. launches + 1 <= crashes + (disk.iter - 1) + 1
    BY <1>1, <2>1
  <2> QED
    BY <1>1, <1>2, <2>2 DEF LaunchInv, Unrecorded
<1> QED
  BY <1>5, <1>6, <1>7, <1>8 DEF Sole

\* No trace step is of an iteration whose execution is still to be recorded.
LEMMA RecordExecutionSole ==
  ASSUME IInv, NEW p \in Proc, Sole(p), UNCHANGED mode, RecordExecution(p)
  PROVE  Sole(p)'
<1>1. /\ pc[p] = "executed" /\ pc' = [pc EXCEPT ![p] = "recorded"]
      /\ UNCHANGED <<mode, disk, evaluated, report, trace, published, memory, hostTree,
                     mem, limit, sandbox, result, finding, outcome, previous, launches, crashes>>
      /\ execution' = [execution EXCEPT ![disk.iter] = result[p]]
      /\ execution \in [Iteration -> Result \cup {Nil}] /\ disk.iter \in Iteration
      /\ disk.iter \in Nat
      /\ pc \in [Proc -> Place] /\ mem[p] = disk /\ disk.phase = "execute"
  BY IterationFacts DEF RecordExecution, Goto, IInv, TypeOK, Sole, Current, ProcessOK, Placed, Sound
<1>2. /\ pc'[p] = "recorded" /\ mem'[p] = disk /\ disk.hasExec = FALSE
      /\ disk.phase \notin AfterExecute /\ disk.phase \notin Decided
  BY <1>1 DEF Sole, TreeInv, AfterExecute, Decided, IInv, TypeOK, RunState
<1>3. /\ execution'[disk.iter] = result[p]
      /\ \A n \in DOMAIN trace : execution'[trace[n][1]] = execution[trace[n][1]]
  <2>1. \A n \in DOMAIN trace : trace[n][1] # disk.iter
    BY <1>1, <1>2 DEF Sole, TraceInv
  <2>2. \A i : i # disk.iter => execution'[i] = execution[i]
    BY <1>1
  <2> QED
    BY <1>1, <2>1, <2>2
<1>4. Current(p)' /\ TraceInv(p)' /\ ResultInv(p)'
  BY <1>1, <1>2, <1>3 DEF Sole, Current, TraceInv, ResultInv, Traced
<1>5. TreeInv(p)' /\ PreviousInv(p)'
  BY <1>1, <1>2 DEF Sole, TreeInv, PreviousInv, Before, Unrecorded, WorkTree
<1>6. OutcomeInv(p)' /\ PublishedInv(p)'
  BY <1>1, <1>2 DEF Sole, OutcomeInv, PublishedInv
<1>7. LaunchInv(p)'
  BY <1>1, <1>2 DEF Sole, LaunchInv, Unrecorded
<1> QED
  BY <1>4, <1>5, <1>6, <1>7 DEF Sole

\* The trace gets one step for the launch on disk, unless it has it.
LEMMA CollectTraceSole ==
  ASSUME IInv, NEW p \in Proc, Sole(p), UNCHANGED mode, CollectTrace(p)
  PROVE  Sole(p)'
<1>1. /\ pc[p] = "loop" /\ pc' = [pc EXCEPT ![p] = "collected"]
      /\ UNCHANGED <<mode, disk, execution, evaluated, report, published, memory, hostTree,
                     mem, limit, sandbox, result, finding, outcome, previous, launches, crashes>>
      /\ trace' = IF Traced(disk.iter) THEN trace ELSE Append(trace, <<disk.iter, result[p]>>)
      /\ trace \in Seq(Iteration \X Result)
      /\ disk.iter \in Iteration /\ disk.iter \in Nat
      /\ pc \in [Proc -> Place] /\ mem[p] = disk /\ disk.phase = "collect"
  BY IterationFacts DEF CollectTrace, At, Goto, IInv, TypeOK, Sole, Current, Sound
<1>2. /\ pc'[p] = "collected" /\ mem'[p] = disk /\ disk.phase \notin Decided
      /\ disk.phase \in AfterExecute /\ disk.phase \notin AfterCollect
      /\ result[p] = execution[disk.iter]
  BY <1>1 DEF Sole, ResultInv, AfterExecute, AfterCollect, Decided
<1>3. TraceInv(p)'
  <2>1. CASE Traced(disk.iter)
    BY <1>1, <1>2, <2>1 DEF Sole, TraceInv, Traced
  <2>2. CASE ~Traced(disk.iter)
    <3> DEFINE step == <<disk.iter, execution[disk.iter]>>
    <3>0. step \in Iteration \X Result
      BY <1>1, <1>2 DEF IInv, ProcessOK, Holding
    <3>1. trace' = Append(trace, step)
      BY <1>1, <1>2, <2>2
    <3>2. step[1] = disk.iter /\ step[2] = execution[disk.iter]
      OBVIOUS
    <3> HIDE DEF step
    <3>3. /\ Len(trace) \in Nat /\ DOMAIN trace = 1 .. Len(trace)
          /\ DOMAIN trace' = (DOMAIN trace) \cup {Len(trace) + 1}
          /\ \A n \in DOMAIN trace : trace'[n] = trace[n]
          /\ trace'[Len(trace) + 1] = step
      <4>1. Len(trace) \in Nat /\ DOMAIN trace = 1 .. Len(trace)
        BY <1>1
      <4>2. trace' \in Seq(Iteration \X Result) /\ Len(trace') = Len(trace) + 1
        BY <1>1, <3>1, <3>0
      <4>3. DOMAIN trace' = 1 .. Len(trace) + 1
        BY <4>2
      <4>4. \A n \in 1 .. Len(trace) : trace'[n] = trace[n]
        BY <1>1, <3>1, <3>0
      <4>5. trace'[Len(trace) + 1] = step
        BY <1>1, <3>1, <3>0
      <4> QED
        BY <4>1, <4>3, <4>4, <4>5
    <3>4. \A n \in DOMAIN trace : trace[n][1] # disk.iter
      BY <2>2 DEF Traced
    <3>5. Traced(disk.iter)' /\ \A i : Traced(i) => Traced(i)'
      BY <1>1, <3>2, <3>3 DEF Traced
    <3>6. \A m, n \in DOMAIN trace' : trace'[m][1] = trace'[n][1] => m = n
      BY <3>2, <3>3, <3>4 DEF Sole, TraceInv
    <3>7. \A n \in DOMAIN trace' : trace'[n][2] = execution'[trace'[n][1]]
      BY <1>1, <3>2, <3>3 DEF Sole, TraceInv
    <3>8. \A n \in DOMAIN trace' :
            \/ trace'[n][1] < disk.iter
            \/ trace'[n][1] = disk.iter /\ disk.phase \in AfterExecute
      BY <1>2, <3>2, <3>3 DEF Sole, TraceInv
    <3> QED
      BY <1>1, <1>2, <3>5, <3>6, <3>7, <3>8 DEF Sole, TraceInv
  <2> QED
    BY <2>1, <2>2
<1>4. Current(p)' /\ ResultInv(p)'
  BY <1>1, <1>2 DEF Sole, Current, ResultInv
<1>5. TreeInv(p)' /\ PreviousInv(p)'
  BY <1>1, <1>2 DEF Sole, TreeInv, PreviousInv, Before, Unrecorded, Working
<1>6. OutcomeInv(p)' /\ PublishedInv(p)'
  BY <1>1, <1>2 DEF Sole, OutcomeInv, PublishedInv
<1>7. LaunchInv(p)'
  BY <1>1, <1>2 DEF Sole, LaunchInv, Unrecorded
<1> QED
  BY <1>3, <1>4, <1>5, <1>6, <1>7 DEF Sole


\* Writing the execution again, with its events, writes what is there.
LEMMA RecordCollectSole ==
  ASSUME IInv, NEW p \in Proc, Sole(p), UNCHANGED mode, RecordCollect(p)
  PROVE  Sole(p)'
<1>1. /\ pc[p] = "collected" /\ pc' = [pc EXCEPT ![p] = "recorded"]
      /\ UNCHANGED <<mode, disk, evaluated, report, trace, published, memory, hostTree,
                     mem, limit, sandbox, result, finding, outcome, previous, launches, crashes>>
      /\ execution' = [execution EXCEPT ![disk.iter] = result[p]]
      /\ execution \in [Iteration -> Result \cup {Nil}] /\ disk.iter \in Iteration
      /\ pc \in [Proc -> Place] /\ mem[p] = disk /\ disk.phase = "collect"
  BY DEF RecordCollect, Goto, IInv, TypeOK, Sole, Current, ProcessOK, Placed, Sound
<1>2. /\ pc'[p] = "recorded" /\ mem'[p] = disk
      /\ result[p] = execution[disk.iter] /\ disk.phase \notin Decided
  BY <1>1 DEF Sole, ResultInv, Decided
<1>3. execution' = execution
  BY <1>1, <1>2
<1>4. Current(p)' /\ TraceInv(p)' /\ ResultInv(p)'
  BY <1>1, <1>2, <1>3 DEF Sole, Current, TraceInv, ResultInv, Traced
<1>5. TreeInv(p)' /\ PreviousInv(p)'
  BY <1>1, <1>2, <1>3 DEF Sole, TreeInv, PreviousInv, Before, Unrecorded, Working
<1>6. OutcomeInv(p)' /\ PublishedInv(p)'
  BY <1>1, <1>2 DEF Sole, OutcomeInv, PublishedInv
<1>7. LaunchInv(p)'
  BY <1>1, <1>2 DEF Sole, LaunchInv, Unrecorded
<1> QED
  BY <1>4, <1>5, <1>6, <1>7 DEF Sole

\* An evaluation that is repeated replaces the one nothing has been decided of.
LEMMA EvaluateSole ==
  ASSUME IInv, NEW p \in Proc, Sole(p), UNCHANGED mode, Evaluate(p)
  PROVE  Sole(p)'
<1>1. /\ pc[p] = "loop" /\ pc' = [pc EXCEPT ![p] = "recorded"]
      /\ UNCHANGED <<mode, disk, execution, report, trace, published, memory, hostTree,
                     mem, limit, sandbox, result, outcome, previous, launches, crashes>>
      /\ evaluated \in [Iteration -> Evaluation \cup {Nil}] /\ disk.iter \in Iteration
      /\ finding \in [Proc -> Evaluation \cup {Nil}]
      /\ pc \in [Proc -> Place] /\ mem[p] = disk /\ disk.phase = "evaluate"
  BY DEF Evaluate, At, Goto, IInv, TypeOK, Sole, Current, Sound
<1>2. /\ pc'[p] = "recorded" /\ mem'[p] = disk /\ disk.phase \notin Decided
      /\ finding'[p] = evaluated'[disk.iter]
  BY <1>1 DEF Evaluate, Decided
<1>3. Current(p)' /\ TraceInv(p)' /\ ResultInv(p)'
  BY <1>1, <1>2 DEF Sole, Current, TraceInv, ResultInv, Traced
<1>4. TreeInv(p)' /\ PreviousInv(p)'
  BY <1>1, <1>2 DEF Sole, TreeInv, PreviousInv, Before, Unrecorded, Working
<1>5. OutcomeInv(p)' /\ PublishedInv(p)'
  BY <1>1, <1>2 DEF Sole, OutcomeInv, PublishedInv
<1>6. LaunchInv(p)'
  BY <1>1, <1>2 DEF Sole, LaunchInv, Unrecorded
<1> QED
  BY <1>3, <1>4, <1>5, <1>6 DEF Sole

\* The report that is written is of the outcome on disk.
LEMMA PersistSole ==
  ASSUME IInv, NEW p \in Proc, Sole(p), UNCHANGED mode, Persist(p)
  PROVE  Sole(p)'
<1>1. /\ pc[p] = "loop" /\ pc' = [pc EXCEPT ![p] = "recorded"]
      /\ UNCHANGED <<mode, disk, execution, evaluated, trace, published, memory, hostTree,
                     mem, limit, sandbox, result, finding, launches, crashes>>
      /\ outcome' = [outcome EXCEPT ![p] = disk.outcome]
      /\ report' = [report EXCEPT ![disk.iter] = disk.outcome]
      /\ previous' = [previous EXCEPT ![p] = disk.outcome.print]
      /\ report \in [Iteration -> Outcome \cup {Nil}]
      /\ disk.iter \in Iteration /\ disk.iter \in Nat
      /\ outcome \in [Proc -> Outcome \cup {Nil}]
      /\ previous \in [Proc -> Fingerprint \cup {Nil}]
      /\ pc \in [Proc -> Place] /\ mem[p] = disk /\ disk.phase = "persist"
  BY IterationFacts DEF Persist, At, Goto, IInv, TypeOK, Sole, Current, Sound
<1>2. /\ pc'[p] = "recorded" /\ mem'[p] = disk /\ disk.phase \in Decided
      /\ outcome'[p] = disk.outcome /\ previous'[p] = disk.outcome.print
      /\ report'[disk.iter] = disk.outcome
  BY <1>1 DEF Decided
<1>3. Before(disk.iter)' = Before(disk.iter)
  <2>1. disk.iter - 1 # disk.iter
    BY <1>1
  <2>2. report'[disk.iter - 1] = report[disk.iter - 1]
    BY <1>1, <2>1
  <2> QED
    BY <1>1, <2>2 DEF Before
<1>4. Current(p)' /\ TraceInv(p)' /\ ResultInv(p)'
  BY <1>1, <1>2 DEF Sole, Current, TraceInv, ResultInv, Traced
<1>5. TreeInv(p)' /\ PreviousInv(p)'
  BY <1>1, <1>2 DEF Sole, TreeInv, PreviousInv, Unrecorded, Working
<1>6. OutcomeInv(p)' /\ PublishedInv(p)'
  BY <1>1, <1>2, <1>3 DEF Sole, OutcomeInv, PublishedInv
<1>7. LaunchInv(p)'
  BY <1>1, <1>2 DEF Sole, LaunchInv, Unrecorded
<1> QED
  BY <1>4, <1>5, <1>6, <1>7 DEF Sole

\* A memory candidate is only written of a run that decided to finalize.
LEMMA WriteMemorySole ==
  ASSUME IInv, NEW p \in Proc, Sole(p), UNCHANGED mode, WriteMemory(p)
  PROVE  Sole(p)'
<1>1. /\ pc[p] = "loop" /\ pc' = [pc EXCEPT ![p] = "finalizing"]
      /\ UNCHANGED <<mode, disk, execution, evaluated, report, trace, published, hostTree,
                     mem, limit, sandbox, result, finding, outcome, previous, launches, crashes>>
      /\ memory' = (memory \/ outcome[p].action = "finalize")
      /\ outcome[p] # Nil
      /\ pc \in [Proc -> Place] /\ mem[p] = disk /\ disk.phase \in L!Phase
  BY DEF WriteMemory, LoopEnded, Goto, IInv, TypeOK, Sole, Current, RunState
<1>2. pc'[p] = "finalizing" /\ mem'[p] = disk
  BY <1>1
<1>3. disk.phase # "completed"
  BY <1>1 DEF Sole, PublishedInv
<1>4. outcome[p].action = "finalize" => disk.phase \in Decided /\ outcome[p] = disk.outcome
  BY <1>1, <1>3 DEF Sole, OutcomeInv, Decided
<1>5. Current(p)' /\ TraceInv(p)' /\ ResultInv(p)'
  BY <1>1, <1>2 DEF Sole, Current, TraceInv, ResultInv, Traced
<1>6. TreeInv(p)' /\ PreviousInv(p)'
  BY <1>1, <1>2 DEF Sole, TreeInv, PreviousInv, Before, Unrecorded, Working
<1>7. OutcomeInv(p)'
  BY <1>1, <1>2, <1>3 DEF Sole, OutcomeInv, Before
<1>8. PublishedInv(p)'
  BY <1>1, <1>2, <1>3, <1>4 DEF Sole, PublishedInv
<1>9. LaunchInv(p)'
  BY <1>1, <1>2 DEF Sole, LaunchInv, Unrecorded
<1> QED
  BY <1>5, <1>6, <1>7, <1>8, <1>9 DEF Sole

\* What is published is the outcome on disk.
LEMMA PublishSole ==
  ASSUME IInv, NEW p \in Proc, Sole(p), UNCHANGED mode, Publish(p)
  PROVE  Sole(p)'
<1>1. /\ pc[p] = "finalizing" /\ pc' = [pc EXCEPT ![p] = "recorded"]
      /\ UNCHANGED <<mode, disk, execution, evaluated, report, trace, memory, hostTree,
                     mem, limit, result, finding, outcome, previous, launches, crashes>>
      /\ published' = outcome[p]
      /\ pc \in [Proc -> Place] /\ mem[p] = disk /\ disk.phase = "finalize"
  BY DEF Publish, Goto, IInv, TypeOK, Sole, Current
<1>2. /\ pc'[p] = "recorded" /\ mem'[p] = disk /\ disk.phase \in Decided
      /\ ~Working(p)' /\ ~Unrecorded(p)'
  BY <1>1 DEF Decided, Working, Unrecorded
<1>3. Current(p)' /\ TraceInv(p)' /\ ResultInv(p)'
  BY <1>1, <1>2 DEF Sole, Current, TraceInv, ResultInv, Traced
<1>4. TreeInv(p)' /\ PreviousInv(p)'
  BY <1>1, <1>2 DEF Sole, TreeInv, PreviousInv, Before
<1>5. OutcomeInv(p)' /\ PublishedInv(p)'
  BY <1>1, <1>2 DEF Sole, OutcomeInv, PublishedInv, Before
<1>6. LaunchInv(p)'
  BY <1>1, <1>2 DEF Sole, LaunchInv, Unrecorded
<1> QED
  BY <1>3, <1>4, <1>5, <1>6 DEF Sole


-----------------------------------------------------------------------------
(* Steps that end a sole process *)

\* A process that ends takes nothing with it but a launch that it still owed.
LEMMA HaltSole ==
  ASSUME IInv, NEW p \in Proc, Sole(p), Halt(p),
         UNCHANGED <<mode, disk, execution, evaluated, report, trace, memory, hostTree, launches>>,
         published' = published \/ disk.phase # "completed",
         crashes' = crashes + 1 \/ (crashes' = crashes /\ ~Unrecorded(p))
  PROVE  Sole(p)'
<1>1. /\ pc'[p] = "down" /\ disk.iter \in Nat \ {0} /\ crashes \in Nat /\ launches \in Nat
  BY DEF Halt, Goto, IInv, TypeOK, RunState, Place
<1>2. Current(p)' /\ TraceInv(p)' /\ ResultInv(p)'
  BY <1>1 DEF Sole, Current, TraceInv, ResultInv, Traced
<1>3. TreeInv(p)' /\ PreviousInv(p)'
  BY <1>1 DEF Sole, TreeInv, PreviousInv, Unrecorded, Working
<1>4. OutcomeInv(p)' /\ PublishedInv(p)'
  BY <1>1 DEF Sole, OutcomeInv, PublishedInv, Before
<1>5. LaunchInv(p)'
  BY <1>1 DEF Sole, LaunchInv, Unrecorded
<1> QED
  BY <1>2, <1>3, <1>4, <1>5 DEF Sole

\* Whichever way a sole process ends before it has completed the run.
LEMMA QuietHaltSole ==
  ASSUME IInv, NEW p \in Proc, Sole(p), UNCHANGED mode,
         PatchRejected(p) \/ RecordingRefused(p) \/ PublishUnfinished(p) \/ NothingToDo(p)
           \/ RevisionConflict(p) \/ Crash(p)
  PROVE  Sole(p)'
<1>1. CASE PatchRejected(p) \/ RecordingRefused(p) \/ NothingToDo(p)
  <2>1. ~Unrecorded(p)
    BY <1>1 DEF PatchRejected, RecordingRefused, NothingToDo, Unrecorded, At
  <2> QED
    BY <1>1, <2>1, HaltSole DEF PatchRejected, RecordingRefused, NothingToDo, diskVars
<1>2. CASE PublishUnfinished(p)
  <2>1. pc[p] = "finalizing" /\ ~Unrecorded(p)
    BY <1>2 DEF PublishUnfinished, Unrecorded
  <2>2. disk.phase # "completed"
    BY <2>1 DEF Sole, PublishedInv
  <2> QED
    BY <1>2, <2>1, <2>2, HaltSole DEF PublishUnfinished
<1>3. CASE RevisionConflict(p)
  <2>1. pc[p] # "down" /\ disk.revision # mem[p].revision
    BY <1>3 DEF RevisionConflict, WantsToAdvance, At
  <2> QED
    BY <2>1 DEF Sole, Current
<1>4. CASE Crash(p)
  BY <1>4, HaltSole DEF Crash, diskVars
<1> QED
  BY <1>1, <1>2, <1>3, <1>4

\* The last save keeps the outcome that was published.
LEMMA CommitFinalizeSole ==
  ASSUME IInv, NEW p \in Proc, Sole(p), UNCHANGED mode, CommitFinalize(p)
  PROVE  Sole(p)'
<1>1. /\ pc[p] = "recorded" /\ disk.phase = "finalize" /\ mem[p] = disk
      /\ disk \in RunState /\ Halt(p) /\ pc \in [Proc -> Place]
      /\ UNCHANGED <<mode, execution, evaluated, report, trace, published, memory, hostTree,
                     launches, crashes>>
      /\ outcome[p] = disk.outcome /\ published = disk.outcome
  BY DEF CommitFinalize, IInv, TypeOK, Sole, Current, OutcomeInv, PublishedInv
<1>2. disk' = [disk EXCEPT !.revision = @ + 1,
                           !.phase    = "completed",
                           !.done     = @ \cup {<<disk.iter, "finalize">>},
                           !.outcome  = disk.outcome]
  BY <1>1 DEF CommitFinalize
<1>3. /\ disk'.phase = "completed" /\ disk'.iter = disk.iter /\ disk'.outcome = disk.outcome
      /\ disk'.hasExec = disk.hasExec /\ disk'.tree = disk.tree
      /\ pc'[p] = "down"
  BY <1>1, <1>2 DEF RunState, Halt, Goto
<1>4. /\ {"finalize", "completed"} \subseteq AfterExecute
      /\ {"finalize", "completed"} \subseteq AfterCollect
      /\ {"finalize", "completed"} \subseteq Decided
  BY DEF AfterExecute, AfterCollect, Decided
<1>5. Current(p)' /\ TraceInv(p)' /\ ResultInv(p)'
  BY <1>1, <1>3, <1>4 DEF Sole, Current, TraceInv, ResultInv, Traced
<1>6. TreeInv(p)' /\ PreviousInv(p)'
  BY <1>1, <1>3, <1>4 DEF Sole, TreeInv, PreviousInv, Unrecorded, Working
<1>7. OutcomeInv(p)' /\ PublishedInv(p)'
  BY <1>1, <1>3, <1>4 DEF Sole, OutcomeInv, PublishedInv, Before
<1>8. LaunchInv(p)'
  BY <1>1, <1>3, <1>4 DEF Sole, LaunchInv, Unrecorded
<1> QED
  BY <1>5, <1>6, <1>7, <1>8 DEF Sole

-----------------------------------------------------------------------------
(* Saves of a sole process *)

\* What the steps Plan, EnterExecute, PlanNext and most commits save.
LEMMA AdvanceSoleFacts ==
  ASSUME IInv, NEW p \in Proc, Sole(p), UNCHANGED mode, pc[p] # "down",
         NEW next \in L!Phase, NEW updated \in RunState, updated.done = mem[p].done,
         updated.iter = mem[p].iter, Advance(p, next, updated),
         pc' = pc \/ pc' = [pc EXCEPT ![p] = "loop"],
         UNCHANGED <<execution, evaluated, report, trace, published, memory, hostTree,
                     limit, sandbox, result, finding, outcome, previous, launches, crashes>>
  PROVE  /\ mem[p] = disk /\ disk \in RunState /\ Sound(disk) /\ disk.iter \in Nat \ {0}
         /\ disk'.phase = next /\ disk'.iter = disk.iter
         /\ disk'.hasExec = updated.hasExec /\ disk'.hasEval = updated.hasEval
         /\ disk'.tree = updated.tree /\ disk'.outcome = updated.outcome
         /\ Current(p)'
         /\ launches \in Nat /\ crashes \in Nat
<1>1. /\ mem[p] = disk /\ mem' = [mem EXCEPT ![p] = disk']
      /\ disk'.phase = next /\ disk'.iter = updated.iter
      /\ disk'.hasExec = updated.hasExec /\ disk'.hasEval = updated.hasEval
      /\ disk'.tree = updated.tree /\ disk'.outcome = updated.outcome
  BY AdvanceFacts
<1>2. /\ disk \in RunState /\ Sound(disk) /\ mem \in [Proc -> RunState]
      /\ launches \in Nat /\ crashes \in Nat
  BY DEF IInv, TypeOK
<1>3. disk.iter \in Nat \ {0}
  BY <1>2 DEF RunState
<1>4. Current(p)'
  BY <1>1, <1>2 DEF Current
<1> QED
  BY <1>1, <1>2, <1>3, <1>4


\* The tree that a working process saves with its state is a tree.
LEMMA WorkTreeType ==
  ASSUME IInv, NEW p \in Proc, Working(p)
  PROVE  WorkTree(p) \in Tree
BY DEF WorkTree, IInv, TypeOK, ProcessOK, Holding

\* Planning a new run loses nothing: there is nothing yet.
LEMMA PlanSole ==
  ASSUME IInv, NEW p \in Proc, Sole(p), UNCHANGED mode, Plan(p)
  PROVE  Sole(p)'
<1>1. /\ pc[p] = "started" /\ mem[p].phase = "plan" /\ pc' = pc
      /\ Advance(p, "prepare-sandbox", mem[p])
      /\ UNCHANGED <<execution, evaluated, report, trace, published, memory, hostTree,
                     limit, sandbox, result, finding, outcome, previous, launches, crashes>>
  BY DEF Plan, Unstarted
<1>2. mem[p] \in RunState /\ "prepare-sandbox" \in L!Phase
  BY DEF IInv, TypeOK, L!Phase
<1>3. /\ disk.phase = "plan" /\ disk'.phase = "prepare-sandbox" /\ disk'.iter = disk.iter
      /\ disk'.hasExec = disk.hasExec /\ Current(p)'
  BY <1>1, <1>2, AdvanceSoleFacts
<1>4. /\ pc'[p] = "started" /\ ~Unrecorded(p) /\ ~Unrecorded(p)'
      /\ "plan" \notin AfterExecute /\ "prepare-sandbox" \notin AfterExecute
      /\ "prepare-sandbox" \notin AfterCollect /\ "plan" \notin Decided
      /\ "prepare-sandbox" \notin Decided
  BY <1>1 DEF Unrecorded, AfterExecute, AfterCollect, Decided
<1>5. TraceInv(p)' /\ ResultInv(p)'
  BY <1>1, <1>3, <1>4 DEF Sole, TraceInv, ResultInv, Traced
<1>6. TreeInv(p)' /\ PreviousInv(p)'
  BY <1>1, <1>3, <1>4 DEF Sole, TreeInv, PreviousInv, Working
<1>7. OutcomeInv(p)' /\ PublishedInv(p)'
  BY <1>1, <1>3, <1>4 DEF Sole, OutcomeInv, PublishedInv
<1>8. LaunchInv(p)'
  BY <1>1, <1>3, <1>4 DEF Sole, LaunchInv
<1> QED
  BY <1>3, <1>5, <1>6, <1>7, <1>8 DEF Sole

\* Entering execute, in the first iteration or a later one, loses nothing either.
LEMMA EnterSole ==
  ASSUME IInv, NEW p \in Proc, Sole(p), UNCHANGED mode, EnterExecute(p) \/ PlanNext(p)
  PROVE  Sole(p)'
<1>1. /\ pc[p] = "loop" /\ mem[p].phase \in {"plan", "prepare-sandbox"} /\ pc' = pc
      /\ UNCHANGED <<execution, evaluated, report, trace, published, memory, hostTree,
                     limit, sandbox, result, finding, outcome, previous, launches, crashes>>
  BY DEF EnterExecute, PlanNext, At
<1>2. /\ mem[p] \in RunState /\ mem[p] = disk /\ "execute" \in L!Phase /\ WorkTree(p) \in Tree
      /\ disk.hasExec = FALSE
  BY <1>1, WorkTreeType
  DEF IInv, TypeOK, L!Phase, Working, Sole, Current, TreeInv, AfterExecute, RunState
<1>3. PICK updated \in RunState :
        /\ Advance(p, "execute", updated) /\ updated.done = mem[p].done
        /\ updated.iter = mem[p].iter /\ updated.hasExec = FALSE
  <2>1. CASE EnterExecute(p)
    BY <1>2, <2>1 DEF EnterExecute, RunState
  <2>2. CASE PlanNext(p)
    <3> DEFINE new == [mem[p] EXCEPT !.tree = WorkTree(p), !.hasExec = FALSE, !.hasEval = FALSE]
    <3>1. Advance(p, "execute", new)
      BY <2>2 DEF PlanNext
    <3>2. /\ new \in RunState /\ new.done = mem[p].done
          /\ new.iter = mem[p].iter /\ new.hasExec = FALSE
      BY <1>2 DEF RunState
    <3> HIDE DEF new
    <3> QED
      BY <3>1, <3>2
  <2> QED
    BY <2>1, <2>2
<1>4. /\ disk'.phase = "execute" /\ disk'.iter = disk.iter
      /\ disk'.hasExec = FALSE /\ Current(p)'
  BY <1>1, <1>2, <1>3, AdvanceSoleFacts
<1>5. /\ ~Unrecorded(p) /\ ~Unrecorded(p)'
      /\ disk.phase \notin AfterExecute /\ "execute" \notin AfterExecute
      /\ "execute" \notin AfterCollect /\ disk.phase \notin Decided /\ "execute" \notin Decided
  BY <1>1, <1>2 DEF Unrecorded, AfterExecute, AfterCollect, Decided
<1>6. TraceInv(p)' /\ ResultInv(p)'
  BY <1>1, <1>4, <1>5 DEF Sole, TraceInv, ResultInv, Traced
<1>7. TreeInv(p)' /\ PreviousInv(p)'
  BY <1>1, <1>4, <1>5 DEF Sole, TreeInv, PreviousInv, Working, Before
<1>8. OutcomeInv(p)' /\ PublishedInv(p)'
  BY <1>1, <1>4, <1>5 DEF Sole, OutcomeInv, PublishedInv
<1>9. LaunchInv(p)'
  BY <1>1, <1>4, <1>5 DEF Sole, LaunchInv
<1> QED
  BY <1>4, <1>6, <1>7, <1>8, <1>9 DEF Sole

\* A launch that is committed is no longer owed, and its tree is the one on disk.
LEMMA CommitExecuteSole ==
  ASSUME IInv, NEW p \in Proc, Sole(p), UNCHANGED mode, CommitExecute(p)
  PROVE  Sole(p)'
<1> DEFINE updated == [mem[p] EXCEPT !.hasExec = TRUE, !.tree = WorkTree(p)]
<1>1. /\ pc[p] = "recorded" /\ mem[p].phase = "execute" /\ pc' = [pc EXCEPT ![p] = "loop"]
      /\ Advance(p, "collect", updated)
      /\ UNCHANGED <<execution, evaluated, report, trace, published, memory, hostTree,
                     limit, sandbox, result, finding, outcome, previous, launches, crashes>>
      /\ pc \in [Proc -> Place]
  BY DEF CommitExecute, Commit, Goto, IInv, TypeOK
<1>2. mem[p] \in RunState /\ mem[p] = disk /\ "collect" \in L!Phase /\ WorkTree(p) \in Tree
  BY <1>1, WorkTreeType DEF IInv, TypeOK, L!Phase, Working, Sole, Current
<1>3. /\ updated \in RunState /\ updated.done = mem[p].done /\ updated.iter = mem[p].iter
      /\ updated.tree = WorkTree(p)
  BY <1>2 DEF RunState
<1> HIDE DEF updated
<1>4. /\ disk.phase = "execute" /\ disk'.phase = "collect" /\ disk'.iter = disk.iter
      /\ disk'.tree = WorkTree(p) /\ disk.iter \in Nat \ {0} /\ Current(p)'
      /\ launches \in Nat /\ crashes \in Nat
  BY <1>1, <1>2, <1>3, AdvanceSoleFacts
<1>5. /\ pc'[p] = "loop" /\ Unrecorded(p) /\ ~Unrecorded(p)'
      /\ "execute" \notin AfterExecute /\ "collect" \in AfterExecute
      /\ "execute" \notin AfterCollect /\ "collect" \notin AfterCollect
      /\ "execute" \notin Decided /\ "collect" \notin Decided
  BY <1>1, <1>2 DEF Unrecorded, AfterExecute, AfterCollect, Decided
<1>6. result[p] = execution[disk.iter] /\ WorkTree(p) = execution[disk.iter].tree
  BY <1>1, <1>4, <1>5 DEF Sole, ResultInv, TreeInv
<1>7. TraceInv(p)'
  BY <1>1, <1>4, <1>5 DEF Sole, TraceInv, Traced
<1>8. ResultInv(p)'
  BY <1>1, <1>4, <1>5, <1>6 DEF ResultInv
<1>9. TreeInv(p)'
  BY <1>1, <1>4, <1>5, <1>6 DEF TreeInv, WorkTree
<1>10. PreviousInv(p)' /\ OutcomeInv(p)' /\ PublishedInv(p)'
  BY <1>1, <1>4, <1>5 DEF Sole, PreviousInv, OutcomeInv, PublishedInv, Before
<1>11. LaunchInv(p)'
  BY <1>1, <1>4, <1>5 DEF Sole, LaunchInv
<1> QED
  BY <1>4, <1>7, <1>8, <1>9, <1>10, <1>11 DEF Sole


\* The collect phase is completed with the step in the trace.
LEMMA CommitCollectSole ==
  ASSUME IInv, NEW p \in Proc, Sole(p), UNCHANGED mode, CommitCollect(p)
  PROVE  Sole(p)'
<1> DEFINE updated == [mem[p] EXCEPT !.tree = WorkTree(p)]
<1>1. /\ pc[p] = "recorded" /\ mem[p].phase = "collect" /\ pc' = [pc EXCEPT ![p] = "loop"]
      /\ Advance(p, "evaluate", updated)
      /\ UNCHANGED <<execution, evaluated, report, trace, published, memory, hostTree,
                     limit, sandbox, result, finding, outcome, previous, launches, crashes>>
      /\ pc \in [Proc -> Place]
  BY DEF CommitCollect, Commit, Goto, IInv, TypeOK
<1>2. mem[p] \in RunState /\ mem[p] = disk /\ "evaluate" \in L!Phase /\ WorkTree(p) \in Tree
  BY <1>1, WorkTreeType DEF IInv, TypeOK, L!Phase, Working, Sole, Current
<1>3. /\ updated \in RunState /\ updated.done = mem[p].done /\ updated.iter = mem[p].iter
      /\ updated.tree = WorkTree(p) /\ updated.hasExec = mem[p].hasExec
  BY <1>2 DEF RunState
<1> HIDE DEF updated
<1>4. /\ disk.phase = "collect" /\ disk'.phase = "evaluate" /\ disk'.iter = disk.iter
      /\ disk'.tree = WorkTree(p) /\ disk'.hasExec = disk.hasExec /\ disk.hasExec
      /\ disk.iter \in Nat \ {0} /\ Current(p)'
  BY <1>1, <1>2, <1>3, AdvanceSoleFacts DEF Sound
<1>5. /\ pc'[p] = "loop" /\ Working(p) /\ ~Unrecorded(p) /\ ~Unrecorded(p)'
      /\ {"collect", "evaluate"} \subseteq AfterExecute
      /\ "collect" \notin AfterCollect /\ "evaluate" \in AfterCollect
      /\ "collect" \notin Decided /\ "evaluate" \notin Decided
  BY <1>1, <1>2 DEF Unrecorded, Working, AfterExecute, AfterCollect, Decided
<1>6. TraceInv(p)'
  BY <1>1, <1>4, <1>5, IterationFacts DEF Sole, TraceInv, Traced
<1>7. ResultInv(p)'
  BY <1>1, <1>4, <1>5 DEF Sole, ResultInv
<1>8. TreeInv(p)'
  BY <1>1, <1>4, <1>5 DEF Sole, TreeInv, WorkTree
<1>9. PreviousInv(p)' /\ OutcomeInv(p)' /\ PublishedInv(p)'
  BY <1>1, <1>4, <1>5 DEF Sole, PreviousInv, OutcomeInv, PublishedInv, Before
<1>10. LaunchInv(p)'
  BY <1>1, <1>4, <1>5 DEF Sole, LaunchInv
<1> QED
  BY <1>4, <1>6, <1>7, <1>8, <1>9, <1>10 DEF Sole

\* The decision is made of the evaluation that is committed.
LEMMA CommitEvaluateSole ==
  ASSUME IInv, NEW p \in Proc, Sole(p), UNCHANGED mode, CommitEvaluate(p)
  PROVE  Sole(p)'
<1> DEFINE updated == [mem[p] EXCEPT !.hasEval = TRUE, !.tree = WorkTree(p)]
<1>1. /\ pc[p] = "recorded" /\ mem[p].phase = "evaluate" /\ pc' = [pc EXCEPT ![p] = "loop"]
      /\ Advance(p, "decide", updated)
      /\ UNCHANGED <<execution, evaluated, report, trace, published, memory, hostTree,
                     limit, sandbox, result, finding, outcome, previous, launches, crashes>>
      /\ pc \in [Proc -> Place]
  BY DEF CommitEvaluate, Commit, Goto, IInv, TypeOK
<1>2. mem[p] \in RunState /\ mem[p] = disk /\ "decide" \in L!Phase /\ WorkTree(p) \in Tree
  BY <1>1, WorkTreeType DEF IInv, TypeOK, L!Phase, Working, Sole, Current
<1>3. /\ updated \in RunState /\ updated.done = mem[p].done /\ updated.iter = mem[p].iter
      /\ updated.tree = WorkTree(p) /\ updated.hasExec = mem[p].hasExec
  BY <1>2 DEF RunState
<1> HIDE DEF updated
<1>4. /\ disk.phase = "evaluate" /\ disk'.phase = "decide" /\ disk'.iter = disk.iter
      /\ disk'.tree = WorkTree(p) /\ disk'.hasExec = disk.hasExec /\ disk.hasExec
      /\ disk.iter \in Nat \ {0} /\ Current(p)'
  BY <1>1, <1>2, <1>3, AdvanceSoleFacts DEF Sound
<1>5. /\ pc'[p] = "loop" /\ Working(p) /\ ~Unrecorded(p) /\ ~Unrecorded(p)'
      /\ {"evaluate", "decide"} \subseteq AfterExecute
      /\ {"evaluate", "decide"} \subseteq AfterCollect
      /\ "evaluate" \notin Decided /\ "decide" \notin Decided
  BY <1>1, <1>2 DEF Unrecorded, Working, AfterExecute, AfterCollect, Decided
<1>6. TraceInv(p)'
  BY <1>1, <1>4, <1>5 DEF Sole, TraceInv, Traced
<1>7. ResultInv(p)'
  BY <1>1, <1>4, <1>5 DEF Sole, ResultInv
<1>8. TreeInv(p)'
  BY <1>1, <1>4, <1>5 DEF Sole, TreeInv, WorkTree
<1>9. PreviousInv(p)' /\ OutcomeInv(p)' /\ PublishedInv(p)'
  BY <1>1, <1>4, <1>5 DEF Sole, PreviousInv, OutcomeInv, PublishedInv, Before
<1>10. LaunchInv(p)'
  BY <1>1, <1>4, <1>5 DEF Sole, LaunchInv
<1> QED
  BY <1>4, <1>6, <1>7, <1>8, <1>9, <1>10 DEF Sole

\* The outcome that is committed is the one decide came to.
LEMMA CommitDecideSole ==
  ASSUME IInv, NEW p \in Proc, Sole(p), UNCHANGED mode, CommitDecide(p)
  PROVE  Sole(p)'
<1> DEFINE updated == [mem[p] EXCEPT !.outcome = outcome[p]]
<1>1. /\ pc[p] = "recorded" /\ mem[p].phase = "decide" /\ pc' = [pc EXCEPT ![p] = "loop"]
      /\ Advance(p, "persist", updated)
      /\ UNCHANGED <<execution, evaluated, report, trace, published, memory, hostTree,
                     limit, sandbox, result, finding, outcome, previous, launches, crashes>>
      /\ pc \in [Proc -> Place]
  BY DEF CommitDecide, Commit, Goto, IInv, TypeOK
<1>2. /\ mem[p] \in RunState /\ mem[p] = disk /\ "persist" \in L!Phase
      /\ outcome[p] \in Outcome \cup {Nil}
  BY <1>1 DEF IInv, TypeOK, L!Phase, Sole, Current
<1>3. /\ updated \in RunState /\ updated.done = mem[p].done /\ updated.iter = mem[p].iter
      /\ updated.tree = mem[p].tree /\ updated.hasExec = mem[p].hasExec
      /\ updated.outcome = outcome[p]
  BY <1>2 DEF RunState
<1> HIDE DEF updated
<1>4. /\ disk.phase = "decide" /\ disk'.phase = "persist" /\ disk'.iter = disk.iter
      /\ disk'.tree = disk.tree /\ disk'.hasExec = disk.hasExec
      /\ disk'.outcome = outcome[p]
      /\ disk.iter \in Nat \ {0} /\ Current(p)'
  BY <1>1, <1>2, <1>3, AdvanceSoleFacts
<1>5. /\ pc'[p] = "loop" /\ Working(p) /\ ~Unrecorded(p) /\ ~Unrecorded(p)'
      /\ {"decide", "persist"} \subseteq AfterExecute
      /\ {"decide", "persist"} \subseteq AfterCollect
      /\ "decide" \notin Decided /\ "persist" \in Decided
  BY <1>1, <1>2 DEF Unrecorded, Working, AfterExecute, AfterCollect, Decided
<1>6. TraceInv(p)'
  BY <1>1, <1>4, <1>5 DEF Sole, TraceInv, Traced
<1>7. ResultInv(p)'
  BY <1>1, <1>4, <1>5 DEF Sole, ResultInv
<1>8. TreeInv(p)'
  BY <1>1, <1>4, <1>5 DEF Sole, TreeInv, WorkTree
<1>9. PreviousInv(p)' /\ OutcomeInv(p)' /\ PublishedInv(p)'
  BY <1>1, <1>4, <1>5 DEF Sole, PreviousInv, OutcomeInv, PublishedInv, Before
<1>10. LaunchInv(p)'
  BY <1>1, <1>4, <1>5 DEF Sole, LaunchInv
<1> QED
  BY <1>4, <1>6, <1>7, <1>8, <1>9, <1>10 DEF Sole

\* A run that stops keeps the outcome it was told to stop by.
LEMMA CommitStopSole ==
  ASSUME IInv, NEW p \in Proc, Sole(p), UNCHANGED mode, CommitStop(p)
  PROVE  Sole(p)'
<1>1. /\ pc[p] = "recorded" /\ mem[p].phase = "persist" /\ pc' = [pc EXCEPT ![p] = "loop"]
      /\ Advance(p, "finalize", mem[p])
      /\ UNCHANGED <<execution, evaluated, report, trace, published, memory, hostTree,
                     limit, sandbox, result, finding, outcome, previous, launches, crashes>>
      /\ pc \in [Proc -> Place]
  BY DEF CommitStop, Commit, Goto, IInv, TypeOK
<1>2. /\ mem[p] \in RunState /\ mem[p] = disk /\ "finalize" \in L!Phase
      /\ report[disk.iter] \in Outcome /\ outcome[p] = disk.outcome
  BY <1>1 DEF IInv, TypeOK, L!Phase, Sole, Current, ProcessOK, Holding
<1>3. /\ disk.phase = "persist" /\ disk'.phase = "finalize" /\ disk'.iter = disk.iter
      /\ disk'.tree = disk.tree /\ disk'.hasExec = disk.hasExec
      /\ disk'.outcome = disk.outcome
      /\ disk.iter \in Nat \ {0} /\ Current(p)'
  BY <1>1, <1>2, AdvanceSoleFacts
<1>4. /\ pc'[p] = "loop" /\ Working(p) /\ ~Unrecorded(p) /\ ~Unrecorded(p)'
      /\ {"persist", "finalize"} \subseteq AfterExecute
      /\ {"persist", "finalize"} \subseteq AfterCollect
      /\ {"persist", "finalize"} \subseteq Decided
  BY <1>1, <1>2 DEF Unrecorded, Working, AfterExecute, AfterCollect, Decided
<1>5. TraceInv(p)'
  BY <1>1, <1>3, <1>4 DEF Sole, TraceInv, Traced
<1>6. ResultInv(p)'
  BY <1>1, <1>3, <1>4 DEF Sole, ResultInv
<1>7. TreeInv(p)'
  BY <1>1, <1>3, <1>4 DEF Sole, TreeInv, WorkTree
<1>8. PreviousInv(p)' /\ OutcomeInv(p)' /\ PublishedInv(p)'
  BY <1>1, <1>2, <1>3, <1>4 DEF Sole, PreviousInv, OutcomeInv, PublishedInv, Before
<1>9. LaunchInv(p)'
  BY <1>1, <1>3, <1>4 DEF Sole, LaunchInv
<1> QED
  BY <1>3, <1>5, <1>6, <1>7, <1>8, <1>9 DEF Sole


\* A run that goes round again was not told to finalize, so it has no memory.
LEMMA CommitAgainSole ==
  ASSUME IInv, NEW p \in Proc, Sole(p), UNCHANGED mode, CommitAgain(p)
  PROVE  Sole(p)'
<1> DEFINE updated == [mem[p] EXCEPT !.iter = @ + 1, !.hasExec = FALSE, !.hasEval = FALSE]
<1>1. /\ pc[p] = "recorded" /\ mem[p].phase = "persist" /\ pc' = [pc EXCEPT ![p] = "loop"]
      /\ Advance(p, "plan", updated) /\ ~ShouldStop(outcome[p].status)
      /\ UNCHANGED <<execution, evaluated, report, trace, published, memory, hostTree,
                     limit, sandbox, result, finding, outcome, previous, launches, crashes>>
      /\ pc \in [Proc -> Place] /\ mem \in [Proc -> RunState]
  BY DEF CommitAgain, Commit, Goto, IInv, TypeOK
<1>2. /\ mem[p] \in RunState /\ mem[p] = disk /\ Sound(disk) /\ "plan" \in L!Phase
      /\ outcome[p] = disk.outcome /\ disk.iter \in Nat \ {0} /\ disk.iter + 1 \in Nat \ {0}
      /\ launches \in Nat /\ crashes \in Nat
  <2>1. /\ mem[p] \in RunState /\ mem[p] = disk /\ Sound(disk) /\ outcome[p] = mem[p].outcome
        /\ launches \in Nat /\ crashes \in Nat
    BY <1>1 DEF IInv, TypeOK, Sole, Current, ProcessOK, Holding
  <2>2. disk.iter \in Nat \ {0} /\ disk.iter + 1 \in Nat \ {0}
    BY <2>1 DEF RunState
  <2> QED
    BY <2>1, <2>2 DEF L!Phase
<1>3. /\ updated \in RunState /\ updated.done = mem[p].done
      /\ updated.iter = mem[p].iter + 1 /\ updated.hasExec = FALSE
  BY <1>2 DEF RunState
<1> HIDE DEF updated
<1>4. /\ disk.phase = "persist" /\ disk'.phase = "plan" /\ disk'.iter = disk.iter + 1
      /\ disk'.hasExec = FALSE /\ mem' = [mem EXCEPT ![p] = disk']
  BY <1>1, <1>2, <1>3, AdvanceFacts
<1>5. /\ pc'[p] = "loop" /\ ~Unrecorded(p) /\ ~Unrecorded(p)'
      /\ "persist" \in AfterExecute /\ "plan" \notin AfterExecute
      /\ "persist" \in AfterCollect /\ "plan" \notin AfterCollect
      /\ "persist" \in Decided /\ "plan" \notin Decided
  BY <1>1, <1>2 DEF Unrecorded, AfterExecute, AfterCollect, Decided
<1>6. disk.outcome.action # "finalize" /\ ~memory
  BY <1>1, <1>2, <1>4, <1>5, FinalizeStops DEF Sole, OutcomeInv, PublishedInv
<1>7. /\ disk.iter + 1 \in Iteration
      /\ report[disk.iter + 1] = Nil
  <2>1. disk.iter + 1 \in Iteration
    BY <1>1, <1>2, <1>4 DEF Sound
  <2> QED
    BY <1>2, <2>1 DEF IInv, ReportsAreAPrefix
<1>8. previous[p] = report[disk.iter].print
  BY <1>1, <1>4 DEF Sole, PreviousInv
<1>9. Current(p)' /\ TraceInv(p)'
  <2>1. \A n \in DOMAIN trace : trace[n][1] < disk.iter + 1
    <3>1. \A n \in DOMAIN trace : trace[n][1] < disk.iter \/ trace[n][1] = disk.iter
      BY DEF Sole, TraceInv
    <3>2. \A n \in DOMAIN trace : trace[n][1] \in Nat
      <4>1. trace \in Seq(Iteration \X Result)
        BY DEF IInv, TypeOK
      <4>2. \A n \in DOMAIN trace : trace[n] \in Iteration \X Result
        BY <4>1
      <4>3. \A n \in DOMAIN trace : trace[n][1] \in Iteration
        BY <4>2
      <4> QED
        BY <4>3, IterationFacts
    <3> QED
      BY <1>2, <3>1, <3>2
  <2>2. \A i \in Iteration : i < disk.iter + 1 => Traced(i)
    <3>1. ASSUME NEW i \in Nat, NEW n \in Nat, i < n + 1
          PROVE  i < n \/ i = n
      BY <3>1
    <3>2. disk.iter \in Nat /\ Iteration \subseteq Nat
      BY <1>2, IterationFacts
    <3>3. \A i \in Iteration : i < disk.iter + 1 => i < disk.iter \/ i = disk.iter
      BY <3>1, <3>2
    <3> QED
      BY <1>4, <1>5, <3>3 DEF Sole, TraceInv
  <2> QED
    BY <1>1, <1>4, <1>5, <2>1, <2>2 DEF Sole, Current, TraceInv, Traced
<1>10. ResultInv(p)' /\ TreeInv(p)'
  BY <1>1, <1>4, <1>5 DEF ResultInv, TreeInv
<1>11. PreviousInv(p)'
  <2>1. Before(disk.iter)' = report[disk.iter].print
    <3>1. disk.iter + 1 # 1 /\ (disk.iter + 1) - 1 = disk.iter
      BY <1>2
    <3>2. Before(disk.iter)' = report[(disk.iter + 1) - 1].print
      BY <1>1, <1>4, <3>1 DEF Before
    <3> QED
      BY <3>1, <3>2
  <2> QED
    BY <1>1, <1>4, <1>5, <1>7, <1>8, <2>1 DEF PreviousInv
<1>12. OutcomeInv(p)' /\ PublishedInv(p)'
  BY <1>1, <1>2, <1>4, <1>5, <1>6 DEF OutcomeInv, PublishedInv
<1>13. LaunchInv(p)'
  BY <1>1, <1>2, <1>4, <1>5 DEF Sole, LaunchInv
<1> QED
  BY <1>9, <1>10, <1>11, <1>12, <1>13 DEF Sole

-----------------------------------------------------------------------------
(* Theorems about a run whose invocations follow one another *)

\* What a sole process and its files know of each other is only variables.
LEMMA StutterSole ==
  ASSUME NEW p \in Proc, Sole(p), UNCHANGED vars
  PROVE  Sole(p)'
<1>1. UNCHANGED <<mode, disk, execution, evaluated, report, trace, published, memory, hostTree,
                  pc, mem, limit, sandbox, result, finding, outcome, previous, launches, crashes>>
  BY DEF vars, diskVars, procVars
<1>2. Current(p)' /\ TraceInv(p)' /\ ResultInv(p)' /\ TreeInv(p)'
  BY <1>1 DEF Sole, Current, TraceInv, ResultInv, TreeInv, Traced, Working, Unrecorded, WorkTree
<1>3. PreviousInv(p)' /\ OutcomeInv(p)' /\ PublishedInv(p)' /\ LaunchInv(p)'
  BY <1>1 DEF Sole, PreviousInv, OutcomeInv, PublishedInv, LaunchInv, Before, Unrecorded
<1> QED
  BY <1>2, <1>3 DEF Sole

\* Every step of the only process keeps them.
LEMMA NextSole ==
  ASSUME NEW p, Proc = {p}, IInv, Sole(p), [Next]_vars
  PROVE  Sole(p)'
<1>0. p \in Proc
  OBVIOUS
<1>1. CASE UNCHANGED vars
  BY <1>0, <1>1, StutterSole
<1>2. CASE Next
  <2>1. Step(p) \/ Crash(p)
    BY <1>2 DEF Next
  <2>2. UNCHANGED mode
    BY <2>1 DEF Step, Crash
  <2>3. CASE \/ Start(p) \/ PrepareSandbox(p) \/ LoadPersisted(p) \/ Execute(p)
             \/ RecordExecution(p) \/ CollectTrace(p) \/ RecordCollect(p) \/ Evaluate(p)
             \/ Decide(p) \/ Persist(p) \/ WriteMemory(p) \/ Publish(p)
    BY <1>0, <2>2, <2>3, StartSole, PrepareSandboxSole, LoadPersistedSole, ExecuteSole,
       RecordExecutionSole, CollectTraceSole, RecordCollectSole, EvaluateSole, DecideSole,
       PersistSole, WriteMemorySole, PublishSole
  <2>4. CASE \/ Plan(p) \/ EnterExecute(p) \/ PlanNext(p) \/ CommitExecute(p)
             \/ CommitCollect(p) \/ CommitEvaluate(p) \/ CommitDecide(p) \/ CommitStop(p)
             \/ CommitAgain(p) \/ CommitFinalize(p)
    BY <1>0, <2>2, <2>4, PlanSole, EnterSole, CommitExecuteSole, CommitCollectSole,
       CommitEvaluateSole, CommitDecideSole, CommitStopSole, CommitAgainSole,
       CommitFinalizeSole
  <2>5. CASE \/ PatchRejected(p) \/ RecordingRefused(p) \/ PublishUnfinished(p) \/ NothingToDo(p)
             \/ RevisionConflict(p) \/ Crash(p)
    BY <1>0, <2>2, <2>5, QuietHaltSole
  <2> QED
    BY <2>1, <2>3, <2>4, <2>5 DEF Step
<1> QED
  BY <1>1, <1>2

(***************************************************************************)
(* The second inductive invariant: it holds of a run that one process at a *)
(* time works on, however often it dies and is resumed.                      *)
(***************************************************************************)
THEOREM SoleInvariance ==
  ASSUME NEW p, Proc = {p}
  PROVE  Spec => [](IInv /\ Sole(p))
<1>1. Init => IInv /\ Sole(p)
  BY InitIInv, InitSole
<1>2. (IInv /\ Sole(p)) /\ [Next]_vars => (IInv /\ Sole(p))'
  BY NextInv, NextSole
<1> QED
  BY <1>1, <1>2, PTL DEF Spec


\* The completed phases, as the current one has them.
LEMMA CommittedFacts ==
  ASSUME IInv, NEW i \in Nat \ {0}, NEW ph \in {"execute", "collect", "persist"}
  PROVE  Committed(i, ph) <=> i < disk.iter \/ (i = disk.iter /\ L!Rank[ph] < L!Rank[disk.phase])
<1>1. /\ disk.iter \in Nat \ {0} /\ disk.phase \in L!Phase
      /\ disk.done = History(disk.iter, disk.phase)
  BY IterationFacts DEF IInv, TypeOK, Sound, RunState
<1>2. ph \in L!Phase /\ ph # "prepare-sandbox" /\ L!Rank[ph] < L!Rank["finalize"]
  BY RankValues DEF L!Phase
<1>3. Committed(i, ph) <=>
        /\ i \in 1 .. disk.iter
        /\ L!Rank[ph] < IF i = disk.iter THEN L!Rank[disk.phase] ELSE L!Rank["finalize"]
  BY <1>1, <1>2 DEF Committed, History
<1> QED
  BY <1>1, <1>2, <1>3

\* Where the phases are that follow execute, collect and persist.
LEMMA PhasesAfter ==
  ASSUME NEW ph \in L!Phase
  PROVE  /\ L!Rank["execute"] < L!Rank[ph] <=> ph \in AfterExecute
         /\ L!Rank["collect"] < L!Rank[ph] <=> ph \in AfterCollect
         /\ L!Rank["persist"] < L!Rank[ph] <=> ph \in {"finalize", "completed"}
BY RankValues DEF L!Phase, AfterExecute, AfterCollect

\* The executor was launched once per completed execute phase, once more if a
\* launch is being recorded, and once per crash.
LEMMA LaunchesAreCounted ==
  ASSUME NEW p, Proc = {p}, IInv, Sole(p)
  PROVE  RelaunchOnlyAfterCrash
<1> DEFINE executed == {i \in Iteration : Committed(i, "execute")}
           last == IF disk.phase \in AfterExecute THEN disk.iter ELSE disk.iter - 1
           busy == {q \in Proc : pc[q] # "down" /\ mem[q].phase = "execute"}
<1>1. /\ disk.iter \in Nat \ {0} /\ disk.iter \in Iteration /\ disk.phase \in L!Phase
      /\ launches \in Nat /\ crashes \in Nat
  BY IterationFacts DEF IInv, TypeOK, Sound, RunState
<1>2. last \in Nat /\ last <= disk.iter
  BY <1>1
<1>3. executed = 1 .. last
  <2>1. ASSUME NEW i \in Iteration
        PROVE  Committed(i, "execute") <=> i \in 1 .. last
    <3>1. i \in Nat \ {0}
      BY IterationFacts
    <3>2. Committed(i, "execute")
            <=> i < disk.iter \/ (i = disk.iter /\ disk.phase \in AfterExecute)
      BY <1>1, <3>1, CommittedFacts, PhasesAfter
    <3> QED
      BY <1>1, <3>1, <3>2
  <2>2. 1 .. last \subseteq Iteration
    <3>1. \A i \in 1 .. last : i \in Nat \ {0} /\ i <= disk.iter
      BY <1>1, <1>2
    <3> QED
      BY <1>1, <3>1, IterationFacts
  <2> QED
    BY <2>1, <2>2
<1>4. Cardinality(executed) = last
  <2>1. Cardinality(1 .. last) = last
    BY <1>2, FS_Interval
  <2> QED
    BY <1>3, <2>1
<1>5. Cardinality(busy) \in Nat /\ (Unrecorded(p) => Cardinality(busy) = 1)
  <2>1. CASE pc[p] # "down" /\ mem[p].phase = "execute"
    <3>1. busy = {p}
      BY <2>1
    <3>2. Cardinality({p}) = 1
      BY FS_Singleton
    <3>3. Cardinality(busy) = 1
      BY <3>1, <3>2
    <3> QED
      BY <3>3
  <2>2. CASE ~(pc[p] # "down" /\ mem[p].phase = "execute")
    <3>1. busy = {}
      BY <2>2
    <3>2. ~Unrecorded(p)
      BY <2>2 DEF Unrecorded, IInv, ProcessOK, Placed, Sole, Current
    <3> QED
      BY <3>1, <3>2, FS_EmptySet
  <2> QED
    BY <2>1, <2>2
<1>6. launches <= crashes + last + (IF Unrecorded(p) THEN 1 ELSE 0)
  BY DEF Sole, LaunchInv
<1>7. launches <= crashes + Cardinality(executed) + Cardinality(busy)
  <2> HIDE DEF executed, last, busy
  <2> QED
    BY <1>1, <1>2, <1>4, <1>5, <1>6
<1> QED
  BY <1>7 DEF RelaunchOnlyAfterCrash

(***************************************************************************)
(* With one process at a time the trace tells, once per iteration, of the  *)
(* launch whose result is on disk, however often the run was interrupted.   *)
(***************************************************************************)
THEOREM TraceIsOfTheLaunch ==
  ASSUME NEW p, Proc = {p}
  PROVE  Spec => []TraceTellsTheLaunch
<1>1. IInv /\ Sole(p) => TraceTellsTheLaunch
  <2> SUFFICES ASSUME IInv, Sole(p)
               PROVE  TraceTellsTheLaunch
    OBVIOUS
  <2>1. disk.phase \in L!Phase
    BY DEF IInv, TypeOK, RunState
  <2>2. \A i \in Iteration : Committed(i, "collect") => Traced(i)
    BY <2>1, CommittedFacts, PhasesAfter, IterationFacts DEF Sole, TraceInv
  <2> QED
    BY <2>2 DEF TraceTellsTheLaunch, Sole, TraceInv
<1> QED
  BY <1>1, SoleInvariance, PTL

(***************************************************************************)
(* The decision on disk follows from the artifacts on disk: a resumed run  *)
(* decides as the interrupted one would have.                               *)
(***************************************************************************)
THEOREM DecisionFollows ==
  ASSUME NEW p, Proc = {p}
  PROVE  Spec => []DecisionFollowsFromArtifacts
<1>1. IInv /\ Sole(p) => DecisionFollowsFromArtifacts
  BY DEF Sole, OutcomeInv, DecisionFollowsFromArtifacts, Leads, Before, Decided
<1> QED
  BY <1>1, SoleInvariance, PTL

\* What a resume needs is on disk, and what is published is what was decided.
THEOREM ReferencesHold ==
  ASSUME NEW p, Proc = {p}
  PROVE  Spec => []ReferencesResolve
<1>1. IInv /\ Sole(p) => ReferencesResolve
  <2> SUFFICES ASSUME IInv, Sole(p)
               PROVE  ReferencesResolve
    OBVIOUS
  <2>1. disk.phase \in L!Phase /\ Sound(disk) /\ Resolved(disk)
    BY DEF IInv, TypeOK, RunState
  <2>2. \A i \in Iteration : Committed(i, "persist") => report[i] \in Outcome
    <3>1. \A i \in Iteration : Committed(i, "persist") =>
            i < disk.iter \/ (i = disk.iter /\ disk.phase \in {"finalize", "completed"})
      BY <2>1, CommittedFacts, PhasesAfter, IterationFacts
    <3> QED
      BY <3>1 DEF IInv, ReportsAreAPrefix, Sole, PreviousInv
  <2>3. /\ disk.hasExec => execution[disk.iter] # Nil
        /\ disk.hasEval => evaluated[disk.iter] # Nil
    BY <2>1, NilAssumption DEF Resolved
  <2>4. memory => disk.outcome \in Outcome /\ disk.outcome.action = "finalize"
    BY <2>1 DEF Sole, PublishedInv, Sound, Decided
  <2> QED
    BY <2>2, <2>3, <2>4, NilAssumption DEF ReferencesResolve, Sole, PublishedInv
<1> QED
  BY <1>1, SoleInvariance, PTL

\* No resume launches the executor again for edits that are recorded.
THEOREM RelaunchIsPaidFor ==
  ASSUME NEW p, Proc = {p}
  PROVE  Spec => []RelaunchOnlyAfterCrash
<1>1. IInv /\ Sole(p) => RelaunchOnlyAfterCrash
  BY LaunchesAreCounted
<1> QED
  BY <1>1, SoleInvariance, PTL

\* The worktree of a run past execute has the executor's edits, resumed or not.
THEOREM WorktreeIsTheExecutors ==
  ASSUME NEW p, Proc = {p}
  PROVE  Spec => []WorktreeHasExecutorEdits
<1>1. IInv /\ Sole(p) => WorktreeHasExecutorEdits
  <2> SUFFICES ASSUME IInv, Sole(p), mode = "git-worktree", pc[p] = "loop", mem[p].hasExec
               PROVE  sandbox[p] = execution[mem[p].iter].tree
    BY DEF WorktreeHasExecutorEdits
  <2> QED
    BY DEF Sole, Current, TreeInv, Working
<1> QED
  BY <1>1, SoleInvariance, PTL
=============================================================================
