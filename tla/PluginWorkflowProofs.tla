------------------------- MODULE PluginWorkflowProofs -------------------------
(***************************************************************************)
(* Theorems of PluginWorkflow for any sessions and files, and any number of *)
(* evaluations, takeovers and deaths of the process.                        *)
(***************************************************************************)
EXTENDS PluginWorkflow, TLAPS

Identities == [Session -> Identity \cup {Nil}]

Workflows == [Session -> Workflow \cup {Nil}]

-----------------------------------------------------------------------------
(* The operators on workflow and identity files *)

LEMMA AfterIs ==
  ASSUME NEW write, NEW cut, NEW old, NEW new
  PROVE  /\ write <= cut => After(write, cut, old, new) = new
         /\ ~(write <= cut) => After(write, cut, old, new) = old
BY DEF After

LEMMA WorkflowFacts ==
  ASSUME NEW w \in Workflow \cup {Nil}
  PROVE  /\ NewWorkflow \in Workflow /\ NewWorkflow # Nil
         /\ NewWorkflow.task = FALSE /\ NewWorkflow.allowed = {}
         /\ Initialized(w) \in Workflow /\ Initialized(w) # Nil
         /\ w # Nil => Initialized(w) = w
         /\ w = Nil => Initialized(w) = NewWorkflow
<1>1. NewWorkflow \in Workflow /\ NewWorkflow.task = FALSE /\ NewWorkflow.allowed = {}
  BY DEF NewWorkflow, Workflow, Boundary
<1>2. Nil \notin Workflow
  BY NilAssumption
<1> HIDE DEF NewWorkflow
<1> QED
  BY <1>1, <1>2 DEF Initialized

LEMMA UpdatedFacts ==
  ASSUME NEW w \in Workflow \cup {Nil}, NEW b \in Boundary
  PROVE  /\ Updated(w, b) \in Workflow /\ Updated(w, b) # Nil
         /\ Updated(w, b).task /\ Updated(w, b).allowed = b
<1>1. Initialized(w) \in Workflow
  BY WorkflowFacts
<1> QED
  BY <1>1, NilAssumption DEF Updated, Workflow

\* A takeover copies the boundary of the source, or finds its own work.
LEMMA TakenOverFacts ==
  ASSUME workflow \in Workflows, NEW r \in Session, NEW t \in Session
  PROVE  /\ TakenOver(r, t) \in Workflow /\ TakenOver(r, t) # Nil /\ TakenOver(r, t).task
         /\ \/ TakenOver(r, t) = workflow[t]
            \/ TakenOver(r, t).allowed = Initialized(workflow[r]).allowed
<1>1. Initialized(workflow[r]) \in Workflow
  BY WorkflowFacts DEF Workflows
<1>2. CASE workflow[t] # Nil /\ workflow[t].task /\ workflow[t].from = r
  BY <1>2 DEF TakenOver, Workflows
<1>3. CASE ~(workflow[t] # Nil /\ workflow[t].task /\ workflow[t].from = r)
  <2>1. TakenOver(r, t) = [task |-> TRUE, from |-> r, allowed |-> Initialized(workflow[r]).allowed]
    BY <1>3 DEF TakenOver
  <2>2. TakenOver(r, t) \in Workflow
    BY <1>1, <2>1 DEF Workflow
  <2>3. /\ TakenOver(r, t).task = TRUE
        /\ TakenOver(r, t).allowed = Initialized(workflow[r]).allowed
    BY <2>1
  <2>4. Nil \notin Workflow
    BY NilAssumption
  <2> QED
    BY <2>2, <2>3, <2>4
<1> QED
  BY <1>2, <1>3

\* What is done to an identity that is there and keeps the session it points to.
Kept(new, old) == new # Nil => old # Nil /\ new.to = old.to

LEMMA SynchronizedFacts ==
  ASSUME NEW ids \in Identities, NEW s \in Session
  PROVE  /\ Synchronized(ids, s) \in Identities
         /\ \A r \in Session : Kept(Synchronized(ids, s)[r], ids[r])
         /\ \A r \in Session :
              \/ Synchronized(ids, s)[r] = ids[r]
              \/ Stale(ids[r]) /\ Synchronized(ids, s)[r].status = "stale-task"
<1>1. \A r \in Session : ids[r] # Nil =>
        /\ ids[r] \in Identity
        /\ [ids[r] EXCEPT !.status = "stale-task", !.fits = TRUE] \in Identity
        /\ [ids[r] EXCEPT !.status = "stale-task", !.fits = TRUE].to = ids[r].to
        /\ [ids[r] EXCEPT !.status = "stale-task", !.fits = TRUE].status = "stale-task"
  BY DEF Identities, Identity, Status
<1>2. \A r \in Session : Stale(ids[r]) => ids[r] # Nil
  BY DEF Stale, Unfinished
<1> QED
  BY <1>1, <1>2 DEF Synchronized, Identities, Kept

LEMMA UpsertedFacts ==
  ASSUME NEW i \in Identity \cup {Nil}, NEW status \in Status, NEW fits \in BOOLEAN
  PROVE  /\ Upserted(i, status, fits) \in Identity /\ Upserted(i, status, fits) # Nil
         /\ Upserted(i, status, fits).status = status
         /\ i = Nil => Upserted(i, status, fits).to = Nil
         /\ i # Nil => Upserted(i, status, fits).to = i.to
<1>1. Nil \notin Identity
  BY NilAssumption
<1>2. CASE i = Nil
  BY <1>1, <1>2 DEF Upserted, Identity
<1>3. CASE i # Nil
  <2>1. Upserted(i, status, fits) = [i EXCEPT !.status = status, !.fits = fits] /\ i \in Identity
    BY <1>3 DEF Upserted
  <2>2. /\ [i EXCEPT !.status = status, !.fits = fits] \in Identity
        /\ [i EXCEPT !.status = status, !.fits = fits].status = status
        /\ [i EXCEPT !.status = status, !.fits = fits].to = i.to
    BY <2>1 DEF Identity
  <2> QED
    BY <1>1, <1>3, <2>1, <2>2
<1> QED
  BY <1>2, <1>3

LEMMA HandedOverFacts ==
  ASSUME NEW ids \in Identities, NEW source \in Session, NEW target \in Session
  PROVE  /\ HandedOver(ids, source, target) \in Identities
         /\ \A r \in Session : r # source => HandedOver(ids, source, target)[r] = ids[r]
         /\ HandedOver(ids, source, target)[source] # Nil =>
              /\ ids[source] # Nil
              /\ HandedOver(ids, source, target)[source].to = target
<1>1. ASSUME ids[source] # Nil
      PROVE  /\ HandedOver(ids, source, target) =
                  [ids EXCEPT ![source] = [ids[source] EXCEPT !.status = "abandoned", !.to = target]]
             /\ ids[source] \in Identity
  BY <1>1 DEF HandedOver, Identities, Identity
<1>2. ASSUME ids[source] # Nil
      PROVE  /\ [ids[source] EXCEPT !.status = "abandoned", !.to = target] \in Identity
             /\ [ids[source] EXCEPT !.status = "abandoned", !.to = target].to = target
  BY <1>1, <1>2 DEF Identity, Status
<1>3. CASE ids[source] = Nil
  BY <1>3 DEF HandedOver
<1>4. CASE ids[source] # Nil
  BY <1>1, <1>2, <1>4 DEF Identities
<1> QED
  BY <1>3, <1>4

LEMMA AbandonedFacts ==
  ASSUME NEW ids \in Identities, NEW s \in Session
  PROVE  /\ Abandoned(ids, s) \in Identities
         /\ \A r \in Session : Kept(Abandoned(ids, s)[r], ids[r])
<1>1. ids[s] # Nil =>
        /\ Abandoned(ids, s) = [ids EXCEPT ![s] = [ids[s] EXCEPT !.status = "abandoned"]]
        /\ [ids[s] EXCEPT !.status = "abandoned"] \in Identity
        /\ [ids[s] EXCEPT !.status = "abandoned"].to = ids[s].to
  BY DEF Abandoned, Identities, Identity, Status
<1>2. ids[s] = Nil => Abandoned(ids, s) = ids
  BY DEF Abandoned
<1> QED
  BY <1>1, <1>2 DEF Identities, Kept

LEMMA OutdatedFacts ==
  /\ \A ids \in Identities :
       Outdated(ids) \in Identities /\ \A r \in Session : Kept(Outdated(ids)[r], ids[r])
  /\ \A held \in [Session -> Preparation \cup {Nil}] :
       /\ Outdated(held) \in [Session -> Preparation \cup {Nil}]
       /\ \A s \in Session : held[s] = Nil => Outdated(held)[s] = Nil
<1>1. ASSUME NEW ids \in Identities
      PROVE  Outdated(ids) \in Identities /\ \A r \in Session : Kept(Outdated(ids)[r], ids[r])
  <2>1. \A r \in Session : ids[r] # Nil =>
          [ids[r] EXCEPT !.fits = FALSE] \in Identity /\ [ids[r] EXCEPT !.fits = FALSE].to = ids[r].to
    BY DEF Identities, Identity
  <2> QED
    BY <2>1 DEF Outdated, Identities, Kept
<1>2. ASSUME NEW held \in [Session -> Preparation \cup {Nil}]
      PROVE  /\ Outdated(held) \in [Session -> Preparation \cup {Nil}]
             /\ \A s \in Session : held[s] = Nil => Outdated(held)[s] = Nil
  <2>1. \A s \in Session : held[s] # Nil => [held[s] EXCEPT !.fits = FALSE] \in Preparation
    BY DEF Preparation
  <2> QED
    BY <2>1 DEF Outdated
<1> QED
  BY <1>1, <1>2

-----------------------------------------------------------------------------
(* Deaths *)

LEMMA DieFacts ==
  ASSUME TypeOK, Die
  PROVE  /\ used' \in Counter /\ used'.deaths = used.deaths + 1
         /\ evaluating' = [s \in Session |-> Nil] /\ preparing' = [s \in Session |-> Nil]
BY DEF TypeOK, Counter, Die

\* A handler ends, or the process died: what is in memory has its type either way.
LEMMA EndOrDieFacts ==
  ASSUME TypeOK, NEW cut \in Nat, NEW last \in Nat, NEW e, NEW q,
         EndOrDie(cut, last, e, q)
  PROVE  \/ /\ cut < last /\ used' \in Counter /\ used'.deaths > 0
            /\ used'.deaths > used.deaths
            /\ evaluating' = [s \in Session |-> Nil] /\ preparing' = [s \in Session |-> Nil]
         \/ cut = last /\ evaluating' = e /\ preparing' = q /\ used' = used
<1>1. used.deaths \in Nat
  BY DEF TypeOK, Counter
<1> QED
  BY <1>1, DieFacts DEF EndOrDie

-----------------------------------------------------------------------------
(* The inductive invariant *)

HasTask(s) == workflow[s] # Nil /\ workflow[s].task

\* Nothing is within the boundary that is protected, or that nobody granted.
Fenced(boundary) == boundary \cap Avoid = {} /\ boundary \subseteq Scope \cup granted

BoundaryInv ==
  /\ manifest # Nil => manifest # {} /\ Fenced(manifest)
  /\ \A s \in Session : workflow[s] # Nil => Fenced(workflow[s].allowed)
  /\ \A s \in Session : evaluating[s] # Nil => Fenced(evaluating[s])

\* As long as the process lives, whoever has an identity has the task, and
\* nobody works on the task without a boundary.
TaskInv ==
  used.deaths = 0 =>
    \A s \in Session :
      /\ HasTask(s) => workflow[s].allowed # {}
      /\ evaluating[s] # Nil => evaluating[s] # {}
      /\ identity[s] # Nil => HasTask(s)

\* Who the task was handed to has it, whatever has become of the source since.
HandoverInv ==
  \A s \in Session :
    identity[s] # Nil /\ identity[s].to # Nil =>
      identity[s].to \in session /\ HasTask(identity[s].to)

Inv == TypeOK /\ BoundaryInv /\ TaskInv /\ HandoverInv

\* How a step may change the workflow of a session,
WorkflowStep(s) ==
  \/ workflow'[s] = workflow[s]
  \/ workflow[s] = Nil /\ workflow'[s] = NewWorkflow
  \/ /\ HasTask(s)' /\ Fenced(workflow[s].allowed)'
     /\ used'.deaths = 0 => workflow'[s].allowed # {}

\* the boundary its evaluation goes by,
EvaluatingStep(s) ==
  \/ evaluating'[s] \in {evaluating[s], Nil}
  \/ /\ Fenced(evaluating[s])'
     /\ used'.deaths = 0 => evaluating'[s] # {}

\* and its identity.
IdentityStep(s) ==
  identity'[s] # Nil =>
    /\ identity[s] # Nil \/ HasTask(s)' \/ used'.deaths > 0
    /\ \/ identity[s] # Nil /\ identity'[s].to = identity[s].to
       \/ identity'[s].to = Nil
       \/ identity'[s].to \in session' /\ HasTask(identity[s].to)'

LEMMA StepInv ==
  ASSUME Inv, TypeOK',
         granted \subseteq granted', session \subseteq session', used'.deaths >= used.deaths,
         manifest' = manifest \/ (manifest' # {} /\ Fenced(manifest)'),
         \A s \in Session : WorkflowStep(s) /\ EvaluatingStep(s) /\ IdentityStep(s)
  PROVE  Inv'
<1>1. used.deaths \in Nat /\ used'.deaths \in Nat
  BY DEF Inv, TypeOK, Counter
<1>2. used'.deaths = 0 => used.deaths = 0
  BY <1>1
<1>3. \A b : Fenced(b) => Fenced(b)'
  BY DEF Fenced
<1>4. /\ NewWorkflow.allowed = {} /\ NewWorkflow.task = FALSE
      /\ Fenced({})'
  BY WorkflowFacts DEF Fenced
<1>5. \A s \in Session : HasTask(s) => HasTask(s)'
  BY DEF WorkflowStep, HasTask
<1>6. BoundaryInv'
  <2>1. manifest' # Nil => manifest' # {} /\ Fenced(manifest)'
    BY <1>3 DEF Inv, BoundaryInv, Fenced
  <2>2. ASSUME NEW s \in Session, workflow'[s] # Nil
        PROVE  Fenced(workflow[s].allowed)'
    <3>1. CASE workflow'[s] = workflow[s]
      BY <2>2, <3>1 DEF Inv, BoundaryInv, Fenced
    <3>2. CASE workflow'[s] = NewWorkflow
      BY <1>4, <3>2 DEF Fenced
    <3> QED
      BY <3>1, <3>2 DEF WorkflowStep
  <2>3. ASSUME NEW s \in Session, evaluating'[s] # Nil
        PROVE  Fenced(evaluating[s])'
    BY <2>3 DEF EvaluatingStep, Inv, BoundaryInv, Fenced
  <2> QED
    BY <2>1, <2>2, <2>3 DEF BoundaryInv
<1>7. TaskInv'
  <2> SUFFICES ASSUME used'.deaths = 0, NEW s \in Session
               PROVE  /\ HasTask(s)' => workflow'[s].allowed # {}
                      /\ evaluating'[s] # Nil => evaluating'[s] # {}
                      /\ identity'[s] # Nil => HasTask(s)'
    BY DEF TaskInv
  <2>1. used.deaths = 0
    BY <1>2
  <2>2. HasTask(s)' => workflow'[s].allowed # {}
    BY <1>4, <2>1 DEF WorkflowStep, Inv, TaskInv, HasTask
  <2>3. evaluating'[s] # Nil => evaluating'[s] # {}
    BY <2>1 DEF EvaluatingStep, Inv, TaskInv
  <2>4. identity'[s] # Nil => HasTask(s)'
    BY <1>1, <1>5, <2>1 DEF IdentityStep, Inv, TaskInv
  <2> QED
    BY <2>2, <2>3, <2>4
<1>8. HandoverInv'
  <2> SUFFICES ASSUME NEW s \in Session, identity'[s] # Nil, identity'[s].to # Nil
               PROVE  identity'[s].to \in session' /\ HasTask(identity[s].to)'
    BY DEF HandoverInv
  <2>1. identity'[s].to \in Session
    BY DEF TypeOK, Identity
  <2>2. CASE identity[s] # Nil /\ identity'[s].to = identity[s].to
    <3>1. identity[s].to \in session /\ HasTask(identity[s].to)
      BY <2>2 DEF Inv, HandoverInv
    <3>2. HasTask(identity'[s].to)
      BY <2>2, <3>1
    <3>3. workflow'[identity'[s].to] # Nil /\ workflow'[identity'[s].to].task
      BY <1>5, <2>1, <3>2 DEF HasTask
    <3> QED
      BY <2>2, <3>1, <3>3 DEF HasTask
  <2> QED
    BY <2>2 DEF IdentityStep
<1> QED
  BY <1>6, <1>7, <1>8 DEF Inv

LEMMA InitInv == Init => Inv
BY DEF Init, Inv, TypeOK, BoundaryInv, TaskInv, HandoverInv, HasTask, Counter, Boundary

-----------------------------------------------------------------------------
(* The user and the editor's hooks *)

LEMMA Types ==
  ASSUME TypeOK
  PROVE  /\ workflow \in Workflows /\ identity \in Identities
         /\ \A s \in Session : /\ workflow[s] \in Workflow \cup {Nil}
                               /\ identity[s] \in Identity \cup {Nil}
         /\ used.deaths \in Nat
BY DEF TypeOK, Workflows, Identities, Counter

LEMMA EditInv ==
  ASSUME Inv, NEW f \in Edited, Edit(f)
  PROVE  Inv'
<1>1. /\ identity' \in Identities /\ preparing' \in [Session -> Preparation \cup {Nil}]
      /\ \A s \in Session : Kept(identity'[s], identity[s])
  BY OutdatedFacts DEF Edit, Inv, TypeOK, Identities
<1>2. TypeOK'
  BY <1>1, FilesAssumption DEF Edit, Inv, TypeOK, Identities, Boundary
<1>3. \A s \in Session : WorkflowStep(s) /\ EvaluatingStep(s) /\ IdentityStep(s)
  BY <1>1 DEF Edit, Kept, WorkflowStep, EvaluatingStep, IdentityStep
<1> QED
  BY <1>2, <1>3, StepInv, Types DEF Edit, Inv

\* safeInitializeWorkflow, whatever else the hook does to identities that are there.
LEMMA HookInv ==
  ASSUME Inv, NEW s \in Session,
         workflow' = workflow \/ workflow' = [workflow EXCEPT ![s] = Initialized(@)],
         identity' \in Identities, \A r \in Session : Kept(identity'[r], identity[r]),
         UNCHANGED <<tree, manifest, session, evaluated, request, evaluating, preparing, granted, used>>
  PROVE  Inv'
<1>1. Initialized(workflow[s]) \in Workflow
  BY Types, WorkflowFacts DEF Inv
<1>2. TypeOK'
  BY <1>1 DEF Inv, TypeOK, Identities
<1>3. \A r \in Session : \/ workflow'[r] = workflow[r]
                         \/ workflow[r] = Nil /\ workflow'[r] = NewWorkflow
  BY Types, WorkflowFacts DEF Inv, Workflows
<1>4. \A r \in Session : WorkflowStep(r) /\ EvaluatingStep(r) /\ IdentityStep(r)
  BY <1>3 DEF Kept, WorkflowStep, EvaluatingStep, IdentityStep
<1> QED
  BY <1>2, <1>4, StepInv, Types DEF Inv

LEMMA HooksInv ==
  ASSUME Inv, NEW s \in Session,
         ChatMessage(s) \/ FileEdited(s) \/ SessionIdle(s) \/ Inspect(s)
  PROVE  Inv'
<1>1. identity \in Identities /\ \A r \in Session : Kept(identity[r], identity[r])
  BY Types DEF Inv, Kept
<1>2. /\ Synchronized(identity, s) \in Identities
      /\ \A r \in Session : Kept(Synchronized(identity, s)[r], identity[r])
  BY <1>1, SynchronizedFacts
<1>3. CASE ChatMessage(s) \/ Inspect(s)
  BY <1>2, <1>3, HookInv DEF ChatMessage, Inspect
<1>4. CASE SessionIdle(s)
  BY <1>1, <1>4, HookInv DEF SessionIdle
<1>5. CASE FileEdited(s)
  <2> DEFINE ids == Synchronized(identity, s)
             touched == [ids EXCEPT ![s].status = "working", ![s].fits = TRUE]
  <2>1. ASSUME identity[s] # Nil
        PROVE  touched \in Identities /\ \A r \in Session : Kept(touched[r], identity[r])
    <3>1. ids[s] = identity[s] /\ ids[s] \in Identity
      BY <1>1, <2>1 DEF Synchronized, Identities
    <3>2. touched = [ids EXCEPT ![s] = [ids[s] EXCEPT !.status = "working", !.fits = TRUE]]
      BY <1>2, <3>1 DEF Identities, Identity
    <3>3. /\ [ids[s] EXCEPT !.status = "working", !.fits = TRUE] \in Identity
          /\ [ids[s] EXCEPT !.status = "working", !.fits = TRUE].to = identity[s].to
      BY <3>1 DEF Identity, Status
    <3> HIDE DEF ids, touched
    <3>4. ids \in Identities /\ \A r \in Session : Kept(ids[r], identity[r])
      BY <1>2 DEF ids
    <3> QED
      BY <2>1, <3>2, <3>3, <3>4 DEF Identities, Kept
  <2>2. (identity' = touched /\ identity[s] # Nil) \/ identity' = ids
    BY <1>5 DEF FileEdited
  <2>3. identity' \in Identities /\ \A r \in Session : Kept(identity'[r], identity[r])
    BY <1>2, <2>1, <2>2
  <2> QED
    BY <1>5, <2>3, HookInv DEF FileEdited
<1> QED
  BY <1>3, <1>4, <1>5

-----------------------------------------------------------------------------
(* prepare *)

\* The identity of a session that writes its own, and those it may take from.
LEMMA OwnFacts ==
  ASSUME NEW ids \in Identities, NEW s \in Session, NEW status \in Status, NEW fits \in BOOLEAN,
         NEW new, new = [ids EXCEPT ![s] = Upserted(@, status, fits)]
  PROVE  /\ new \in Identities
         /\ \A r \in Session : new[r] # Nil =>
              /\ ids[r] # Nil \/ r = s
              /\ (ids[r] # Nil /\ new[r].to = ids[r].to) \/ new[r].to = Nil
<1>1. /\ new[s] \in Identity /\ new[s] # Nil
      /\ new[s].to = Nil \/ (ids[s] # Nil /\ new[s].to = ids[s].to)
  BY UpsertedFacts DEF Identities
<1>2. \A r \in Session \ {s} : new[r] = ids[r]
  BY DEF Identities
<1>3. new \in Identities
  BY <1>1 DEF Identities
<1> QED
  BY <1>1, <1>2, <1>3

LEMMA PrepareWritesInv ==
  ASSUME Inv, NEW s \in Session, NEW m \in Boundary, m # {}, Fenced(m), NEW fits \in BOOLEAN,
         NEW from \in Session \cup {Nil}, NEW repeated \in BOOLEAN, NEW cut \in 1 .. 5,
         PrepareWrites(s, m, fits, from, repeated, cut),
         preparing' \in [Session -> Preparation \cup {Nil}],
         \/ used' \in Counter /\ used'.deaths > 0 /\ used'.deaths > used.deaths
            /\ evaluating' = [q \in Session |-> Nil]
         \/ cut = 5 /\ evaluating' = evaluating /\ used' = used
  PROVE  Inv'
<1> DEFINE own == [identity EXCEPT ![s] = Upserted(@, "working", fits)]
           handed == IF from = Nil THEN own ELSE Synchronized(HandedOver(own, from, s), s)
           w == [workflow EXCEPT ![s] = IF repeated THEN @ ELSE Updated(@, m)]
<1>0. TypeOK /\ identity \in Identities /\ workflow \in Workflows /\ used.deaths \in Nat
  BY Types DEF Inv
<1>1. /\ own \in Identities
      /\ \A r \in Session : own[r] # Nil =>
              /\ identity[r] # Nil \/ r = s
              /\ (identity[r] # Nil /\ own[r].to = identity[r].to) \/ own[r].to = Nil
  BY <1>0, OwnFacts DEF Status
<1>2. /\ manifest' = After(1, cut, manifest, m)
      /\ session' = After(2, cut, session, session \cup {s})
      /\ identity' = After(5, cut, After(3, cut, identity, own), handed)
      /\ repeated => HasTask(s)
      /\ workflow' = After(4, cut, workflow, w)
      /\ UNCHANGED <<tree, evaluated, request, granted>>
  BY DEF PrepareWrites, HasTask
<1> HIDE DEF own
<1>3. /\ handed \in Identities
      /\ \A r \in Session : handed[r] # Nil =>
           own[r] # Nil /\ (handed[r].to = own[r].to \/ handed[r].to = s)
  <2>1. CASE from = Nil
    BY <1>1, <2>1
  <2>2. CASE from \in Session
    <3> DEFINE given == HandedOver(own, from, s)
    <3>1. /\ given \in Identities
          /\ \A r \in Session : given[r] # Nil =>
               own[r] # Nil /\ (given[r].to = own[r].to \/ given[r].to = s)
      <4>1. own \in Identities
        BY <1>1
      <4>2. /\ HandedOver(own, from, s) \in Identities
            /\ \A r \in Session : r # from => HandedOver(own, from, s)[r] = own[r]
            /\ HandedOver(own, from, s)[from] # Nil =>
                 own[from] # Nil /\ HandedOver(own, from, s)[from].to = s
        BY <2>2, <4>1, HandedOverFacts
      <4> HIDE DEF given
      <4>3. given = HandedOver(own, from, s)
        BY DEF given
      <4> QED
        BY <4>2, <4>3
    <3> HIDE DEF given
    <3>2. /\ Synchronized(given, s) \in Identities
          /\ \A r \in Session : Kept(Synchronized(given, s)[r], given[r])
      BY <3>1, SynchronizedFacts
    <3>3. handed = Synchronized(given, s)
      BY <2>2, NilAssumption DEF given
    <3> QED
      BY <3>1, <3>2, <3>3 DEF Kept
  <2> QED
    BY <2>1, <2>2
<1>4. /\ w \in Workflows
      /\ \A r \in Session : r # s => w[r] = workflow[r]
      /\ \/ w[s] = workflow[s] /\ HasTask(s)
         \/ w[s] # Nil /\ w[s].task /\ w[s].allowed = m
  <2>1. /\ Updated(workflow[s], m) \in Workflow /\ Updated(workflow[s], m) # Nil
        /\ Updated(workflow[s], m).task /\ Updated(workflow[s], m).allowed = m
    BY <1>0, UpdatedFacts DEF Workflows
  <2>2. CASE repeated
    <3>1. w = workflow
      BY <1>0, <2>2 DEF Workflows
    <3>2. HasTask(s)
      BY <1>2, <2>2
    <3> HIDE DEF w
    <3> QED
      BY <1>0, <3>1, <3>2
  <2>3. CASE ~repeated
    <3>1. w = [workflow EXCEPT ![s] = Updated(workflow[s], m)]
      BY <2>3
    <3> QED
      BY <1>0, <2>1, <3>1 DEF Workflows
  <2> QED
    BY <2>2, <2>3
<1> HIDE DEF handed, w
<1>5. /\ manifest' \in {manifest, m} /\ session' \in {session, session \cup {s}}
      /\ workflow' \in {workflow, w} /\ identity' \in {identity, own, handed}
      /\ cut < 4 => identity' \in {identity, own}
      /\ cut < 5 => identity' # handed \/ identity' \in {identity, own}
      /\ cut < 3 => identity' = identity
      /\ cut >= 2 => session' = session \cup {s}
      /\ cut >= 4 => workflow' = w
      /\ cut = 5 => identity' = handed
      /\ cut < 5 => used'.deaths > 0
  <2>1. used'.deaths > 0 \/ cut = 5
    OBVIOUS
  <2> QED
    BY <1>2, <2>1, AfterIs
<1>6. TypeOK'
  <2>1. manifest' \in Boundary \cup {Nil} /\ session' \in SUBSET Session
    BY <1>0, <1>5 DEF TypeOK
  <2>2. workflow' \in Workflows /\ identity' \in Identities
    BY <1>0, <1>1, <1>3, <1>4, <1>5
  <2>3. used' \in Counter /\ evaluating' \in [Session -> Boundary \cup {Nil}]
    BY <1>0 DEF TypeOK
  <2> QED
    BY <1>0, <1>2, <2>1, <2>2, <2>3 DEF TypeOK, Identities, Workflows
<1>7. \A r \in Session : WorkflowStep(r)
  <2>1. Fenced(m)'
    BY <1>2 DEF Fenced
  <2>2. \A r \in Session : workflow'[r] = workflow[r] \/ workflow'[r] = w[r]
    BY <1>5
  <2>3. \A r \in Session : r # s => WorkflowStep(r)
    BY <1>4, <2>2 DEF WorkflowStep
  <2>4. WorkflowStep(s)
    BY <1>4, <2>1, <2>2 DEF WorkflowStep, HasTask, Fenced
  <2> QED
    BY <2>3, <2>4
<1>8. \A r \in Session : EvaluatingStep(r)
  BY DEF EvaluatingStep
<1>9. \A r \in Session : IdentityStep(r)
  <2>1. cut >= 4 => HasTask(s)' /\ s \in session'
    BY <1>4, <1>5 DEF HasTask
  <2>2. CASE cut < 5
    BY <1>1, <1>3, <1>5, <2>1, <2>2 DEF IdentityStep
  <2>3. CASE cut = 5
    BY <1>1, <1>3, <1>5, <2>1, <2>3 DEF IdentityStep, HasTask
  <2> QED
    BY <2>2, <2>3
<1>10. /\ granted \subseteq granted' /\ session \subseteq session' /\ used'.deaths >= used.deaths
       /\ manifest' = manifest \/ (manifest' # {} /\ Fenced(manifest)')
  <2>1. used'.deaths >= used.deaths
    BY <1>0 DEF Counter
  <2> QED
    BY <1>2, <1>5, <2>1 DEF Fenced
<1> QED
  BY <1>6, <1>7, <1>8, <1>9, <1>10, StepInv

LEMMA PrepareInv ==
  ASSUME Inv, NEW s \in Session, NEW repeated \in BOOLEAN, NEW cut \in 1 .. 5,
         Prepare(s, repeated, cut) \/ PrepareEnd(s, repeated, cut)
  PROVE  Inv'
<1>0. TypeOK /\ cut \in Nat
  BY DEF Inv
<1>1. CASE Prepare(s, repeated, cut)
  <2>1. manifest \in Boundary /\ manifest # {} /\ Fenced(manifest)
    BY <1>1 DEF Prepare, Inv, TypeOK, BoundaryInv
  <2>2. \/ /\ cut < 5 /\ used' \in Counter /\ used'.deaths > 0 /\ used'.deaths > used.deaths
           /\ evaluating' = [q \in Session |-> Nil] /\ preparing' = [q \in Session |-> Nil]
        \/ cut = 5 /\ evaluating' = evaluating /\ preparing' = preparing /\ used' = used
    BY <1>0, <1>1, EndOrDieFacts DEF Prepare
  <2>3. preparing' \in [Session -> Preparation \cup {Nil}]
    BY <1>0, <2>2 DEF TypeOK
  <2>4. PrepareWrites(s, manifest, TRUE, Nil, repeated, cut)
    BY <1>1 DEF Prepare
  <2> QED
    BY <2>1, <2>2, <2>3, <2>4, PrepareWritesInv
<1>2. CASE PrepareEnd(s, repeated, cut)
  <2> DEFINE left == [preparing EXCEPT ![s] = Nil]
  <2>1. Scope \in Boundary /\ Scope # {} /\ Fenced(Scope)
    BY FilesAssumption DEF Fenced, Boundary
  <2>2. preparing[s].fits \in BOOLEAN /\ preparing[s].from \in Session \cup {Nil}
    BY <1>0, <1>2 DEF PrepareEnd, TypeOK, Preparation
  <2>3. left \in [Session -> Preparation \cup {Nil}]
    BY <1>0 DEF TypeOK
  <2>4. EndOrDie(cut, 5, evaluating, left) /\ preparing[s] # Nil
        /\ PrepareWrites(s, Scope, preparing[s].fits, preparing[s].from, repeated, cut)
    BY <1>2 DEF PrepareEnd
  <2> HIDE DEF left
  <2>5. \/ /\ cut < 5 /\ used' \in Counter /\ used'.deaths > 0 /\ used'.deaths > used.deaths
           /\ evaluating' = [q \in Session |-> Nil] /\ preparing' = [q \in Session |-> Nil]
        \/ cut = 5 /\ evaluating' = evaluating /\ preparing' = left /\ used' = used
    BY <1>0, <2>4, EndOrDieFacts
  <2>6. preparing' \in [Session -> Preparation \cup {Nil}]
    BY <2>3, <2>5
  <2> QED
    BY <2>1, <2>2, <2>4, <2>5, <2>6, PrepareWritesInv
<1> QED
  BY <1>1, <1>2

LEMMA PreparingInv ==
  ASSUME Inv, NEW s \in Session, PrepareBuild(s) \/ PrepareContext(s)
  PROVE  Inv'
<1>1. preparing' \in [Session -> Preparation \cup {Nil}]
  <2>1. CASE PrepareBuild(s)
    BY <2>1 DEF PrepareBuild, Inv, TypeOK, Preparation
  <2>2. CASE PrepareContext(s)
    <3>1. preparing[s] \in Preparation /\ preparing \in [Session -> Preparation \cup {Nil}]
      BY <2>2 DEF PrepareContext, Inv, TypeOK
    <3>2. [preparing[s] EXCEPT !.at = "build", !.fits = TRUE] \in Preparation
      BY <3>1 DEF Preparation
    <3>3. preparing' = [preparing EXCEPT ![s] = [preparing[s] EXCEPT !.at = "build", !.fits = TRUE]]
      BY <2>2, <3>1 DEF PrepareContext, Preparation
    <3> QED
      BY <3>1, <3>2, <3>3
  <2> QED
    BY <2>1, <2>2
<1>2. UNCHANGED <<tree, files, evaluating, granted, used>>
  BY DEF PrepareBuild, PrepareContext
<1>3. TypeOK'
  BY <1>1, <1>2 DEF Inv, TypeOK, files
<1> QED
  BY <1>2, <1>3, StepInv, Types DEF Inv, files, WorkflowStep, EvaluatingStep, IdentityStep

LEMMA DeathInv ==
  ASSUME Inv, Death
  PROVE  Inv'
<1>1. /\ used' \in Counter /\ used'.deaths = used.deaths + 1 /\ used.deaths \in Nat
      /\ evaluating' = [s \in Session |-> Nil] /\ preparing' = [s \in Session |-> Nil]
      /\ UNCHANGED <<tree, files, granted>>
  BY DieFacts, Types DEF Death, Inv
<1>2. TypeOK'
  BY <1>1 DEF Inv, TypeOK, files
<1> QED
  BY <1>1, <1>2, StepInv DEF files, WorkflowStep, EvaluatingStep, IdentityStep

-----------------------------------------------------------------------------
(* evaluate *)

LEMMA EvaluateInv ==
  ASSUME Inv, NEW s \in Session, Evaluate(s)
  PROVE  Inv'
<1> DEFINE b == IF workflow[s] = Nil THEN manifest ELSE workflow[s].allowed
<1>1. /\ b \in Boundary /\ Fenced(b) /\ (used.deaths = 0 => b # {})
  <2>1. CASE workflow[s] = Nil
    BY <2>1 DEF Evaluate, Inv, TypeOK, BoundaryInv
  <2>2. CASE workflow[s] # Nil
    BY <2>2 DEF Evaluate, Inv, TypeOK, Workflow, BoundaryInv, TaskInv, HasTask
  <2> QED
    BY <2>1, <2>2
<1>2. /\ evaluating' = [evaluating EXCEPT ![s] = b]
      /\ used' = [used EXCEPT !.evaluations = @ + 1]
      /\ UNCHANGED <<tree, files, preparing, granted>>
  BY DEF Evaluate
<1> HIDE DEF b
<1>3. used' \in Counter /\ used'.deaths = used.deaths
  BY <1>2 DEF Inv, TypeOK, Counter
<1>4. evaluating \in [Session -> Boundary \cup {Nil}]
  BY DEF Inv, TypeOK
<1>5. TypeOK'
  BY <1>1, <1>2, <1>3, <1>4 DEF Inv, TypeOK, files
<1>6. \A r \in Session : EvaluatingStep(r)
  BY <1>1, <1>2, <1>3, <1>4 DEF EvaluatingStep, Fenced
<1> QED
  BY <1>2, <1>3, <1>5, <1>6, StepInv, Types DEF Inv, files, WorkflowStep, IdentityStep

\* The request of an evaluation, and the one that is kept when it is repeated.
LEMMA RequestFacts ==
  ASSUME TypeOK, NEW boundary \in Boundary, NEW v \in Verdict, NEW expansion \in BOOLEAN,
         NEW old \in Request \cup {Nil}, NEW next,
         next = [ status  |-> "pending", reason |-> ReviewReason(expansion, v),
                  files   |-> IF expansion THEN OutsideAllowed(boundary) ELSE {},
                  current |-> boundary ]
  PROVE  Requested(old, next) \in Request
<1>1. OutsideAllowed(boundary) \in Boundary /\ {} \in Boundary
  BY DEF TypeOK, OutsideAllowed, Boundary
<1>2. ReviewReason(expansion, v) \in {"BOUNDARY_EXPANSION_REQUIRED", "NO_EXECUTABLE_TEST",
                                      "AMBIGUOUS_REPOSITORY_STATE", "UNVERIFIABLE_RESULT"}
  <2>1. v.noTest \in BOOLEAN /\ v.guardsRan \in BOOLEAN
    BY VerdictAssumption
  <2>2. CASE expansion
    BY <2>2 DEF ReviewReason
  <2>3. CASE ~expansion /\ v.noTest
    BY <2>3 DEF ReviewReason
  <2>4. CASE ~expansion /\ ~v.noTest /\ ~v.guardsRan
    BY <2>4 DEF ReviewReason
  <2>5. CASE ~expansion /\ ~v.noTest /\ v.guardsRan
    BY <2>5 DEF ReviewReason
  <2> QED
    BY <2>1, <2>2, <2>3, <2>4, <2>5
<1>3. next \in Request
  BY <1>1, <1>2 DEF Request
<1>4. Requested(old, next) \in {old, next}
  BY DEF Requested
<1>5. Requested(old, next) # next => old # Nil
  BY DEF Requested
<1> QED
  BY <1>3, <1>4, <1>5

LEMMA EvaluateEndInv ==
  ASSUME Inv, NEW s \in Session, NEW v \in Verdict, NEW edited \in SUBSET Edited,
         NEW cut \in 1 .. 4, EvaluateEnd(s, v, edited, cut)
  PROVE  Inv'
<1> DEFINE known     == IF edited = {} THEN identity ELSE Outdated(identity)
           boundary  == evaluating[s]
           expansion == ExpansionRequired(boundary)
           review    == ReviewRequired(expansion, v)
           next      == [ status  |-> "pending", reason |-> ReviewReason(expansion, v),
                          files   |-> IF expansion THEN OutsideAllowed(boundary) ELSE {},
                          current |-> boundary ]
           status    == IF review THEN "human-review" ELSE "working"
           asked     == IF review THEN [request EXCEPT ![s] = Requested(@, next)] ELSE request
           wf        == [workflow EXCEPT ![s] = Updated(@, boundary)]
           action    == IF review THEN "human-review" ELSE v.decision
           judged    == [evaluated EXCEPT ![s] = action]
           stated    == [known EXCEPT ![s] = Upserted(@, status, TRUE)]
           idle      == [evaluating EXCEPT ![s] = Nil]
           builds    == IF edited = {} THEN preparing ELSE Outdated(preparing)
<1>0. /\ TypeOK /\ identity \in Identities /\ workflow \in Workflows /\ used.deaths \in Nat
      /\ evaluated \in [Session -> LoopAction \cup {Nil}]
      /\ request \in [Session -> Request \cup {Nil}]
      /\ evaluating \in [Session -> Boundary \cup {Nil}]
      /\ preparing \in [Session -> Preparation \cup {Nil}]
  BY Types DEF Inv, TypeOK
<1>1. /\ boundary # Nil
      /\ tree' = tree \cup edited
      /\ request' = After(1, cut, request, asked)
      /\ workflow' = After(2, cut, workflow, wf)
      /\ evaluated' = After(3, cut, evaluated, judged)
      /\ identity' = After(4, cut, known, stated)
      /\ UNCHANGED <<manifest, session, granted>>
      /\ EndOrDie(cut, 4, idle, builds)
  BY DEF EvaluateEnd
<1>2. boundary \in Boundary /\ Fenced(boundary) /\ (used.deaths = 0 => boundary # {})
  BY <1>0, <1>1 DEF Inv, BoundaryInv, TaskInv
<1>3. known \in Identities /\ \A r \in Session : Kept(known[r], identity[r])
  BY <1>0, OutdatedFacts DEF Kept
<1>4. expansion \in BOOLEAN /\ status \in Status
  BY DEF ExpansionRequired, Status
<1> HIDE DEF boundary, known, expansion
<1>5. request[s] \in Request \cup {Nil}
  BY <1>0
<1>6. Requested(request[s], next) \in Request
  BY <1>0, <1>2, <1>4, <1>5, RequestFacts
<1> HIDE DEF next
<1>7. asked \in [Session -> Request \cup {Nil}]
  BY <1>0, <1>6
<1>8. wf \in Workflows /\ wf[s] # Nil /\ wf[s].task /\ wf[s].allowed = boundary
      /\ \A r \in Session : r # s => wf[r] = workflow[r]
  <2>1. /\ Updated(workflow[s], boundary) \in Workflow /\ Updated(workflow[s], boundary) # Nil
        /\ Updated(workflow[s], boundary).task /\ Updated(workflow[s], boundary).allowed = boundary
    BY <1>0, <1>2, UpdatedFacts DEF Workflows
  <2> QED
    BY <1>0, <2>1 DEF Workflows
<1>9. judged \in [Session -> LoopAction \cup {Nil}]
  <2>1. action \in LoopAction
    BY VerdictAssumption DEF LoopAction
  <2> QED
    BY <1>0, <2>1
<1> HIDE DEF review, asked, wf, action, judged, status
<1>10. /\ stated \in Identities
       /\ \A r \in Session : stated[r] # Nil =>
            /\ known[r] # Nil \/ r = s
            /\ (known[r] # Nil /\ stated[r].to = known[r].to) \/ stated[r].to = Nil
  <2> DEFINE new == Upserted(known[s], status, TRUE)
  <2>1. known[s] \in Identity \cup {Nil} /\ status \in Status /\ TRUE \in BOOLEAN
    BY <1>3, <1>4 DEF Identities
  <2>2. /\ new \in Identity /\ new # Nil
        /\ known[s] = Nil => new.to = Nil
        /\ known[s] # Nil => new.to = known[s].to
    BY <2>1, UpsertedFacts
  <2>3. stated = [known EXCEPT ![s] = new]
    OBVIOUS
  <2> HIDE DEF new, stated
  <2>4. /\ stated[s] = new /\ stated \in Identities
        /\ \A r \in Session : r # s => stated[r] = known[r]
    BY <1>3, <2>2, <2>3 DEF Identities
  <2> QED
    BY <2>2, <2>4
<1>11. builds \in [Session -> Preparation \cup {Nil}]
  BY <1>0, OutdatedFacts
<1> HIDE DEF stated, idle, builds
<1>12. \/ /\ cut < 4 /\ used' \in Counter /\ used'.deaths > 0 /\ used'.deaths > used.deaths
          /\ evaluating' = [q \in Session |-> Nil] /\ preparing' = [q \in Session |-> Nil]
       \/ cut = 4 /\ evaluating' = idle /\ preparing' = builds /\ used' = used
  BY <1>0, <1>1, EndOrDieFacts
<1>13. /\ workflow' \in {workflow, wf} /\ identity' \in {known, stated}
       /\ request' \in {request, asked} /\ evaluated' \in {evaluated, judged}
       /\ cut = 4 => workflow' = wf
       /\ cut < 4 => identity' = known
  BY <1>1, AfterIs
<1>14. /\ used' \in Counter /\ used'.deaths >= used.deaths
       /\ preparing' \in [Session -> Preparation \cup {Nil}]
       /\ evaluating' \in [Session -> Boundary \cup {Nil}]
       /\ \A r \in Session : evaluating'[r] \in {evaluating[r], Nil}
  <2>1. /\ idle \in [Session -> Boundary \cup {Nil}]
        /\ \A r \in Session : idle[r] \in {evaluating[r], Nil}
    BY <1>0 DEF idle
  <2>2. used \in Counter
    BY <1>0 DEF TypeOK
  <2> QED
    BY <1>0, <1>11, <1>12, <2>1, <2>2 DEF Counter
<1>15. TypeOK'
  <2>1. tree' \in Boundary
    BY <1>0, <1>1, FilesAssumption DEF TypeOK, Boundary
  <2>2. workflow' \in Workflows /\ identity' \in Identities
    BY <1>0, <1>3, <1>8, <1>10, <1>13
  <2>3. request' \in [Session -> Request \cup {Nil}] /\ evaluated' \in [Session -> LoopAction \cup {Nil}]
    BY <1>0, <1>7, <1>9, <1>13
  <2> QED
    BY <1>0, <1>1, <1>14, <2>1, <2>2, <2>3 DEF TypeOK, Workflows, Identities
<1>16. \A r \in Session : WorkflowStep(r)
  <2>1. /\ boundary \cap Avoid = {} /\ boundary \subseteq Scope \cup granted'
        /\ used'.deaths = 0 => boundary # {}
    BY <1>0, <1>1, <1>2, <1>14 DEF Fenced, Counter
  <2>2. \A r \in Session : workflow'[r] = workflow[r] \/ workflow'[r] = wf[r]
    BY <1>13
  <2>3. workflow'[s] = wf[s] => WorkflowStep(s)
    BY <1>8, <2>1 DEF WorkflowStep, HasTask, Fenced
  <2> QED
    BY <1>8, <2>2, <2>3 DEF WorkflowStep
<1>17. \A r \in Session : EvaluatingStep(r)
  BY <1>14 DEF EvaluatingStep
<1>18. \A r \in Session : IdentityStep(r)
  <2>1. cut = 4 => HasTask(s)'
    BY <1>8, <1>13 DEF HasTask
  <2> QED
    BY <1>3, <1>10, <1>13, <2>1 DEF IdentityStep, Kept
<1> QED
  BY <1>1, <1>14, <1>15, <1>16, <1>17, <1>18, StepInv

-----------------------------------------------------------------------------
(* next *)

\* No evaluation has stored an action that finalizes the task.
LEMMA NextActionInv ==
  ASSUME Inv, NEW s \in Session, NextAction(s)
  PROVE  Inv'
<1>1. evaluated[s] \in LoopAction
  BY DEF NextAction, Inv, TypeOK
<1>2. ~IsFinalize(evaluated[s])
  BY <1>1 DEF IsFinalize, LoopAction
<1>3. UNCHANGED vars
  BY <1>2 DEF NextAction, vars, files
<1>4. TypeOK'
  BY <1>3 DEF Inv, TypeOK, vars, files
<1> QED
  BY <1>3, <1>4, StepInv, Types DEF Inv, vars, files, WorkflowStep, EvaluatingStep, IdentityStep

-----------------------------------------------------------------------------
(* human review and resume *)

\* The workflow that a takeover gives the target.
LEMMA TakeoverBoundary ==
  ASSUME Inv, NEW r \in Session, NEW t \in Session, identity[r] # Nil
  PROVE  /\ TakenOver(r, t) \in Workflow /\ TakenOver(r, t) # Nil /\ TakenOver(r, t).task
         /\ Fenced(TakenOver(r, t).allowed)
         /\ used.deaths = 0 => TakenOver(r, t).allowed # {}
<1>1. /\ TakenOver(r, t) \in Workflow /\ TakenOver(r, t) # Nil /\ TakenOver(r, t).task
      /\ \/ TakenOver(r, t) = workflow[t]
         \/ TakenOver(r, t).allowed = Initialized(workflow[r]).allowed
  BY Types, TakenOverFacts DEF Inv
<1>2. CASE TakenOver(r, t) = workflow[t]
  <2>1. HasTask(t)
    BY <1>1, <1>2 DEF HasTask
  <2> QED
    BY <1>1, <1>2, <2>1 DEF Inv, BoundaryInv, TaskInv, HasTask
<1>3. CASE TakenOver(r, t).allowed = Initialized(workflow[r]).allowed
  <2>1. Fenced(Initialized(workflow[r]).allowed)
    <3>1. workflow[r] = Nil => Initialized(workflow[r]).allowed = {}
      BY WorkflowFacts
    <3>2. workflow[r] # Nil => Initialized(workflow[r]) = workflow[r]
      BY Types, WorkflowFacts DEF Inv
    <3> QED
      BY <3>1, <3>2 DEF Fenced, Inv, BoundaryInv
  <2>2. ASSUME used.deaths = 0
        PROVE  Initialized(workflow[r]).allowed # {}
    <3>1. HasTask(r) /\ workflow[r].allowed # {}
      BY <2>2 DEF Inv, TaskInv
    <3>2. Initialized(workflow[r]) = workflow[r]
      BY <3>1, Types, WorkflowFacts DEF Inv, HasTask
    <3> QED
      BY <3>1, <3>2
  <2> QED
    BY <1>1, <1>3, <2>1, <2>2
<1> QED
  BY <1>1, <1>2, <1>3

LEMMA RejectInv ==
  ASSUME Inv, NEW t \in Session, NEW r \in Session, NEW cut \in 1 .. 4, Reject(t, r, cut)
  PROVE  Inv'
<1> DEFINE one == Abandoned(identity, r)
           both == Abandoned(one, t)
           asked == [request EXCEPT ![r].status = "rejected"]
           judged == [evaluated EXCEPT ![t] = "human-review"]
<1>0. TypeOK /\ identity \in Identities /\ used.deaths \in Nat
  BY Types DEF Inv
<1>1. /\ request[r] # Nil
      /\ request' = After(1, cut, request, asked)
      /\ identity' = After(3, cut, After(2, cut, identity, one), both)
      /\ evaluated' = After(4, cut, evaluated, judged)
      /\ UNCHANGED <<tree, manifest, session, workflow, granted>>
      /\ EndOrDie(cut, 4, evaluating, preparing)
  BY DEF Reject
<1>2. one \in Identities /\ \A q \in Session : Kept(one[q], identity[q])
  BY <1>0, AbandonedFacts
<1> HIDE DEF one
<1>3. both \in Identities /\ \A q \in Session : Kept(both[q], identity[q])
  BY <1>2, AbandonedFacts DEF Kept
<1>4. asked \in [Session -> Request \cup {Nil}]
  <2>1. request[r] \in Request /\ request \in [Session -> Request \cup {Nil}]
    BY <1>0, <1>1 DEF TypeOK
  <2>2. [request[r] EXCEPT !.status = "rejected"] \in Request
    BY <2>1 DEF Request
  <2>3. asked = [request EXCEPT ![r] = [request[r] EXCEPT !.status = "rejected"]]
    BY <2>1 DEF Request
  <2> HIDE DEF asked
  <2> QED
    BY <2>1, <2>2, <2>3
<1>5. judged \in [Session -> LoopAction \cup {Nil}]
  BY <1>0 DEF TypeOK, LoopAction
<1> HIDE DEF both, asked, judged
<1>6. /\ request' \in {request, asked} /\ evaluated' \in {evaluated, judged}
      /\ identity' \in {identity, one, both}
  BY <1>1, AfterIs
<1>7. /\ identity' \in Identities /\ \A q \in Session : Kept(identity'[q], identity[q])
  BY <1>0, <1>2, <1>3, <1>6 DEF Kept
<1>8. \/ /\ used' \in Counter /\ used'.deaths > used.deaths
         /\ evaluating' = [q \in Session |-> Nil] /\ preparing' = [q \in Session |-> Nil]
      \/ evaluating' = evaluating /\ preparing' = preparing /\ used' = used
  BY <1>0, <1>1, EndOrDieFacts
<1>9. /\ used' \in Counter /\ used'.deaths >= used.deaths
      /\ preparing' \in [Session -> Preparation \cup {Nil}]
      /\ evaluating' \in [Session -> Boundary \cup {Nil}]
      /\ \A q \in Session : evaluating'[q] \in {evaluating[q], Nil}
  BY <1>0, <1>8 DEF TypeOK, Counter
<1>10. TypeOK'
  BY <1>0, <1>1, <1>4, <1>5, <1>6, <1>7, <1>9 DEF TypeOK, Identities
<1>11. \A q \in Session : WorkflowStep(q) /\ EvaluatingStep(q) /\ IdentityStep(q)
  BY <1>1, <1>7, <1>9 DEF WorkflowStep, EvaluatingStep, IdentityStep, Kept
<1> QED
  BY <1>1, <1>9, <1>10, <1>11, StepInv

\* What the answering session has as its workflow before the approval.
LEMMA TakenFacts ==
  ASSUME Inv, NEW t \in Session, NEW r \in Session, NEW w,
         w = IF t = r THEN workflow[t]
             ELSE IF identity[r] = Nil THEN Initialized(workflow[t])
             ELSE TakenOver(r, t)
  PROVE  /\ w \in Workflow \cup {Nil}
         /\ t # r /\ identity[r] # Nil => w # Nil /\ w.task
         /\ \/ w = workflow[t]
            \/ workflow[t] = Nil /\ w = NewWorkflow
            \/ /\ w # Nil /\ w.task /\ Fenced(w.allowed)
               /\ used.deaths = 0 => w.allowed # {}
<1>1. workflow[t] \in Workflow \cup {Nil}
  BY Types DEF Inv
<1>2. /\ Initialized(workflow[t]) \in Workflow
      /\ workflow[t] # Nil => Initialized(workflow[t]) = workflow[t]
      /\ workflow[t] = Nil => Initialized(workflow[t]) = NewWorkflow
  BY <1>1, WorkflowFacts
<1>3. CASE t = r
  BY <1>1, <1>3
<1>4. CASE t # r /\ identity[r] = Nil
  BY <1>2, <1>4
<1>5. CASE t # r /\ identity[r] # Nil
  <2>1. w = TakenOver(r, t)
    BY <1>5
  <2> QED
    BY <1>5, <2>1, TakeoverBoundary
<1> QED
  BY <1>3, <1>4, <1>5

LEMMA ApproveInv ==
  ASSUME Inv, NEW t \in Session, NEW r \in Session, NEW cut \in 1 .. 8, Approve(t, r, cut)
  PROVE  Inv'
<1> DEFINE expanded == manifest \cup request[r].files
           w == IF t = r THEN workflow[t]
                ELSE IF identity[r] = Nil THEN Initialized(workflow[t])
                ELSE TakenOver(r, t)
           taken == [workflow EXCEPT ![t] = IF t = r THEN @
                                            ELSE IF identity[r] = Nil THEN Initialized(@)
                                            ELSE TakenOver(r, t)]
           final == [taken EXCEPT ![t] = Updated(@, expanded)]
           seen == IF t # r /\ identity[r] # Nil THEN Synchronized(identity, t) ELSE identity
           handed == IF t # r THEN HandedOver(seen, r, t) ELSE seen
           own == [handed EXCEPT ![t] = Upserted(@, "working", TRUE)]
           asked == [request EXCEPT ![r].status = "resumed"]
           judged == [evaluated EXCEPT ![t] = "ready-for-review"]
<1>0. /\ TypeOK /\ identity \in Identities /\ workflow \in Workflows /\ used.deaths \in Nat
      /\ \A q \in Session : Kept(identity[q], identity[q])
  BY Types DEF Inv, Kept
<1>1. /\ request[r] # Nil /\ manifest # Nil /\ request[r].files \cap Avoid = {}
      /\ workflow' = After(5, cut, After(1, cut, workflow, taken), final)
      /\ session' = IF t # r THEN After(2, cut, session, session \cup {t}) ELSE session
      /\ manifest' = After(4, cut, manifest, expanded)
      /\ granted' = After(4, cut, granted, granted \cup request[r].files)
      /\ request' = After(6, cut, request, asked)
      /\ identity' = After(7, cut, After(3, cut, After(1, cut, identity, seen), handed), own)
      /\ evaluated' = After(8, cut, evaluated, judged)
      /\ UNCHANGED tree
      /\ EndOrDie(cut, 8, evaluating, preparing)
  BY DEF Approve, Approvable
<1>2. request[r] \in Request /\ request \in [Session -> Request \cup {Nil}]
  BY <1>0, <1>1 DEF TypeOK
<1>3. /\ expanded \in Boundary /\ expanded # {} /\ expanded \cap Avoid = {}
      /\ expanded \subseteq Scope \cup (granted \cup request[r].files)
      /\ request[r].files \in Boundary
  BY <1>1, <1>2 DEF Inv, TypeOK, BoundaryInv, Fenced, Request, Boundary
<1>4. /\ w \in Workflow \cup {Nil}
      /\ t # r /\ identity[r] # Nil => w # Nil /\ w.task
      /\ \/ w = workflow[t]
         \/ workflow[t] = Nil /\ w = NewWorkflow
         \/ /\ w # Nil /\ w.task /\ Fenced(w.allowed)
            /\ used.deaths = 0 => w.allowed # {}
  BY TakenFacts
<1>5. taken = [workflow EXCEPT ![t] = w]
  BY DEF w
<1> HIDE DEF w, taken, expanded
<1>6. /\ taken \in Workflows /\ taken[t] = w
      /\ \A q \in Session : q # t => taken[q] = workflow[q]
  BY <1>0, <1>4, <1>5 DEF Workflows
<1>7. /\ final \in Workflows /\ final[t] # Nil /\ final[t].task /\ final[t].allowed = expanded
      /\ \A q \in Session : q # t => final[q] = workflow[q]
  <2>1. /\ Updated(taken[t], expanded) \in Workflow /\ Updated(taken[t], expanded) # Nil
        /\ Updated(taken[t], expanded).task /\ Updated(taken[t], expanded).allowed = expanded
    BY <1>3, <1>4, <1>6, UpdatedFacts
  <2> QED
    BY <1>6, <2>1 DEF Workflows
<1>8. seen \in Identities /\ \A q \in Session : Kept(seen[q], identity[q])
  BY <1>0, SynchronizedFacts
<1> HIDE DEF final, seen
<1>9a. /\ handed \in Identities
       /\ \A q \in Session : handed[q] # Nil =>
            /\ identity[q] # Nil
            /\ handed[q].to = identity[q].to \/ (t # r /\ q = r /\ handed[q].to = t)
  <2>1. CASE t # r
    <3>1. /\ HandedOver(seen, r, t) \in Identities
          /\ \A q \in Session : q # r => HandedOver(seen, r, t)[q] = seen[q]
          /\ HandedOver(seen, r, t)[r] # Nil =>
               seen[r] # Nil /\ HandedOver(seen, r, t)[r].to = t
      BY <1>8, HandedOverFacts
    <3>2. handed = HandedOver(seen, r, t)
      BY <2>1
    <3> HIDE DEF handed
    <3> QED
      BY <1>8, <2>1, <3>1, <3>2 DEF Kept
  <2>2. CASE t = r
    BY <1>8, <2>2 DEF Kept
  <2> QED
    BY <2>1, <2>2
<1> DEFINE new == Upserted(handed[t], "working", TRUE)
<1>9b. own = [handed EXCEPT ![t] = new]
  OBVIOUS
<1> HIDE DEF handed, own
<1>9c. /\ new \in Identity /\ new # Nil
       /\ handed[t] = Nil => new.to = Nil
       /\ handed[t] # Nil => new.to = handed[t].to
  <2>1. handed[t] \in Identity \cup {Nil} /\ "working" \in Status /\ TRUE \in BOOLEAN
    BY <1>9a DEF Identities, Status
  <2> QED
    BY <2>1, UpsertedFacts
<1> HIDE DEF new
<1>9. /\ own \in Identities
      /\ \A q \in Session : own[q] # Nil =>
           /\ q = t \/ identity[q] # Nil
           /\ \/ own[q].to = Nil
              \/ identity[q] # Nil /\ own[q].to = identity[q].to
              \/ t # r /\ identity[q] # Nil /\ q = r /\ own[q].to = t
  <2>1. /\ own[t] = new /\ own \in Identities
        /\ \A q \in Session : q # t => own[q] = handed[q]
    BY <1>9a, <1>9b, <1>9c DEF Identities
  <2> QED
    BY <1>9a, <1>9c, <2>1
<1>10. asked \in [Session -> Request \cup {Nil}]
  <2>1. [request[r] EXCEPT !.status = "resumed"] \in Request
    BY <1>2 DEF Request
  <2>2. asked = [request EXCEPT ![r] = [request[r] EXCEPT !.status = "resumed"]]
    BY <1>2 DEF Request
  <2> HIDE DEF asked
  <2> QED
    BY <1>2, <2>1, <2>2
<1>11. judged \in [Session -> LoopAction \cup {Nil}]
  BY <1>0 DEF TypeOK, LoopAction
<1> HIDE DEF asked, judged
<1>12. /\ workflow' = IF cut >= 5 THEN final ELSE taken
       /\ manifest' = IF cut >= 4 THEN expanded ELSE manifest
       /\ granted' = IF cut >= 4 THEN granted \cup request[r].files ELSE granted
       /\ request' \in {request, asked} /\ evaluated' \in {evaluated, judged}
       /\ identity' = IF cut >= 7 THEN own ELSE IF cut >= 3 THEN handed ELSE seen
       /\ session' \in {session, session \cup {t}}
       /\ cut >= 2 /\ t # r => t \in session'
  BY <1>1, AfterIs
<1>13. \/ /\ cut < 8 /\ used' \in Counter /\ used'.deaths > used.deaths
          /\ evaluating' = [q \in Session |-> Nil] /\ preparing' = [q \in Session |-> Nil]
       \/ cut = 8 /\ evaluating' = evaluating /\ preparing' = preparing /\ used' = used
  BY <1>0, <1>1, EndOrDieFacts
<1>14. /\ used' \in Counter /\ used'.deaths >= used.deaths
       /\ preparing' \in [Session -> Preparation \cup {Nil}]
       /\ evaluating' \in [Session -> Boundary \cup {Nil}]
       /\ \A q \in Session : evaluating'[q] \in {evaluating[q], Nil}
  BY <1>0, <1>13 DEF TypeOK, Counter
<1>15. TypeOK'
  <2>1. manifest' \in Boundary \cup {Nil} /\ granted' \in Boundary /\ session' \in SUBSET Session
    BY <1>0, <1>3, <1>12 DEF TypeOK, Boundary
  <2>2. workflow' \in Workflows /\ identity' \in Identities
    BY <1>6, <1>7, <1>8, <1>9, <1>9a, <1>12
  <2>3. request' \in [Session -> Request \cup {Nil}] /\ evaluated' \in [Session -> LoopAction \cup {Nil}]
    BY <1>0, <1>10, <1>11, <1>12 DEF TypeOK
  <2> QED
    BY <1>0, <1>1, <1>14, <2>1, <2>2, <2>3 DEF TypeOK, Workflows, Identities
<1>16. granted \subseteq granted'
  BY <1>12
<1>17. \A q \in Session : WorkflowStep(q)
  <2>1. \A q \in Session : q # t => WorkflowStep(q)
    BY <1>6, <1>7, <1>12 DEF WorkflowStep
  <2>2. CASE cut >= 5
    <3>1. expanded \cap Avoid = {} /\ expanded \subseteq Scope \cup granted' /\ expanded # {}
      BY <1>3, <1>12, <2>2
    <3>2. workflow'[t] # Nil /\ workflow'[t].task /\ workflow'[t].allowed = expanded
      BY <1>7, <1>12, <2>2
    <3> QED
      BY <2>1, <3>1, <3>2 DEF WorkflowStep, HasTask, Fenced
  <2>3. CASE ~(cut >= 5)
    <3>1. workflow'[t] = w
      BY <1>6, <1>12, <2>3
    <3>2. used'.deaths = 0 => used.deaths = 0
      BY <1>0, <1>14 DEF Counter
    <3> QED
      BY <1>4, <1>16, <2>1, <3>1, <3>2 DEF WorkflowStep, HasTask, Fenced
  <2> QED
    BY <2>2, <2>3
<1>18. \A q \in Session : EvaluatingStep(q)
  BY <1>14 DEF EvaluatingStep
<1>19. \A q \in Session : IdentityStep(q)
  <2>1. cut >= 5 \/ (t # r /\ identity[r] # Nil) => HasTask(t)'
    BY <1>4, <1>6, <1>7, <1>12 DEF HasTask
  <2>2. CASE cut >= 7
    <3>1. HasTask(t)' /\ (t # r => t \in session') /\ identity' = own
      BY <1>12, <2>1, <2>2
    <3> QED
      BY <1>9, <3>1 DEF IdentityStep, HasTask
  <2>3. CASE cut >= 3 /\ cut < 7
    <3>1. identity' = handed /\ (t # r => t \in session')
      BY <1>12, <2>3
    <3> QED
      BY <1>9a, <2>1, <3>1 DEF IdentityStep, HasTask
  <2>4. CASE cut < 3
    BY <1>8, <1>12, <2>4 DEF IdentityStep, Kept
  <2>5. cut >= 7 \/ (cut >= 3 /\ cut < 7) \/ cut < 3
    OBVIOUS
  <2> QED
    BY <2>2, <2>3, <2>4, <2>5
<1>20. manifest' = manifest \/ (manifest' # {} /\ Fenced(manifest)')
  BY <1>3, <1>12 DEF Fenced
<1> QED
  BY <1>12, <1>14, <1>15, <1>16, <1>17, <1>18, <1>19, <1>20, StepInv

LEMMA ResumeCompatibleInv ==
  ASSUME Inv, NEW t \in Session, NEW r \in Session, NEW cut \in 1 .. 4, ResumeCompatible(t, r, cut)
  PROVE  Inv'
<1> DEFINE seen   == Synchronized(identity, t)
           handed == HandedOver(seen, r, t)
           new    == Upserted(handed[t], "working", TRUE)
           own    == [handed EXCEPT ![t] = new]
           w      == TakenOver(r, t)
           wf     == [workflow EXCEPT ![t] = w]
<1>0. TypeOK /\ identity \in Identities /\ workflow \in Workflows /\ used.deaths \in Nat
  BY Types DEF Inv
<1>1. /\ t # r /\ Resumable(seen, r)
      /\ session' = After(1, cut, session, session \cup {t})
      /\ workflow' = After(2, cut, workflow, wf)
      /\ identity' = After(4, cut, After(3, cut, seen, handed), own)
      /\ UNCHANGED <<tree, manifest, evaluated, request, granted>>
      /\ \/ cut < 4 /\ Die
         \/ cut = 4 /\ used' = [used EXCEPT !.takeovers = @ + 1]
            /\ UNCHANGED <<evaluating, preparing>>
  BY DEF ResumeCompatible
<1>2. seen \in Identities /\ \A q \in Session : Kept(seen[q], identity[q])
  BY <1>0, SynchronizedFacts
<1> HIDE DEF seen
<1>3. identity[r] # Nil
  BY <1>1, <1>2 DEF Resumable, Unfinished, Kept
<1>4. w \in Workflow /\ w # Nil /\ w.task /\ Fenced(w.allowed) /\ (used.deaths = 0 => w.allowed # {})
  BY <1>3, TakeoverBoundary
<1> HIDE DEF w
<1>5. wf \in Workflows /\ wf[t] = w /\ \A q \in Session : q # t => wf[q] = workflow[q]
  BY <1>0, <1>4 DEF Workflows
<1>6. /\ handed \in Identities
      /\ \A q \in Session : handed[q] # Nil =>
           /\ identity[q] # Nil
           /\ handed[q].to = identity[q].to \/ handed[q].to = t
  <2>1. /\ HandedOver(seen, r, t) \in Identities
        /\ \A q \in Session : q # r => HandedOver(seen, r, t)[q] = seen[q]
        /\ HandedOver(seen, r, t)[r] # Nil =>
             seen[r] # Nil /\ HandedOver(seen, r, t)[r].to = t
    BY <1>2, HandedOverFacts
  <2>2. handed = HandedOver(seen, r, t)
    OBVIOUS
  <2> HIDE DEF handed
  <2> QED
    BY <1>2, <2>1, <2>2 DEF Kept
<1> HIDE DEF handed
<1>7. /\ new \in Identity /\ new # Nil
      /\ handed[t] = Nil => new.to = Nil
      /\ handed[t] # Nil => new.to = handed[t].to
  <2>1. handed[t] \in Identity \cup {Nil} /\ "working" \in Status /\ TRUE \in BOOLEAN
    BY <1>6 DEF Identities, Status
  <2> QED
    BY <2>1, UpsertedFacts
<1> HIDE DEF new
<1>8. /\ own \in Identities /\ own[t] = new
      /\ \A q \in Session : q # t => own[q] = handed[q]
  BY <1>6, <1>7 DEF Identities
<1> HIDE DEF own, wf
<1>9. /\ session' = session \cup {t}
      /\ workflow' = IF cut >= 2 THEN wf ELSE workflow
      /\ identity' = IF cut >= 4 THEN own ELSE IF cut >= 3 THEN handed ELSE seen
  BY <1>1, AfterIs
<1>10. /\ used' \in Counter /\ used'.deaths >= used.deaths
       /\ preparing' \in [Session -> Preparation \cup {Nil}]
       /\ evaluating' \in [Session -> Boundary \cup {Nil}]
       /\ \A q \in Session : evaluating'[q] \in {evaluating[q], Nil}
  <2>1. CASE cut < 4 /\ Die
    BY <1>0, <2>1, DieFacts DEF TypeOK
  <2>2. CASE used' = [used EXCEPT !.takeovers = @ + 1] /\ UNCHANGED <<evaluating, preparing>>
    BY <1>0, <2>2 DEF TypeOK, Counter
  <2> QED
    BY <1>1, <2>1, <2>2
<1>11. TypeOK'
  <2>1. workflow' \in Workflows /\ identity' \in Identities /\ session' \in SUBSET Session
    BY <1>0, <1>2, <1>5, <1>6, <1>8, <1>9 DEF TypeOK
  <2> QED
    BY <1>0, <1>1, <1>10, <2>1 DEF TypeOK, Workflows, Identities
<1>12. \A q \in Session : WorkflowStep(q)
  <2>1. \A q \in Session : workflow'[q] = workflow[q] \/ (q = t /\ workflow'[q] = w)
    BY <1>5, <1>9
  <2>2. used'.deaths = 0 => used.deaths = 0
    BY <1>0, <1>10 DEF Counter
  <2> QED
    BY <1>1, <1>4, <2>1, <2>2 DEF WorkflowStep, HasTask, Fenced
<1>13. \A q \in Session : EvaluatingStep(q)
  BY <1>10 DEF EvaluatingStep
<1>14. \A q \in Session : IdentityStep(q)
  <2>1. t \in session' /\ (cut >= 2 => HasTask(t)')
    BY <1>4, <1>5, <1>9 DEF HasTask
  <2>2. CASE cut >= 4
    <3>1. HasTask(t)' /\ identity' = own
      BY <1>9, <2>1, <2>2
    <3> QED
      BY <1>6, <1>7, <1>8, <2>1, <3>1 DEF IdentityStep, HasTask
  <2>3. CASE cut >= 3 /\ cut < 4
    <3>1. HasTask(t)' /\ identity' = handed
      BY <1>9, <2>1, <2>3
    <3> QED
      BY <1>6, <2>1, <3>1 DEF IdentityStep, HasTask
  <2>4. CASE cut < 3
    BY <1>2, <1>9, <2>4 DEF IdentityStep, Kept
  <2>5. cut >= 4 \/ (cut >= 3 /\ cut < 4) \/ cut < 3
    OBVIOUS
  <2> QED
    BY <2>2, <2>3, <2>4, <2>5
<1> QED
  BY <1>1, <1>9, <1>10, <1>11, <1>12, <1>13, <1>14, StepInv

LEMMA ResumeStaleInv ==
  ASSUME Inv, NEW t \in Session, NEW r \in Session, ResumeStale(t, r)
  PROVE  Inv'
<1> DEFINE wait == [ at |-> "context", fits |-> TRUE, from |-> r ]
<1>1. /\ identity' = Synchronized(identity, t) /\ preparing' = [preparing EXCEPT ![t] = wait]
      /\ used' = [used EXCEPT !.takeovers = @ + 1]
      /\ UNCHANGED <<tree, manifest, session, workflow, evaluated, request, evaluating, granted>>
  BY DEF ResumeStale
<1>2. identity' \in Identities /\ \A q \in Session : Kept(identity'[q], identity[q])
  BY <1>1, Types, SynchronizedFacts DEF Inv
<1>3. wait \in Preparation
  BY DEF Preparation
<1> HIDE DEF wait
<1>4. used' \in Counter /\ used'.deaths = used.deaths
  BY <1>1 DEF Inv, TypeOK, Counter
<1>5. TypeOK'
  BY <1>1, <1>2, <1>3, <1>4 DEF Inv, TypeOK, Identities
<1> QED
  BY <1>1, <1>2, <1>4, <1>5, Types, StepInv DEF Inv, Kept, WorkflowStep, EvaluatingStep, IdentityStep

LEMMA NextInv ==
  ASSUME Inv, [Next]_vars
  PROVE  Inv'
<1>1. CASE UNCHANGED vars
  <2>1. TypeOK'
    BY <1>1 DEF Inv, TypeOK, vars, files
  <2> QED
    BY <1>1, <2>1, StepInv, Types DEF Inv, vars, files, WorkflowStep, EvaluatingStep, IdentityStep
<1>2. CASE \E f \in Edited : Edit(f)
  BY <1>2, EditInv
<1>3. CASE Death
  BY <1>3, DeathInv
<1>4. ASSUME NEW s \in Session,
             \/ ChatMessage(s) \/ FileEdited(s) \/ SessionIdle(s)
             \/ \E repeated \in BOOLEAN, cut \in 1 .. 5 :
                  Prepare(s, repeated, cut) \/ PrepareEnd(s, repeated, cut)
             \/ PrepareBuild(s) \/ PrepareContext(s) \/ Evaluate(s)
             \/ NextAction(s) \/ Inspect(s)
      PROVE  Inv'
  BY <1>4, HooksInv, PrepareInv, PreparingInv, EvaluateInv, NextActionInv
<1>5. ASSUME NEW s \in Session,
             \/ \E v \in Verdict, cut \in 1 .. 4 : EvaluateEnd(s, v, {}, cut)
             \/ \E v \in Verdict, f \in Edited : EvaluateEnd(s, v, {f}, 4)
      PROVE  Inv'
  <2>1. ASSUME NEW v \in Verdict, NEW cut \in 1 .. 4, EvaluateEnd(s, v, {}, cut)
        PROVE  Inv'
    <3>1. {} \in SUBSET Edited
      OBVIOUS
    <3> QED
      BY <2>1, <3>1, EvaluateEndInv
  <2>2. ASSUME NEW v \in Verdict, NEW f \in Edited, EvaluateEnd(s, v, {f}, 4)
        PROVE  Inv'
    <3>1. {f} \in SUBSET Edited /\ 4 \in 1 .. 4
      OBVIOUS
    <3> QED
      BY <2>2, <3>1, EvaluateEndInv
  <2> QED
    BY <1>5, <2>1, <2>2
<1>6. ASSUME NEW s \in Session, NEW r \in Session,
             \/ \E cut \in 1 .. 8 : Approve(s, r, cut)
             \/ \E cut \in 1 .. 4 : Reject(s, r, cut) \/ ResumeCompatible(s, r, cut)
             \/ ResumeStale(s, r)
      PROVE  Inv'
  BY <1>6, ApproveInv, RejectInv, ResumeCompatibleInv, ResumeStaleInv
<1> QED
  BY <1>1, <1>2, <1>3, <1>4, <1>5, <1>6 DEF Next

-----------------------------------------------------------------------------
(* What an evaluation lets pass *)

\* An evaluation ends in EvaluateEnd, or with the process.
LEMMA OnlyEvaluateEnds ==
  ASSUME Inv, NEW t \in Session,
         \/ \E f \in Edited : Edit(f)
         \/ ChatMessage(t) \/ FileEdited(t) \/ SessionIdle(t) \/ Inspect(t)
         \/ PrepareBuild(t) \/ PrepareContext(t) \/ Evaluate(t) \/ NextAction(t)
         \/ \E repeated \in BOOLEAN, cut \in 1 .. 5 :
              Prepare(t, repeated, cut) \/ PrepareEnd(t, repeated, cut)
         \/ \E r \in Session :
              \/ \E cut \in 1 .. 8 : Approve(t, r, cut)
              \/ \E cut \in 1 .. 4 : Reject(t, r, cut) \/ ResumeCompatible(t, r, cut)
              \/ ResumeStale(t, r),
         used'.deaths = used.deaths,
         NEW s \in Session, evaluating[s] # Nil
  PROVE  evaluating'[s] # Nil
<1>0. TypeOK /\ used.deaths \in Nat /\ used.deaths + 1 # used.deaths
  BY Types DEF Inv
<1>1. ASSUME NEW cut \in Nat, NEW last \in Nat, NEW q, EndOrDie(cut, last, evaluating, q)
      PROVE  evaluating'[s] # Nil
  BY <1>0, <1>1, DieFacts DEF EndOrDie
<1>2. ASSUME Die
      PROVE  FALSE
  BY <1>0, <1>2, DieFacts
<1>3. CASE \/ \E f \in Edited : Edit(f)
           \/ ChatMessage(t) \/ FileEdited(t) \/ SessionIdle(t) \/ Inspect(t)
           \/ PrepareBuild(t) \/ PrepareContext(t) \/ NextAction(t)
           \/ \E r \in Session : ResumeStale(t, r)
  BY <1>3 DEF Edit, ChatMessage, FileEdited, SessionIdle, Inspect, PrepareBuild, PrepareContext,
     NextAction, ResumeStale
<1>4. CASE Evaluate(t)
  BY <1>0, <1>4 DEF Evaluate, TypeOK
<1>5. ASSUME NEW cut \in Nat, NEW repeated \in BOOLEAN,
             Prepare(t, repeated, cut) \/ PrepareEnd(t, repeated, cut)
      PROVE  evaluating'[s] # Nil
  BY <1>1, <1>5 DEF Prepare, PrepareEnd
<1>6. ASSUME NEW cut \in Nat, NEW r \in Session, Approve(t, r, cut) \/ Reject(t, r, cut)
      PROVE  evaluating'[s] # Nil
  BY <1>1, <1>6 DEF Approve, Reject
<1>7. ASSUME NEW cut \in Nat, NEW r \in Session, ResumeCompatible(t, r, cut)
      PROVE  evaluating'[s] # Nil
  BY <1>2, <1>7 DEF ResumeCompatible
<1> QED
  BY <1>3, <1>4, <1>5, <1>6, <1>7

\* What passes is within the boundary that the evaluation goes by.
LEMMA EvaluateEndPasses ==
  ASSUME Inv, NEW t \in Session, NEW v \in Verdict, NEW edited, NEW cut \in 1 .. 4,
         EvaluateEnd(t, v, edited, cut),
         used'.deaths = used.deaths,
         NEW s \in Session, evaluating[s] # Nil, evaluating'[s] = Nil, evaluating[s] # {},
         evaluated'[s] # "human-review"
  PROVE  tree \subseteq Scope \cup granted \cup Avoid \/ tree \subseteq Docs
<1>0. TypeOK /\ used.deaths \in Nat /\ used.deaths + 1 # used.deaths
  BY Types DEF Inv
<1>1. cut = 4 /\ evaluating' = [evaluating EXCEPT ![t] = Nil]
  BY <1>0, DieFacts DEF EvaluateEnd, EndOrDie
<1>2. s = t
  BY <1>0, <1>1 DEF TypeOK
<1> DEFINE expansion == ExpansionRequired(evaluating[s])
           action == IF ReviewRequired(expansion, v) THEN "human-review" ELSE v.decision
<1>3. evaluated' = [evaluated EXCEPT ![s] = action]
  BY <1>1, <1>2 DEF EvaluateEnd, After
<1> HIDE DEF action
<1>4. evaluated'[s] = action
  BY <1>0, <1>3 DEF TypeOK
<1>5. ~ReviewRequired(expansion, v)
  BY <1>4 DEF action
<1>6. OutsideAllowed(evaluating[s]) \ Avoid = {} \/ tree \subseteq Docs
  BY <1>5 DEF ReviewRequired, ExpansionRequired
<1>7. evaluating[s] \subseteq Scope \cup granted
  BY DEF Inv, BoundaryInv, Fenced
<1>8. OutsideAllowed(evaluating[s]) = tree \ evaluating[s]
  BY DEF OutsideAllowed
<1> QED
  BY <1>6, <1>7, <1>8

LEMMA NextPasses ==
  ASSUME Inv, Next, used'.deaths = used.deaths,
         NEW s \in Session, evaluating[s] # Nil, evaluating'[s] = Nil, evaluating[s] # {},
         evaluated'[s] # "human-review"
  PROVE  tree \subseteq Scope \cup granted \cup Avoid \/ tree \subseteq Docs
<1>1. CASE Death
  BY <1>1, DieFacts, Types DEF Death, Inv
<1>2. ASSUME NEW t \in Session,
             \/ \E v \in Verdict, cut \in 1 .. 4 : EvaluateEnd(t, v, {}, cut)
             \/ \E v \in Verdict, f \in Edited : EvaluateEnd(t, v, {f}, 4)
      PROVE  tree \subseteq Scope \cup granted \cup Avoid \/ tree \subseteq Docs
  <2>1. 4 \in 1 .. 4
    OBVIOUS
  <2> QED
    BY <1>2, <2>1, EvaluateEndPasses
<1>3. ASSUME NEW f \in Edited, Edit(f)
      PROVE  tree \subseteq Scope \cup granted \cup Avoid \/ tree \subseteq Docs
  BY <1>3 DEF Edit
<1> QED
  BY <1>1, <1>2, <1>3, OnlyEvaluateEnds DEF Next

-----------------------------------------------------------------------------
(* A review that is not taken away *)

\* The task of session s waits for a human review of the present tree.
Awaits(s) == identity[s] # Nil /\ identity[s].status = "human-review" /\ identity[s].fits

Elsewhere(s) == \A t \in Session : preparing[t] = Nil \/ preparing[t].from # s

\* No other session marks it as stale.
LEMMA SynchronizedAwaiting ==
  ASSUME Inv, NEW s \in Session, Awaits(s), NEW t \in Session
  PROVE  Synchronized(identity, t)[s] = identity[s]
<1>1. ~Stale(identity[s])
  BY DEF Awaits, Stale, Compatible, Unfinished
<1> QED
  BY <1>1 DEF Synchronized

LEMMA HooksKeepReview ==
  ASSUME Inv, NEW s \in Session, Awaits(s), NEW t \in Session,
         ChatMessage(t) \/ FileEdited(t) \/ SessionIdle(t) \/ Inspect(t)
           \/ PrepareBuild(t) \/ PrepareContext(t) \/ Evaluate(t) \/ NextAction(t)
           \/ \E r \in Session : ResumeStale(t, r)
  PROVE  identity'[s].status # "abandoned"
<1>1. CASE ChatMessage(t) \/ Inspect(t) \/ \E r \in Session : ResumeStale(t, r)
  <2>1. identity' = Synchronized(identity, t)
    BY <1>1 DEF ChatMessage, Inspect, ResumeStale
  <2> QED
    BY <2>1, SynchronizedAwaiting DEF Awaits
<1>2. CASE SessionIdle(t) \/ PrepareBuild(t) \/ PrepareContext(t) \/ Evaluate(t)
  <2>1. identity' = identity
    BY <1>2 DEF SessionIdle, PrepareBuild, PrepareContext, Evaluate, files
  <2> QED
    BY <2>1 DEF Awaits
<1>3. CASE NextAction(t)
  <2>1. evaluated[t] # "finalize"
    BY <1>3 DEF NextAction, Inv, TypeOK, LoopAction
  <2>2. identity' = identity
    BY <1>3, <2>1 DEF NextAction, IsFinalize
  <2> QED
    BY <2>2 DEF Awaits
<1>4. CASE FileEdited(t)
  <2> DEFINE ids == Synchronized(identity, t)
  <2>1. ids[s] = identity[s] /\ ids[s] \in Identity /\ ids \in Identities
    BY Types, SynchronizedAwaiting, SynchronizedFacts DEF Inv, Awaits
  <2>2. \/ identity' = ids
        \/ identity' = [ids EXCEPT ![t].status = "working", ![t].fits = TRUE]
    BY <1>4 DEF FileEdited
  <2> HIDE DEF ids
  <2>3. CASE identity' = ids
    BY <2>1, <2>3 DEF Awaits
  <2>4. CASE identity' = [ids EXCEPT ![t].status = "working", ![t].fits = TRUE] /\ s # t
    BY <2>1, <2>4 DEF Awaits, Identities
  <2>5. CASE identity' = [ids EXCEPT ![t].status = "working", ![t].fits = TRUE] /\ s = t
    BY <2>1, <2>5 DEF Identities, Identity
  <2> QED
    BY <2>2, <2>3, <2>4, <2>5
<1> QED
  BY <1>1, <1>2, <1>3, <1>4

\* What a session writes to its own identity.
LEMMA OwnStatus ==
  ASSUME NEW ids \in Identities, NEW t \in Session, NEW status \in Status, NEW fits \in BOOLEAN
  PROVE  /\ [ids EXCEPT ![t] = Upserted(@, status, fits)] \in Identities
         /\ [ids EXCEPT ![t] = Upserted(@, status, fits)][t].status = status
         /\ \A q \in Session : q # t => [ids EXCEPT ![t] = Upserted(@, status, fits)][q] = ids[q]
BY UpsertedFacts DEF Identities

LEMMA PrepareKeepsReview ==
  ASSUME Inv, NEW s \in Session, Awaits(s), NEW t \in Session, NEW repeated \in BOOLEAN,
         NEW m, NEW fits \in BOOLEAN, NEW from \in (Session \cup {Nil}) \ {s}, NEW cut \in 1 .. 5,
         PrepareWrites(t, m, fits, from, repeated, cut)
  PROVE  identity'[s].status # "abandoned"
<1> DEFINE own == [identity EXCEPT ![t] = Upserted(@, "working", fits)]
           given == HandedOver(own, from, t)
<1>1. own \in Identities /\ own[s].status \in {"working", "human-review"}
  BY OwnStatus, Types DEF Inv, Status, Awaits
<1> HIDE DEF own
<1>2. from \in Session => given \in Identities /\ given[s] = own[s]
  BY <1>1, HandedOverFacts
<1> HIDE DEF given
<1>3. from \in Session =>
        Synchronized(given, t)[s].status \in {"working", "human-review", "stale-task"}
  BY <1>1, <1>2, SynchronizedFacts
<1>4. \/ identity' = identity \/ identity' = own
      \/ from \in Session /\ identity' = Synchronized(given, t)
  BY AfterIs DEF PrepareWrites, own, given, After
<1> QED
  BY <1>1, <1>3, <1>4 DEF Awaits

LEMMA EvaluateEndKeepsReview ==
  ASSUME Inv, NEW s \in Session, Awaits(s), NEW t \in Session, NEW v \in Verdict, NEW edited,
         NEW cut \in 1 .. 4, EvaluateEnd(t, v, edited, cut)
  PROVE  identity'[s].status # "abandoned"
<1> DEFINE known  == IF edited = {} THEN identity ELSE Outdated(identity)
           status == IF ReviewRequired(ExpansionRequired(evaluating[t]), v)
                     THEN "human-review" ELSE "working"
           stated == [known EXCEPT ![t] = Upserted(@, status, TRUE)]
<1>1. known \in Identities /\ known[s].status = "human-review"
  <2>1. identity[s] \in Identity /\ identity[s] # Nil /\ identity[s].status = "human-review"
    BY Types DEF Inv, Awaits
  <2>2. [identity[s] EXCEPT !.fits = FALSE].status = "human-review"
    BY <2>1 DEF Identity
  <2> QED
    BY <2>1, <2>2, OutdatedFacts, Types DEF Inv, Outdated
<1>2. status \in {"human-review", "working"}
  OBVIOUS
<1>3. identity' = known \/ identity' = stated
  BY DEF EvaluateEnd, After
<1> HIDE DEF known, status
<1> DEFINE new == Upserted(known[t], status, TRUE)
<1>4. new.status = status
  <2>1. known[t] \in Identity \cup {Nil} /\ status \in Status /\ TRUE \in BOOLEAN
    BY <1>1, <1>2 DEF Identities, Status
  <2> QED
    BY <2>1, UpsertedFacts
<1>5. stated = [known EXCEPT ![t] = new]
  OBVIOUS
<1> HIDE DEF new, stated
<1>6. stated[s] = new \/ stated[s] = known[s]
  BY <1>1, <1>5 DEF Identities
<1> QED
  BY <1>1, <1>2, <1>3, <1>4, <1>6

\* A resume refuses the candidate, or dies, or takes over another one.
LEMMA ResumeKeepsReview ==
  ASSUME Inv, NEW s \in Session, Awaits(s), NEW t \in Session, NEW r \in Session,
         NEW cut \in 1 .. 4, ResumeCompatible(t, r, cut), used'.deaths = used.deaths
  PROVE  identity'[s].status # "abandoned"
<1> DEFINE seen == Synchronized(identity, t)
           handed == HandedOver(seen, r, t)
           new == Upserted(handed[t], "working", TRUE)
           own == [handed EXCEPT ![t] = new]
<1>1. seen \in Identities /\ seen[s] = identity[s]
  BY Types, SynchronizedFacts, SynchronizedAwaiting DEF Inv
<1>2. ~Die
  BY DieFacts, Types DEF Inv
<1>3. Resumable(seen, r) /\ identity' = own
  BY <1>2 DEF ResumeCompatible, After
<1> HIDE DEF seen
<1>4. r # s
  BY <1>1, <1>3 DEF Resumable, Awaits
<1>5. handed \in Identities /\ handed[s] = seen[s]
  BY <1>1, <1>4, HandedOverFacts
<1> HIDE DEF handed
<1>6. new.status = "working"
  <2>1. handed[t] \in Identity \cup {Nil} /\ "working" \in Status /\ TRUE \in BOOLEAN
    BY <1>5 DEF Identities, Status
  <2> QED
    BY <2>1, UpsertedFacts
<1> HIDE DEF new
<1>7. own[s] = new \/ own[s] = handed[s]
  BY <1>5 DEF Identities
<1> QED
  BY <1>1, <1>3, <1>5, <1>6, <1>7 DEF Awaits

\* The answer of a human changes the request, or the process dies first.
LEMMA AnswerChangesRequest ==
  ASSUME Inv, NEW t \in Session, NEW r \in Session, used'.deaths = used.deaths,
         (\E cut \in 1 .. 8 : Approve(t, r, cut)) \/ (\E cut \in 1 .. 4 : Reject(t, r, cut))
  PROVE  request' # request
<1>0. ~Die /\ request \in [Session -> Request \cup {Nil}]
  BY DieFacts, Types DEF Inv, TypeOK
<1>1. request[r] # Nil /\ request[r].status = "pending" /\ request[r] \in Request
  BY <1>0 DEF Approve, Approvable, Reject
<1>2. \/ request' = [request EXCEPT ![r].status = "resumed"]
      \/ request' = [request EXCEPT ![r].status = "rejected"]
  <2>1. ASSUME NEW cut \in 1 .. 8, Approve(t, r, cut)
        PROVE  request' = [request EXCEPT ![r].status = "resumed"]
    <3>1. cut = 8
      BY <1>0, <2>1 DEF Approve, EndOrDie
    <3> QED
      BY <2>1, <3>1 DEF Approve, After
  <2>2. ASSUME NEW cut \in 1 .. 4, Reject(t, r, cut)
        PROVE  request' = [request EXCEPT ![r].status = "rejected"]
    BY <2>2 DEF Reject, After
  <2> QED
    BY <2>1, <2>2
<1>3. request'[r].status \in {"resumed", "rejected"}
  BY <1>0, <1>1, <1>2 DEF Request
<1> QED
  BY <1>1, <1>3

LEMMA DeathsGrow ==
  ASSUME Inv, Next
  PROVE  used'.deaths >= used.deaths
<1>0. TypeOK /\ used.deaths \in Nat /\ used \in Counter
  BY Types DEF Inv, TypeOK
<1>1. Die => used'.deaths >= used.deaths
  BY <1>0, DieFacts
<1>2. \A cut, last, e, q : EndOrDie(cut, last, e, q) => used'.deaths >= used.deaths
  BY <1>0, <1>1 DEF EndOrDie
<1>3. CASE Death
  BY <1>1, <1>3 DEF Death
<1>4. ASSUME NEW t \in Session,
             Evaluate(t) \/ \E r \in Session : ResumeStale(t, r)
      PROVE  used'.deaths >= used.deaths
  BY <1>0, <1>4 DEF Evaluate, ResumeStale, Counter
<1>5. ASSUME NEW t \in Session, NEW r \in Session, NEW cut, ResumeCompatible(t, r, cut)
      PROVE  used'.deaths >= used.deaths
  BY <1>0, <1>1, <1>5 DEF ResumeCompatible, Counter
<1>6. ASSUME NEW t, NEW r, NEW repeated, NEW cut, NEW v, NEW edited,
             \/ Approve(t, r, cut) \/ Reject(t, r, cut) \/ Prepare(t, repeated, cut)
             \/ PrepareEnd(t, repeated, cut) \/ EvaluateEnd(t, v, edited, cut)
      PROVE  used'.deaths >= used.deaths
  BY <1>2, <1>6 DEF Approve, Reject, Prepare, PrepareEnd, EvaluateEnd
<1>7. ASSUME NEW t,
             \/ \E f \in Edited : Edit(f)
             \/ ChatMessage(t) \/ FileEdited(t) \/ SessionIdle(t) \/ Inspect(t)
             \/ PrepareBuild(t) \/ PrepareContext(t) \/ NextAction(t)
      PROVE  used'.deaths >= used.deaths
  <2>1. used' = used
    BY <1>7, Zenon DEF Edit, ChatMessage, FileEdited, SessionIdle, Inspect, PrepareBuild,
       PrepareContext, NextAction
  <2> QED
    BY <1>0, <2>1
<1> QED
  BY <1>3, <1>4, <1>5, <1>6, <1>7 DEF Next

LEMMA NextKeepsReview ==
  ASSUME Inv, Next, NEW s \in Session, Awaits(s), Elsewhere(s),
         request' = request, used'.deaths = used.deaths
  PROVE  identity'[s].status # "abandoned"
<1>0. TypeOK /\ used.deaths \in Nat
  BY Types DEF Inv
<1>1. ASSUME NEW f \in Edited, Edit(f)
      PROVE  identity'[s].status # "abandoned"
  <2>1. identity[s] \in Identity /\ identity[s] # Nil /\ identity[s].status = "human-review"
    BY Types DEF Inv, Awaits
  <2>2. identity'[s] = [identity[s] EXCEPT !.fits = FALSE]
    BY <1>1, <2>1 DEF Edit, Outdated
  <2> QED
    BY <2>1, <2>2 DEF Identity
<1>2. CASE Death
  BY <1>0, <1>2, DieFacts DEF Death
<1>3. ASSUME NEW t \in Session, NEW repeated \in BOOLEAN, NEW cut \in 1 .. 5,
             Prepare(t, repeated, cut) \/ PrepareEnd(t, repeated, cut)
      PROVE  identity'[s].status # "abandoned"
  <2>1. CASE Prepare(t, repeated, cut)
    <3>1. PrepareWrites(t, manifest, TRUE, Nil, repeated, cut)
      BY <2>1 DEF Prepare
    <3>2. Nil \in (Session \cup {Nil}) \ {s} /\ TRUE \in BOOLEAN
      BY NilAssumption
    <3> QED
      BY <3>1, <3>2, PrepareKeepsReview
  <2>2. CASE PrepareEnd(t, repeated, cut)
    <3>1. PrepareWrites(t, Scope, preparing[t].fits, preparing[t].from, repeated, cut)
      BY <2>2 DEF PrepareEnd
    <3>2. preparing[t] # Nil /\ preparing[t] \in Preparation /\ preparing[t].from # s
      BY <1>0, <2>2 DEF PrepareEnd, TypeOK, Elsewhere
    <3>3. preparing[t].from \in (Session \cup {Nil}) \ {s} /\ preparing[t].fits \in BOOLEAN
      BY <3>2 DEF Preparation
    <3> QED
      BY <3>1, <3>3, PrepareKeepsReview
  <2> QED
    BY <1>3, <2>1, <2>2
<1>4. ASSUME NEW t \in Session,
             \/ \E v \in Verdict, cut \in 1 .. 4 : EvaluateEnd(t, v, {}, cut)
             \/ \E v \in Verdict, f \in Edited : EvaluateEnd(t, v, {f}, 4)
      PROVE  identity'[s].status # "abandoned"
  <2>1. 4 \in 1 .. 4
    OBVIOUS
  <2> QED
    BY <1>4, <2>1, EvaluateEndKeepsReview
<1>5. ASSUME NEW t \in Session, NEW r \in Session,
             \/ \E cut \in 1 .. 8 : Approve(t, r, cut)
             \/ \E cut \in 1 .. 4 : Reject(t, r, cut) \/ ResumeCompatible(t, r, cut)
      PROVE  identity'[s].status # "abandoned"
  BY <1>5, AnswerChangesRequest, ResumeKeepsReview
<1> QED
  BY <1>1, <1>2, <1>3, <1>4, <1>5, HooksKeepReview DEF Next

-----------------------------------------------------------------------------
(* Theorems *)

(***************************************************************************)
(* The inductive invariant of the handlers that share the task: every       *)
(* boundary in a file or in flight is protected and granted, whoever has an *)
(* identity has the task, and so does whoever it was handed to.             *)
(***************************************************************************)
THEOREM Invariance == Spec => []Inv
BY InitInv, NextInv, PTL DEF Spec

(***************************************************************************)
(* The files of the plugin harness have their types (state.ts, store.ts).   *)
(***************************************************************************)
THEOREM TypeCorrect == Spec => []TypeOK
<1>1. Inv => TypeOK
  BY DEF Inv
<1> QED
  BY <1>1, Invariance, PTL

(***************************************************************************)
(* A task that is abandoned in favour of another session is in the hands of *)
(* that session, after whichever write the process died (resume.ts).        *)
(***************************************************************************)
THEOREM HandoverIsSafe == Spec => []HandoverKeepsTheTask
<1>1. Inv => HandoverKeepsTheTask
  <2> SUFFICES ASSUME Inv, NEW r \in Session, NEW t \in Session,
                      identity[r] # Nil, identity[r].to = t
               PROVE  t \in session /\ workflow[t] # Nil /\ workflow[t].task
    BY DEF HandoverKeepsTheTask
  <2>1. identity[r].to # Nil
    BY NilAssumption
  <2> QED
    BY <2>1 DEF Inv, HandoverInv, HasTask
<1> QED
  BY <1>1, Invariance, PTL

(***************************************************************************)
(* No approval, evaluation or takeover, in whatever order of handlers and   *)
(* deaths, brings a protected path into an edit boundary (review.ts).       *)
(***************************************************************************)
THEOREM ProtectedStaysProtected == Spec => []BoundariesStayProtected
<1>1. Inv => BoundariesStayProtected
  BY DEF Inv, BoundaryInv, Fenced, BoundariesStayProtected
<1> QED
  BY <1>1, Invariance, PTL

(***************************************************************************)
(* A session works on the task without an edit boundary only after a death  *)
(* of the process between two writes of a prepare (prepare.ts, resume.ts).  *)
(***************************************************************************)
THEOREM BoundedWhileAlive == Spec => []UnboundedOnlyAfterDeath
<1>1. Inv => UnboundedOnlyAfterDeath
  BY Types DEF Inv, TaskInv, HasTask, UnboundedOnlyAfterDeath
<1> QED
  BY <1>1, Invariance, PTL

(***************************************************************************)
(* An evaluation that does not ask for a human passes only files of the     *)
(* scope, files a human granted and files left to the policy (evaluate.ts). *)
(***************************************************************************)
THEOREM OnlyGrantedPasses == Spec => PassesOnlyWhatWasGranted
<1>1. Inv /\ [Next]_vars =>
        [ \A s \in Session :
            evaluating[s] # Nil /\ evaluating'[s] = Nil /\ used'.deaths = used.deaths
            /\ evaluating[s] # {} /\ evaluated'[s] # "human-review"
            => \/ tree \subseteq Scope \cup granted \cup Avoid
               \/ tree \subseteq Docs ]_vars
  BY NextPasses
<1> QED
  BY <1>1, Invariance, PTL DEF Spec, PassesOnlyWhatWasGranted

(***************************************************************************)
(* No resume, rebuild or evaluation takes away a task that waits for a      *)
(* human review of the present tree (resume.ts).                            *)
(***************************************************************************)
THEOREM ReviewHolds == Spec => ReviewOfThisTreeHolds
<1>1. ASSUME Inv, [Next]_vars
      PROVE  [ \A s \in Session :
                 identity[s] # Nil /\ identity[s].status = "human-review" /\ identity[s].fits
                 /\ identity'[s].status = "abandoned"
                 /\ (\A t \in Session : preparing[t] = Nil \/ preparing[t].from # s)
                 => request' # request \/ used'.deaths > used.deaths ]_vars
  <2> SUFFICES ASSUME Next, NEW s \in Session,
                      Awaits(s), Elsewhere(s), identity'[s].status = "abandoned",
                      request' = request
               PROVE  used'.deaths > used.deaths
    BY <1>1 DEF Awaits, Elsewhere
  <2>1. used'.deaths \in Nat /\ used.deaths \in Nat
    BY <1>1, NextInv, Types DEF Inv, TypeOK, Counter
  <2>3. used'.deaths # used.deaths
    BY <1>1, NextKeepsReview
  <2>2. used'.deaths >= used.deaths
    BY <1>1, DeathsGrow
  <2> QED
    BY <2>1, <2>2, <2>3
<1> QED
  BY <1>1, Invariance, PTL DEF Spec, ReviewOfThisTreeHolds
=============================================================================
