---------------------------- MODULE PluginWorkflow ----------------------------
(***************************************************************************)
(* One task of the plugin harness, worked on from several editor sessions. *)
(* Everything the sessions share is on disk: the manifest of the task with  *)
(* its edit boundary, and per session a workflow, an evaluation, an         *)
(* identity (by which another session finds the task) and a request for     *)
(* human review.                                                            *)
(*                                                                          *)
(* One Node process serves all sessions.  A handler without an await is     *)
(* atomic for the other handlers; evaluate and the rebuilding prepare await *)
(* a context, and any other handler may run meanwhile, also after the       *)
(* caller was told of a timeout.  The user edits the tree at any time.  The *)
(* process may die between any two writes of a handler.                     *)
(***************************************************************************)
EXTENDS Naturals

CONSTANTS
  Session,         \* editor sessions
  File,            \* files of the repository
  Scope,           \* allowedEditGlobs of a manifest that was just built
  Avoid,           \* avoidEditGlobs of the manifest
  Docs,            \* documentation paths
  Verdict,         \* what loop controller, policy and guards may find
  Edited,          \* bound: the files anybody edits
  MaxEvaluations,  \* bound: evaluations begun
  MaxTakeovers,    \* bound: resumes begun
  MaxDeaths,       \* bound: deaths of the process
  MaxUsed,         \* bound: the three together
  Nil              \* a file that is not there

LoopAction == { "start-agent", "rebuild-context", "replan", "expand-context", "repair-contracts",
                "add-or-update-tests", "run-tests", "human-review", "ready-for-review" }

ASSUME FilesAssumption == Scope \subseteq File /\ Scope # {} /\ Avoid \subseteq File
                          /\ Docs \subseteq File /\ Edited \subseteq File /\ Scope \cap Avoid = {}
ASSUME VerdictAssumption ==
  Verdict \subseteq [ decision : LoopAction, noTest : BOOLEAN, guardsRan : BOOLEAN ]

VARIABLES
  tree,       \* the files that differ from HEAD
  manifest,   \* runs/<task>/run.json: its allowedEditGlobs
  session,    \* sessions with a plugin-session file for the task
  workflow,   \* plugin-workflow-<session>.json
  evaluated,  \* plugin-evaluate-<session>.json
  identity,   \* task-identity-<task>-<session>.json
  request,    \* human-review-<task>-<session>.json
  evaluating, \* evaluation in flight: the boundary it read
  preparing,  \* rebuilding prepare in flight
  granted,    \* ghost: files a human ever approved
  used        \* ghost: the bounded counters

files == <<manifest, session, workflow, evaluated, identity, request>>
vars == <<tree, files, evaluating, preparing, granted, used>>

-----------------------------------------------------------------------------
(* Types *)

Boundary == SUBSET File

Workflow == [ task : BOOLEAN, allowed : Boundary, from : Session \cup {Nil} ]

\* "working" stands for active, dirty and verification-required, which no
\* handler tells apart.
Status == { "working", "human-review", "stale-task", "completed", "abandoned" }

\* Instead of the fingerprint of the latest known tree: whether it is that of
\* the present one.  An edit makes a content that was not there before.
Identity == [ status : Status, fits : BOOLEAN, to : Session \cup {Nil} ]

Request == [ status : {"pending", "rejected", "resumed"},
             reason : {"BOUNDARY_EXPANSION_REQUIRED", "NO_EXECUTABLE_TEST",
                       "AMBIGUOUS_REPOSITORY_STATE", "UNVERIFIABLE_RESULT"},
             files : Boundary, current : Boundary ]

\* A stale task is rebuilt from the session it is taken from.
Preparation == [ at : {"context", "build"}, fits : BOOLEAN, from : Session \cup {Nil} ]

Counter == [ evaluations : Nat, takeovers : Nat, deaths : Nat ]

ASSUME NilAssumption ==
  /\ Nil \notin Session /\ Nil \notin LoopAction /\ \A b \in Boundary : b # Nil
  /\ Nil \notin Workflow /\ Nil \notin Identity /\ Nil \notin Request /\ Nil \notin Preparation

TypeOK ==
  /\ tree \in Boundary
  /\ manifest \in Boundary \cup {Nil}
  /\ session \in SUBSET Session
  /\ workflow \in [Session -> Workflow \cup {Nil}]
  /\ evaluated \in [Session -> LoopAction \cup {Nil}]
  /\ identity \in [Session -> Identity \cup {Nil}]
  /\ request \in [Session -> Request \cup {Nil}]
  /\ evaluating \in [Session -> Boundary \cup {Nil}]
  /\ preparing \in [Session -> Preparation \cup {Nil}]
  /\ granted \in Boundary
  /\ used \in Counter

Init ==
  /\ tree = {}
  /\ manifest = Nil
  /\ session = {}
  /\ workflow = [s \in Session |-> Nil]
  /\ evaluated = [s \in Session |-> Nil]
  /\ identity = [s \in Session |-> Nil]
  /\ request = [s \in Session |-> Nil]
  /\ evaluating = [s \in Session |-> Nil]
  /\ preparing = [s \in Session |-> Nil]
  /\ granted = {}
  /\ used = [ evaluations |-> 0, takeovers |-> 0, deaths |-> 0 ]

-----------------------------------------------------------------------------
(* Deaths.  A handler that makes the writes 1 .. last is an action with a   *)
(* parameter: the number of the last write that was made.                    *)

After(write, cut, old, new) == IF write <= cut THEN new ELSE old

Spendable == used.evaluations + used.takeovers + used.deaths < MaxUsed

Die ==
  /\ used.deaths < MaxDeaths /\ Spendable
  /\ used' = [used EXCEPT !.deaths = @ + 1]
  /\ evaluating' = [s \in Session |-> Nil]
  /\ preparing' = [s \in Session |-> Nil]

\* What is in memory after a handler that ends, or dies after the cut.
EndOrDie(cut, last, nextEvaluating, nextPreparing) ==
  \/ cut < last /\ Die
  \/ cut = last /\ evaluating' = nextEvaluating /\ preparing' = nextPreparing
     /\ UNCHANGED used

-----------------------------------------------------------------------------
(* Workflow and identity files *)

NewWorkflow == [ task |-> FALSE, allowed |-> {}, from |-> Nil ]

\* initializeWorkflowState
Initialized(w) == IF w = Nil THEN NewWorkflow ELSE w

\* updateWorkflowState
Updated(w, boundary) == [ Initialized(w) EXCEPT !.task = TRUE, !.allowed = boundary ]

\* Mutant: a takeover that does not copy the boundary of the source.
TakenOverUnbounded(source, target) ==
  IF workflow[target] # Nil /\ workflow[target].task /\ workflow[target].from = source
  THEN workflow[target]
  ELSE [ task |-> TRUE, from |-> source, allowed |-> {} ]

\* resumeWorkflowState
TakenOver(source, target) ==
  IF workflow[target] # Nil /\ workflow[target].task /\ workflow[target].from = source
  THEN workflow[target]
  ELSE [ task |-> TRUE, from |-> source,
         allowed |-> Initialized(workflow[source]).allowed ]

Unfinished(i) == i # Nil /\ i.status \notin {"completed", "abandoned"}

\* classifyTaskIdentity
Compatible(i) == Unfinished(i) /\ i.fits /\ i.status # "stale-task"
Stale(i) == Unfinished(i) /\ ~Compatible(i)

\* synchronizeTaskResumeCandidates, called for a session
Synchronized(ids, s) ==
  [r \in Session |->
     IF r # s /\ Stale(ids[r])
     THEN [ids[r] EXCEPT !.status = "stale-task", !.fits = TRUE]
     ELSE ids[r]]

\* upsertTaskIdentityForState, writeTaskIdentity
Upserted(i, status, fits) ==
  IF i = Nil THEN [ status |-> status, fits |-> fits, to |-> Nil ]
  ELSE [i EXCEPT !.status = status, !.fits = fits]

\* updateTaskIdentity of a session that was taken over
HandedOver(ids, source, target) ==
  IF ids[source] = Nil THEN ids
  ELSE [ids EXCEPT ![source].status = "abandoned", ![source].to = target]

\* Mutant: the status of the request is written to the identity.
AbandonedAsRejected(ids, s) == IF ids[s] = Nil THEN ids ELSE [ids EXCEPT ![s].status = "rejected"]

\* updateTaskIdentityIfPresent
Abandoned(ids, s) == IF ids[s] = Nil THEN ids ELSE [ids EXCEPT ![s].status = "abandoned"]

-----------------------------------------------------------------------------
(* The user, the editor's hooks *)

\* No fingerprint taken before the edit fits any more.
Outdated(held) ==
  [s \in Session |-> IF held[s] = Nil THEN Nil ELSE [held[s] EXCEPT !.fits = FALSE]]

\* An edit makes a content that was not there before; none is taken back.
Edit(f) ==
  /\ tree' = tree \cup {f}
  /\ identity' = Outdated(identity)
  /\ preparing' = Outdated(preparing)
  /\ UNCHANGED <<manifest, session, workflow, evaluated, request, evaluating, granted, used>>

\* chat.message that activates the harness, tool.execute.before, and a watcher
\* event when the task was not prepared: safeInitializeWorkflow.
ChatMessage(s) ==
  /\ workflow' = [workflow EXCEPT ![s] = Initialized(@)]
  /\ identity' = Synchronized(identity, s)
  /\ UNCHANGED <<tree, manifest, session, evaluated, request, evaluating, preparing, granted, used>>

\* file.edited and file.watcher.updated
FileEdited(s) ==
  /\ workflow' = [workflow EXCEPT ![s] = Initialized(@)]
  /\ identity' =
       IF Initialized(workflow[s]).task /\ identity[s] # Nil
       THEN [Synchronized(identity, s) EXCEPT ![s].status = "working", ![s].fits = TRUE]
       ELSE Synchronized(identity, s)
  /\ UNCHANGED <<tree, manifest, session, evaluated, request, evaluating, preparing, granted, used>>

\* session.idle
SessionIdle(s) ==
  /\ workflow' = [workflow EXCEPT ![s] = Initialized(@)]
  /\ UNCHANGED <<tree, manifest, session, evaluated, identity, request,
                 evaluating, preparing, granted, used>>

-----------------------------------------------------------------------------
(* prepare *)

\* The writes of prepare: manifest, session, identity, workflow, and for the
\* rebuild of a stale task the identity it was taken from.  The update of the
\* workflow is dropped when its last event was this very prepare; the last event
\* is not kept here, so any prepare of a session on the task may be a repeated one.
PrepareWrites(s, m, fits, from, repeated, cut) ==
  LET own == [identity EXCEPT ![s] = Upserted(@, "working", fits)]
      handed == IF from = Nil THEN own ELSE Synchronized(HandedOver(own, from, s), s)
  IN  /\ manifest' = After(1, cut, manifest, m)
      /\ session' = After(2, cut, session, session \cup {s})
      /\ identity' = After(5, cut, After(3, cut, identity, own), handed)
      /\ repeated => workflow[s] # Nil /\ workflow[s].task
      /\ workflow' = After(4, cut, workflow,
                      [workflow EXCEPT ![s] = IF repeated THEN @ ELSE Updated(@, m)])
      /\ UNCHANGED <<tree, evaluated, request, granted>>

\* A manifest that is there is used as it is, without a further await.
Prepare(s, repeated, cut) ==
  /\ manifest # Nil
  /\ PrepareWrites(s, manifest, TRUE, Nil, repeated, cut)
  /\ EndOrDie(cut, 5, evaluating, preparing)

\* Without one a manifest is built, after the tree was fingerprinted.
PrepareBuild(s) ==
  /\ manifest = Nil
  /\ preparing[s] = Nil
  /\ preparing' = [preparing EXCEPT ![s] = [ at |-> "build", fits |-> TRUE, from |-> Nil ]]
  /\ UNCHANGED <<tree, files, evaluating, granted, used>>

\* The context of a stale task is there: the tree is fingerprinted.
PrepareContext(s) ==
  /\ preparing[s] # Nil /\ preparing[s].at = "context"
  /\ preparing' = [preparing EXCEPT ![s].at = "build", ![s].fits = TRUE]
  /\ UNCHANGED <<tree, files, evaluating, granted, used>>

PrepareEnd(s, repeated, cut) ==
  /\ preparing[s] # Nil /\ preparing[s].at = "build"
  /\ PrepareWrites(s, Scope, preparing[s].fits, preparing[s].from, repeated, cut)
  /\ EndOrDie(cut, 5, evaluating, [preparing EXCEPT ![s] = Nil])

-----------------------------------------------------------------------------
(* evaluate *)

Evaluate(s) ==
  /\ used.evaluations < MaxEvaluations /\ Spendable
  /\ evaluating[s] = Nil            \* a repeated call shares the one in flight
  /\ manifest # Nil
  /\ workflow[s] # Nil => workflow[s].task
  /\ evaluating' =
       [evaluating EXCEPT ![s] =
          IF workflow[s] = Nil THEN manifest ELSE workflow[s].allowed]
  /\ used' = [used EXCEPT !.evaluations = @ + 1]
  /\ UNCHANGED <<tree, files, preparing, granted>>

\* Mutant: an edit next to a documentation change passes as one.
ExpansionRequiredUnlessDocs(boundary) ==
  /\ boundary # {}
  /\ (tree \ boundary) \ Avoid # {}
  /\ tree \cap Docs = {}

\* assessPluginEditBoundary: an empty boundary bounds nothing.
OutsideAllowed(boundary) == IF boundary = {} THEN {} ELSE tree \ boundary

ExpansionRequired(boundary) ==
  /\ OutsideAllowed(boundary) \ Avoid # {}
  /\ ~(tree # {} /\ tree \subseteq Docs)

\* classifyHumanReviewReason
ReviewReason(expansion, v) ==
  CASE expansion    -> "BOUNDARY_EXPANSION_REQUIRED"
    [] ~expansion /\ v.noTest -> "NO_EXECUTABLE_TEST"
    [] ~expansion /\ ~v.noTest /\ ~v.guardsRan -> "AMBIGUOUS_REPOSITORY_STATE"
    [] OTHER -> "UNVERIFIABLE_RESULT"

ReviewRequired(expansion, v) ==
  expansion \/ v.noTest \/ ~v.guardsRan \/ v.decision = "human-review"

\* Files and boundary of a request of another reason are only shown.
SameRequest(a, b) == a.reason = b.reason /\ a.files = b.files /\ a.current = b.current

\* upsertHumanReviewRequest
Requested(old, next) ==
  IF old # Nil /\ old.status = "pending" /\ SameRequest(old, next) THEN old ELSE next

\* The context and the guards have answered: the diff is judged, and the tree is
\* hashed for the files that are written, after which the user may have saved
\* one more edit.  Writes: request, workflow, evaluation, identity.
EvaluateEnd(s, v, edited, cut) ==
  LET known     == IF edited = {} THEN identity ELSE Outdated(identity)
      boundary  == evaluating[s]
      expansion == ExpansionRequired(boundary)
      review    == ReviewRequired(expansion, v)
      next      == [ status  |-> "pending", reason |-> ReviewReason(expansion, v),
                     files   |-> IF expansion THEN OutsideAllowed(boundary) ELSE {},
                     current |-> boundary ]
      status    == IF review THEN "human-review" ELSE "working"
  IN  /\ boundary # Nil
      /\ tree' = tree \cup edited
      /\ request' = After(1, cut, request,
                      IF review THEN [request EXCEPT ![s] = Requested(@, next)] ELSE request)
      /\ workflow' = After(2, cut, workflow,
                      [workflow EXCEPT ![s] = Updated(@, boundary)])
      /\ evaluated' = After(3, cut, evaluated,
                      [evaluated EXCEPT ![s] =
                         IF review THEN "human-review" ELSE v.decision])
      /\ identity' = After(4, cut, known,
                      [known EXCEPT ![s] = Upserted(@, status, TRUE)])
      /\ UNCHANGED <<manifest, session, granted>>
      /\ EndOrDie(cut, 4, [evaluating EXCEPT ![s] = Nil],
                  IF edited = {} THEN preparing ELSE Outdated(preparing))

-----------------------------------------------------------------------------
(* next *)

\* isFinalizeAction
IsFinalize(decision) == decision = "finalize"

NextAction(s) ==
  LET e == evaluated[s]
  IN  /\ manifest # Nil
      /\ e # Nil
      /\ IF IsFinalize(e)
         THEN /\ identity' = IF identity[s] = Nil THEN identity
                             ELSE [identity EXCEPT ![s] = Upserted(@, "completed", TRUE)]
              /\ workflow' = [workflow EXCEPT ![s] = [Initialized(@) EXCEPT !.task = TRUE]]
         ELSE UNCHANGED <<identity, workflow>>
      /\ UNCHANGED <<tree, manifest, session, evaluated, request,
                     evaluating, preparing, granted, used>>

-----------------------------------------------------------------------------
(* human review.  Session t answers the request of session r.               *)

\* Mutant: an approval that does not look for protected paths.
ApprovableUnprotected(r) ==
  /\ request[r] # Nil /\ request[r].status = "pending"
  /\ request[r].reason = "BOUNDARY_EXPANSION_REQUIRED"
  /\ manifest # Nil

Approvable(r) ==
  /\ request[r] # Nil /\ request[r].status = "pending"
  /\ request[r].reason = "BOUNDARY_EXPANSION_REQUIRED"
  /\ manifest # Nil
  /\ request[r].files \cap Avoid = {}

\* Writes: the takeover of a request of another session (workflow, session,
\* identity of r), manifest, workflow, request, identity, evaluation.
Approve(t, r, cut) ==
  LET expanded == manifest \cup request[r].files
      taken    == [workflow EXCEPT ![t] =
                     IF t = r THEN @
                     ELSE IF identity[r] = Nil THEN Initialized(@)
                     ELSE TakenOver(r, t)]
      seen     == IF t # r /\ identity[r] # Nil THEN Synchronized(identity, t) ELSE identity
      handed   == IF t # r THEN HandedOver(seen, r, t) ELSE seen
  IN  /\ Approvable(r)
      /\ workflow' = After(5, cut, After(1, cut, workflow, taken),
                           [taken EXCEPT ![t] = Updated(@, expanded)])
      /\ session' = IF t # r THEN After(2, cut, session, session \cup {t}) ELSE session
      /\ manifest' = After(4, cut, manifest, expanded)
      /\ granted' = After(4, cut, granted, granted \cup request[r].files)
      /\ request' = After(6, cut, request,
                      [request EXCEPT ![r].status = "resumed"])
      /\ identity' = After(7, cut, After(3, cut, After(1, cut, identity, seen), handed),
                           [handed EXCEPT ![t] = Upserted(@, "working", TRUE)])
      /\ evaluated' = After(8, cut, evaluated,
                      [evaluated EXCEPT ![t] = "ready-for-review"])
      /\ UNCHANGED tree
      /\ EndOrDie(cut, 8, evaluating, preparing)

\* Writes: request, the two identities, evaluation.
Reject(t, r, cut) ==
  /\ request[r] # Nil /\ request[r].status = "pending"
  /\ manifest # Nil
  /\ request' = After(1, cut, request, [request EXCEPT ![r].status = "rejected"])
  /\ identity' = After(3, cut, After(2, cut, identity, Abandoned(identity, r)),
                       Abandoned(Abandoned(identity, r), t))
  /\ evaluated' = After(4, cut, evaluated,
                    [evaluated EXCEPT ![t] = "human-review"])
  /\ UNCHANGED <<tree, manifest, session, workflow, granted>>
  /\ EndOrDie(cut, 4, evaluating, preparing)

-----------------------------------------------------------------------------
(* resume: session t takes the task over from session r.  Whatever it finds, *)
(* it first marks as stale what does not fit the tree.                       *)

\* action inspect, and a resume that is refused: the only candidate is finished
\* or waits for a human review of the present tree.
Inspect(t) ==
  /\ identity' = Synchronized(identity, t)
  /\ UNCHANGED <<tree, manifest, session, workflow, evaluated, request,
                 evaluating, preparing, granted, used>>

\* Mutant: a task that waits for a human is taken over like any other.
ResumableWhileReviewed(ids, r) == Unfinished(ids[r])

Resumable(ids, r) == Unfinished(ids[r]) /\ ids[r].status # "human-review"

\* Mutant: the source is abandoned before the target has session and workflow.
ResumeCompatibleAbandonsFirst(t, r, cut) ==
  LET seen   == Synchronized(identity, t)
      handed == HandedOver(seen, r, t)
  IN  /\ used.takeovers < MaxTakeovers /\ Spendable
      /\ manifest # Nil
      /\ t # r /\ Resumable(seen, r) /\ Compatible(seen[r])
      /\ identity' = After(4, cut, handed,
                       [handed EXCEPT ![t] = Upserted(@, "working", TRUE)])
      /\ session' = After(2, cut, session, session \cup {t})
      /\ workflow' = After(3, cut, workflow, [workflow EXCEPT ![t] = TakenOver(r, t)])
      /\ UNCHANGED <<tree, manifest, evaluated, request, granted>>
      /\ \/ cut < 4 /\ Die
         \/ cut = 4 /\ used' = [used EXCEPT !.takeovers = @ + 1]
            /\ UNCHANGED <<evaluating, preparing>>

\* resumeCompatibleTask.  Writes: session, workflow, source, target.
ResumeCompatible(t, r, cut) ==
  LET seen   == Synchronized(identity, t)
      handed == HandedOver(seen, r, t)
  IN  /\ used.takeovers < MaxTakeovers /\ Spendable
      /\ manifest # Nil
      /\ t # r /\ Resumable(seen, r) /\ Compatible(seen[r])
      /\ session' = After(1, cut, session, session \cup {t})
      /\ workflow' = After(2, cut, workflow, [workflow EXCEPT ![t] = TakenOver(r, t)])
      /\ identity' = After(4, cut, After(3, cut, seen, handed),
                       [handed EXCEPT ![t] = Upserted(@, "working", TRUE)])
      /\ UNCHANGED <<tree, manifest, evaluated, request, granted>>
      /\ \/ cut < 4 /\ Die
         \/ cut = 4 /\ used' = [used EXCEPT !.takeovers = @ + 1]
            /\ UNCHANGED <<evaluating, preparing>>

\* resumeStaleTask up to the await of the rebuilding prepare.
ResumeStale(t, r) ==
  LET seen == Synchronized(identity, t)
  IN  /\ used.takeovers < MaxTakeovers /\ Spendable
      /\ manifest # Nil
      /\ t # r /\ Resumable(seen, r) /\ Stale(seen[r])
      /\ preparing[t] = Nil
      /\ preparing' = [preparing EXCEPT ![t] = [ at |-> "context", fits |-> TRUE, from |-> r ]]
      /\ identity' = seen
      /\ used' = [used EXCEPT !.takeovers = @ + 1]
      /\ UNCHANGED <<tree, manifest, session, workflow, evaluated, request, evaluating, granted>>

\* The process dies outside of a handler's writes.
Death ==
  /\ \E s \in Session : evaluating[s] # Nil \/ preparing[s] # Nil
  /\ Die
  /\ UNCHANGED <<tree, files, granted>>

-----------------------------------------------------------------------------

Next ==
  \/ \E f \in Edited : Edit(f)
  \/ Death
  \/ \E s \in Session :
       \/ ChatMessage(s)
       \/ FileEdited(s)
       \/ SessionIdle(s)
       \/ \E repeated \in BOOLEAN, cut \in 1 .. 5 :
            Prepare(s, repeated, cut) \/ PrepareEnd(s, repeated, cut)
       \/ PrepareBuild(s)
       \/ PrepareContext(s)
       \/ Evaluate(s)
       \/ \E v \in Verdict, cut \in 1 .. 4 :
            EvaluateEnd(s, v, {}, cut)
       \/ \E v \in Verdict, f \in Edited : EvaluateEnd(s, v, {f}, 4)
       \/ NextAction(s)
       \/ Inspect(s)
       \/ \E r \in Session :
            \/ \E cut \in 1 .. 8 : Approve(s, r, cut)
            \/ \E cut \in 1 .. 4 : Reject(s, r, cut) \/ ResumeCompatible(s, r, cut)
            \/ ResumeStale(s, r)

Spec == Init /\ [][Next]_vars

-----------------------------------------------------------------------------
(* Properties *)

\* A session that was taken over leaves the task to a session that can go on
\* with it: whatever write the process died after, the session it is handed to
\* knows the task and has a workflow of it (resume.ts, review.ts: session and
\* workflow of the target are written before the source is abandoned).
HandoverKeepsTheTask ==
  \A r, t \in Session :
    identity[r] # Nil /\ identity[r].status = "abandoned" /\ identity[r].to = t =>
      t \in session /\ workflow[t] # Nil /\ workflow[t].task

\* No path leads a protected file into an edit boundary: not an approval, not
\* an evaluation that writes back an old boundary, not a takeover
\* (review.ts refuses requests that touch avoidEditGlobs).
BoundariesStayProtected ==
  /\ manifest # Nil => manifest \cap Avoid = {}
  /\ \A s \in Session : workflow[s] # Nil => workflow[s].allowed \cap Avoid = {}

\* An empty boundary bounds nothing, so a session that works on the task has
\* one, whichever way it came to the task, unless a process died between the
\* identity and the workflow of a prepare.
UnboundedOnlyAfterDeath ==
  \A s \in Session :
    workflow[s] # Nil /\ workflow[s].task /\ workflow[s].allowed = {} => used.deaths > 0

\* What an evaluation lets pass without a human was in the scope of the task,
\* or a human had approved it, however many sessions, takeovers, rebuilds and
\* approvals there were meanwhile; protected files are left to the policy, a
\* change of documentation alone is exempt (evaluate.ts).
PassesOnlyWhatWasGranted ==
  [][ \A s \in Session :
        evaluating[s] # Nil /\ evaluating'[s] = Nil /\ used'.deaths = used.deaths
        /\ evaluating[s] # {} /\ evaluated'[s] # "human-review"
        => \/ tree \subseteq Scope \cup granted \cup Avoid
           \/ tree \subseteq Docs ]_vars

\* A task that waits for a human review of the present tree is not taken away
\* by another session: it is only abandoned by the human's answer (resume.ts
\* answers human-review for such a candidate).
ReviewOfThisTreeHolds ==
  [][ \A s \in Session :
        identity[s] # Nil /\ identity[s].status = "human-review" /\ identity[s].fits
        /\ identity'[s].status = "abandoned"
        /\ (\A t \in Session : preparing[t] = Nil \/ preparing[t].from # s)
        => request' # request \/ used'.deaths > used.deaths ]_vars
=============================================================================
