-------------------------- MODULE AtomicFileProofs --------------------------
(***************************************************************************)
(* Theorems of AtomicFile for any number of processes, calls, denied        *)
(* renames, stale locks and crashes: as long as no lock of a live process   *)
(* is removed and no target is left aside, the file is an atomic register.  *)
(***************************************************************************)
EXTENDS AtomicFile, TLAPS

-----------------------------------------------------------------------------
(* The lock: what FileLock guarantees to any operation that runs under it,  *)
(* for any number of processes, of stale locks and of crashes.              *)

\* From the exclusive creation to the removal.
Owning(p) == at[p] \in {"created", "holding", "releasing", "unlinking"}

(***************************************************************************)
(* The inductive invariant: until a lock is stolen, who is between the      *)
(* creation and the removal of its lock file finds its own file there.      *)
(***************************************************************************)
LockInv ==
  /\ LockTypeOK
  /\ \A p \in Proc : p \in crashed <=> at[p] = "dead"
  /\ stolen = 0 => \A p \in Proc : Owning(p) => lock.creator = p

\* No process is in withFileLock at the beginning.
LEMMA LockInitInv == LockInit => LockInv
BY DEF LockInit, LockInv, LockTypeOK, Stage, Owning

\* A lock file that is there has a creator, a missing one has none.
LEMMA LockValues ==
  ASSUME LockTypeOK
  PROVE  /\ Exists => lock \in LockFile
         /\ ~Exists => lock.creator = NoProc
         /\ NoProc \notin Proc
BY NoProcAssumption DEF LockTypeOK, Exists, NoLock, LockFile

\* Every system call of withFileLock keeps the invariant.
LEMMA LockStepInv ==
  ASSUME LockInv, NEW p \in Proc, LockStep(p)
  PROVE  LockInv'
<1>0. /\ Exists => lock \in LockFile
      /\ ~Exists => lock = NoLock /\ lock.creator = NoProc
      /\ NoProc \notin Proc
  BY LockValues DEF LockInv, Exists
<1> USE DEF LockInv, LockTypeOK, Move, Stage, Owning
<1>1. CASE Open(p)
  <2>1. CASE Exists
    BY <1>1, <2>1 DEF Open
  <2>2. CASE ~Exists
    <3> DEFINE Fresh == [creator |-> p, owner |-> NoProc, old |-> FALSE]
    <3>0. Fresh \in LockFile /\ Fresh.creator = p
      BY DEF LockFile
    <3>1. lock' = Fresh
      BY <1>1, <2>2 DEF Open
    <3> HIDE DEF Fresh
    <3>2. stolen = 0 => \A q \in Proc : ~Owning(q)
      BY <1>0, <2>2
    <3> QED
      BY <1>1, <2>2, <3>0, <3>1, <3>2 DEF Open
  <2> QED
    BY <2>1, <2>2
<1>2. CASE WriteOwner(p)
  <2>1. lock' \in LockFile \cup {NoLock} /\ lock'.creator = lock.creator
    <3>1. CASE lock.creator = p
      BY <1>0, <1>2, <3>1 DEF WriteOwner, LockFile
    <3>2. CASE lock.creator # p
      BY <1>2, <3>2 DEF WriteOwner
    <3> QED
      BY <3>1, <3>2
  <2> QED
    BY <1>2, <2>1 DEF WriteOwner
<1>3. CASE WriteOwnerFails(p)
  BY <1>3 DEF WriteOwnerFails
<1>4. CASE Stat(p)
  BY <1>4 DEF Stat
<1>5. CASE ReadOwner(p)
  <2>1. lock.owner \in Proc \cup {NoProc}
    BY <1>5 DEF LockFile, NoLock
  <2>2. PICK to \in {"recovering", "waiting", "probing"} : Move(p, "judging", to)
    BY <1>5 DEF ReadOwner
  <2> QED
    BY <1>5, <2>1, <2>2 DEF ReadOwner
<1>6. CASE Probe(p)
  BY <1>6 DEF Probe
<1>7. CASE Recover(p)
  <2>1. ASSUME stolen' = 0, NEW q \in Proc, Owning(q)'
        PROVE  FALSE
    <3>1. stolen = 0 /\ (~Exists \/ lock.creator \in crashed)
      BY <1>7, <2>1 DEF Recover
    <3>2. Owning(q) /\ lock.creator = q
      BY <1>7, <2>1, <3>1 DEF Recover
    <3> QED
      BY <1>0, <3>1, <3>2
  <2> QED
    BY <1>7, <2>1 DEF Recover
<1>8. CASE Retry(p)
  BY <1>8 DEF Retry
<1>9. CASE TimeOut(p)
  BY <1>9 DEF TimeOut
<1>10. CASE ReadToken(p)
  BY <1>10 DEF ReadToken
<1>11. CASE Unlink(p)
  BY <1>11 DEF Unlink
<1> QED
  BY <1>1, <1>2, <1>3, <1>4, <1>5, <1>6, <1>7, <1>8, <1>9, <1>10, <1>11 DEF LockStep

\* So does a lock that gets stale,
LEMMA GetStaleInv ==
  ASSUME LockInv, GetStale
  PROVE  LockInv'
<1>1. lock \in LockFile
  BY LockValues DEF LockInv, GetStale
<1>2. lock' \in LockFile /\ lock'.creator = lock.creator
  BY <1>1 DEF GetStale, LockFile
<1> QED
  BY <1>2 DEF LockInv, LockTypeOK, GetStale, Owning

\* a process that dies,
LEMMA CrashInv ==
  ASSUME LockInv, NEW p \in Proc, Crash(p)
  PROVE  LockInv'
BY DEF LockInv, LockTypeOK, Crash, Stage, Owning

\* and a process that enters withFileLock or leaves the operation.
LEMMA MoveInv ==
  ASSUME LockInv, NEW p \in Proc,
         Move(p, "idle", "opening") \/ Move(p, "holding", "releasing"),
         UNCHANGED <<lock, suspect, stolen, stale, crashed>>
  PROVE  LockInv'
BY DEF LockInv, LockTypeOK, Move, Stage, Owning

\* The invariant is what the mutual exclusion of withFileLock rests on.
LEMMA LockInvExclusive == LockInv => ExclusiveUntilStolen
BY DEF LockInv, ExclusiveUntilStolen, MutualExclusion, Holder, Owning

-----------------------------------------------------------------------------
(* The file *)

InCall(p) == at[p] \in {"opening", "created", "refused", "judging", "probing",
                        "recovering", "waiting", "holding"}

Renaming == {"rename", "denied", "replace"}

(***************************************************************************)
(* Where a process may be: calls have their number until they return, the   *)
(* operation begins with "read", and what is renamed was written to the end *)
(* unless somebody removed it.                                              *)
(***************************************************************************)
Place ==
  /\ \A p \in Proc : InCall(p) => op[p].call \in Call
  /\ \A p \in Proc : at[p] \notin {"holding", "dead"} => step[p] = "read"
  /\ \A p \in Proc : Holder(p) /\ step[p] \in Renaming => temp[p] \in {"none", "whole"}

ShapeInv == LockInv /\ TypeOK /\ Place

LEMMA ContentFacts ==
  /\ Empty \in Content
  /\ \A c \in Content : /\ c # Missing /\ Read(c) = c
                        /\ c.revision \in Nat /\ c.updates \subseteq Call
  /\ Read(Missing) = Empty
  /\ \A c \in Content \cup {Missing} : Read(c) \in Content
BY MissingAssumption DEF Content, Empty, Read

LEMMA InitShape == Init => ShapeInv
BY LockInitInv, ContentFacts DEF Init, ShapeInv, TypeOK, Place, LockInit, LockInv, InCall, Holder,
   TempState, StepName, NoOp

-----------------------------------------------------------------------------
(* Leaving and staying in the operation *)

\* A process that leaves gives back its call, whatever it did to the file.
LEMMA LeaveShape ==
  ASSUME ShapeInv, NEW p \in Proc, Leave(p),
         file' \in Content \cup {Missing}, aside' \in [Proc -> Content \cup {Missing}],
         known' \in [Proc -> Content], acknowledged' \subseteq Call,
         denied' \in Nat, mislaid' \in Nat
  PROVE  ShapeInv'
<1>1. LockInv'
  BY MoveInv DEF ShapeInv, Leave
<1>2. TypeOK'
  BY <1>1, ContentFacts DEF ShapeInv, LockInv, TypeOK, Leave, TempState, StepName, NoOp
<1>3. \A q \in Proc : /\ InCall(q)' => InCall(q) /\ op'[q] = op[q]
                      /\ at'[q] \notin {"holding", "dead"} => step'[q] = "read"
                      /\ Holder(q)' => Holder(q) /\ step'[q] = step[q] /\ temp'[q] = temp[q]
  BY DEF ShapeInv, LockInv, LockTypeOK, TypeOK, Place, Leave, Move, InCall, Holder
<1> QED
  BY <1>1, <1>2, <1>3 DEF ShapeInv, Place

\* A process that goes on to the next step of the operation.
LEMMA GotoShape ==
  ASSUME ShapeInv, NEW p \in Proc, NEW s \in StepName, Holder(p), Goto(p, s),
         file' \in Content \cup {Missing}, aside' \in [Proc -> Content \cup {Missing}],
         goal' \in [Proc -> Content], temp' \in [Proc -> TempState],
         \A q \in Proc : q # p => temp'[q] = temp[q],
         s \in Renaming => temp'[p] \in {"none", "whole"},
         denied' \in Nat, mislaid' \in Nat
  PROVE  ShapeInv'
<1>1. LockInv'
  BY DEF ShapeInv, LockInv, LockTypeOK, Owning, Goto, lockVars
<1>2. TypeOK'
  BY <1>1 DEF ShapeInv, LockInv, TypeOK, Goto
<1>3. \A q \in Proc : step'[q] = IF q = p THEN s ELSE step[q]
  BY DEF ShapeInv, TypeOK, Goto
<1> QED
  BY <1>1, <1>2, <1>3 DEF ShapeInv, Place, Goto, lockVars, InCall, Holder

\* An operation whose arguments are well typed throws or returns.
LEMMA ThrowShape ==
  ASSUME ShapeInv, NEW p \in Proc, Throw(p),
         file' \in Content \cup {Missing}, aside' \in [Proc -> Content \cup {Missing}],
         denied' \in Nat, mislaid' \in Nat
  PROVE  ShapeInv'
BY LeaveShape DEF Throw, ShapeInv, TypeOK

LEMMA ReturnShape ==
  ASSUME ShapeInv, NEW p \in Proc, Return(p), Holder(p),
         file' \in Content \cup {Missing}, aside' \in [Proc -> Content \cup {Missing}],
         denied' \in Nat, mislaid' \in Nat
  PROVE  ShapeInv'
<1>1. known' \in [Proc -> Content] /\ acknowledged' \subseteq Call
  BY DEF Return, ShapeInv, TypeOK, Place, Holder, InCall
<1> QED
  BY <1>1, LeaveShape DEF Return

-----------------------------------------------------------------------------
(* The operation *)

LEMMA BaseType ==
  ASSUME ShapeInv, NEW p \in Proc
  PROVE  Base(p) \in Content /\ Read(file) \in Content
BY ContentFacts DEF ShapeInv, TypeOK, Base

\* What a whole temporary file holds.
LEMMA WrittenIs ==
  ASSUME ShapeInv, NEW p \in Proc, Holder(p), step[p] \in Renaming, temp[p] # "none"
  PROVE  Written(p) = goal[p] /\ goal[p] \in Content
BY DEF ShapeInv, TypeOK, Place, Written

LEMMA OperateShape ==
  ASSUME ShapeInv, NEW p \in Proc, Operate(p)
  PROVE  ShapeInv'
<1> USE DEF StepName, TempState, Renaming
<1>0. /\ file \in Content \cup {Missing} /\ aside \in [Proc -> Content \cup {Missing}]
      /\ goal \in [Proc -> Content] /\ temp \in [Proc -> TempState]
      /\ denied \in Nat /\ mislaid \in Nat /\ denied + 1 \in Nat /\ mislaid + 1 \in Nat
      /\ Holder(p) /\ step[p] \in Renaming => temp[p] \in {"none", "whole"}
  BY DEF ShapeInv, TypeOK, Place
<1>1. CASE ReadCurrent(p)
  <2> DEFINE new == [revision |-> Read(file).revision + 1,
                     updates |-> Base(p).updates \cup {op[p].call}]
  <2>1. op[p].call \in Call
    BY <1>1 DEF ReadCurrent, In, Holder, InCall, ShapeInv, Place
  <2>2. new \in Content
    BY <2>1, BaseType DEF Content
  <2>3. goal' = [goal EXCEPT ![p] = new]
    BY <1>1 DEF ReadCurrent
  <2> HIDE DEF new
  <2>4. goal' \in [Proc -> Content]
    BY <1>0, <2>2, <2>3
  <2> QED
    BY <1>0, <1>1, <2>4, GotoShape DEF ReadCurrent, In
<1>2. CASE Conflict(p)
  BY <1>0, <1>2, ThrowShape DEF Conflict
<1>3. CASE WriteTemp(p)
  <2>1. LockInv'
    BY <1>3 DEF WriteTemp, ShapeInv, LockInv, LockTypeOK, Owning, lockVars
  <2>2. PICK removed \in SUBSET Abandoned(p) :
          temp' = [q \in Proc |-> IF q = p THEN "part" ELSE IF q \in removed THEN "none" ELSE temp[q]]
    BY <1>3 DEF WriteTemp
  <2>3. temp' \in [Proc -> TempState]
    BY <1>0, <2>2
  <2>4. \A q \in Proc : q # p => temp'[q] \in {temp[q], "none"}
    BY <2>2
  <2> QED
    BY <1>3, <2>1, <2>3, <2>4 DEF WriteTemp, In, ShapeInv, LockInv, TypeOK, Place, lockVars, ghostVars,
       InCall, Holder
<1>4. CASE SyncTemp(p)
  BY <1>0, <1>4, GotoShape DEF SyncTemp, In
<1>5. CASE WriteFails(p)
  BY <1>0, <1>5, ThrowShape DEF WriteFails
<1>6. CASE Rename(p)
  BY <1>0, <1>6, ReturnShape, WrittenIs DEF Rename, In
<1>7. CASE RenameNothing(p)
  BY <1>0, <1>7, ThrowShape, GotoShape DEF RenameNothing
<1>8. CASE RenameDenied(p)
  BY <1>0, <1>8, ThrowShape, GotoShape DEF RenameDenied, Deny, In
<1>9. CASE MoveAside(p)
  BY <1>0, <1>9, GotoShape DEF MoveAside, In
<1>10. CASE MoveAsideFails(p)
  BY <1>0, <1>10, ThrowShape DEF MoveAsideFails
<1>11. CASE Replace(p)
  BY <1>0, <1>11, GotoShape, WrittenIs DEF Replace, In
<1>12. CASE ReplaceDenied(p)
  BY <1>0, <1>12, GotoShape DEF ReplaceDenied, Deny, In
<1>13. CASE Restore(p)
  BY <1>0, <1>13, ThrowShape DEF Restore
<1>14. CASE RestoreDenied(p)
  BY <1>0, <1>14, ThrowShape DEF RestoreDenied, Deny
<1>15. CASE DropAside(p)
  BY <1>0, <1>15, ReturnShape DEF DropAside, In
<1> QED
  BY <1>1, <1>2, <1>3, <1>4, <1>5, <1>6, <1>7, <1>8, <1>9, <1>10, <1>11, <1>12, <1>13, <1>14, <1>15
     DEF Operate

-----------------------------------------------------------------------------
(* Callers, the lock, failures *)

\* The steps of withFileLock and of the clock leave the file's variables alone.
LEMMA LockStepShape ==
  ASSUME ShapeInv, NEW p \in Proc, LockStep(p), UNCHANGED fileVars
  PROVE  ShapeInv'
<1>1. LockInv' /\ LockTypeOK
  BY LockStepInv DEF ShapeInv, LockInv
<1>2. \E from \in {"opening", "created", "refused", "judging", "probing", "recovering",
                   "waiting", "releasing", "unlinking"}, to \in Stage \ {"dead"} :
        /\ Move(p, from, to)
        /\ to \notin {"idle", "unlinking"} => from \notin {"releasing", "unlinking"}
  BY DEF LockStep, Open, WriteOwner, WriteOwnerFails, Stat, ReadOwner,
         Probe, Recover, Retry, TimeOut, ReadToken, Unlink, Stage
<1>3. \A q \in Proc : /\ InCall(q)' => InCall(q)
                      /\ at'[q] \notin {"holding", "dead"} => at[q] \notin {"holding", "dead"}
                      /\ Holder(q)' => Holder(q) \/ at[q] \notin {"holding", "dead"}
  BY <1>1, <1>2 DEF LockTypeOK, Move, InCall, Holder, Stage
<1> QED
  BY <1>1, <1>3 DEF ShapeInv, LockInv, TypeOK, Place, fileVars, procVars, ghostVars, Renaming

LEMMA FailureShape ==
  ASSUME ShapeInv, (GetStale /\ UNCHANGED fileVars) \/ \E p \in Proc : Die(p)
  PROVE  ShapeInv'
<1>1. CASE GetStale /\ UNCHANGED fileVars
  BY <1>1, GetStaleInv DEF GetStale, ShapeInv, LockInv, TypeOK, Place, fileVars, procVars, ghostVars,
     InCall, Holder
<1>2. ASSUME NEW p \in Proc, Die(p)
      PROVE  ShapeInv'
  <2>0. LockInv'
    BY <1>2, CrashInv DEF Die, ShapeInv
  <2>1. LockInv' /\ at' = [at EXCEPT ![p] = "dead"] /\ mislaid' \in Nat
    BY <1>2, <2>0 DEF Die, Crash, ShapeInv, TypeOK
  <2> QED
    BY <1>2, <2>1 DEF Die, procVars, ShapeInv, LockInv, LockTypeOK, TypeOK, Place, InCall, Holder
<1> QED
  BY <1>1, <1>2

LEMMA CallerShape ==
  ASSUME ShapeInv, NEW p \in Proc,
         Load(p) \/ \E kind \in {"update", "save"} : CallFor(p, kind)
  PROVE  ShapeInv'
<1>1. CASE Load(p)
  <2>1. known' \in [Proc -> Content]
    BY <1>1, BaseType DEF Load, ShapeInv, TypeOK
  <2> QED
    BY <1>1, <2>1 DEF Load, ShapeInv, LockInv, LockTypeOK, Owning, TypeOK, Place, lockVars, ghostVars,
       InCall, Holder
<1>2. ASSUME NEW kind \in {"update", "save"}, CallFor(p, kind)
      PROVE  ShapeInv'
  <2>1. LockInv'
    BY <1>2, MoveInv DEF CallFor, ShapeInv
  <2>2. calls' \in Nat /\ calls + 1 \in Call
    BY <1>2, CallBoundAssumption DEF CallFor, ShapeInv, TypeOK, Call
  <2>3. op' \in [Proc -> [kind : {"none", "update", "save"}, call : Call \cup {0}]]
    BY <1>2, <2>2 DEF CallFor, ShapeInv, TypeOK
  <2>4. \A q \in Proc : InCall(q)' => op'[q].call \in Call
    BY <1>2, <2>2 DEF CallFor, Move, InCall, ShapeInv, LockInv, LockTypeOK, TypeOK, Place
  <2>5. at' = [at EXCEPT ![p] = "opening"] /\ at[p] = "idle"
    BY <1>2 DEF CallFor, Move
  <2> QED
    BY <1>2, <2>1, <2>2, <2>3, <2>4, <2>5 DEF CallFor, ShapeInv, LockInv, LockTypeOK, TypeOK, Place, Holder
<1> QED
  BY <1>1, <1>2

LEMMA NextShape ==
  ASSUME ShapeInv, [Next]_vars
  PROVE  ShapeInv'
<1>1. CASE UNCHANGED vars
  BY <1>1 DEF vars, lockVars, fileVars, procVars, ghostVars, ShapeInv, LockInv, LockTypeOK, Owning,
     TypeOK, Place, InCall, Holder
<1>2. CASE Next
  BY <1>2, OperateShape, LockStepShape, FailureShape, CallerShape DEF Next
<1> QED
  BY <1>1, <1>2

-----------------------------------------------------------------------------
(* The content *)

Replacing(p) == Holder(p) /\ step[p] \in {"replace", "restore"}

Preparing(p) == Holder(p) /\ step[p] \in {"write", "rename", "denied", "replace", "restore"}

NotNewer(c) ==
  /\ c.revision <= Current.revision
  /\ c.revision = Current.revision => c.updates = Current.updates

(***************************************************************************)
(* The inductive invariant of an intact file.  What a process is to write   *)
(* is the current content with its call and the next revision; a copy with  *)
(* the current revision is the current content.                             *)
(***************************************************************************)
ContentInv ==
  /\ file # Missing => file.revision > 0
  /\ \A p \in Proc : Replacing(p) =>
       file = Missing /\ aside[p] \in Content /\ aside[p].revision > 0
  /\ \A p \in Proc : Preparing(p) =>
       /\ goal[p].revision = Current.revision + 1
       /\ goal[p].updates = Current.updates \cup {op[p].call}
  /\ \A p \in Proc : In(p, "done") => file = goal[p] /\ op[p].call \in goal[p].updates
  /\ \A p \in Proc : NotNewer(known[p])
  /\ acknowledged \subseteq Current.updates

Inv == ShapeInv /\ (Intact => ContentInv)

LEMMA CurrentIs ==
  ASSUME MutualExclusion
  PROVE  /\ file # Missing => Current = file
         /\ \A p \in Proc : file = Missing /\ Replacing(p) => Current = aside[p]
         /\ file = Missing /\ (\A p \in Proc : ~Replacing(p)) => Current = Empty
<1>1. ASSUME NEW p \in Proc, file = Missing, Replacing(p)
      PROVE  Current = aside[p]
  <2>1. \A q \in Proc : Replacing(q) => q = p
    BY <1>1 DEF MutualExclusion, Replacing
  <2>2. p = CHOOSE q \in Proc : Holder(q) /\ step[q] \in {"replace", "restore"}
    BY <1>1, <2>1 DEF Replacing
  <2> QED
    BY <1>1, <2>2 DEF Current, Replacing
<1> QED
  BY <1>1 DEF Current, Replacing

\* The same of the next state.
LEMMA CurrentNext ==
  ASSUME MutualExclusion'
  PROVE  /\ file' # Missing => Current' = file'
         /\ \A p \in Proc : file' = Missing /\ Replacing(p)' => Current' = aside'[p]
         /\ file' = Missing /\ (\A p \in Proc : ~Replacing(p)') => Current' = Empty
<1>1. ASSUME NEW p \in Proc, file' = Missing, Replacing(p)'
      PROVE  Current' = aside'[p]
  <2>1. \A q \in Proc : Replacing(q)' => q = p
    BY <1>1 DEF MutualExclusion, Replacing
  <2>2. p = CHOOSE q \in Proc : Holder(q)' /\ step'[q] \in {"replace", "restore"}
    BY <1>1, <2>1 DEF Replacing
  <2> QED
    BY <1>1, <2>2 DEF Current, Replacing
<1> QED
  BY <1>1 DEF Current, Replacing

\* An intact file has a content, and at most one process is in the operation.
LEMMA IntactFacts ==
  ASSUME ShapeInv, Intact, ContentInv
  PROVE  /\ MutualExclusion
         /\ Current \in Content /\ Current.revision \in Nat /\ Current # Missing
         /\ Current = Empty \/ Current.revision > 0
         /\ NotNewer(Empty)
<1>1. MutualExclusion
  BY LockInvExclusive DEF ShapeInv, Intact, ExclusiveUntilStolen
<1>2. Current \in Content /\ (Current = Empty \/ Current.revision > 0)
  BY <1>1, CurrentIs, ContentFacts DEF ContentInv, ShapeInv, TypeOK
<1> QED
  BY <1>1, <1>2, ContentFacts DEF NotNewer, Empty

-----------------------------------------------------------------------------
(* Steps that leave the content alone *)

\* The current content of an intact file is the one of the step before, unless a
\* rename makes it what one process prepared.
OneCall ==
  Current' # Current =>
    /\ Current'.revision = Current.revision + 1
    /\ \E c \in Call : Current'.updates = Current.updates \cup {c}

LEMMA QuietContent ==
  ASSUME ShapeInv, Intact, ContentInv, ShapeInv', Intact',
         UNCHANGED <<file, acknowledged>>,
         \A q \in Proc : Replacing(q)' <=> Replacing(q),
         \A q \in Proc : Replacing(q) => aside'[q] = aside[q],
         \A q \in Proc : Preparing(q)' =>
           /\ goal'[q].revision = Current.revision + 1
           /\ goal'[q].updates = Current.updates \cup {op'[q].call},
         \A q \in Proc : In(q, "done")' =>
           In(q, "done") /\ goal'[q] = goal[q] /\ op'[q] = op[q],
         \A q \in Proc : NotNewer(known'[q])
  PROVE  ContentInv' /\ Current' = Current
<1>1. MutualExclusion /\ MutualExclusion'
  BY IntactFacts DEF ShapeInv, LockInv, Intact, MutualExclusion, Holder, Owning
<1>2. Current' = Current
  <2>1. CASE file # Missing
    BY <1>1, <2>1, CurrentIs, CurrentNext
  <2>2. CASE file = Missing /\ \E q \in Proc : Replacing(q)
    BY <1>1, <2>2, CurrentIs, CurrentNext
  <2>3. CASE file = Missing /\ \A q \in Proc : ~Replacing(q)
    BY <1>1, <2>3, CurrentIs, CurrentNext
  <2> QED
    BY <2>1, <2>2, <2>3
<1> QED
  BY <1>2 DEF ContentInv, NotNewer

\* What a process that is not named by the step knows.
LEMMA Unmoved ==
  ASSUME ContentInv
  PROVE  /\ \A q \in Proc : Preparing(q) =>
              /\ goal[q].revision = Current.revision + 1
              /\ goal[q].updates = Current.updates \cup {op[q].call}
         /\ \A q \in Proc : NotNewer(known[q])
BY DEF ContentInv

\* Nothing is written by a process that goes on to a step short of "done",
LEMMA GotoContent ==
  ASSUME ShapeInv, Intact, ContentInv, ShapeInv', Intact', UNCHANGED <<file, aside, goal>>,
         NEW p \in Proc, NEW s \in {"rename", "denied", "restore"}, Holder(p), Goto(p, s),
         s = "restore" => step[p] = "replace",
         s # "restore" => step[p] \in {"write", "rename"}
  PROVE  ContentInv' /\ Current' = Current
<1>1. \A q \in Proc : step'[q] = IF q = p THEN s ELSE step[q]
  BY DEF Goto, ShapeInv, TypeOK
<1>2. UNCHANGED <<at, op, known, acknowledged>>
  BY DEF Goto, lockVars
<1>3. \A q \in Proc : /\ Holder(q)' <=> Holder(q)
                      /\ Replacing(q)' <=> Replacing(q)
                      /\ Preparing(q)' => Preparing(q)
                      /\ In(q, "done")' => In(q, "done")
  BY <1>1, <1>2 DEF Holder, Replacing, Preparing, In
<1> QED
  BY <1>2, <1>3, Unmoved, QuietContent

\* and by one that throws before it has moved the target.
LEMMA ThrowContent ==
  ASSUME ShapeInv, Intact, ContentInv, ShapeInv', Intact', UNCHANGED <<file, aside>>,
         NEW p \in Proc, Holder(p), ~Replacing(p), Throw(p)
  PROVE  ContentInv' /\ Current' = Current
<1>1. \A q \in Proc : q # p => step'[q] = step[q] /\ goal'[q] = goal[q] /\ op'[q] = op[q]
  BY DEF Throw, Leave, ShapeInv, TypeOK
<1>2. ~Holder(p)' /\ \A q \in Proc : q # p => at'[q] = at[q]
  BY DEF Throw, Leave, Move, Holder, ShapeInv, LockInv, LockTypeOK
<1>3. \A q \in Proc : /\ Replacing(q)' <=> Replacing(q)
                      /\ Preparing(q)' => Preparing(q) /\ q # p
                      /\ In(q, "done")' => In(q, "done") /\ q # p
  BY <1>1, <1>2 DEF Holder, Replacing, Preparing, In
<1>4. UNCHANGED <<known, acknowledged>>
  BY DEF Throw
<1> QED
  BY <1>1, <1>3, <1>4, Unmoved, QuietContent

\* Nor by a process that reads the current content, and prepares the next.
LEMMA ReadContent ==
  ASSUME ShapeInv, Intact, ContentInv, ShapeInv', Intact', NEW p \in Proc, ReadCurrent(p)
  PROVE  ContentInv' /\ Current' = Current
<1>1. Holder(p) /\ step[p] = "read"
  BY DEF ReadCurrent, In
<1>2. Read(file) = Current
  <2>1. \A q \in Proc : ~Replacing(q)
    BY <1>1, IntactFacts DEF MutualExclusion, Replacing
  <2> QED
    BY <2>1, IntactFacts, CurrentIs DEF Read
<1>3. Base(p).revision = Current.revision /\ Base(p).updates = Current.updates
  BY <1>2, Unmoved DEF ReadCurrent, Base, NotNewer
<1>4. /\ \A q \in Proc : step'[q] = IF q = p THEN "write" ELSE step[q]
      /\ \A q \in Proc : q # p => goal'[q] = goal[q]
      /\ goal'[p] = [revision |-> Read(file).revision + 1,
                     updates |-> Base(p).updates \cup {op[p].call}]
  BY DEF ReadCurrent, Goto, ShapeInv, TypeOK
<1>5. UNCHANGED <<at, op, known, acknowledged, file, aside>>
  BY DEF ReadCurrent, Goto, lockVars
<1>6. \A q \in Proc : /\ Replacing(q)' <=> Replacing(q)
                      /\ Preparing(q)' => Preparing(q) \/ q = p
                      /\ In(q, "done")' => In(q, "done") /\ q # p
  BY <1>1, <1>4, <1>5 DEF Holder, Replacing, Preparing, In
<1>7. \A q \in Proc : Preparing(q)' =>
           /\ goal'[q].revision = Current.revision + 1
           /\ goal'[q].updates = Current.updates \cup {op'[q].call}
  BY <1>2, <1>3, <1>4, <1>5, <1>6, Unmoved
<1> QED
  BY <1>4, <1>5, <1>6, <1>7, Unmoved, QuietContent

-----------------------------------------------------------------------------
(* Steps of callers, of the lock and of failures *)

\* A lock is stolen and a target left aside once and for all.
LEMMA IntactBefore ==
  ASSUME ShapeInv, [Next]_vars, Intact'
  PROVE  Intact
<1>1. stolen \in Nat /\ mislaid \in Nat
  BY DEF ShapeInv, LockInv, LockTypeOK, TypeOK
<1>2. stolen' \in {stolen, stolen + 1} /\ mislaid' \in {mislaid, mislaid + 1}
  <2>1. CASE UNCHANGED vars
    BY <2>1 DEF vars, lockVars, fileVars, ghostVars
  <2>2. CASE GetStale /\ UNCHANGED fileVars
    BY <2>2 DEF GetStale, fileVars, ghostVars
  <2>3. ASSUME NEW p \in Proc, LockStep(p), UNCHANGED fileVars
        PROVE  stolen' \in {stolen, stolen + 1} /\ mislaid' \in {mislaid, mislaid + 1}
    BY <2>3 DEF LockStep, Open, WriteOwner, WriteOwnerFails, Stat, ReadOwner, Probe, Recover, Retry,
       TimeOut, ReadToken, Unlink, fileVars, ghostVars
  <2>4. ASSUME NEW p \in Proc,
               Load(p) \/ Operate(p) \/ Die(p) \/ \E kind \in {"update", "save"} : CallFor(p, kind)
        PROVE  stolen' \in {stolen, stolen + 1} /\ mislaid' \in {mislaid, mislaid + 1}
    BY <2>4 DEF Load, CallFor, Die, Crash, Operate, ReadCurrent, Conflict, WriteTemp, SyncTemp,
       WriteFails, Rename, RenameNothing, RenameDenied, MoveAside, MoveAsideFails, Replace,
       ReplaceDenied, Restore, RestoreDenied, DropAside, Goto, Throw, Return, Leave,
       lockVars, ghostVars
  <2> QED
    BY <2>1, <2>2, <2>3, <2>4 DEF Next
<1> QED
  BY <1>1, <1>2 DEF Intact

LEMMA CallerContent ==
  ASSUME ShapeInv, Intact, ContentInv, ShapeInv', Intact', NEW p \in Proc,
         Load(p) \/ \E kind \in {"update", "save"} : CallFor(p, kind)
  PROVE  ContentInv' /\ Current' = Current
<1>1. CASE Load(p)
  <2>1. NotNewer(Read(file))
    BY IntactFacts, CurrentIs DEF NotNewer, Read
  <2>2. \A q \in Proc : NotNewer(known'[q])
    BY <1>1, <2>1, Unmoved DEF Load, ShapeInv, TypeOK
  <2>3. UNCHANGED <<at, step, op, goal, file, aside, acknowledged>>
    BY <1>1 DEF Load, lockVars, ghostVars
  <2>4. \A q \in Proc : /\ Replacing(q)' <=> Replacing(q)
                        /\ Preparing(q)' => Preparing(q)
                        /\ In(q, "done")' => In(q, "done")
    BY <2>3 DEF Holder, Replacing, Preparing, In
  <2> QED
    BY <2>2, <2>3, <2>4, Unmoved, QuietContent
<1>2. ASSUME NEW kind \in {"update", "save"}, CallFor(p, kind)
      PROVE  ContentInv' /\ Current' = Current
  <2>1. UNCHANGED <<step, goal, file, aside, known, acknowledged>>
    BY <1>2 DEF CallFor
  <2>2. /\ ~Holder(p) /\ ~Holder(p)'
        /\ \A q \in Proc : q # p => at'[q] = at[q] /\ op'[q] = op[q]
    BY <1>2 DEF CallFor, Move, Holder, ShapeInv, LockInv, LockTypeOK, TypeOK
  <2>3. \A q \in Proc : /\ Replacing(q)' <=> Replacing(q)
                        /\ Preparing(q)' => Preparing(q) /\ q # p
                        /\ In(q, "done")' => In(q, "done") /\ q # p
    BY <2>1, <2>2 DEF Holder, Replacing, Preparing, In
  <2> QED
    BY <2>1, <2>2, <2>3, Unmoved, QuietContent
<1> QED
  BY <1>1, <1>2

LEMMA LockStepContent ==
  ASSUME ShapeInv, Intact, ContentInv, ShapeInv', Intact', UNCHANGED fileVars,
         GetStale \/ \E p \in Proc : LockStep(p)
  PROVE  ContentInv' /\ Current' = Current
<1>1. UNCHANGED <<step, op, goal, file, aside, known, acknowledged>>
  BY DEF fileVars, procVars, ghostVars
<1>2. \A q \in Proc : /\ Holder(q) => Holder(q)'
                      /\ Holder(q)' => Holder(q) \/ at[q] \notin {"holding", "dead"}
  <2>1. CASE GetStale
    BY <2>1 DEF GetStale, Holder
  <2>2. ASSUME NEW p \in Proc, LockStep(p)
        PROVE  \E from \in Stage \ {"holding", "dead"}, to \in Stage : Move(p, from, to)
    BY <2>2 DEF LockStep, Open, WriteOwner, WriteOwnerFails, Stat, ReadOwner,
         Probe, Recover, Retry, TimeOut, ReadToken, Unlink, Stage
  <2>3. at \in [Proc -> Stage]
    BY DEF ShapeInv, LockInv, LockTypeOK
  <2> QED
    BY <2>1, <2>2, <2>3 DEF Move, Holder, Stage
<1>3. \A q \in Proc : at[q] \notin {"holding", "dead"} => step[q] = "read"
  BY DEF ShapeInv, Place
<1>4. \A q \in Proc : /\ Replacing(q)' <=> Replacing(q)
                      /\ Preparing(q)' => Preparing(q)
                      /\ In(q, "done")' => In(q, "done")
  BY <1>1, <1>2, <1>3 DEF Replacing, Preparing, In
<1> QED
  BY <1>1, <1>4, Unmoved, QuietContent

LEMMA DieContent ==
  ASSUME ShapeInv, Intact, ContentInv, ShapeInv', Intact', NEW p \in Proc, Die(p)
  PROVE  ContentInv' /\ Current' = Current
<1>1. UNCHANGED <<step, op, goal, file, aside, known, acknowledged>>
  BY DEF Die, procVars
<1>2. ~Replacing(p)
  BY DEF Die, Intact, Replacing, Holder
<1>3. ~Holder(p)' /\ \A q \in Proc : q # p => (Holder(q)' <=> Holder(q))
  BY DEF Die, Crash, Holder, ShapeInv, LockInv, LockTypeOK
<1>4. \A q \in Proc : /\ Replacing(q)' <=> Replacing(q)
                      /\ Preparing(q)' => Preparing(q)
                      /\ In(q, "done")' => In(q, "done")
  BY <1>1, <1>2, <1>3 DEF Replacing, Preparing, In
<1> QED
  BY <1>1, <1>4, Unmoved, QuietContent

LEMMA WriteTempContent ==
  ASSUME ShapeInv, Intact, ContentInv, ShapeInv', Intact', NEW p \in Proc, WriteTemp(p)
  PROVE  ContentInv' /\ Current' = Current
<1>1. UNCHANGED <<at, step, op, goal, file, aside, known, acknowledged>>
  BY DEF WriteTemp, lockVars, ghostVars
<1>2. \A q \in Proc : /\ Replacing(q)' <=> Replacing(q)
                      /\ Preparing(q)' => Preparing(q)
                      /\ In(q, "done")' => In(q, "done")
  BY <1>1 DEF Replacing, Preparing, In, Holder
<1> QED
  BY <1>1, <1>2, Unmoved, QuietContent

-----------------------------------------------------------------------------
(* Steps that move or replace the target *)

\* The operation is one process' at a time, and what it is to write is a content.
LEMMA OneInside ==
  ASSUME ShapeInv, Intact, ContentInv, NEW p \in Proc, Holder(p)
  PROVE  /\ \A q \in Proc : q # p => ~Holder(q)
         /\ goal[p] \in Content /\ goal[p] # Missing /\ goal[p].revision \in Nat
         /\ op[p].call \in Call
<1>1. \A q \in Proc : q # p => ~Holder(q)
  BY IntactFacts DEF MutualExclusion
<1>2. goal[p] \in Content /\ op[p].call \in Call
  BY DEF ShapeInv, TypeOK, Place, InCall, Holder
<1> QED
  BY <1>1, <1>2, ContentFacts

\* When the lock is released nobody is in the operation.
LEMMA AfterLeaving ==
  ASSUME ShapeInv, Intact, ContentInv, NEW p \in Proc, Leave(p)
  PROVE  \A q \in Proc : ~Holder(q)' /\ ~Replacing(q)' /\ ~Preparing(q)' /\ ~In(q, "done")'
<1>1. Holder(p) /\ at \in [Proc -> Stage] /\ at' = [at EXCEPT ![p] = "releasing"]
  BY DEF Leave, Move, Holder, ShapeInv, LockInv, LockTypeOK
<1>2. \A q \in Proc : ~Holder(q)'
  BY <1>1, OneInside DEF Holder
<1> QED
  BY <1>2 DEF Replacing, Preparing, In

LEMMA MoveAsideContent ==
  ASSUME ShapeInv, Intact, ContentInv, ShapeInv', Intact', NEW p \in Proc, MoveAside(p)
  PROVE  ContentInv' /\ Current' = Current
<1>1. Holder(p) /\ step[p] = "denied" /\ file # Missing /\ file' = Missing
  BY DEF MoveAside, In
<1>2. UNCHANGED <<at, op, goal, known, acknowledged>>
  BY DEF MoveAside, Goto, lockVars
<1>3. step'[p] = "replace" /\ aside'[p] = file
  BY DEF MoveAside, Goto, ShapeInv, TypeOK
<1>4. \A q \in Proc : Holder(q)' => q = p
  BY <1>1, <1>2, OneInside DEF Holder
<1>5. Replacing(p)' /\ MutualExclusion'
  BY <1>1, <1>2, <1>3, <1>4 DEF Replacing, Holder, MutualExclusion
<1>6. Current = file /\ Current' = file
  BY <1>1, <1>3, <1>5, CurrentIs, CurrentNext, IntactFacts
<1>7. \A q \in Proc : /\ Replacing(q)' => q = p
                      /\ Preparing(q)' => q = p /\ Preparing(p)
                      /\ ~In(q, "done")'
  BY <1>1, <1>3, <1>4 DEF Replacing, Preparing, In
<1>8. file \in Content /\ file.revision > 0
  BY <1>1 DEF ShapeInv, TypeOK, ContentInv
<1> QED
  BY <1>1, <1>2, <1>3, <1>6, <1>7, <1>8 DEF ContentInv, NotNewer

LEMMA RestoreContent ==
  ASSUME ShapeInv, Intact, ContentInv, ShapeInv', Intact', NEW p \in Proc, Restore(p)
  PROVE  ContentInv' /\ Current' = Current
<1>1. Replacing(p) /\ Leave(p) /\ file' = aside[p] /\ UNCHANGED <<known, acknowledged>>
  BY DEF Restore, In, Replacing, Throw
<1>2. file = Missing /\ aside[p] \in Content /\ aside[p] # Missing /\ aside[p].revision > 0
  BY <1>1, ContentFacts DEF ContentInv
<1>3. \A q \in Proc : ~Holder(q)' /\ ~Replacing(q)' /\ ~Preparing(q)' /\ ~In(q, "done")'
  BY <1>1, AfterLeaving
<1>4. MutualExclusion'
  BY <1>3 DEF MutualExclusion
<1>5. Current = aside[p] /\ Current' = aside[p]
  BY <1>1, <1>2, <1>4, CurrentIs, CurrentNext, IntactFacts
<1> QED
  BY <1>1, <1>2, <1>3, <1>5 DEF ContentInv, NotNewer

\* The rename is the moment at which the content changes, by one call.
LEMMA Renamed ==
  ASSUME ShapeInv, Intact, ContentInv, MutualExclusion', NEW p \in Proc, Preparing(p),
         file' = goal[p]
  PROVE  /\ Current' = goal[p] /\ file' # Missing /\ file'.revision > 0
         /\ Current'.revision = Current.revision + 1
         /\ Current'.updates = Current.updates \cup {op[p].call}
         /\ OneCall
         /\ \A q \in Proc : NotNewer(known[q])'
                              \/ known'[q] # known[q]
<1>1. /\ goal[p] # Missing /\ goal[p].revision \in Nat /\ op[p].call \in Call
      /\ goal[p].revision = Current.revision + 1
      /\ goal[p].updates = Current.updates \cup {op[p].call}
  BY OneInside, Unmoved DEF Preparing
<1>2. Current' = goal[p]
  BY <1>1, CurrentNext
<1>3. Current.revision \in Nat
  BY IntactFacts
<1>4. \A q \in Proc : known[q].revision \in Nat /\ known[q].revision <= Current.revision
  BY ContentFacts, Unmoved DEF ShapeInv, TypeOK, NotNewer
<1>5. \A q \in Proc : known[q].revision < Current'.revision
  BY <1>1, <1>2, <1>3, <1>4
<1>6. \A q \in Proc : known'[q] = known[q] => NotNewer(known[q])'
  BY <1>1, <1>2, <1>3, <1>4 DEF NotNewer
<1> QED
  BY <1>1, <1>2, <1>3, <1>6 DEF OneCall

LEMMA RenameContent ==
  ASSUME ShapeInv, Intact, ContentInv, ShapeInv', Intact', NEW p \in Proc, Rename(p)
  PROVE  ContentInv' /\ OneCall
<1>1. /\ Holder(p) /\ Preparing(p) /\ Leave(p) /\ step[p] \in Renaming /\ temp[p] # "none"
      /\ acknowledged' = acknowledged \cup {op[p].call}
  BY DEF Rename, Return, In, Preparing, Renaming
<1>2. file' = goal[p]
  BY <1>1, WrittenIs DEF Rename
<1>3. \A q \in Proc : ~Holder(q)' /\ ~Replacing(q)' /\ ~Preparing(q)' /\ ~In(q, "done")'
  BY <1>1, AfterLeaving
<1>4. MutualExclusion'
  BY <1>3 DEF MutualExclusion
<1>5. \A q \in Proc : known'[q] = IF q = p THEN goal[p] ELSE known[q]
  BY DEF Rename, Return, ShapeInv, TypeOK
<1>6. /\ Current' = goal[p] /\ file'.revision > 0 /\ OneCall
      /\ Current'.updates = Current.updates \cup {op[p].call}
      /\ \A q \in Proc : NotNewer(known[q])' \/ known'[q] # known[q]
  BY <1>1, <1>2, <1>4, Renamed
<1>7. goal[p].revision \in Nat
  BY <1>1, OneInside
<1>8. \A q \in Proc : NotNewer(known[q])'
  BY <1>5, <1>6, <1>7 DEF NotNewer
<1> QED
  BY <1>1, <1>3, <1>6, <1>8 DEF ContentInv

LEMMA ReplaceContent ==
  ASSUME ShapeInv, Intact, ContentInv, ShapeInv', Intact', NEW p \in Proc, Replace(p)
  PROVE  ContentInv' /\ OneCall
<1>1. Holder(p) /\ Preparing(p) /\ step[p] \in Renaming /\ temp[p] # "none"
  BY DEF Replace, In, Preparing, Renaming
<1>2. file' = goal[p]
  BY <1>1, WrittenIs DEF Replace
<1>3. UNCHANGED <<at, op, goal, known, acknowledged>> /\ step'[p] = "done"
  BY DEF Replace, Goto, lockVars, ShapeInv, TypeOK
<1>4. \A q \in Proc : Holder(q)' => q = p
  BY <1>1, <1>3, OneInside DEF Holder
<1>5. MutualExclusion'
  BY <1>4 DEF MutualExclusion
<1>6. /\ Current' = goal[p] /\ file'.revision > 0 /\ OneCall
      /\ Current'.updates = Current.updates \cup {op[p].call}
      /\ \A q \in Proc : NotNewer(known[q])'
  BY <1>1, <1>2, <1>3, <1>5, Renamed
<1>7. \A q \in Proc : ~Replacing(q)' /\ ~Preparing(q)' /\ (In(q, "done")' => q = p)
  BY <1>3, <1>4 DEF Replacing, Preparing, In
<1> QED
  BY <1>2, <1>3, <1>6, <1>7 DEF ContentInv

LEMMA DropAsideContent ==
  ASSUME ShapeInv, Intact, ContentInv, ShapeInv', Intact', NEW p \in Proc, DropAside(p)
  PROVE  ContentInv' /\ Current' = Current
<1>1. Holder(p) /\ Leave(p) /\ file' = file /\ acknowledged' = acknowledged \cup {op[p].call}
  BY DEF DropAside, In, Return
<1>2. file = goal[p] /\ op[p].call \in goal[p].updates
  BY DEF DropAside, ContentInv
<1>3. \A q \in Proc : ~Holder(q)' /\ ~Replacing(q)' /\ ~Preparing(q)' /\ ~In(q, "done")'
  BY <1>1, AfterLeaving
<1>4. MutualExclusion' /\ file # Missing /\ goal[p].revision \in Nat
  BY <1>1, <1>2, <1>3, OneInside DEF MutualExclusion
<1>5. Current = goal[p] /\ Current' = goal[p]
  BY <1>1, <1>2, <1>4, CurrentIs, CurrentNext, IntactFacts
<1>6. \A q \in Proc : known'[q] = IF q = p THEN goal[p] ELSE known[q]
  BY DEF DropAside, Return, ShapeInv, TypeOK
<1> QED
  BY <1>1, <1>2, <1>3, <1>4, <1>5, <1>6 DEF ContentInv, NotNewer

LEMMA OperateContent ==
  ASSUME ShapeInv, Intact, ContentInv, ShapeInv', Intact', NEW p \in Proc, Operate(p)
  PROVE  ContentInv' /\ OneCall
<1> USE DEF OneCall
<1>1. CASE ReadCurrent(p)
  BY <1>1, ReadContent
<1>2. CASE Conflict(p)
  BY <1>2, ThrowContent DEF Conflict, In, Replacing
<1>3. CASE WriteTemp(p)
  BY <1>3, WriteTempContent
<1>4. CASE SyncTemp(p)
  BY <1>4, GotoContent DEF SyncTemp, In
<1>5. CASE WriteFails(p)
  BY <1>5, ThrowContent DEF WriteFails, In, Replacing
<1>6. CASE Rename(p)
  BY <1>6, RenameContent
<1>7. CASE RenameNothing(p)
  BY <1>7, ThrowContent, GotoContent DEF RenameNothing, Replacing
<1>8. CASE RenameDenied(p)
  BY <1>8, ThrowContent, GotoContent DEF RenameDenied, In, Replacing
<1>9. CASE MoveAside(p)
  BY <1>9, MoveAsideContent
<1>10. CASE MoveAsideFails(p)
  BY <1>10, ThrowContent DEF MoveAsideFails, In, Replacing
<1>11. CASE Replace(p)
  BY <1>11, ReplaceContent
<1>12. CASE ReplaceDenied(p)
  BY <1>12, GotoContent DEF ReplaceDenied, In
<1>13. CASE Restore(p)
  BY <1>13, RestoreContent
<1>14. CASE RestoreDenied(p)
  BY <1>14 DEF RestoreDenied, Intact
<1>15. CASE DropAside(p)
  BY <1>15, DropAsideContent
<1> QED
  BY <1>1, <1>2, <1>3, <1>4, <1>5, <1>6, <1>7, <1>8, <1>9, <1>10, <1>11, <1>12, <1>13, <1>14, <1>15
     DEF Operate

LEMMA NextContent ==
  ASSUME Inv, ShapeInv', [Next]_vars, Intact'
  PROVE  ContentInv' /\ OneCall
<1>1. Intact /\ ContentInv /\ ShapeInv
  BY IntactBefore DEF Inv
<1>2. CASE UNCHANGED vars
  <2>1. UNCHANGED <<at, step, op, goal, file, aside, known, acknowledged>>
    BY <1>2 DEF vars, lockVars, fileVars, procVars, ghostVars
  <2>2. \A q \in Proc : /\ Replacing(q)' <=> Replacing(q)
                        /\ Preparing(q)' => Preparing(q)
                        /\ In(q, "done")' => In(q, "done")
    BY <2>1 DEF Replacing, Preparing, In, Holder
  <2> QED
    BY <1>1, <2>1, <2>2, Unmoved, QuietContent DEF OneCall
<1>3. CASE GetStale /\ UNCHANGED fileVars
  BY <1>1, <1>3, LockStepContent DEF OneCall
<1>4. ASSUME NEW p \in Proc,
             Load(p) \/ Operate(p) \/ Die(p) \/ (LockStep(p) /\ UNCHANGED fileVars)
               \/ \E kind \in {"update", "save"} : CallFor(p, kind)
      PROVE  ContentInv' /\ OneCall
  <2>1. CASE Operate(p)
    BY <1>1, <2>1, OperateContent
  <2>2. CASE Load(p) \/ \E kind \in {"update", "save"} : CallFor(p, kind)
    BY <1>1, <2>2, CallerContent DEF OneCall
  <2>3. CASE LockStep(p) /\ UNCHANGED fileVars
    BY <1>1, <2>3, LockStepContent DEF OneCall
  <2>4. CASE Die(p)
    BY <1>1, <2>4, DieContent DEF OneCall
  <2> QED
    BY <1>4, <2>1, <2>2, <2>3, <2>4
<1> QED
  BY <1>2, <1>3, <1>4 DEF Next

-----------------------------------------------------------------------------
(* Theorems *)

LEMMA InitInv == Init => Inv
<1> SUFFICES ASSUME Init
             PROVE  Inv
  OBVIOUS
<1>1. ShapeInv
  BY InitShape
<1>2. \A p \in Proc : ~Holder(p)
  BY DEF Init, LockInit, Holder
<1>3. MutualExclusion
  BY <1>2 DEF MutualExclusion
<1>4. file = Missing /\ Current = Empty
  BY <1>2, <1>3, CurrentIs DEF Init, Replacing
<1> QED
  BY <1>1, <1>2, <1>4 DEF Init, Inv, ContentInv, Replacing, Preparing, In, NotNewer, Empty

LEMMA NextInv == Inv /\ [Next]_vars => Inv'
BY NextShape, NextContent DEF Inv

(***************************************************************************)
(* The inductive invariant of updateJsonAtomic and                          *)
(* writeJsonAtomicWithRevision holds for every number of writers.           *)
(***************************************************************************)
THEOREM Invariance == Spec => []Inv
BY InitInv, NextInv, PTL DEF Spec

(***************************************************************************)
(* The variables of the store, and those of its lock, have their types: no  *)
(* torn content is ever renamed over the target.                            *)
(***************************************************************************)
THEOREM TypeCorrect == Spec => []TypeOK
<1>1. Inv => TypeOK
  BY DEF Inv, ShapeInv
<1> QED
  BY <1>1, Invariance, PTL

(***************************************************************************)
(* What updateJsonAtomic or writeJsonAtomicWithRevision acknowledged stays  *)
(* in the file, through denied renames, full disks and crashes, until a     *)
(* lock of a live process is removed or a target is left aside.             *)
(***************************************************************************)
THEOREM AcknowledgedSurvives == Spec => []NothingAcknowledgedIsLost
<1>1. Inv => NothingAcknowledgedIsLost
  BY DEF Inv, ContentInv, NothingAcknowledgedIsLost
<1> QED
  BY <1>1, Invariance, PTL

(***************************************************************************)
(* The file of the atomic store is an atomic register: its content changes  *)
(* by one call at a time, and its revision by one with it.                  *)
(***************************************************************************)
THEOREM AtomicRegister == Spec => ChangesByOneCall
<1>1. Inv /\ [Next]_vars => [ Intact' /\ Current' # Current =>
        /\ Current'.revision = Current.revision + 1
        /\ \E c \in Call : Current'.updates = Current.updates \cup {c} ]_vars
  BY NextShape, NextContent DEF Inv, OneCall
<1> QED
  BY <1>1, Invariance, PTL DEF Spec, ChangesByOneCall
=============================================================================
