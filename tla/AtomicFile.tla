----------------------------- MODULE AtomicFile -----------------------------
(***************************************************************************)
(* A JSON file of the atomic store: updateJsonAtomic and                    *)
(* writeJsonAtomicWithRevision read it under the file lock, write a         *)
(* temporary file and rename it over the target.  On Windows the rename is  *)
(* denied while somebody has the target open; the target is then moved      *)
(* aside first and, if need be, moved back.                                 *)
(*                                                                         *)
(* Readers (readJsonDiagnostic) take no lock.  A save carries a copy that   *)
(* was read long before and the revision it had.                            *)
(***************************************************************************)
EXTENDS FileLock

CONSTANTS
  Missing,   \* no file
  MaxCalls,  \* bound: how many updates and saves are tried
  MaxDenied  \* bound: how often renaming over the target is denied

ASSUME CallBoundAssumption == MaxCalls \in Nat /\ MaxDenied \in Nat

VARIABLES
  file,          \* the target
  temp,          \* the temporary file of each process
  aside,         \* the target as each process moved it aside
  known,         \* the copy each process read, without a lock
  op,            \* what each process was called for, and the number of the call
  goal,          \* the content it is to write
  step,          \* where it is in the operation
  acknowledged,  \* ghost: the calls that returned without an error
  calls,         \* ghost: how many calls were made
  denied,        \* ghost: how many renames were denied
  mislaid        \* ghost: how often the target was moved aside and left there

procVars == <<temp, aside, known, op, goal, step>>
ghostVars == <<acknowledged, calls, denied, mislaid>>
fileVars == <<file, procVars, ghostVars>>
vars == <<lockVars, fileVars>>

Call == 1 .. MaxCalls

\* A content is told by its revision and the calls it contains.
Content == [revision : Nat, updates : SUBSET Call]

Empty == [revision |-> 0, updates |-> {}]

\* A temporary file is there in part or as a whole.
TempState == {"none", "part", "whole"}

StepName == {"read", "write", "rename", "denied", "replace", "restore", "done"}

ASSUME MissingAssumption == Missing \notin Content

TypeOK ==
  /\ LockTypeOK
  /\ file \in Content \cup {Missing}
  /\ temp \in [Proc -> TempState]
  /\ aside \in [Proc -> Content \cup {Missing}]
  /\ known \in [Proc -> Content]
  /\ op \in [Proc -> [kind : {"none", "update", "save"}, call : Call \cup {0}]]
  /\ goal \in [Proc -> Content]
  /\ step \in [Proc -> StepName]
  /\ acknowledged \subseteq Call
  /\ calls \in Nat /\ denied \in Nat /\ mislaid \in Nat

NoOp == [kind |-> "none", call |-> 0]

Init ==
  /\ LockInit
  /\ file = Missing
  /\ temp = [p \in Proc |-> "none"]
  /\ aside = [p \in Proc |-> Missing]
  /\ known = [p \in Proc |-> Empty]
  /\ op = [p \in Proc |-> NoOp]
  /\ goal = [p \in Proc |-> Empty]
  /\ step = [p \in Proc |-> "read"]
  /\ acknowledged = {}
  /\ calls = 0 /\ denied = 0 /\ mislaid = 0

\* A file that is not there is read as nothing yet, with revision 0.
Read(content) == IF content = Missing THEN Empty ELSE content

-----------------------------------------------------------------------------
(* Callers *)

Load(p) ==
  /\ at[p] = "idle"
  /\ known' = [known EXCEPT ![p] = Read(file)]
  /\ UNCHANGED <<lockVars, file, temp, aside, op, goal, step, ghostVars>>

CallFor(p, kind) ==
  /\ Move(p, "idle", "opening")
  /\ calls < MaxCalls
  /\ calls' = calls + 1
  /\ op' = [op EXCEPT ![p] = [kind |-> kind, call |-> calls + 1]]
  /\ UNCHANGED <<lock, suspect, stolen, stale, crashed,
                 file, temp, aside, known, goal, step, acknowledged, denied, mislaid>>

-----------------------------------------------------------------------------
(* The operation *)

In(p, s) == Holder(p) /\ step[p] = s

Goto(p, s) ==
  /\ step' = [step EXCEPT ![p] = s]
  /\ UNCHANGED <<lockVars, known, op, acknowledged, calls>>

\* The temporary file is removed and the lock released.
Leave(p) ==
  /\ Move(p, "holding", "releasing")
  /\ step' = [step EXCEPT ![p] = "read"]
  /\ temp' = [temp EXCEPT ![p] = "none"]
  /\ op' = [op EXCEPT ![p] = NoOp]
  /\ goal' = [goal EXCEPT ![p] = Empty]
  /\ UNCHANGED <<lock, suspect, stolen, stale, crashed, calls>>

\* The operation throws: the caller is told that nothing was written.
Throw(p) == Leave(p) /\ UNCHANGED <<known, acknowledged>>

\* The operation returns the content it wrote.
Return(p) ==
  /\ Leave(p)
  /\ known' = [known EXCEPT ![p] = goal[p]]
  /\ acknowledged' = acknowledged \cup {op[p].call}

\* An update starts from what is there, a save from the copy of its caller.
Base(p) == IF op[p].kind = "save" THEN known[p] ELSE Read(file)

\* Mutant: the expected revision is not compared.
ReadAnyRevision(p) ==
  /\ In(p, "read")
  /\ Goto(p, "write")
  /\ goal' = [goal EXCEPT ![p] =
                [revision |-> Read(file).revision + 1, updates |-> Base(p).updates \cup {op[p].call}]]
  /\ UNCHANGED <<file, temp, aside, denied, mislaid>>

ReadCurrent(p) ==
  /\ In(p, "read")
  /\ Base(p).revision = Read(file).revision
  /\ Goto(p, "write")
  /\ goal' = [goal EXCEPT ![p] =
                [revision |-> Read(file).revision + 1, updates |-> Base(p).updates \cup {op[p].call}]]
  /\ UNCHANGED <<file, temp, aside, denied, mislaid>>

\* RevisionConflictError
Conflict(p) ==
  /\ In(p, "read")
  /\ Base(p).revision # Read(file).revision
  /\ Throw(p)
  /\ UNCHANGED <<file, aside, denied, mislaid>>

(***************************************************************************)
(* cleanupAtomicTempFiles removes temporary files older than staleMs: of    *)
(* dead processes, and of a live one that was suspended in the operation.   *)
(***************************************************************************)
Abandoned(p) == { q \in Proc \ {p} : temp[q] # "none" /\ (q \in crashed \/ stale > 0) }

WriteTemp(p) ==
  /\ In(p, "write") /\ temp[p] = "none"
  /\ \E removed \in SUBSET Abandoned(p) :
       temp' = [q \in Proc |-> IF q = p THEN "part" ELSE IF q \in removed THEN "none" ELSE temp[q]]
  /\ UNCHANGED <<lockVars, file, aside, known, op, goal, step, ghostVars>>

\* Mutant: the rename does not wait for the whole file.
SyncTempEarly(p) ==
  /\ In(p, "write") /\ temp[p] = "part"
  /\ Goto(p, "rename")
  /\ UNCHANGED <<file, temp, aside, goal, denied, mislaid>>

\* Written to the end, synced and closed.
SyncTemp(p) ==
  /\ In(p, "write") /\ temp[p] = "part"
  /\ Goto(p, "rename")
  /\ temp' = [temp EXCEPT ![p] = "whole"]
  /\ UNCHANGED <<file, aside, goal, denied, mislaid>>

\* The disk is full.
WriteFails(p) ==
  /\ In(p, "write")
  /\ Throw(p)
  /\ UNCHANGED <<file, aside, denied, mislaid>>

\* What the temporary file holds; no content is torn.
Torn == [revision |-> 0, updates |-> {0}]

Written(p) == IF temp[p] = "whole" THEN goal[p] ELSE Torn

Rename(p) ==
  /\ In(p, "rename") /\ temp[p] # "none"
  /\ file' = Written(p)
  /\ Return(p)
  /\ UNCHANGED <<aside, denied, mislaid>>

\* ENOENT: another writer has removed the temporary file.
RenameNothing(p) ==
  /\ step[p] \in {"rename", "replace"} /\ Holder(p) /\ temp[p] = "none"
  /\ IF step[p] = "rename" THEN Throw(p) /\ UNCHANGED aside
                           ELSE Goto(p, "restore") /\ UNCHANGED <<temp, aside, goal>>
  /\ UNCHANGED <<file, denied, mislaid>>

Deny == denied < MaxDenied /\ denied' = denied + 1

\* The last attempt of renameWithRetry failed; with EPERM or EACCES, and a
\* target that is there, the target is moved out of the way.
RenameDenied(p) ==
  /\ In(p, "rename")
  /\ \/ Throw(p)
     \/ file # Missing /\ Goto(p, "denied") /\ UNCHANGED <<temp, goal>>
  /\ Deny
  /\ UNCHANGED <<file, aside, mislaid>>

MoveAside(p) ==
  /\ In(p, "denied") /\ file # Missing
  /\ Goto(p, "replace")
  /\ file' = Missing
  /\ aside' = [aside EXCEPT ![p] = file]
  /\ UNCHANGED <<temp, goal, denied, mislaid>>

\* The target cannot be moved either, or has gone.
MoveAsideFails(p) ==
  /\ In(p, "denied")
  /\ Throw(p)
  /\ UNCHANGED <<file, aside, denied, mislaid>>

\* Mutant: the copy that was moved aside is taken back in any case.
ReplaceAndRestore(p) ==
  /\ In(p, "replace") /\ temp[p] # "none"
  /\ Goto(p, "done")
  /\ file' = aside[p]
  /\ temp' = [temp EXCEPT ![p] = "none"]
  /\ UNCHANGED <<aside, goal, denied, mislaid>>

Replace(p) ==
  /\ In(p, "replace") /\ temp[p] # "none"
  /\ Goto(p, "done")
  /\ file' = Written(p)
  /\ temp' = [temp EXCEPT ![p] = "none"]
  /\ UNCHANGED <<aside, goal, denied, mislaid>>

ReplaceDenied(p) ==
  /\ In(p, "replace")
  /\ Goto(p, "restore")
  /\ Deny
  /\ UNCHANGED <<file, temp, aside, goal, mislaid>>

Restore(p) ==
  /\ In(p, "restore")
  /\ file' = aside[p]
  /\ aside' = [aside EXCEPT ![p] = Missing]
  /\ Throw(p)
  /\ UNCHANGED <<denied, mislaid>>

\* "preserve original failure": the target stays where it was moved.
RestoreDenied(p) ==
  /\ In(p, "restore")
  /\ Deny
  /\ mislaid' = mislaid + 1
  /\ Throw(p)
  /\ UNCHANGED <<file, aside>>

DropAside(p) ==
  /\ In(p, "done")
  /\ aside' = [aside EXCEPT ![p] = Missing]
  /\ Return(p)
  /\ UNCHANGED <<file, denied, mislaid>>

Die(p) ==
  /\ Crash(p)
  /\ mislaid' = IF at[p] = "holding" /\ step[p] \in {"replace", "restore"}
                THEN mislaid + 1 ELSE mislaid
  /\ UNCHANGED <<file, procVars, acknowledged, calls, denied>>

Operate(p) ==
  \/ ReadCurrent(p) \/ Conflict(p) \/ WriteTemp(p) \/ SyncTemp(p) \/ WriteFails(p)
  \/ Rename(p) \/ RenameNothing(p) \/ RenameDenied(p)
  \/ MoveAside(p) \/ MoveAsideFails(p) \/ Replace(p) \/ ReplaceDenied(p)
  \/ Restore(p) \/ RestoreDenied(p) \/ DropAside(p)

Next ==
  \/ \E p \in Proc :
       \/ Load(p)
       \/ \E kind \in {"update", "save"} : CallFor(p, kind)
       \/ LockStep(p) /\ UNCHANGED fileVars
       \/ Operate(p)
       \/ Die(p)
  \/ GetStale /\ UNCHANGED fileVars

Spec == Init /\ [][Next]_vars

-----------------------------------------------------------------------------
(* Properties *)

\* No lock of a live process was removed, and no target left aside.
Intact == stolen = 0 /\ mislaid = 0

\* What the file contains; during a replacement, what was moved aside.
Current ==
  IF file # Missing THEN file
  ELSE IF \E p \in Proc : Holder(p) /\ step[p] \in {"replace", "restore"}
       THEN aside[CHOOSE p \in Proc : Holder(p) /\ step[p] \in {"replace", "restore"}]
       ELSE Empty

(***************************************************************************)
(* No acknowledged update or save is ever overwritten by one that did not   *)
(* see it, and a denied rename, a full disk or a death loses none.          *)
(***************************************************************************)
NothingAcknowledgedIsLost == Intact => acknowledged \subseteq Current.updates

(***************************************************************************)
(* The content changes by one call at a time and the revision with it: the  *)
(* file is what a caller of the store takes it for, an atomic register.     *)
(***************************************************************************)
ChangesByOneCall ==
  [][ Intact' /\ Current' # Current =>
        /\ Current'.revision = Current.revision + 1
        /\ \E c \in Call : Current'.updates = Current.updates \cup {c} ]_vars

(***************************************************************************)
(* "A ... locked Windows file is reported diagnostically; it is never       *)
(* silently treated as an empty successful state": with the lock working,   *)
(* no operation starts over from revision 0 once there was content.         *)
(***************************************************************************)
NeverStartsOver ==
  stolen = 0 => \A p \in Proc : In(p, "write") /\ goal[p].revision = 1 => acknowledged = {}
=============================================================================
