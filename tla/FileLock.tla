------------------------------ MODULE FileLock ------------------------------
(***************************************************************************)
(* withFileLock: a lock file next to the file it protects, created          *)
(* exclusively, holding the pid and a token of its owner, and removed by    *)
(* the owner or, once it is older than staleMs and its owner is dead, by    *)
(* whoever waits for it.  Every system call is a step of its own: processes *)
(* interleave between any two of them, may be suspended for as long as it   *)
(* takes a lock to get stale, and may die.                                  *)
(*                                                                         *)
(* The protected operation is left to the modules that extend this one      *)
(* (EventLog, AtomicFile): they act while a process is "holding".           *)
(***************************************************************************)
EXTENDS Naturals, FiniteSets

CONSTANTS
  Proc,      \* processes; each has a pid of its own and never comes back
  NoProc,    \* no process
  MaxStale,  \* bound: how many locks get older than staleMs
  MaxCrash   \* bound: how many processes die

ASSUME NoProcAssumption == NoProc \notin Proc
ASSUME LockBoundAssumption == MaxStale \in Nat /\ MaxCrash \in Nat

VARIABLES
  lock,        \* the lock file, or NoLock
  at,          \* where each process is in withFileLock
  suspect,     \* the pid a waiting process read from the lock
  stolen,      \* ghost: how many locks of live processes were removed as stale
  stale,       \* ghost: how many locks got stale
  crashed      \* the processes that died

lockVars == <<lock, at, suspect, stolen, stale, crashed>>

NoLock == [creator |-> NoProc, owner |-> NoProc, old |-> FALSE]

\* The owner is NoProc until the metadata is written.
LockFile == [creator : Proc, owner : Proc \cup {NoProc}, old : BOOLEAN]

Stage == {"idle", "opening", "created", "refused", "judging", "probing",
          "recovering", "waiting", "holding", "releasing", "unlinking", "dead"}

LockTypeOK ==
  /\ lock \in LockFile \cup {NoLock}
  /\ at \in [Proc -> Stage]
  /\ suspect \in [Proc -> Proc \cup {NoProc}]
  /\ stolen \in Nat /\ stale \in Nat
  /\ crashed \subseteq Proc

LockInit ==
  /\ lock = NoLock
  /\ at = [p \in Proc |-> "idle"]
  /\ suspect = [p \in Proc |-> NoProc]
  /\ stolen = 0 /\ stale = 0
  /\ crashed = {}

Exists == lock # NoLock

Move(p, from, to) == at[p] = from /\ at' = [at EXCEPT ![p] = to]

-----------------------------------------------------------------------------
(* Acquiring *)

\* Mutant: the file is opened without the exclusive flag.
OpenShared(p) ==
  /\ Move(p, "opening", "created")
  /\ lock' = IF Exists THEN lock ELSE [creator |-> p, owner |-> NoProc, old |-> FALSE]
  /\ UNCHANGED <<suspect, stolen, stale, crashed>>

\* openSync(lockPath, "wx")
Open(p) ==
  /\ IF Exists
     THEN Move(p, "opening", "refused") /\ UNCHANGED lock
     ELSE /\ Move(p, "opening", "created")
          /\ lock' = [creator |-> p, owner |-> NoProc, old |-> FALSE]
  /\ UNCHANGED <<suspect, stolen, stale, crashed>>

\* Mutant: written by path, which creates a file that is not there.
WriteOwnerByPath(p) ==
  /\ Move(p, "created", "holding")
  /\ lock' = [lock EXCEPT !.owner = p, !.old = FALSE]
  /\ UNCHANGED <<suspect, stolen, stale, crashed>>

\* Written through the descriptor: a file that was unlinked stays unlinked.
WriteOwner(p) ==
  /\ Move(p, "created", "holding")
  /\ lock' = IF lock.creator = p THEN [lock EXCEPT !.owner = p, !.old = FALSE] ELSE lock
  /\ UNCHANGED <<suspect, stolen, stale, crashed>>

\* The disk is full: the call fails and leaves a lock without an owner.
WriteOwnerFails(p) ==
  /\ Move(p, "created", "idle")
  /\ UNCHANGED <<lock, suspect, stolen, stale, crashed>>

-----------------------------------------------------------------------------
(* Waiting: is the lock stale? *)

\* statSync(lockPath).mtimeMs
Stat(p) ==
  /\ Move(p, "refused", IF Exists /\ lock.old THEN "judging" ELSE "waiting")
  /\ UNCHANGED <<lock, suspect, stolen, stale, crashed>>

(***************************************************************************)
(* canRecoverStaleLock: metadata that do not parse and the own pid keep the *)
(* lock; a lock that has gone meanwhile counts as recoverable.              *)
(***************************************************************************)
ReadOwner(p) ==
  /\ Move(p, "judging",
          CASE ~Exists                               -> "recovering"
            [] Exists /\ lock.owner \in {NoProc, p}  -> "waiting"
            [] OTHER                                 -> "probing")
  /\ suspect' = [suspect EXCEPT ![p] = lock.owner]
  /\ UNCHANGED <<lock, stolen, stale, crashed>>

\* process.kill(metadata.pid, 0)
Probe(p) ==
  /\ Move(p, "probing", IF suspect[p] \in crashed THEN "recovering" ELSE "waiting")
  /\ suspect' = [suspect EXCEPT ![p] = NoProc]
  /\ UNCHANGED <<lock, stolen, stale, crashed>>

\* unlinkSync(lockPath) removes whatever is there by now.
Recover(p) ==
  /\ Move(p, "recovering", "waiting")
  /\ lock' = NoLock
  /\ stolen' = IF Exists /\ lock.creator \notin crashed THEN stolen + 1 ELSE stolen
  /\ UNCHANGED <<suspect, stale, crashed>>

Retry(p) ==
  /\ Move(p, "waiting", "opening")
  /\ UNCHANGED <<lock, suspect, stolen, stale, crashed>>

\* Mutant: a lock that is stale is waited for as long as it takes.
TimeOutUnlessStale(p) ==
  /\ ~lock.old
  /\ Move(p, "waiting", "idle")
  /\ UNCHANGED <<lock, suspect, stolen, stale, crashed>>

\* FileLockTimeoutError
TimeOut(p) ==
  /\ Move(p, "waiting", "idle")
  /\ UNCHANGED <<lock, suspect, stolen, stale, crashed>>

-----------------------------------------------------------------------------
(* Releasing *)

\* The token in the metadata is compared with the own one,
ReadToken(p) ==
  /\ Move(p, "releasing", IF Exists /\ lock.owner = p THEN "unlinking" ELSE "idle")
  /\ UNCHANGED <<lock, suspect, stolen, stale, crashed>>

\* and whatever is there by now is removed.
Unlink(p) ==
  /\ Move(p, "unlinking", "idle")
  /\ lock' = NoLock
  /\ UNCHANGED <<suspect, stolen, stale, crashed>>

-----------------------------------------------------------------------------
(* Time and failures *)

\* staleMs pass without the lock being touched.
GetStale ==
  /\ Exists /\ ~lock.old /\ stale < MaxStale
  /\ lock' = [lock EXCEPT !.old = TRUE]
  /\ stale' = stale + 1
  /\ UNCHANGED <<at, suspect, stolen, crashed>>

Crash(p) ==
  /\ at[p] \notin {"idle", "dead"}
  /\ Cardinality(crashed) < MaxCrash
  /\ at' = [at EXCEPT ![p] = "dead"]
  /\ crashed' = crashed \cup {p}
  /\ UNCHANGED <<lock, suspect, stolen, stale>>

\* What a call does by itself, given that the clock goes on.
LockStep(p) ==
  \/ Open(p) \/ WriteOwner(p) \/ WriteOwnerFails(p)
  \/ Stat(p) \/ ReadOwner(p) \/ Probe(p) \/ Recover(p) \/ Retry(p) \/ TimeOut(p)
  \/ ReadToken(p) \/ Unlink(p)

-----------------------------------------------------------------------------
(* Properties *)

Holder(p) == at[p] = "holding"

\* "serialize through file locks": never two processes in the operation.
MutualExclusion == \A p, q \in Proc : Holder(p) /\ Holder(q) => p = q

(***************************************************************************)
(* As long as no waiting process removed the lock of a live one, at most    *)
(* one is in the operation, whatever else happens: suspended owners, failed *)
(* writes of the metadata, deaths at any point and the removals of the     *)
(* locks they leave, any number of waiting processes.                       *)
(***************************************************************************)
ExclusiveUntilStolen == stolen = 0 => MutualExclusion
=============================================================================
