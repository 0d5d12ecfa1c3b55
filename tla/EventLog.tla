------------------------------ MODULE EventLog ------------------------------
(***************************************************************************)
(* appendJsonLineLocked: the append-only event logs (sidecar events,        *)
(* intervention ledger).  Under the file lock an appender scans the log for *)
(* its event id and the highest sequence number, and then appends a line.   *)
(* A repeated hook appends the same event again.                            *)
(***************************************************************************)
EXTENDS FileLock, SequencesExt

CONSTANTS
  Event,    \* event ids
  NoEvent,  \* no event
  MaxCalls  \* bound: how many appends are tried

ASSUME NoEventAssumption == NoEvent \notin Event
ASSUME CallBoundAssumption == MaxCalls \in Nat

VARIABLES
  log,           \* the lines of the file
  cut,           \* the last line lacks its newline
  event,         \* the event each process is appending
  next,          \* the sequence number it computed, 0 before the scan
  acknowledged,  \* ghost: the events some call reported as logged
  glued,         \* ghost: the events of two calls that share a line
  calls          \* ghost: how many appends were tried

logVars == <<log, cut, event, next, acknowledged, glued, calls>>
vars == <<lockVars, logVars>>

Entry == [id : Event, sequence : Nat \ {0}]

\* A line that does not parse: written in part, or shared by two writes.
Torn == [id |-> NoEvent, sequence |-> 0]

TypeOK ==
  /\ LockTypeOK
  /\ log \in Seq(Entry \cup {Torn})
  /\ cut \in BOOLEAN /\ (cut => log # <<>>)
  /\ event \in [Proc -> Event \cup {NoEvent}]
  /\ next \in [Proc -> Nat]
  /\ acknowledged \subseteq Event /\ glued \subseteq Event
  /\ calls \in Nat

Init ==
  /\ LockInit
  /\ log = <<>> /\ cut = FALSE
  /\ event = [p \in Proc |-> NoEvent]
  /\ next = [p \in Proc |-> 0]
  /\ acknowledged = {} /\ glued = {}
  /\ calls = 0

Logged == { line.id : line \in ToSet(log) } \ {NoEvent}

Highest == CHOOSE n \in 0 .. Len(log) :
             /\ \A line \in ToSet(log) : line.sequence <= n
             /\ n = 0 \/ \E line \in ToSet(log) : line.sequence = n

-----------------------------------------------------------------------------

Call(p, e) ==
  /\ Move(p, "idle", "opening")
  /\ calls < MaxCalls
  /\ calls' = calls + 1
  /\ event' = [event EXCEPT ![p] = e]
  /\ UNCHANGED <<lock, suspect, stolen, stale, crashed, log, cut, next, acknowledged,
                 glued>>

\* The operation returns or throws, and the lock is released.
Leave(p) ==
  /\ Move(p, "holding", "releasing")
  /\ event' = [event EXCEPT ![p] = NoEvent]
  /\ next' = [next EXCEPT ![p] = 0]
  /\ UNCHANGED <<lock, suspect, stolen, stale, crashed, calls>>

Scanning(p) == Holder(p) /\ next[p] = 0

\* The lines are read one after the other; the first of this event ends the search.
FoundAt(p, n) == log[n].id = event[p] /\ \A m \in 1 .. n - 1 : log[m] # Torn

\* A line that does not parse ends the append.
Unreadable(p) ==
  /\ Scanning(p)
  /\ Torn \in ToSet(log) /\ \A n \in DOMAIN log : ~FoundAt(p, n)
  /\ Leave(p)
  /\ UNCHANGED <<log, cut, acknowledged, glued>>

\* { appended: false }
Duplicate(p) ==
  /\ Scanning(p) /\ \E n \in DOMAIN log : FoundAt(p, n)
  /\ Leave(p)
  /\ acknowledged' = acknowledged \cup {event[p]}
  /\ UNCHANGED <<log, cut, glued>>

\* Mutant: lines that do not parse are skipped, and duplicates not looked for.
ScanAnything(p) ==
  /\ Scanning(p)
  /\ next' = [next EXCEPT ![p] = Highest + 1]
  /\ UNCHANGED <<lockVars, log, cut, event, acknowledged, glued, calls>>

Scan(p) ==
  /\ Scanning(p) /\ Torn \notin ToSet(log)
  /\ event[p] \notin Logged
  /\ next' = [next EXCEPT ![p] = Highest + 1]
  /\ UNCHANGED <<lockVars, log, cut, event, acknowledged, glued, calls>>

\* What the file ends with is continued: behind a newline by a line of its own.
Put(p, line) ==
  IF cut
  THEN /\ log' = [log EXCEPT ![Len(log)] = Torn]
       /\ glued' = glued \cup ({Last(log).id, event[p]} \ {NoEvent})
  ELSE log' = Append(log, line) /\ UNCHANGED glued

LineOf(p) == [id |-> event[p], sequence |-> next[p]]

\* Mutant: the call reports an event whose line is not written.
WriteLost(p) ==
  /\ Holder(p) /\ next[p] > 0
  /\ acknowledged' = acknowledged \cup {event[p]}
  /\ Leave(p)
  /\ UNCHANGED <<log, cut, glued>>

Write(p) ==
  /\ Holder(p) /\ next[p] > 0
  /\ Put(p, LineOf(p)) /\ cut' = FALSE
  /\ acknowledged' = acknowledged \cup {event[p]}
  /\ Leave(p)

(***************************************************************************)
(* A write that is interrupted leaves nothing, a part of the line, all but  *)
(* its newline, or all of it: then only the fsync failed, or the return.    *)
(***************************************************************************)
WriteSome(p) ==
  \/ UNCHANGED <<log, cut, glued>>
  \/ \E line \in {Torn, LineOf(p)} : Put(p, line) /\ cut' = TRUE
  \/ Put(p, LineOf(p)) /\ cut' = FALSE

\* The disk is full, or fails
WriteFails(p) ==
  /\ Holder(p) /\ next[p] > 0
  /\ WriteSome(p)
  /\ Leave(p)
  /\ UNCHANGED acknowledged

\* or the process dies.
CrashInWrite(p) ==
  /\ Holder(p) /\ next[p] > 0
  /\ WriteSome(p)
  /\ Crash(p)
  /\ UNCHANGED <<event, next, acknowledged, calls>>

Step(p) ==
  \/ LockStep(p) /\ UNCHANGED logVars
  \/ Unreadable(p) \/ Duplicate(p) \/ Scan(p) \/ Write(p) \/ WriteFails(p)

Next ==
  \/ \E p \in Proc :
       \/ \E e \in Event : Call(p, e)
       \/ Step(p)
       \/ CrashInWrite(p)
       \/ Crash(p) /\ UNCHANGED logVars
  \/ GetStale /\ UNCHANGED logVars

(***************************************************************************)
(* A process that is in a call goes on, and a call that waits gives up in   *)
(* the end: the deadline of withFileLock is measured by the clock.          *)
(***************************************************************************)
Fairness ==
  \A p \in Proc : /\ WF_vars(Step(p))
                  /\ SF_vars(TimeOut(p) /\ UNCHANGED logVars)

Spec == Init /\ [][Next]_vars
FairSpec == Spec /\ Fairness

-----------------------------------------------------------------------------
(* Properties *)

Whole == { n \in DOMAIN log : log[n] # Torn }

(***************************************************************************)
(* The log numbers its events 1, 2, 3, ... with every id once, and a line   *)
(* that does not parse can only be the last: repeated hooks, dying and      *)
(* failing writers leave neither gaps nor duplicates.                       *)
(***************************************************************************)
LogIsExact ==
  stolen = 0 =>
    /\ \A n \in Whole : log[n].sequence = n
    /\ \A m, n \in Whole : log[m].id = log[n].id => m = n
    /\ \A n \in DOMAIN log : n < Len(log) => n \in Whole

(***************************************************************************)
(* What a call reported as logged is in the log, with one exception: a      *)
(* write that was interrupted just before its newline leaves a line that    *)
(* parses, and the next one is glued to it, although it is reported as      *)
(* logged.  Then the events of this line are lost, no other, and the log is *)
(* closed for good: every later append of another event fails there.        *)
(***************************************************************************)
AcknowledgedIsLogged ==
  stolen = 0 =>
    /\ acknowledged \subseteq Logged \cup glued
    /\ glued # {} => Last(log) = Torn

(***************************************************************************)
(* "Concurrent hooks serialize through file locks and receive monotonic     *)
(* event sequences", without the exception of LogIsExact.                   *)
(***************************************************************************)
SequencesAreMonotonic ==
  \A m, n \in Whole : m < n => log[m].sequence < log[n].sequence

(***************************************************************************)
(* Every call comes to an end, also when the lock was left behind without   *)
(* an owner and no process will ever remove it.                             *)
(***************************************************************************)
CallsEnd == \A p \in Proc : at[p] = "opening" ~> at[p] \in {"idle", "dead"}
=============================================================================
