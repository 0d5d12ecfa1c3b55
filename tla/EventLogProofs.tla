--------------------------- MODULE EventLogProofs ---------------------------
(***************************************************************************)
(* Theorems of EventLog for any number of processes, events, calls, stale   *)
(* locks and crashes: as long as no lock of a live process is removed, the  *)
(* log is exact and complete.                                               *)
(***************************************************************************)
EXTENDS EventLog, TLAPS, WellFoundedInduction, FiniteSetTheorems

-----------------------------------------------------------------------------
(* The lock: what FileLock guarantees to any operation that runs under it,  *)
(* for any number of processes, of stale locks and of crashes.              *)

\* From the exclusive creation to the removal.
Owning(p) == at[p] \in {"created", "holding", "releasing", "unlinking"}

(***************************************************************************)
(* The inductive invariant: until a lock is stolen, who is between the      *)
(* creation and the removal of its lock file finds its own file there.      *)
(***************************************************************************)
LockInv ==
  /\ LockTypeOK
  /\ \A p \in Proc : p \in crashed <=> at[p] = "dead"
  /\ stolen = 0 => \A p \in Proc : Owning(p) => lock.creator = p

\* No process is in withFileLock at the beginning.
LEMMA LockInitInv == LockInit => LockInv
BY DEF LockInit, LockInv, LockTypeOK, Stage, Owning

\* A lock file that is there has a creator, a missing one has none.
LEMMA LockValues ==
  ASSUME LockTypeOK
  PROVE  /\ Exists => lock \in LockFile
         /\ ~Exists => lock.creator = NoProc
         /\ NoProc \notin Proc
BY NoProcAssumption DEF LockTypeOK, Exists, NoLock, LockFile

\* Every system call of withFileLock keeps the invariant.
LEMMA LockStepInv ==
  ASSUME LockInv, NEW p \in Proc, LockStep(p)
  PROVE  LockInv'
<1>0. /\ Exists => lock \in LockFile
      /\ ~Exists => lock = NoLock /\ lock.creator = NoProc
      /\ NoProc \notin Proc
  BY LockValues DEF LockInv, Exists
<1> USE DEF LockInv, LockTypeOK, Move, Stage, Owning
<1>1. CASE Open(p)
  <2>1. CASE Exists
    BY <1>1, <2>1 DEF Open
  <2>2. CASE ~Exists
    <3> DEFINE Fresh == [creator |-> p, owner |-> NoProc, old |-> FALSE]
    <3>0. Fresh \in LockFile /\ Fresh.creator = p
      BY DEF LockFile
    <3>1. lock' = Fresh
      BY <1>1, <2>2 DEF Open
    <3> HIDE DEF Fresh
    <3>2. stolen = 0 => \A q \in Proc : ~Owning(q)
      BY <1>0, <2>2
    <3> QED
      BY <1>1, <2>2, <3>0, <3>1, <3>2 DEF Open
  <2> QED
    BY <2>1, <2>2
<1>2. CASE WriteOwner(p)
  <2>1. lock' \in LockFile \cup {NoLock} /\ lock'.creator = lock.creator
    <3>1. CASE lock.creator = p
      BY <1>0, <1>2, <3>1 DEF WriteOwner, LockFile
    <3>2. CASE lock.creator # p
      BY <1>2, <3>2 DEF WriteOwner
    <3> QED
      BY <3>1, <3>2
  <2> QED
    BY <1>2, <2>1 DEF WriteOwner
<1>3. CASE WriteOwnerFails(p)
  BY <1>3 DEF WriteOwnerFails
<1>4. CASE Stat(p)
  BY <1>4 DEF Stat
<1>5. CASE ReadOwner(p)
  <2>1. lock.owner \in Proc \cup {NoProc}
    BY <1>5 DEF LockFile, NoLock
  <2>2. PICK to \in {"recovering", "waiting", "probing"} : Move(p, "judging", to)
    BY <1>5 DEF ReadOwner
  <2> QED
    BY <1>5, <2>1, <2>2 DEF ReadOwner
<1>6. CASE Probe(p)
  BY <1>6 DEF Probe
<1>7. CASE Recover(p)
  <2>1. ASSUME stolen' = 0, NEW q \in Proc, Owning(q)'
        PROVE  FALSE
    <3>1. stolen = 0 /\ (~Exists \/ lock.creator \in crashed)
      BY <1>7, <2>1 DEF Recover
    <3>2. Owning(q) /\ lock.creator = q
      BY <1>7, <2>1, <3>1 DEF Recover
    <3> QED
      BY <1>0, <3>1, <3>2
  <2> QED
    BY <1>7, <2>1 DEF Recover
<1>8. CASE Retry(p)
  BY <1>8 DEF Retry
<1>9. CASE TimeOut(p)
  BY <1>9 DEF TimeOut
<1>10. CASE ReadToken(p)
  BY <1>10 DEF ReadToken
<1>11. CASE Unlink(p)
  BY <1>11 DEF Unlink
<1> QED
  BY <1>1, <1>2, <1>3, <1>4, <1>5, <1>6, <1>7, <1>8, <1>9, <1>10, <1>11 DEF LockStep

\* So does a lock that gets stale,
LEMMA GetStaleInv ==
  ASSUME LockInv, GetStale
  PROVE  LockInv'
<1>1. lock \in LockFile
  BY LockValues DEF LockInv, GetStale
<1>2. lock' \in LockFile /\ lock'.creator = lock.creator
  BY <1>1 DEF GetStale, LockFile
<1> QED
  BY <1>2 DEF LockInv, LockTypeOK, GetStale, Owning

\* a process that dies,
LEMMA CrashInv ==
  ASSUME LockInv, NEW p \in Proc, Crash(p)
  PROVE  LockInv'
BY DEF LockInv, LockTypeOK, Crash, Stage, Owning

\* and a process that enters withFileLock or leaves the operation.
LEMMA MoveInv ==
  ASSUME LockInv, NEW p \in Proc,
         Move(p, "idle", "opening") \/ Move(p, "holding", "releasing"),
         UNCHANGED <<lock, suspect, stolen, stale, crashed>>
  PROVE  LockInv'
BY DEF LockInv, LockTypeOK, Move, Stage, Owning

\* The invariant is what the mutual exclusion of withFileLock rests on.
LEMMA LockInvExclusive == LockInv => ExclusiveUntilStolen
BY DEF LockInv, ExclusiveUntilStolen, MutualExclusion, Holder, Owning

-----------------------------------------------------------------------------
(* The log *)

Line == Entry \cup {Torn}

\* Numbered without gaps, every id once, and torn at most at the end.
Exact(lines) ==
  /\ lines \in Seq(Line)
  /\ \A n \in 1 .. Len(lines) :
       IF lines[n] = Torn THEN n = Len(lines) ELSE lines[n].sequence = n
  /\ \A m, n \in 1 .. Len(lines) :
       lines[m] # Torn /\ lines[n] # Torn /\ lines[m].id = lines[n].id => m = n

NoneTorn(lines) == \A n \in 1 .. Len(lines) : lines[n] # Torn

Has(lines, e) == \E n \in 1 .. Len(lines) : lines[n].id = e

InCall(p) == at[p] \in {"opening", "created", "refused", "judging", "probing",
                        "recovering", "waiting", "holding"}

\* What a process that has scanned the log and not yet written knows of it.
Scanned(p) == Holder(p) /\ next[p] > 0

\* A line that two writes share is the last one, and no third write is tried.
GluedAtMostOnce ==
  glued = {} \/ (~NoneTorn(log) /\ \E d, e \in Event : glued = {d, e})

Serial ==
  /\ Exact(log)
  /\ event \in [Proc -> Event \cup {NoEvent}]
  /\ next \in [Proc -> Nat]
  /\ cut \in BOOLEAN /\ (cut => log # <<>>)
  /\ acknowledged \subseteq Event
  /\ \A e \in acknowledged : Has(log, e) \/ e \in glued
  /\ GluedAtMostOnce
  /\ \A p \in Proc : InCall(p) => event[p] \in Event
  /\ \A p \in Proc : next[p] > 0 => at[p] \in {"holding", "dead"}
  /\ \A p \in Proc : Scanned(p) =>
       NoneTorn(log) /\ next[p] = Len(log) + 1 /\ ~Has(log, event[p])

(***************************************************************************)
(* The inductive invariant.  What a process scanned stays true until it     *)
(* writes, because by LockInv nobody else is in the operation meanwhile.    *)
(***************************************************************************)
LogInv == LockInv /\ (stolen = 0 => Serial)

-----------------------------------------------------------------------------
(* Lines and logs *)

\* A line is an entry with a number from 1, or it is torn.
LEMMA LineValues ==
  ASSUME NEW line \in Line
  PROVE  /\ line = Torn <=> line.id = NoEvent
         /\ line # Torn => line \in Entry /\ line.id \in Event /\ line.sequence \in Nat \ {0}
         /\ line.sequence \in Nat
BY NoEventAssumption DEF Line, Entry, Torn

\* The two ways to say that a log has no torn line, and that it has an event.
LEMMA ToSetFacts ==
  ASSUME log \in Seq(Line)
  PROVE  /\ Torn \notin ToSet(log) <=> NoneTorn(log)
         /\ \A e \in Event : e \in Logged <=> Has(log, e)
<1>1. DOMAIN log = 1 .. Len(log) /\ ToSet(log) = { log[n] : n \in 1 .. Len(log) }
  BY DEF ToSet
<1> QED
  BY <1>1, NoEventAssumption DEF Logged, NoneTorn, Has

\* The highest number of a whole log is its length.
LEMMA HighestIsLength ==
  ASSUME Exact(log), NoneTorn(log)
  PROVE  Highest = Len(log)
<1> DEFINE P(n) == /\ \A line \in ToSet(log) : line.sequence <= n
                   /\ n = 0 \/ \E line \in ToSet(log) : line.sequence = n
<1>1. /\ Len(log) \in Nat
      /\ ToSet(log) = { log[n] : n \in 1 .. Len(log) }
      /\ \A n \in 1 .. Len(log) : log[n].sequence = n
  BY DEF Exact, NoneTorn, ToSet
<1>2. Len(log) \in 0 .. Len(log) /\ P(Len(log))
  BY <1>1
<1>3. ASSUME NEW n \in 0 .. Len(log), P(n)
      PROVE  n = Len(log)
  <2>1. CASE Len(log) = 0
    BY <2>1
  <2>2. CASE Len(log) # 0
    <3>1. log[Len(log)] \in ToSet(log) /\ log[Len(log)].sequence = Len(log)
      BY <1>1, <2>2
    <3>2. Len(log) <= n
      BY <1>3, <3>1
    <3> QED
      BY <1>1, <1>3, <3>2
  <2> QED
    BY <2>1, <2>2
<1>4. Highest = CHOOSE n \in 0 .. Len(log) : P(n)
  BY DEF Highest
<1> HIDE DEF P
<1> QED
  BY <1>2, <1>3, <1>4

\* Appending the next line to a whole log leaves an exact one.
LEMMA AppendLine ==
  ASSUME Exact(log), NoneTorn(log), NEW line \in Line,
         line # Torn => line.sequence = Len(log) + 1 /\ ~Has(log, line.id)
  PROVE  /\ Exact(Append(log, line))
         /\ \A e : Has(log, e) => Has(Append(log, line), e)
         /\ line # Torn => Has(Append(log, line), line.id)
<1> DEFINE longer == Append(log, line)
<1>1. /\ log \in Seq(Line) /\ Len(log) \in Nat
      /\ longer \in Seq(Line) /\ Len(longer) = Len(log) + 1
      /\ \A n \in 1 .. Len(log) : longer[n] = log[n]
      /\ longer[Len(log) + 1] = line
  BY DEF Exact
<1>3. \A n \in 1 .. Len(longer) : n \in 1 .. Len(log) \/ n = Len(log) + 1
  BY <1>1
<1> HIDE DEF longer
<1>4. \A n \in 1 .. Len(longer) :
        IF longer[n] = Torn THEN n = Len(longer) ELSE longer[n].sequence = n
  BY <1>1, <1>3 DEF Exact, NoneTorn
<1>5. \A m, n \in 1 .. Len(longer) :
        longer[m] # Torn /\ longer[n] # Torn /\ longer[m].id = longer[n].id => m = n
  BY <1>1, <1>3 DEF Exact, Has
<1>6. \A e : Has(log, e) => Has(longer, e)
  BY <1>1 DEF Has
<1>7. line # Torn => Has(longer, line.id)
  BY <1>1 DEF Has
<1> QED
  BY <1>1, <1>4, <1>5, <1>6, <1>7 DEF Exact, longer

\* A log whose last line is spoilt by the next write.
LEMMA SpoilLine ==
  ASSUME Exact(log), NoneTorn(log), log # <<>>,
         NEW spoilt, spoilt = [log EXCEPT ![Len(log)] = Torn]
  PROVE  /\ Exact(spoilt) /\ spoilt # <<>> /\ ~NoneTorn(spoilt)
         /\ Last(log).id \in Event
         /\ \A e : Has(log, e) => Has(spoilt, e) \/ e = Last(log).id
<1>1. /\ log \in Seq(Line) /\ Len(log) \in Nat \ {0} /\ Len(log) \in 1 .. Len(log)
      /\ spoilt \in Seq(Line) /\ Len(spoilt) = Len(log)
      /\ spoilt[Len(log)] = Torn
      /\ \A n \in 1 .. Len(log) : n # Len(log) => spoilt[n] = log[n]
      /\ Last(log) = log[Len(log)]
  BY DEF Exact, Last, Line
<1>2. Last(log).id \in Event
  <2>1. log[Len(log)] \in Line /\ log[Len(log)] # Torn
    BY <1>1 DEF NoneTorn
  <2> QED
    BY <1>1, <2>1, LineValues
<1>3. \A e : Has(log, e) => Has(spoilt, e) \/ e = Last(log).id
  BY <1>1 DEF Has
<1>4. ~NoneTorn(spoilt) /\ spoilt # <<>>
  BY <1>1 DEF NoneTorn
<1>5. Exact(spoilt)
  <2>1. \A n \in 1 .. Len(spoilt) :
          IF spoilt[n] = Torn THEN n = Len(spoilt) ELSE spoilt[n].sequence = n
    <3>1. \A n \in 1 .. Len(log) : log[n].sequence = n /\ log[n] # Torn
      BY DEF Exact, NoneTorn
    <3> QED
      BY <1>1, <3>1
  <2>2. \A m, n \in 1 .. Len(spoilt) :
          spoilt[m] # Torn /\ spoilt[n] # Torn /\ spoilt[m].id = spoilt[n].id => m = n
    <3>1. \A m, n \in 1 .. Len(log) : log[m].id = log[n].id => m = n
      BY DEF Exact, NoneTorn
    <3>2. \A n \in 1 .. Len(spoilt) : n \in 1 .. Len(log) /\ (spoilt[n] # Torn => spoilt[n] = log[n])
      BY <1>1
    <3> QED
      BY <3>1, <3>2
  <2> QED
    BY <1>1, <2>1, <2>2 DEF Exact
<1> QED
  BY <1>2, <1>3, <1>4, <1>5

\* What a write does to the log, whether all of it gets there or not.
Added ==
  /\ Exact(log)' /\ (log # <<>>)' /\ GluedAtMostOnce'
  /\ \A e : Has(log, e) => Has(log', e) \/ e \in glued'

LEMMA PutLine ==
  ASSUME LogInv, stolen = 0, NEW p \in Proc, Holder(p), next[p] > 0,
         NEW line \in {Torn, LineOf(p)}, Put(p, line)
  PROVE  Added /\ (line = LineOf(p) => Has(log', event[p]) \/ event[p] \in glued')
<1>1. /\ Exact(log) /\ NoneTorn(log) /\ ~Has(log, event[p])
      /\ next[p] = Len(log) + 1 /\ next[p] \in Nat \ {0} /\ event[p] \in Event
      /\ cut => log # <<>>
      /\ glued = {}
  BY DEF LogInv, Serial, Scanned, GluedAtMostOnce, Holder, InCall
<1>2. LineOf(p) \in Line /\ LineOf(p) # Torn /\ LineOf(p).id = event[p]
      /\ LineOf(p).sequence = next[p]
  BY <1>1, NoEventAssumption DEF LineOf, Line, Entry, Torn
<1>3. CASE cut
  <2>1. PICK spoilt : spoilt = [log EXCEPT ![Len(log)] = Torn]
    OBVIOUS
  <2>2. log' = spoilt /\ glued' = {Last(log).id, event[p]} \ {NoEvent}
    BY <1>1, <1>3, <2>1 DEF Put
  <2>3. /\ Exact(spoilt) /\ spoilt # <<>> /\ ~NoneTorn(spoilt)
        /\ Last(log).id \in Event
        /\ \A e : Has(log, e) => Has(spoilt, e) \/ e = Last(log).id
    BY <1>1, <1>3, <2>1, SpoilLine
  <2>4. glued' = {Last(log).id, event[p]}
    BY <1>1, <2>2, <2>3, NoEventAssumption
  <2> QED
    BY <1>1, <2>2, <2>3, <2>4 DEF Added, GluedAtMostOnce
<1>4. CASE ~cut
  <2>1. log' = Append(log, line) /\ glued' = {}
    BY <1>1, <1>4 DEF Put
  <2>2. line \in Line /\ (line # Torn => line.sequence = Len(log) + 1 /\ ~Has(log, line.id))
    BY <1>1, <1>2 DEF Line
  <2>3. /\ Exact(log') /\ \A e : Has(log, e) => Has(log', e)
        /\ line # Torn => Has(log', line.id)
    BY <1>1, <2>1, <2>2, AppendLine
  <2>4. log' # <<>>
    BY <1>1, <2>1 DEF Exact
  <2> QED
    BY <1>2, <2>1, <2>3, <2>4 DEF Added, GluedAtMostOnce
<1> QED
  BY <1>3, <1>4

-----------------------------------------------------------------------------
(* The steps *)

\* An empty log without calls is exact.
LEMMA InitLogInv == Init => LogInv
<1> SUFFICES ASSUME Init
             PROVE  LogInv
  OBVIOUS
<1>1. LockInv
  BY LockInitInv DEF Init
<1>2. log = <<>> /\ Len(log) = 0
  BY DEF Init
<1>3. Exact(log)
  BY <1>2 DEF Exact
<1>3a. cut = FALSE /\ cut \in BOOLEAN /\ ~cut /\ glued = {}
  BY DEF Init
<1>4. \A p \in Proc : ~InCall(p) /\ ~Scanned(p)
  BY DEF Init, LockInit, InCall, Scanned, Holder
<1> QED
  BY <1>1, <1>3, <1>3a, <1>4 DEF LogInv, Serial, GluedAtMostOnce, Init

\* A step of withFileLock, of the clock or of a dying process, which nobody
\* takes into a call, leaves the log and what is known of it alone.
LEMMA QuietInv ==
  ASSUME LogInv, LockInv', stolen' = 0 => stolen = 0,
         UNCHANGED logVars,
         \A p \in Proc : /\ InCall(p)' => InCall(p)
                         /\ at[p] = "dead" => at'[p] = "dead"
                         /\ at[p] = "holding" => at'[p] \in {"holding", "dead"}
  PROVE  LogInv'
<1> SUFFICES ASSUME stolen' = 0
             PROVE  Serial'
  BY DEF LogInv
<1>1. stolen = 0 /\ Serial
  BY DEF LogInv
<1>2. \A p \in Proc : Scanned(p)' => Scanned(p)
  BY <1>1 DEF Serial, Scanned, Holder, logVars
<1>3. \A p \in Proc : next[p] > 0 => at'[p] \in {"holding", "dead"}
  BY <1>1 DEF Serial
<1> QED
  BY <1>1, <1>2, <1>3 DEF Serial, GluedAtMostOnce, logVars

\* The system calls of withFileLock.
LEMMA LockStepLogInv ==
  ASSUME LogInv, NEW p \in Proc, LockStep(p), UNCHANGED logVars
  PROVE  LogInv'
<1>1. LockInv' /\ LockTypeOK
  BY LockStepInv DEF LogInv, LockInv
<1>2. stolen' = 0 => stolen = 0
  BY <1>1 DEF LockTypeOK, LockStep, Open, WriteOwner, WriteOwnerFails, Stat, ReadOwner,
              Probe, Recover, Retry, TimeOut, ReadToken, Unlink
<1>3. \E from \in {"opening", "created", "refused", "judging", "probing", "recovering",
                   "waiting", "releasing", "unlinking"}, to \in Stage \ {"dead"} :
        /\ Move(p, from, to)
        /\ to \notin {"idle", "unlinking"} => from \notin {"releasing", "unlinking"}
  BY DEF LockStep, Open, WriteOwner, WriteOwnerFails, Stat, ReadOwner,
         Probe, Recover, Retry, TimeOut, ReadToken, Unlink, Stage
<1>4. \A q \in Proc : /\ InCall(q)' => InCall(q)
                      /\ at[q] = "dead" => at'[q] = "dead"
                      /\ at[q] = "holding" => at'[q] \in {"holding", "dead"}
  BY <1>1, <1>3 DEF LockTypeOK, Move, InCall, Stage
<1> QED
  BY <1>1, <1>2, <1>4, QuietInv

\* A lock that gets stale, a process that dies outside of a write.
LEMMA FailureLogInv ==
  ASSUME LogInv, GetStale \/ \E p \in Proc : Crash(p), UNCHANGED logVars
  PROVE  LogInv'
<1>1. LockInv' /\ LockTypeOK
  BY GetStaleInv, CrashInv DEF LogInv, LockInv
<1>2. stolen' = 0 => stolen = 0
  BY DEF GetStale, Crash
<1>3. \A q \in Proc : /\ InCall(q)' => InCall(q)
                      /\ at[q] = "dead" => at'[q] = "dead"
                      /\ at[q] = "holding" => at'[q] \in {"holding", "dead"}
  BY <1>1 DEF LockTypeOK, GetStale, Crash, InCall
<1> QED
  BY <1>1, <1>2, <1>3, QuietInv

\* A call is made for an event.
LEMMA CallInv ==
  ASSUME LogInv, NEW p \in Proc, NEW e \in Event, Call(p, e)
  PROVE  LogInv'
<1>1. LockInv' /\ LockTypeOK
  BY MoveInv DEF LogInv, LockInv, Call
<1> SUFFICES ASSUME stolen = 0, Serial
             PROVE  Serial'
  BY <1>1 DEF LogInv, Call
<1>2. \A q \in Proc : Scanned(q)' => Scanned(q) /\ q # p
  BY <1>1 DEF Call, Move, Scanned, Holder, LockTypeOK, Serial
<1> QED
  BY <1>1, <1>2 DEF Serial, GluedAtMostOnce, Call, Move, InCall, LockTypeOK

\* An appender that scans learns what LogInv says a scanned process knows.
LEMMA ScanInv ==
  ASSUME LogInv, NEW p \in Proc, Scan(p)
  PROVE  LogInv'
<1>1. LockInv'
  BY DEF LogInv, Scan, lockVars, LockInv, LockTypeOK, Owning
<1> SUFFICES ASSUME stolen = 0, Serial
             PROVE  Serial'
  BY <1>1 DEF LogInv, Scan, lockVars
<1>2. NoneTorn(log) /\ ~Has(log, event[p])
  BY ToSetFacts DEF Scan, Serial, Exact, InCall, Scanning, Holder
<1>3. next' = [next EXCEPT ![p] = Len(log) + 1] /\ Len(log) \in Nat
  <2>1. Highest = Len(log)
    BY <1>2, HighestIsLength DEF Serial
  <2> QED
    BY <2>1 DEF Scan, Serial, Exact
<1>4. \A q \in Proc : Scanned(q)' => q = p \/ Scanned(q)
  BY <1>3 DEF Scan, Scanned, Holder, lockVars, Serial
<1> QED
  BY <1>2, <1>3, <1>4 DEF Scan, Serial, GluedAtMostOnce, Scanning, Holder, lockVars, InCall

\* Leaving the operation gives up what was known of the log.
LEMMA LeaveInv ==
  ASSUME LogInv, NEW p \in Proc, Leave(p),
         stolen = 0 => /\ Exact(log)' /\ acknowledged' \subseteq Event
                       /\ \A e \in acknowledged' : Has(log, e)' \/ e \in glued'
                       /\ cut' \in BOOLEAN /\ (cut => log # <<>>)' /\ GluedAtMostOnce'
                       /\ log' = log \/ \A q \in Proc : Holder(q) => q = p
  PROVE  LogInv'
<1>1. LockInv' /\ LockTypeOK
  BY MoveInv DEF LogInv, LockInv, Leave
<1> SUFFICES ASSUME stolen = 0, Serial
             PROVE  Serial'
  BY <1>1 DEF LogInv, Leave
<1>2. \A q \in Proc : Scanned(q)' => Scanned(q) /\ q # p /\ log' = log
  BY <1>1 DEF Leave, Move, Scanned, Holder, LockTypeOK, Serial
<1>3. \A q \in Proc : InCall(q)' => InCall(q) /\ q # p
  BY <1>1 DEF Leave, Move, InCall, LockTypeOK
<1>4. \A q \in Proc : next'[q] > 0 => q # p /\ at'[q] \in {"holding", "dead"}
  BY <1>1 DEF Leave, Move, Serial, LockTypeOK
<1> QED
  BY <1>1, <1>2, <1>3, <1>4 DEF Serial, Leave

\* With no stolen lock a process that holds one is alone in the operation.
LEMMA AloneInOperation ==
  ASSUME LogInv, stolen = 0, NEW p \in Proc, Holder(p)
  PROVE  \A q \in Proc : Holder(q) => q = p
BY LockInvExclusive DEF LogInv, ExclusiveUntilStolen, MutualExclusion

\* An append that finds a torn line changes nothing,
LEMMA UnreadableInv ==
  ASSUME LogInv, NEW p \in Proc, Unreadable(p)
  PROVE  LogInv'
BY LeaveInv DEF Unreadable, LogInv, Serial, GluedAtMostOnce, NoneTorn, Exact, Has

\* one that finds its event reports it,
LEMMA DuplicateInv ==
  ASSUME LogInv, NEW p \in Proc, Duplicate(p)
  PROVE  LogInv'
<1>1. stolen = 0 => event[p] \in Event /\ Has(log, event[p])
  BY DEF Duplicate, FoundAt, Has, LogInv, Serial, Exact, Scanning, Holder, InCall
<1> QED
  BY <1>1, LeaveInv DEF Duplicate, LogInv, Serial, GluedAtMostOnce, NoneTorn, Exact, Has

\* one that writes adds the next line of the log,
LEMMA WriteInv ==
  ASSUME LogInv, NEW p \in Proc, Write(p)
  PROVE  LogInv'
<1>1. stolen = 0 => /\ Exact(log)' /\ acknowledged' \subseteq Event
                    /\ \A e \in acknowledged' : Has(log, e)' \/ e \in glued'
                    /\ cut' \in BOOLEAN /\ (cut => log # <<>>)' /\ GluedAtMostOnce'
  <2> SUFFICES ASSUME stolen = 0, Serial
               PROVE  /\ Exact(log)' /\ acknowledged' \subseteq Event
                      /\ \A e \in acknowledged' : Has(log, e)' \/ e \in glued'
                      /\ cut' \in BOOLEAN /\ (cut => log # <<>>)' /\ GluedAtMostOnce'
    BY DEF LogInv
  <2>1. Holder(p) /\ next[p] > 0 /\ Put(p, LineOf(p)) /\ cut' = FALSE
        /\ acknowledged' = acknowledged \cup {event[p]}
    BY DEF Write
  <2>2. event[p] \in Event
    BY <2>1 DEF Holder, InCall, Serial
  <2>3. Added /\ (Has(log', event[p]) \/ event[p] \in glued')
    BY <2>1, PutLine
  <2>4. \A e \in acknowledged : Has(log, e) \/ e \in glued
    BY DEF Serial
  <2>5. glued \subseteq glued'
    BY <2>1 DEF Put
  <2> QED
    BY <2>1, <2>2, <2>3, <2>4, <2>5 DEF Serial, Added
<1> QED
  BY <1>1, AloneInOperation, LeaveInv DEF Write

\* and one that is interrupted leaves an exact log.
LEMMA WriteSomeFacts ==
  ASSUME LogInv, stolen = 0, NEW p \in Proc, Holder(p), next[p] > 0, WriteSome(p)
  PROVE  /\ Exact(log)' /\ cut' \in BOOLEAN /\ (cut => log # <<>>)' /\ GluedAtMostOnce'
         /\ glued \subseteq glued'
         /\ \A e : Has(log, e) => Has(log', e) \/ e \in glued'
         /\ \A q \in Proc : Holder(q) => q = p
<1>1. CASE UNCHANGED <<log, cut, glued>>
  BY <1>1, AloneInOperation DEF LogInv, Serial, GluedAtMostOnce
<1>2. CASE \E line \in {Torn, LineOf(p)} : Put(p, line) /\ cut' \in BOOLEAN
  <2>1. Added
    BY <1>2, PutLine
  <2>2. glued \subseteq glued'
    BY <1>2 DEF Put
  <2> QED
    BY <1>2, <2>1, <2>2, AloneInOperation DEF Added
<1> QED
  BY <1>1, <1>2 DEF WriteSome

\* A partial write that fails.
LEMMA WriteFailsInv ==
  ASSUME LogInv, NEW p \in Proc, WriteFails(p)
  PROVE  LogInv'
<1>1. stolen = 0 => /\ acknowledged' \subseteq Event
                    /\ \A e \in acknowledged' : Has(log, e)' \/ e \in glued'
  BY WriteSomeFacts DEF WriteFails, LogInv, Serial
<1> QED
  BY <1>1, WriteSomeFacts, LeaveInv DEF WriteFails

\* A partial write of a process that dies in it.
LEMMA CrashInWriteInv ==
  ASSUME LogInv, NEW p \in Proc, CrashInWrite(p)
  PROVE  LogInv'
<1>1. LockInv' /\ LockTypeOK
  BY CrashInv DEF LogInv, LockInv, CrashInWrite
<1> SUFFICES ASSUME stolen = 0, Serial
             PROVE  Serial'
  BY <1>1 DEF LogInv, CrashInWrite, Crash
<1>2. \A q \in Proc : ~Scanned(q)'
  BY <1>1, WriteSomeFacts DEF CrashInWrite, Crash, Scanned, Holder, LockTypeOK
<1>3. \A q \in Proc : InCall(q)' => InCall(q)
  BY <1>1 DEF CrashInWrite, Crash, InCall, LockTypeOK
<1>4. \A q \in Proc : next[q] > 0 => at'[q] \in {"holding", "dead"}
  BY <1>1 DEF CrashInWrite, Crash, Serial, LockTypeOK
<1>5. /\ Exact(log)' /\ cut' \in BOOLEAN /\ (cut => log # <<>>)' /\ GluedAtMostOnce'
      /\ glued \subseteq glued' /\ \A e : Has(log, e) => Has(log', e) \/ e \in glued'
  BY WriteSomeFacts DEF CrashInWrite
<1> QED
  BY <1>2, <1>3, <1>4, <1>5 DEF Serial, CrashInWrite

\* Nothing happens.
LEMMA StutterLogInv ==
  ASSUME LogInv, UNCHANGED vars
  PROVE  LogInv'
BY DEF LogInv, LockInv, LockTypeOK, Owning, Serial, InCall, Scanned, Holder, Exact, NoneTorn, Has,
       GluedAtMostOnce, vars, lockVars, logVars

\* Every step keeps the invariant.
LEMMA NextLogInv ==
  ASSUME LogInv, [Next]_vars
  PROVE  LogInv'
<1>1. ASSUME NEW p \in Proc, Step(p)
      PROVE  LogInv'
  BY <1>1, LockStepLogInv, UnreadableInv, DuplicateInv, ScanInv, WriteInv, WriteFailsInv DEF Step
<1>2. ASSUME NEW p \in Proc, NEW e \in Event, Call(p, e)
      PROVE  LogInv'
  BY <1>2, CallInv
<1>3. ASSUME NEW p \in Proc, CrashInWrite(p)
      PROVE  LogInv'
  BY <1>3, CrashInWriteInv
<1>4. CASE (GetStale \/ \E p \in Proc : Crash(p)) /\ UNCHANGED logVars
  BY <1>4, FailureLogInv
<1> QED
  BY <1>1, <1>2, <1>3, <1>4, StutterLogInv DEF Next

-----------------------------------------------------------------------------
(* The theorems *)

\* LogInv is an invariant of the event log.
THEOREM LogInvariance == Spec => []LogInv
<1>1. Init => LogInv
  BY InitLogInv
<1>2. LogInv /\ [Next]_vars => LogInv'
  BY NextLogInv
<1> QED
  BY <1>1, <1>2, PTL DEF Spec

(***************************************************************************)
(* withFileLock serializes any number of processes until a waiting one      *)
(* takes the lock of a live process for a stale one.                        *)
(***************************************************************************)
THEOREM Exclusive == Spec => []ExclusiveUntilStolen
<1>1. LogInv => ExclusiveUntilStolen
  BY LockInvExclusive DEF LogInv
<1> QED
  BY <1>1, LogInvariance, PTL

\* And until then the log has neither gaps nor duplicates nor a torn line
\* before its last.
THEOREM LogExact == Spec => []LogIsExact
<1>1. LogInv => LogIsExact
  <2> SUFFICES ASSUME stolen = 0, Serial
               PROVE  /\ \A n \in Whole : log[n].sequence = n
                      /\ \A m, n \in Whole : log[m].id = log[n].id => m = n
                      /\ \A n \in DOMAIN log : n < Len(log) => n \in Whole
    BY DEF LogInv, LogIsExact
  <2>1. DOMAIN log = 1 .. Len(log) /\ Len(log) \in Nat
    BY DEF Serial, Exact
  <2>2. \A n \in Whole : n \in 1 .. Len(log) /\ log[n] # Torn
    BY <2>1 DEF Whole
  <2>3. \A n \in 1 .. Len(log) :
          IF log[n] = Torn THEN n = Len(log) ELSE log[n].sequence = n
    BY DEF Serial, Exact
  <2>4. ASSUME NEW n \in DOMAIN log, n < Len(log)
        PROVE  n \in Whole
    <3>1. n \in 1 .. Len(log) /\ n # Len(log)
      BY <2>1, <2>4
    <3>2. log[n] # Torn
      BY <2>3, <3>1
    <3> QED
      BY <2>4, <3>2 DEF Whole
  <2>5. \A n \in Whole : log[n].sequence = n
    BY <2>2, <2>3
  <2>6. \A m, n \in Whole : log[m].id = log[n].id => m = n
    <3>1. \A m, n \in 1 .. Len(log) :
            log[m] # Torn /\ log[n] # Torn /\ log[m].id = log[n].id => m = n
      BY DEF Serial, Exact
    <3> QED
      BY <2>2, <3>1
  <2> QED
    BY <2>4, <2>5, <2>6
<1> QED
  BY <1>1, LogInvariance, PTL

(***************************************************************************)
(* And it holds every event that a call reported as logged, except two that *)
(* share its last line, behind which nothing is logged any more.            *)
(***************************************************************************)
THEOREM NothingElseIsLost ==
  Spec => [](AcknowledgedIsLogged /\ (stolen = 0 => Cardinality(glued) <= 2))
<1>1. LogInv => AcknowledgedIsLogged /\ (stolen = 0 => Cardinality(glued) <= 2)
  <2> SUFFICES ASSUME LogInv, stolen = 0, Serial
               PROVE  /\ acknowledged \subseteq Logged \cup glued
                      /\ glued # {} => Last(log) = Torn
                      /\ Cardinality(glued) <= 2
    BY DEF LogInv, AcknowledgedIsLogged
  <2>1. acknowledged \subseteq Logged \cup glued
    BY ToSetFacts DEF Serial, Exact
  <2>2. ASSUME glued # {}
        PROVE  Last(log) = Torn /\ Cardinality(glued) <= 2
    <3>1. PICK n \in 1 .. Len(log) : log[n] = Torn
      BY <2>2 DEF Serial, GluedAtMostOnce, NoneTorn
    <3>2. n = Len(log)
      BY <3>1 DEF Serial, Exact
    <3>3. PICK d, e \in Event : glued = {d, e}
      BY <2>2 DEF Serial, GluedAtMostOnce
    <3>4. Last(log) = Torn
      BY <3>1, <3>2 DEF Last
    <3>5. Cardinality({d}) = 1 /\ IsFiniteSet({d})
      BY FS_Singleton
    <3>6. CASE d = e
      <4>1. glued = {d}
        BY <3>3, <3>6
      <4> QED
        BY <4>1, <3>4, <3>5
    <3>7. CASE d # e
      <4>1. glued = {d} \cup {e} /\ e \notin {d}
        BY <3>3, <3>7
      <4>2. Cardinality({d} \cup {e}) = Cardinality({d}) + 1
        BY <4>1, <3>5, FS_AddElement, Zenon
      <4>3. Cardinality({d} \cup {e}) = 2
        BY <4>2, <3>5
      <4> QED
        BY <4>1, <4>3, <3>4
    <3> QED
      BY <3>6, <3>7
  <2>3. glued = {} => Cardinality(glued) <= 2
    BY FS_EmptySet
  <2> QED
    BY <2>1, <2>2, <2>3
<1> QED
  BY <1>1, LogInvariance, PTL

-----------------------------------------------------------------------------
(* After a lock was stolen *)

(***************************************************************************)
(* What still holds when two appenders are in the operation: they may take  *)
(* the same number, but none that is higher than the line it is written in. *)
(***************************************************************************)
Numbered ==
  /\ TypeOK
  /\ \A n \in 1 .. Len(log) : log[n].sequence <= n
  /\ \A p \in Proc : next[p] <= Len(log) + 1
  /\ \A p \in Proc : InCall(p) => event[p] \in Event

NumberedInv == LockInv /\ Numbered

\* What is known of the log after a line was written, or not.
Grown ==
  /\ log' \in Seq(Line)
  /\ \A n \in 1 .. Len(log') : log'[n].sequence <= n
  /\ Len(log') \in Nat /\ Len(log) \in Nat /\ Len(log) <= Len(log')

\* A least bound of the numbers exists, and it is at most the length.
LEMMA HighestExists ==
  ASSUME log \in Seq(Line), \A n \in 1 .. Len(log) : log[n].sequence <= n
  PROVE  Highest \in 0 .. Len(log)
<1> DEFINE Bounds(n) == \A line \in ToSet(log) : line.sequence <= n
           T == { n \in 0 .. Len(log) : Bounds(n) }
<1>1. /\ Len(log) \in Nat
      /\ ToSet(log) = { log[n] : n \in 1 .. Len(log) }
      /\ \A line \in ToSet(log) : line.sequence \in Nat
  BY LineValues DEF ToSet
<1>2. Len(log) \in T
  <2>1. ASSUME NEW n \in 1 .. Len(log)
        PROVE  log[n].sequence <= Len(log)
    <3>1. log[n].sequence \in Nat /\ log[n].sequence <= n /\ n <= Len(log)
      BY <1>1, <2>1
    <3> QED
      BY <1>1, <3>1
  <2> QED
    BY <1>1, <2>1
<1>3. T \subseteq Nat /\ T # {}
  BY <1>1, <1>2
<1> HIDE DEF T
<1>4. PICK n \in T : \A m \in T : ~(<<m, n>> \in OpToRel(<, Nat))
  BY <1>3, NatLessThanWellFounded, WFMin
<1>5. \A m \in T : ~(m < n)
  BY <1>3, <1>4 DEF OpToRel
<1>6. n \in 0 .. Len(log) /\ Bounds(n)
  BY DEF T
<1>7. n = 0 \/ \E line \in ToSet(log) : line.sequence = n
  <2> SUFFICES ASSUME n # 0, \A line \in ToSet(log) : line.sequence # n
               PROVE  FALSE
    OBVIOUS
  <2>1. n - 1 \in 0 .. Len(log) /\ n - 1 < n
    BY <1>1, <1>6
  <2>2. Bounds(n - 1)
    BY <1>1, <1>6
  <2>3. n - 1 \in T
    BY <2>1, <2>2 DEF T
  <2> QED
    BY <1>5, <2>1, <2>3
<1> DEFINE P(k) == /\ \A line \in ToSet(log) : line.sequence <= k
                   /\ k = 0 \/ \E line \in ToSet(log) : line.sequence = k
<1>8. P(n)
  BY <1>6, <1>7
<1>9. Highest = CHOOSE k \in 0 .. Len(log) : P(k)
  BY DEF Highest
<1> HIDE DEF P
<1> QED
  BY <1>6, <1>8, <1>9

\* A line that is written, or glued to the one before, keeps the numbers in bounds.
LEMMA PutGrown ==
  ASSUME NumberedInv, NEW p \in Proc, event[p] \in Event, next[p] \in Nat \ {0},
         NEW line \in {Torn, LineOf(p)}, Put(p, line)
  PROVE  Grown /\ glued' \subseteq Event /\ log' # <<>>
<1>1. /\ log \in Seq(Line) /\ Len(log) \in Nat /\ \A n \in 1 .. Len(log) : log[n].sequence <= n
      /\ next[p] <= Len(log) + 1 /\ glued \subseteq Event /\ (cut => log # <<>>)
  BY DEF NumberedInv, Numbered, TypeOK, Line
<1>2. line \in Line /\ line.sequence <= Len(log) + 1 /\ Torn \in Line /\ Torn.sequence = 0
  BY <1>1 DEF LineOf, Line, Entry, Torn
<1>3. CASE cut
  <2>1. Len(log) \in 1 .. Len(log)
    BY <1>1, <1>3
  <2>2. /\ log' = [log EXCEPT ![Len(log)] = Torn]
        /\ glued' = glued \cup ({Last(log).id, event[p]} \ {NoEvent})
    BY <1>3 DEF Put
  <2>3. Last(log).id \in Event \cup {NoEvent}
    BY <1>1, <2>1, LineValues DEF Last, Torn
  <2>4. /\ log' \in Seq(Line) /\ Len(log') = Len(log)
        /\ \A n \in 1 .. Len(log) : log'[n] = IF n = Len(log) THEN Torn ELSE log[n]
    BY <1>1, <1>2, <2>1, <2>2
  <2>5. \A n \in 1 .. Len(log') : log'[n].sequence <= n
    BY <1>1, <1>2, <2>4
  <2> QED
    BY <1>1, <2>1, <2>2, <2>3, <2>4, <2>5 DEF Grown
<1>4. CASE ~cut
  <2>1. log' = Append(log, line) /\ glued' = glued
    BY <1>4 DEF Put
  <2>2. /\ log' \in Seq(Line) /\ Len(log') = Len(log) + 1
        /\ \A n \in 1 .. Len(log) : log'[n] = log[n]
        /\ log'[Len(log) + 1] = line
    BY <1>1, <1>2, <2>1
  <2>3. \A n \in 1 .. Len(log') : n \in 1 .. Len(log) \/ n = Len(log) + 1
    BY <1>1, <2>2
  <2>4. \A n \in 1 .. Len(log') : log'[n].sequence <= n
    BY <1>1, <1>2, <2>2, <2>3
  <2> QED
    BY <1>1, <2>1, <2>2, <2>4 DEF Grown
<1> QED
  BY <1>3, <1>4

LEMMA InitNumbered == Init => NumberedInv
<1> SUFFICES ASSUME Init PROVE NumberedInv
  OBVIOUS
<1>1. LockInv /\ LockTypeOK
  BY LockInitInv DEF Init, LockInv
<1>2. log = <<>> /\ Len(log) = 0 /\ log \in Seq(Line)
  BY DEF Init
<1>2a. cut = FALSE /\ cut \in BOOLEAN /\ ~cut
  BY DEF Init
<1>3. \A p \in Proc : ~InCall(p)
  BY DEF Init, LockInit, InCall
<1> QED
  BY <1>1, <1>2, <1>2a, <1>3 DEF NumberedInv, Numbered, TypeOK, Line, Init

\* A step that leaves the log alone and takes nobody into a call.
LEMMA QuietNumbered ==
  ASSUME NumberedInv, LockInv', UNCHANGED logVars, \A p \in Proc : InCall(p)' => InCall(p)
  PROVE  NumberedInv'
BY DEF NumberedInv, Numbered, TypeOK, LockInv, logVars

LEMMA LockStepNumbered ==
  ASSUME NumberedInv, NEW p \in Proc, LockStep(p), UNCHANGED logVars
  PROVE  NumberedInv'
<1>1. LockInv' /\ LockTypeOK
  BY LockStepInv DEF NumberedInv, LockInv
<1>2. \E from \in {"opening", "created", "refused", "judging", "probing", "recovering",
                   "waiting", "releasing", "unlinking"}, to \in Stage \ {"dead"} :
        /\ Move(p, from, to)
        /\ to \notin {"idle", "unlinking"} => from \notin {"releasing", "unlinking"}
  BY DEF LockStep, Open, WriteOwner, WriteOwnerFails, Stat, ReadOwner,
         Probe, Recover, Retry, TimeOut, ReadToken, Unlink, Stage
<1>3. \A q \in Proc : InCall(q)' => InCall(q)
  BY <1>1, <1>2 DEF LockTypeOK, Move, InCall, Stage
<1> QED
  BY <1>1, <1>3, QuietNumbered

LEMMA FailureNumbered ==
  ASSUME NumberedInv, GetStale \/ \E p \in Proc : Crash(p), UNCHANGED logVars
  PROVE  NumberedInv'
<1>1. LockInv' /\ LockTypeOK
  BY GetStaleInv, CrashInv DEF NumberedInv, LockInv
<1>2. \A q \in Proc : InCall(q)' => InCall(q)
  BY <1>1 DEF LockTypeOK, GetStale, Crash, InCall
<1> QED
  BY <1>1, <1>2, QuietNumbered

LEMMA CallNumbered ==
  ASSUME NumberedInv, NEW p \in Proc, NEW e \in Event, Call(p, e)
  PROVE  NumberedInv'
<1>1. LockInv' /\ LockTypeOK'
  BY MoveInv DEF NumberedInv, LockInv, Call
<1>2. \A q \in Proc : q # p => (InCall(q)' => InCall(q))
  BY DEF NumberedInv, LockInv, LockTypeOK, Call, Move, InCall
<1>3. /\ event' \in [Proc -> Event \cup {NoEvent}] /\ event'[p] = e
      /\ \A q \in Proc : q # p => event'[q] = event[q]
  BY DEF NumberedInv, Numbered, TypeOK, Call
<1>4. TypeOK'
  BY <1>1, <1>3 DEF NumberedInv, Numbered, TypeOK, Call
<1> QED
  BY <1>1, <1>2, <1>3, <1>4 DEF NumberedInv, Numbered, Call

LEMMA ScanNumbered ==
  ASSUME NumberedInv, NEW p \in Proc, Scan(p)
  PROVE  NumberedInv'
<1>1. LockInv' /\ LockTypeOK'
  BY DEF NumberedInv, Scan, lockVars, LockInv, LockTypeOK, Owning
<1>2. Highest \in 0 .. Len(log) /\ Len(log) \in Nat
  BY HighestExists DEF NumberedInv, Numbered, TypeOK, Line
<1>3. next' = [next EXCEPT ![p] = Highest + 1] /\ next \in [Proc -> Nat]
      /\ \A q \in Proc : next[q] <= Len(log) + 1
  BY DEF Scan, NumberedInv, Numbered, TypeOK
<1>4. next' \in [Proc -> Nat] /\ \A q \in Proc : next'[q] <= Len(log) + 1
  BY <1>2, <1>3
<1>5. \A q \in Proc : InCall(q)' <=> InCall(q)
  BY DEF Scan, lockVars, InCall
<1> QED
  BY <1>1, <1>4, <1>5 DEF NumberedInv, Numbered, TypeOK, Scan

LEMMA LeaveNumbered ==
  ASSUME NumberedInv, NEW p \in Proc, Leave(p), Grown, acknowledged' \subseteq Event,
         glued' \subseteq Event, cut' \in BOOLEAN, (cut => log # <<>>)'
  PROVE  NumberedInv'
<1>1. LockInv' /\ LockTypeOK'
  BY MoveInv DEF NumberedInv, LockInv, Leave
<1>2. \A q \in Proc : InCall(q)' => InCall(q) /\ q # p
  BY DEF Leave, Move, InCall, NumberedInv, LockInv, LockTypeOK
<1>3. /\ event' \in [Proc -> Event \cup {NoEvent}] /\ next' \in [Proc -> Nat]
      /\ \A q \in Proc : q # p => event'[q] = event[q]
      /\ \A q \in Proc : next'[q] = next[q] \/ next'[q] = 0
  BY DEF NumberedInv, Numbered, TypeOK, Leave
<1>4. \A q \in Proc : next'[q] <= Len(log') + 1
  BY <1>3 DEF NumberedInv, Numbered, TypeOK, Grown
<1>5. TypeOK'
  BY <1>1, <1>3 DEF NumberedInv, Numbered, TypeOK, Grown, Line, Leave
<1> QED
  BY <1>1, <1>2, <1>3, <1>4, <1>5 DEF NumberedInv, Numbered, Grown

LEMMA UnchangedGrown ==
  ASSUME NumberedInv, UNCHANGED log
  PROVE  Grown
BY DEF NumberedInv, Numbered, TypeOK, Grown, Line

LEMMA WriteSomeGrown ==
  ASSUME NumberedInv, NEW p \in Proc, Holder(p), next[p] > 0, WriteSome(p)
  PROVE  Grown /\ glued' \subseteq Event /\ cut' \in BOOLEAN /\ (cut => log # <<>>)'
<1>1. event[p] \in Event /\ next[p] \in Nat \ {0}
  BY DEF NumberedInv, Numbered, TypeOK, Holder, InCall
<1>2. CASE UNCHANGED <<log, cut, glued>>
  BY <1>2, UnchangedGrown DEF NumberedInv, Numbered, TypeOK
<1>3. CASE \E line \in {Torn, LineOf(p)} : Put(p, line) /\ cut' \in BOOLEAN
  BY <1>1, <1>3, PutGrown
<1> QED
  BY <1>2, <1>3 DEF WriteSome

LEMMA WriteNumbered ==
  ASSUME NumberedInv, NEW p \in Proc, Write(p)
  PROVE  NumberedInv'
<1>1. event[p] \in Event /\ next[p] \in Nat \ {0} /\ acknowledged \subseteq Event
  BY DEF NumberedInv, Numbered, TypeOK, Write, Holder, InCall
<1>2. Put(p, LineOf(p)) /\ acknowledged' = acknowledged \cup {event[p]} /\ Leave(p)
      /\ cut' = FALSE
  BY DEF Write
<1>3. Grown /\ glued' \subseteq Event
  BY <1>1, <1>2, PutGrown
<1> QED
  BY <1>1, <1>2, <1>3, LeaveNumbered

LEMMA CrashInWriteNumbered ==
  ASSUME NumberedInv, NEW p \in Proc, CrashInWrite(p)
  PROVE  NumberedInv'
<1>1. LockInv' /\ LockTypeOK'
  BY CrashInv DEF NumberedInv, LockInv, CrashInWrite
<1>2. \A q \in Proc : InCall(q)' => InCall(q)
  BY DEF CrashInWrite, Crash, InCall, NumberedInv, LockInv, LockTypeOK
<1>3. Grown /\ glued' \subseteq Event /\ cut' \in BOOLEAN /\ (cut => log # <<>>)'
  BY WriteSomeGrown DEF CrashInWrite
<1>4. \A q \in Proc : next[q] <= Len(log') + 1
  BY <1>3 DEF NumberedInv, Numbered, TypeOK, Grown
<1> QED
  BY <1>1, <1>2, <1>3, <1>4 DEF NumberedInv, Numbered, TypeOK, Grown, Line, CrashInWrite

LEMMA NextNumbered ==
  ASSUME NumberedInv, [Next]_vars
  PROVE  NumberedInv'
<1>1. ASSUME NEW p \in Proc, Step(p)
      PROVE  NumberedInv'
  <2>1. CASE LockStep(p) /\ UNCHANGED logVars
    BY <2>1, LockStepNumbered
  <2>2. CASE Unreadable(p)
    BY <2>2, UnchangedGrown, LeaveNumbered DEF Unreadable, NumberedInv, Numbered, TypeOK
  <2>3. CASE Duplicate(p)
    <3>1. event[p] \in Event
      BY <2>3 DEF Duplicate, Scanning, Holder, InCall, NumberedInv, Numbered
    <3> QED
      BY <2>3, <3>1, UnchangedGrown, LeaveNumbered DEF Duplicate, NumberedInv, Numbered, TypeOK
  <2>4. CASE WriteFails(p)
    BY <2>4, WriteSomeGrown, LeaveNumbered DEF WriteFails, NumberedInv, Numbered, TypeOK
  <2> QED
    BY <1>1, <2>1, <2>2, <2>3, <2>4, ScanNumbered, WriteNumbered DEF Step
<1>2. ASSUME NEW p \in Proc, NEW e \in Event, Call(p, e)
      PROVE  NumberedInv'
  BY <1>2, CallNumbered
<1>3. ASSUME NEW p \in Proc, CrashInWrite(p)
      PROVE  NumberedInv'
  BY <1>3, CrashInWriteNumbered
<1>4. CASE (GetStale \/ \E p \in Proc : Crash(p)) /\ UNCHANGED logVars
  BY <1>4, FailureNumbered
<1>5. CASE UNCHANGED vars
  <2>1. LockInv'
    BY <1>5 DEF NumberedInv, LockInv, LockTypeOK, Owning, vars, lockVars
  <2>2. \A q \in Proc : InCall(q)' => InCall(q)
    BY <1>5 DEF InCall, vars, lockVars
  <2> QED
    BY <1>5, <2>1, <2>2, QuietNumbered DEF vars
<1> QED
  BY <1>1, <1>2, <1>3, <1>4, <1>5 DEF Next

(***************************************************************************)
(* The log stays well-formed also when a lock was stolen: what              *)
(* appendJsonLineLocked computes as the next sequence number from any log   *)
(* there may be is a number, and is written with an event.                  *)
(***************************************************************************)
THEOREM TypeCorrect == Spec => []TypeOK
<1>1. NumberedInv => TypeOK
  BY DEF NumberedInv, Numbered
<1> QED
  BY <1>1, InitNumbered, NextNumbered, PTL DEF Spec

(***************************************************************************)
(* And the number of an event is at most the number of its line: two        *)
(* appenders may give out a number twice, but skip none ahead of the file.  *)
(***************************************************************************)
THEOREM NumbersAreBounded ==
  Spec => [](\A n \in 1 .. Len(log) : log[n].sequence <= n)
<1>1. NumberedInv => \A n \in 1 .. Len(log) : log[n].sequence <= n
  BY DEF NumberedInv, Numbered
<1> QED
  BY <1>1, InitNumbered, NextNumbered, PTL DEF Spec
=============================================================================
