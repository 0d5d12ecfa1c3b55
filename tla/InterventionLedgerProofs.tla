---------------------- MODULE InterventionLedgerProofs ----------------------
(***************************************************************************)
(* Theorems of InterventionLedger for any number of processes that record,  *)
(* any interventions and findings, and any number of edits, captured        *)
(* commands, deaths and lock timeouts.                                      *)
(***************************************************************************)
EXTENDS InterventionLedger, WellFoundedInduction, TLAPS

-----------------------------------------------------------------------------
(* Positions *)

\* A set of positions that is not empty has a least one,
LEMMA MinFacts ==
  ASSUME NEW S, S \subseteq Nat, S # {}
  PROVE  Min(S) \in S /\ \A y \in S : Min(S) <= y
<1>1. PICK n \in S : \A m \in S : ~(<<m, n>> \in OpToRel(<, Nat))
  BY NatLessThanWellFounded, WFMin
<1>2. \A m \in S : ~(m < n)
  BY <1>1 DEF OpToRel
<1>3. n \in Nat /\ \A m \in S : m \in Nat /\ n <= m
  BY <1>2
<1> QED
  BY <1>1, <1>3 DEF Min

\* and one of a bounded set a greatest.
LEMMA MaxFacts ==
  ASSUME NEW k \in Nat, NEW S, S \subseteq 1 .. k, S # {}
  PROVE  Max(S) \in S /\ \A y \in S : y <= Max(S)
<1> DEFINE Bounds == { n \in Nat : \A y \in S : y <= n }
<1>1. k \in Bounds
  OBVIOUS
<1>2. PICK n \in Bounds : \A m \in Bounds : ~(<<m, n>> \in OpToRel(<, Nat))
  <2> HIDE DEF Bounds
  <2>1. Bounds \subseteq Nat
    BY DEF Bounds
  <2> QED
    BY <1>1, <2>1, NatLessThanWellFounded, WFMin
<1>3. n \in Nat /\ \A y \in S : y <= n
  OBVIOUS
<1>4. \A m \in Bounds : ~(m < n)
  BY <1>2, <1>3 DEF OpToRel
<1>5. n \in S
  <2> SUFFICES ASSUME n \notin S
               PROVE  FALSE
    OBVIOUS
  <2>1. \A y \in S : y \in Nat /\ y >= 1 /\ y < n
    BY <1>3
  <2>2. n >= 1
    <3>1. PICK y \in S : TRUE
      OBVIOUS
    <3> QED
      BY <1>3, <2>1, <3>1
  <2>3. n - 1 \in Nat /\ n - 1 < n /\ \A y \in S : y <= n - 1
    BY <1>3, <2>1, <2>2
  <2> QED
    BY <1>4, <2>3
<1>6. \A y \in S : n >= y /\ y \in Nat
  BY <1>3
<1> QED
  BY <1>3, <1>5, <1>6 DEF Max

\* The last status of an intervention is that of one of its events.
LEMMA LastStatusFacts ==
  ASSUME TypeOK, NEW i \in Item
  PROVE  /\ LastStatus(i) \in Status \cup {"none"}
         /\ LastStatus(i) # "none" => \E d \in Positions(i) : ledger[d].status = LastStatus(i)
<1>1. ledger \in Seq(Event) /\ Len(ledger) \in Nat /\ DOMAIN ledger = 1 .. Len(ledger)
  BY DEF TypeOK
<1>2. \A n \in DOMAIN ledger : ledger[n].status \in Status
  <2>1. \A n \in DOMAIN ledger : ledger[n] \in Event
    BY <1>1
  <2> QED
    BY <2>1 DEF Event
<1>3. Positions(i) \subseteq 1 .. Len(ledger)
  BY <1>1 DEF Positions
<1>4. CASE Positions(i) = {}
  BY <1>4 DEF LastStatus
<1>5. CASE Positions(i) # {}
  <2>1. Max(Positions(i)) \in Positions(i)
    BY <1>1, <1>3, <1>5, MaxFacts
  <2>2. LastStatus(i) = ledger[Max(Positions(i))].status
    BY <1>5 DEF LastStatus
  <2> QED
    BY <1>1, <1>2, <1>3, <2>1, <2>2
<1> QED
  BY <1>4, <1>5

-----------------------------------------------------------------------------
(* The invariant *)

\* Where a process is and what it holds there.
Held(w) ==
  /\ pc[w] \in {"idle", "found"} => left[w] = {} /\ queue[w] = << >> /\ ~alone[w]
  /\ pc[w] \in {"findings", "decision"} => hash[w] \in Tree
  /\ pc[w] \in {"recorded", "snapshot"} => left[w] = {} /\ queue[w] = << >>
  /\ \A i \in left[w] : found[w][i] # Nil
  /\ \A t \in Tree : copy[w].passes[t] <= trace.passes[t]

\* The events that lead to a status.
Chains(s) ==
  {<<s>>}
    \cup (IF s = "verified"
          THEN {<<"requested", "repaired", "verified">>, <<"repaired", "verified">>} ELSE {})
    \cup (IF s = "stale" THEN {<<"requested", "stale">>} ELSE {})

\* The ledger has said of an intervention that something is to be done.
Asked(i) == \E d \in Positions(i) : ledger[d].status \in Demand

\* What a process is appending ends the chain of one of its findings.
Chained(w) ==
  queue[w] # << >> =>
    \E i \in Item : found[w][i] # Nil /\ i \notin left[w] /\
      \E statuses \in Chains(StatusFor(w, i)) :
        /\ queue[w] = [n \in DOMAIN statuses |-> NewEvent(w, i, statuses[n])]
        /\ statuses[1] = "repaired" => Asked(i)

\* The statuses that recording a finding again would append,
Due(w, i) ==
  LET statuses == Statuses(w, LastStatus(i), StatusFor(w, i))
  IN { statuses[n] : n \in DOMAIN statuses }

Queued(w) == { queue[w][n] : n \in DOMAIN queue[w] }

\* are in the ledger already or about to be, if nobody else appends.
Settled(w) ==
  alone[w] =>
    \A i \in Item \ left[w] : found[w][i] # Nil =>
      \A s \in Due(w, i) :
        Duplicates(NewEvent(w, i, s)) # {} \/ NewEvent(w, i, s) \in Queued(w)

\* What the mirror and its ghosts are made of.
FileTypes ==
  /\ mirror \in Seq(0 .. Len(ledger))
  /\ cut \in BOOLEAN /\ (cut => mirror # << >>)
  /\ {abandoned, glued} \subseteq SUBSET (1 .. Len(ledger))

\* Nothing is called repaired that was not asked for.
RepairsAsked ==
  \A n \in DOMAIN ledger : ledger[n].status = "repaired" =>
    \E d \in Positions(ledger[n].item) : d < n /\ ledger[d].status \in Demand

IInv ==
  /\ TypeOK
  /\ RepairsAsked
  /\ VerifiedIsEarned
  /\ \A w \in Writer : Held(w) /\ Chained(w) /\ Settled(w)

-----------------------------------------------------------------------------
(* Statuses *)

\* The status a finding has is never "repaired": that is said on the way to "verified".
LEMMA StatusForValues ==
  ASSUME NEW w, NEW i
  PROVE  StatusFor(w, i) \in Status \ {"repaired"}
<1>1. ASSUME NEW k, NEW outcome, NEW proven
      PROVE  OrchestratorStatus(k, outcome, proven) \in Status \ {"repaired"}
  BY DEF OrchestratorStatus, RequirementStatus, GateStatus, DecisionStatus, Status
<1>2. ASSUME NEW k, NEW outcome, NEW proven
      PROVE  PluginStatus(k, outcome, proven) \in Status \ {"repaired"}
  BY DEF PluginStatus, DecisionStatus, Status
<1> QED
  BY <1>1, <1>2 DEF StatusFor

\* What is appended for a status is nothing or a chain that leads to it, and
\* "repaired" comes first only if the last status was a demand.
LEMMA StatusesAreChains ==
  ASSUME NEW w, NEW previous, NEW s \in Status \ {"repaired"}
  PROVE  \/ Statuses(w, previous, s) = << >>
         \/ /\ Statuses(w, previous, s) \in Chains(s)
            /\ Statuses(w, previous, s)[1] = "repaired" => previous \in Demand
<1>1. CASE Skipped(w, previous, s)
  <2>1. Statuses(w, previous, s) = << >>
    BY <1>1 DEF Statuses
  <2> QED
    BY <2>1
<1>2. CASE ~Skipped(w, previous, s) /\ s = "verified"
  <2>1. CASE previous = "none"
    BY <1>2, <2>1 DEF Statuses, Chains
  <2>2. CASE previous \in {"requested", "stale", "unresolved", "human-review"}
    BY <1>2, <2>2 DEF Statuses, Chains, Demand
  <2>3. CASE previous \notin {"none", "requested", "stale", "unresolved", "human-review"}
    BY <1>2, <2>3 DEF Statuses, Chains
  <2> QED
    BY <2>1, <2>2, <2>3
<1>3. CASE ~Skipped(w, previous, s) /\ s = "stale"
  BY <1>3 DEF Statuses, Chains
<1>4. CASE ~Skipped(w, previous, s) /\ s \notin {"verified", "stale"}
  BY <1>4 DEF Statuses, Chains
<1> QED
  BY <1>1, <1>2, <1>3, <1>4

\* A chain is a short sequence of statuses, none of them "repaired" but where it
\* says so.
LEMMA ChainFacts ==
  ASSUME NEW s \in Status \ {"repaired"}, NEW statuses \in Chains(s)
  PROVE  /\ statuses \in Seq(Status) /\ Len(statuses) \in 1 .. 3
         /\ DOMAIN statuses = 1 .. Len(statuses)
         /\ \/ statuses = <<s>>
            \/ s = "verified" /\ statuses = <<"requested", "repaired", "verified">>
            \/ s = "verified" /\ statuses = <<"repaired", "verified">>
            \/ s = "stale" /\ statuses = <<"requested", "stale">>
<1>1. \/ statuses = <<s>>
      \/ s = "verified" /\ statuses = <<"requested", "repaired", "verified">>
      \/ s = "verified" /\ statuses = <<"repaired", "verified">>
      \/ s = "stale" /\ statuses = <<"requested", "stale">>
  BY DEF Chains
<1>2. {"requested", "repaired", "verified", "stale"} \subseteq Status
  BY DEF Status
<1>3. CASE statuses = <<s>>
  BY <1>1, <1>3
<1>4. CASE statuses = <<"requested", "repaired", "verified">>
  BY <1>1, <1>2, <1>4
<1>5. CASE statuses = <<"repaired", "verified">>
  BY <1>1, <1>2, <1>5
<1>6. CASE statuses = <<"requested", "stale">>
  BY <1>1, <1>2, <1>6
<1> QED
  BY <1>1, <1>3, <1>4, <1>5, <1>6

-----------------------------------------------------------------------------
(* What a process sees                                                     *)

\* The statuses and events of a finding are those of the class, the finding and
\* the copy of the trace, whatever else changes.
LEMMA SameView ==
  ASSUME NEW w, class' = class, found'[w] = found[w], copy'[w] = copy[w], hash'[w] = hash[w]
  PROVE  \A i : /\ StatusFor(w, i)' = StatusFor(w, i)
                /\ \A s : NewEvent(w, i, s)' = NewEvent(w, i, s)
<1>1. PassesFor(w)' = PassesFor(w)
  BY DEF PassesFor
<1>2. ASSUME NEW i
      PROVE  StatusFor(w, i)' = StatusFor(w, i)
  BY <1>1 DEF StatusFor
<1>3. ASSUME NEW i, NEW s
      PROVE  NewEvent(w, i, s)' = NewEvent(w, i, s)
  <2>1. EvidenceFor(w, i)' = EvidenceFor(w, i)
    BY <1>1 DEF EvidenceFor, Provable
  <2> QED
    BY <2>1 DEF NewEvent
<1> QED
  BY <1>2, <1>3

\* Without an append the ledger says the same.
LEMMA SameLedger ==
  ASSUME ledger' = ledger
  PROVE  /\ \A i : Positions(i)' = Positions(i)
         /\ \A i : LastStatus(i)' = LastStatus(i)
         /\ \A i : Asked(i)' <=> Asked(i)
         /\ \A e : Duplicates(e)' = Duplicates(e)
<1>1. ASSUME NEW i
      PROVE  Positions(i)' = Positions(i)
  BY DEF Positions
<1>2. ASSUME NEW i
      PROVE  LastStatus(i)' = LastStatus(i)
  BY <1>1 DEF LastStatus
<1>3. ASSUME NEW i
      PROVE  Asked(i)' <=> Asked(i)
  BY <1>1 DEF Asked
<1>4. ASSUME NEW e
      PROVE  Duplicates(e)' = Duplicates(e)
  BY DEF Duplicates
<1> QED
  BY <1>1, <1>2, <1>3, <1>4

\* A process whose recording a step does not touch,
Untouched(w) ==
  /\ found'[w] = found[w] /\ pc'[w] = pc[w] /\ copy'[w] = copy[w] /\ hash'[w] = hash[w]
  /\ left'[w] = left[w] /\ queue'[w] = queue[w]
  /\ alone'[w] => alone[w] /\ ledger' = ledger

\* keeps what it holds.
LEMMA Others ==
  ASSUME TypeOK, TypeOK', NEW w \in Writer, Held(w), Chained(w), Settled(w),
         class' = class, \A t \in Tree : trace.passes[t] <= trace'.passes[t],
         \A i : Asked(i) => Asked(i)', Untouched(w)
  PROVE  Held(w)' /\ Chained(w)' /\ Settled(w)'
<1>0. /\ found'[w] = found[w] /\ pc'[w] = pc[w] /\ copy'[w] = copy[w] /\ hash'[w] = hash[w]
      /\ left'[w] = left[w] /\ queue'[w] = queue[w]
      /\ alone'[w] => alone[w] /\ ledger' = ledger
  BY DEF Untouched
<1>1. \A i : /\ StatusFor(w, i)' = StatusFor(w, i)
             /\ \A s : NewEvent(w, i, s)' = NewEvent(w, i, s)
  BY <1>0, SameView
<1>2. Held(w)'
  <2>1. ASSUME NEW t \in Tree
        PROVE  copy'[w].passes[t] <= trace'.passes[t]
    <3>1. copy[w].passes[t] \in Nat /\ trace.passes[t] \in Nat /\ trace'.passes[t] \in Nat
      BY DEF TypeOK, Trace
    <3>2. copy[w].passes[t] <= trace.passes[t]
      BY DEF Held
    <3> QED
      BY <1>0, <3>1, <3>2
  <2> QED
    BY <1>0, <2>1 DEF Held
<1>3. Chained(w)'
  BY <1>0, <1>1 DEF Chained
<1>4. Settled(w)'
  <2> SUFFICES ASSUME alone'[w]
               PROVE  Settled(w)'
    BY DEF Settled
  <2>1. alone[w] /\ ledger' = ledger
    BY <1>0
  <2>2. \A i : Due(w, i)' = Due(w, i)
    BY <1>1, <2>1, SameLedger DEF Due
  <2>3. \A e : Duplicates(e)' = Duplicates(e)
    BY <2>1, SameLedger
  <2> QED
    BY <1>0, <1>1, <2>1, <2>2, <2>3 DEF Settled, Queued
<1> QED
  BY <1>2, <1>3, <1>4

\* Without an append, what the ledger calls repaired and verified stays so.
LEMMA SameLedgerInvariants ==
  ASSUME TypeOK, TypeOK', RepairsAsked, VerifiedIsEarned, ledger' = ledger,
         \A t \in Tree : trace.passes[t] <= trace'.passes[t]
  PROVE  RepairsAsked' /\ VerifiedIsEarned'
<1>1. \A i : Positions(i)' = Positions(i)
  BY SameLedger
<1>2. RepairsAsked'
  BY <1>1 DEF RepairsAsked
<1>3. ASSUME NEW n \in DOMAIN ledger
      PROVE  ledger[n].evidence.passes \in Nat /\ ledger[n].evidence.tree \in Tree
  <2>1. ledger[n] \in Event
    BY DEF TypeOK
  <2>2. ledger[n].evidence \in Evidence
    BY <2>1 DEF Event
  <2> QED
    BY <2>2 DEF Evidence
<1>4. \A t \in Tree : trace.passes[t] \in Nat /\ trace'.passes[t] \in Nat
  BY DEF TypeOK, Trace
<1>5. \A n \in DOMAIN ledger : ledger[n].status = "verified" =>
        ledger[n].evidence.passes <= trace'.passes[ledger[n].evidence.tree]
  BY <1>3, <1>4 DEF VerifiedIsEarned
<1> QED
  BY <1>1, <1>2, <1>5 DEF VerifiedIsEarned

-----------------------------------------------------------------------------
(* Events *)

\* What a process that hashed a tree says of a finding is an event, whose
\* evidence names that tree and no more passes than the process read.
LEMMA NewEventFacts ==
  ASSUME TypeOK, NEW w \in Writer, NEW i \in Item, found[w][i] # Nil, hash[w] \in Tree,
         NEW s \in Status
  PROVE  /\ NewEvent(w, i, s) \in Event
         /\ NewEvent(w, i, s).item = i /\ NewEvent(w, i, s).status = s
         /\ NewEvent(w, i, s).evidence.tree = hash[w]
         /\ NewEvent(w, i, s).evidence.passes \in {0, copy[w].passes[hash[w]]}
<1> DEFINE e == NewEvent(w, i, s)
<1>1. /\ e.item = i /\ e.status = s /\ e.by \in {"orchestrator", "plugin"}
      /\ e.text = found[w][i].text /\ e.evidence = EvidenceFor(w, i)
      /\ e = [item |-> e.item, status |-> e.status, by |-> e.by, text |-> e.text,
              evidence |-> e.evidence]
  BY DEF NewEvent
<1>2. found[w][i].text \in Text
  <2>1. found[w] \in [Item -> Finding \cup {Nil}]
    BY DEF TypeOK
  <2>2. found[w][i] \in Finding
    BY <2>1
  <2> QED
    BY <2>2 DEF Finding
<1>3. copy[w].passes[hash[w]] \in Nat
  <2>1. copy[w] \in Trace
    BY DEF TypeOK
  <2>2. copy[w].passes \in [Tree -> Nat]
    BY <2>1 DEF Trace
  <2> QED
    BY <2>2
<1>4. /\ EvidenceFor(w, i).tree = hash[w]
      /\ EvidenceFor(w, i).passes \in {0, copy[w].passes[hash[w]]}
      /\ EvidenceFor(w, i) = [tree |-> EvidenceFor(w, i).tree, passes |-> EvidenceFor(w, i).passes]
  BY DEF EvidenceFor, PassesFor
<1>5. EvidenceFor(w, i) \in Evidence
  BY <1>3, <1>4 DEF Evidence
<1>6. e \in Event
  <2> HIDE DEF e
  <2> QED
    BY <1>1, <1>2, <1>5 DEF Event
<1> QED
  BY <1>1, <1>4, <1>6

\* The events of a chain are a sequence as long as it.
LEMMA ChainEvents ==
  ASSUME TypeOK, NEW w \in Writer, NEW i \in Item, found[w][i] # Nil, hash[w] \in Tree,
         NEW statuses \in Chains(StatusFor(w, i))
  PROVE  [n \in DOMAIN statuses |-> NewEvent(w, i, statuses[n])] \in Seq(Event) \ {<< >>}
<1>1. /\ statuses \in Seq(Status) /\ Len(statuses) \in 1 .. 3
      /\ DOMAIN statuses = 1 .. Len(statuses)
  BY StatusForValues, ChainFacts
<1>2. \A n \in 1 .. Len(statuses) : statuses[n] \in Status
  BY <1>1
<1>3. \A n \in 1 .. Len(statuses) : NewEvent(w, i, statuses[n]) \in Event
  BY <1>2, NewEventFacts
<1>4. [n \in DOMAIN statuses |-> NewEvent(w, i, statuses[n])]
        \in [1 .. Len(statuses) -> Event]
  BY <1>1, <1>3
<1>5. Len(statuses) \in Nat /\ Len(statuses) >= 1
  BY <1>1
<1>6. [n \in DOMAIN statuses |-> NewEvent(w, i, statuses[n])] \in Seq(Event)
  BY <1>4, <1>5
<1>7. DOMAIN << >> = {} /\ 1 \in 1 .. Len(statuses)
  BY <1>5
<1> QED
  BY <1>1, <1>6, <1>7

\* An event that is there already lies in the ledger.
LEMMA DuplicateFacts ==
  ASSUME TypeOK, NEW e
  PROVE  /\ Duplicates(e) \subseteq DOMAIN ledger
         /\ \A n \in Duplicates(e) : ledger[n].item = e.item /\ ledger[n].status = e.status
         /\ DOMAIN ledger = 1 .. Len(ledger) /\ Len(ledger) \in Nat
         /\ Duplicates(e) # {} => Min(Duplicates(e)) \in Duplicates(e)
<1>1. DOMAIN ledger = 1 .. Len(ledger) /\ Len(ledger) \in Nat
  BY DEF TypeOK
<1>2. Duplicates(e) \subseteq DOMAIN ledger
  BY DEF Duplicates
<1>3. \A n \in Duplicates(e) : ledger[n].item = e.item /\ ledger[n].status = e.status
  BY DEF Duplicates, SameId
<1>4. Duplicates(e) \subseteq Nat
  BY <1>1, <1>2
<1> QED
  BY <1>1, <1>2, <1>3, <1>4, MinFacts

-----------------------------------------------------------------------------
(* The initial states *)

LEMMA InitIInv == Init => IInv
<1> SUFFICES ASSUME Init
             PROVE  IInv
  OBVIOUS
<1>0. tree \in Tree
  BY TreeAssumption DEF Init
<1>1. NoTrace \in Trace
  BY DEF NoTrace, Trace
<1>2. NothingFound \in [Item -> Finding \cup {Nil}]
  BY DEF NothingFound
<1>3. /\ ledger = << >> /\ Len(ledger) = 0 /\ DOMAIN ledger = {}
      /\ mirror = << >> /\ cut = FALSE /\ abandoned = {} /\ glued = {}
  BY DEF Init
<1>4. TypeOK
  <2>1. ledger \in Seq(Event) /\ mirror \in Seq(0 .. Len(ledger))
    BY <1>3
  <2>2. "idle" \in Place /\ 0 \in 0 .. Len(ledger) /\ << >> \in Seq(Event)
    BY <1>3 DEF Place
  <2>3. FileTypes
    <3>1. {} \in SUBSET (1 .. Len(ledger)) /\ FALSE \in BOOLEAN
      OBVIOUS
    <3> QED
      BY <1>3, <2>1, <3>1 DEF FileTypes
  <2> QED
    BY <1>0, <1>1, <1>2, <2>1, <2>2, <2>3 DEF Init, TypeOK, FileTypes
<1>5. RepairsAsked /\ VerifiedIsEarned
  BY <1>3 DEF RepairsAsked, VerifiedIsEarned
<1>6. ASSUME NEW w \in Writer
      PROVE  Held(w) /\ Chained(w) /\ Settled(w)
  <2>1. /\ pc[w] = "idle" /\ left[w] = {} /\ queue[w] = << >> /\ alone[w] = FALSE
        /\ copy[w] = NoTrace /\ trace = NoTrace
    BY DEF Init
  <2>2. \A t \in Tree : copy[w].passes[t] <= trace.passes[t]
    BY <2>1 DEF NoTrace
  <2> QED
    BY <2>1, <2>2 DEF Held, Chained, Settled
<1> QED
  BY <1>4, <1>5, <1>6 DEF IInv

-----------------------------------------------------------------------------
(* Steps that do not append *)

\* A step that leaves a recording what it is, wherever it goes.
LEMMA Goes ==
  ASSUME TypeOK, NEW w \in Writer, Held(w), Chained(w), Settled(w),
         class' = class, ledger' = ledger,
         found'[w] = found[w], copy'[w] = copy[w], hash'[w] = hash[w],
         left'[w] = left[w], queue'[w] = queue[w], alone'[w] = alone[w]
  PROVE  Chained(w)' /\ Settled(w)'
<1>1. \A i : /\ StatusFor(w, i)' = StatusFor(w, i)
             /\ \A s : NewEvent(w, i, s)' = NewEvent(w, i, s)
  BY SameView
<1>2. Chained(w)'
  BY <1>1, SameLedger DEF Chained
<1>3. \A i : Due(w, i)' = Due(w, i)
  BY <1>1, SameLedger DEF Due
<1>4. \A e : Duplicates(e)' = Duplicates(e)
  BY SameLedger
<1>5. Settled(w)'
  BY <1>1, <1>3, <1>4 DEF Settled, Queued
<1> QED
  BY <1>2, <1>5

\* No captured pass is lost.
LEMMA CopyBound ==
  ASSUME TypeOK, TypeOK', NEW w \in Writer, Held(w), copy'[w] = copy[w],
         \A t \in Tree : trace.passes[t] <= trace'.passes[t]
  PROVE  \A t \in Tree : copy'[w].passes[t] <= trace'.passes[t]
<1> SUFFICES ASSUME NEW t \in Tree
             PROVE  copy'[w].passes[t] <= trace'.passes[t]
  OBVIOUS
<1>1. copy[w].passes[t] \in Nat /\ trace.passes[t] \in Nat /\ trace'.passes[t] \in Nat
  BY DEF TypeOK, Trace
<1>2. copy[w].passes[t] <= trace.passes[t]
  BY DEF Held
<1> QED
  BY <1>1, <1>2

LEMMA OfOne ==
  ASSUME IInv, TypeOK', NEW w \in Writer, class' = class, ledger' = ledger,
         \A t \in Tree : trace.passes[t] <= trace'.passes[t],
         \A v \in Writer \ {w} : Untouched(v),
         Held(w)', Chained(w)', Settled(w)'
  PROVE  IInv'
<1>1. TypeOK /\ RepairsAsked /\ VerifiedIsEarned
  BY DEF IInv
<1>2. RepairsAsked' /\ VerifiedIsEarned'
  BY <1>1, SameLedgerInvariants
<1>3. \A i : Asked(i) => Asked(i)'
  BY SameLedger
<1>4. ASSUME NEW v \in Writer \ {w}
      PROVE  Held(v)' /\ Chained(v)' /\ Settled(v)'
  <2>1. Held(v) /\ Chained(v) /\ Settled(v) /\ v \in Writer
    BY DEF IInv
  <2> QED
    BY <1>1, <1>3, <2>1, Others
<1> QED
  BY <1>2, <1>4 DEF IInv

LEMMA OfNone ==
  ASSUME IInv, TypeOK', class' = class, ledger' = ledger,
         \A t \in Tree : trace.passes[t] <= trace'.passes[t],
         \A v \in Writer : Untouched(v)
  PROVE  IInv'
<1>1. TypeOK /\ RepairsAsked /\ VerifiedIsEarned
  BY DEF IInv
<1>2. RepairsAsked' /\ VerifiedIsEarned'
  BY <1>1, SameLedgerInvariants
<1>3. \A i : Asked(i) => Asked(i)'
  BY SameLedger
<1>4. ASSUME NEW v \in Writer
      PROVE  Held(v)' /\ Chained(v)' /\ Settled(v)'
  <2>1. Held(v) /\ Chained(v) /\ Settled(v)
    BY DEF IInv
  <2> QED
    BY <1>1, <1>3, <2>1, Others
<1> QED
  BY <1>2, <1>4 DEF IInv

LEMMA TraceFacts ==
  ASSUME TypeOK
  PROVE  /\ trace \in Trace /\ trace.revision \in Nat /\ trace.passes \in [Tree -> Nat]
         /\ \A t \in Tree : trace.passes[t] <= trace.passes[t]
         /\ \A k \in Nat : [trace EXCEPT !.revision = @ + k] \in Trace
         /\ \A k \in Nat : [trace EXCEPT !.revision = @ + k].passes = trace.passes
<1>1. trace \in Trace
  BY DEF TypeOK
<1>2. trace.revision \in Nat /\ trace.passes \in [Tree -> Nat]
  BY <1>1 DEF Trace
<1>3. \A t \in Tree : trace.passes[t] <= trace.passes[t]
  BY <1>2
<1>4. ASSUME NEW k \in Nat
      PROVE  /\ [trace EXCEPT !.revision = @ + k] \in Trace
             /\ [trace EXCEPT !.revision = @ + k].passes = trace.passes
  BY <1>1, <1>2 DEF Trace
<1> QED
  BY <1>1, <1>2, <1>3, <1>4

LEMMA EditKeeps ==
  ASSUME IInv, NEW t \in Tree, Edit(t)
  PROVE  IInv'
<1>1. /\ tree' = t /\ \E seen \in {0, 1} : trace' = [trace EXCEPT !.revision = @ + seen]
      /\ disturbances' = disturbances + 1
      /\ class' = class /\ ledger' = ledger /\ file' = file
      /\ found' = found /\ pc' = pc /\ copy' = copy /\ hash' = hash /\ left' = left
      /\ queue' = queue /\ line' = line /\ alone' = alone
      /\ reports' = reports /\ captures' = captures
  BY DEF Edit, work
<1>2. TypeOK
  BY DEF IInv
<1>3. trace' \in Trace /\ trace'.passes = trace.passes
  <2>1. PICK seen \in {0, 1} : trace' = [trace EXCEPT !.revision = @ + seen]
    BY <1>1
  <2>2. seen \in Nat
    OBVIOUS
  <2> QED
    BY <1>2, <2>1, <2>2, TraceFacts
<1>4. TypeOK'
  BY <1>1, <1>2, <1>3 DEF TypeOK, file
<1> QED
  BY <1>1, <1>2, <1>3, <1>4, TraceFacts, OfNone DEF Untouched

LEMMA CaptureKeeps ==
  ASSUME IInv, Capture
  PROVE  IInv'
<1>1. /\ trace' = [trace EXCEPT !.revision = @ + 1, !.passes[tree] = @ + 1]
      /\ captures' = captures + 1
      /\ tree' = tree
      /\ class' = class /\ ledger' = ledger /\ file' = file
      /\ found' = found /\ pc' = pc /\ copy' = copy /\ hash' = hash /\ left' = left
      /\ queue' = queue /\ line' = line /\ alone' = alone
      /\ reports' = reports /\ disturbances' = disturbances
  BY DEF Capture, work
<1>2. TypeOK /\ tree \in Tree
  BY DEF IInv, TypeOK
<1>3. trace \in Trace /\ trace.revision \in Nat /\ trace.passes \in [Tree -> Nat]
  BY <1>2, TraceFacts
<1>4. /\ trace'.revision = trace.revision + 1
      /\ trace'.passes = [trace.passes EXCEPT ![tree] = @ + 1]
      /\ trace' = [revision |-> trace'.revision, passes |-> trace'.passes]
  BY <1>1, <1>3 DEF Trace
<1>5. trace'.passes \in [Tree -> Nat]
  BY <1>2, <1>3, <1>4
<1>6. trace' \in Trace
  BY <1>3, <1>4, <1>5 DEF Trace
<1>7. \A t \in Tree : trace.passes[t] <= trace'.passes[t]
  BY <1>2, <1>3, <1>4
<1>8. TypeOK'
  BY <1>1, <1>2, <1>6 DEF TypeOK, file
<1> QED
  BY <1>1, <1>7, <1>8, OfNone DEF Untouched

\* A recording is given up.
LEMMA EndKeeps ==
  ASSUME IInv, NEW w \in Writer, End(w), tree' = tree, FileTypes',
         {reports', captures', disturbances'} \subseteq Nat
  PROVE  IInv'
<1>1. /\ pc' = [pc EXCEPT ![w] = "idle"]
      /\ found' = [found EXCEPT ![w] = NothingFound]
      /\ copy' = [copy EXCEPT ![w] = NoTrace]
      /\ hash' = [hash EXCEPT ![w] = Nil]
      /\ left' = [left EXCEPT ![w] = {}]
      /\ queue' = [queue EXCEPT ![w] = << >>]
      /\ line' = [line EXCEPT ![w] = 0]
      /\ alone' = [alone EXCEPT ![w] = FALSE]
      /\ class' = class /\ trace' = trace /\ ledger' = ledger
  BY DEF End, Goto
<1>2. TypeOK
  BY DEF IInv
<1>3. NoTrace \in Trace /\ NothingFound \in [Item -> Finding \cup {Nil}]
      /\ \A t \in Tree : NoTrace.passes[t] = 0
  BY DEF NoTrace, Trace, NothingFound
<1>4. "idle" \in Place /\ 0 \in 0 .. Len(ledger) /\ << >> \in Seq(Event)
  <2>1. Len(ledger) \in Nat
    BY <1>2 DEF TypeOK
  <2> QED
    BY <2>1 DEF Place
<1>5. TypeOK'
  BY <1>1, <1>2, <1>3, <1>4 DEF TypeOK, FileTypes
<1>6. /\ pc'[w] = "idle" /\ left'[w] = {} /\ queue'[w] = << >> /\ alone'[w] = FALSE
      /\ copy'[w] = NoTrace
  BY <1>1, <1>2 DEF TypeOK
<1>7. \A t \in Tree : copy'[w].passes[t] <= trace'.passes[t]
  BY <1>1, <1>2, <1>3, <1>6, TraceFacts
<1>8. Held(w)' /\ Chained(w)' /\ Settled(w)'
  BY <1>6, <1>7 DEF Held, Chained, Settled
<1>9. \A v \in Writer \ {w} : Untouched(v)
  BY <1>1, <1>2 DEF TypeOK, Untouched
<1> QED
  BY <1>1, <1>2, <1>5, <1>8, <1>9, TraceFacts, OfOne

LEMMA FailKeeps ==
  ASSUME IInv, NEW w \in Writer, Fail(w), tree' = tree, FileTypes',
         {reports', captures', disturbances'} \subseteq Nat
  PROVE  IInv'
<1>1. /\ queue' = [queue EXCEPT ![w] = << >>]
      /\ line' = [line EXCEPT ![w] = 0]
      /\ alone' = [alone EXCEPT ![w] = FALSE]
      /\ class' = class /\ trace' = trace /\ ledger' = ledger
      /\ found' = found
  BY DEF Fail
<1>2. \/ pc' = pc /\ copy' = copy /\ hash' = hash /\ left' = left
      \/ /\ pc' = [pc EXCEPT ![w] = "found"]
         /\ copy' = [copy EXCEPT ![w] = NoTrace]
         /\ hash' = [hash EXCEPT ![w] = Nil]
         /\ left' = [left EXCEPT ![w] = {}]
  BY DEF Fail, Goto
<1>3. TypeOK /\ Held(w)
  BY DEF IInv
<1>4. NoTrace \in Trace /\ \A t \in Tree : NoTrace.passes[t] = 0
  BY DEF NoTrace, Trace
<1>5. "found" \in Place /\ 0 \in 0 .. Len(ledger) /\ << >> \in Seq(Event)
  <2>1. Len(ledger) \in Nat
    BY <1>3 DEF TypeOK
  <2> QED
    BY <2>1 DEF Place
<1>6. /\ pc' \in [Writer -> Place] /\ copy' \in [Writer -> Trace]
      /\ hash' \in [Writer -> Tree \cup {Nil}] /\ left' \in [Writer -> SUBSET Item]
  BY <1>2, <1>3, <1>4, <1>5 DEF TypeOK
<1>7. TypeOK'
  BY <1>1, <1>3, <1>5, <1>6 DEF TypeOK, FileTypes
<1>8. queue'[w] = << >> /\ alone'[w] = FALSE /\ found'[w] = found[w]
  BY <1>1, <1>3 DEF TypeOK
<1>9. \A t \in Tree : trace.passes[t] <= trace'.passes[t]
  BY <1>1, <1>3, TraceFacts
<1>10. Held(w)'
  <2>1. CASE pc' = pc /\ copy' = copy /\ hash' = hash /\ left' = left
    <3>1. \A t \in Tree : copy'[w].passes[t] <= trace'.passes[t]
      BY <1>1, <1>3, <2>1 DEF Held
    <3> QED
      BY <1>3, <1>8, <2>1, <3>1 DEF Held
  <2>2. CASE /\ pc' = [pc EXCEPT ![w] = "found"]
             /\ copy' = [copy EXCEPT ![w] = NoTrace]
             /\ hash' = [hash EXCEPT ![w] = Nil]
             /\ left' = [left EXCEPT ![w] = {}]
    <3>1. pc'[w] = "found" /\ copy'[w] = NoTrace /\ left'[w] = {}
      BY <1>3, <2>2 DEF TypeOK
    <3>2. \A t \in Tree : copy'[w].passes[t] <= trace'.passes[t]
      BY <1>1, <1>3, <1>4, <3>1, TraceFacts
    <3> QED
      BY <1>8, <3>1, <3>2 DEF Held
  <2> QED
    BY <1>2, <2>1, <2>2
<1>11. Chained(w)' /\ Settled(w)'
  BY <1>8 DEF Chained, Settled
<1>12. \A v \in Writer \ {w} : Untouched(v)
  BY <1>1, <1>2, <1>3 DEF TypeOK, Untouched
<1> QED
  BY <1>1, <1>7, <1>9, <1>10, <1>11, <1>12, OfOne

LEMMA EvaluateKeeps ==
  ASSUME IInv, NEW w \in Writer, NEW f \in Findings(w), Evaluate(w, f)
  PROVE  IInv'
<1>1. /\ pc[w] = "idle" /\ pc' = [pc EXCEPT ![w] = "found"]
      /\ found' = [found EXCEPT ![w] = f]
      /\ copy' = [copy EXCEPT ![w] = IF w \in Plugin THEN trace ELSE copy[w]]
      /\ reports' = reports + 1
      /\ class' = class /\ tree' = tree /\ trace' = trace /\ ledger' = ledger
      /\ file' = file /\ hash' = hash /\ left' = left /\ queue' = queue
      /\ line' = line /\ alone' = alone /\ captures' = captures
      /\ disturbances' = disturbances
  BY DEF Evaluate, Goto
<1>2. TypeOK /\ Held(w)
  BY DEF IInv
<1>3. f \in [Item -> Finding \cup {Nil}] /\ "found" \in Place
  BY DEF Findings, Place
<1>4. trace \in Trace /\ copy[w] \in Trace /\ reports + 1 \in Nat
  BY <1>2 DEF TypeOK
<1>5. copy' \in [Writer -> Trace]
  BY <1>1, <1>2, <1>4 DEF TypeOK
<1>6. TypeOK'
  BY <1>1, <1>2, <1>3, <1>4, <1>5 DEF TypeOK, file
<1>7. /\ pc'[w] = "found" /\ left'[w] = {} /\ queue'[w] = << >> /\ ~alone'[w]
      /\ copy'[w] \in {trace, copy[w]}
  BY <1>1, <1>2 DEF TypeOK, Held
<1>8. \A t \in Tree : copy'[w].passes[t] <= trace'.passes[t]
  <2>1. CASE copy'[w] = trace
    BY <1>1, <1>2, <2>1, TraceFacts
  <2>2. CASE copy'[w] = copy[w]
    BY <1>1, <1>2, <2>2 DEF Held
  <2> QED
    BY <1>7, <2>1, <2>2
<1>9. Held(w)' /\ Chained(w)' /\ Settled(w)'
  BY <1>7, <1>8 DEF Held, Chained, Settled
<1>10. \A v \in Writer \ {w} : Untouched(v)
  BY <1>1, <1>2 DEF TypeOK, Untouched
<1> QED
  BY <1>1, <1>2, <1>6, <1>9, <1>10, TraceFacts, OfOne

LEMMA BeginKeeps ==
  ASSUME IInv, NEW w \in Writer, Begin(w)
  PROVE  IInv'
<1>1. /\ pc[w] = "found" /\ pc' = [pc EXCEPT ![w] = "findings"]
      /\ hash' = [hash EXCEPT ![w] = tree]
      /\ copy' = [copy EXCEPT ![w] = IF w \in Plugin THEN copy[w] ELSE trace]
      /\ left' = [left EXCEPT ![w] = { i \in Item : found[w][i] # Nil }]
      /\ alone' = [alone EXCEPT ![w] = TRUE]
      /\ class' = class /\ tree' = tree /\ trace' = trace /\ ledger' = ledger
      /\ file' = file /\ found' = found /\ queue' = queue /\ line' = line
      /\ reports' = reports /\ captures' = captures /\ disturbances' = disturbances
  BY DEF Begin, Goto, bounds
<1>2. TypeOK /\ Held(w)
  BY DEF IInv
<1>3. trace \in Trace /\ copy[w] \in Trace /\ tree \in Tree /\ "findings" \in Place
  BY <1>2 DEF TypeOK, Place
<1>4. copy' \in [Writer -> Trace]
  BY <1>1, <1>2, <1>3 DEF TypeOK
<1>5. TypeOK'
  BY <1>1, <1>2, <1>3, <1>4 DEF TypeOK, file
<1>6. /\ pc'[w] = "findings" /\ left'[w] = { i \in Item : found[w][i] # Nil }
      /\ queue'[w] = << >> /\ hash'[w] = tree /\ found'[w] = found[w]
      /\ copy'[w] \in {trace, copy[w]}
  BY <1>1, <1>2 DEF TypeOK, Held
<1>7. \A t \in Tree : copy'[w].passes[t] <= trace'.passes[t]
  <2>1. CASE copy'[w] = trace
    BY <1>1, <1>2, <2>1, TraceFacts
  <2>2. CASE copy'[w] = copy[w]
    BY <1>1, <1>2, <2>2 DEF Held
  <2> QED
    BY <1>6, <2>1, <2>2
<1>8. Held(w)' /\ Chained(w)'
  BY <1>3, <1>6, <1>7 DEF Held, Chained
<1>9. Settled(w)'
  BY <1>6 DEF Settled
<1>10. \A v \in Writer \ {w} : Untouched(v)
  BY <1>1, <1>2 DEF TypeOK, Untouched
<1> QED
  BY <1>1, <1>2, <1>5, <1>8, <1>9, <1>10, TraceFacts, OfOne

\* Where a step only moves the process on, up to a line of the ledger.
LEMMA MovesOn ==
  ASSUME IInv, NEW w \in Writer, NEW place \in Place, NEW n \in 0 .. Len(ledger),
         pc' = [pc EXCEPT ![w] = place], line' = [line EXCEPT ![w] = n],
         place \in {"decision", "recorded", "snapshot"},
         place = "decision" => hash[w] \in Tree,
         place # "decision" => left[w] = {} /\ queue[w] = << >>,
         class' = class, tree' = tree, ledger' = ledger, file' = file, found' = found,
         copy' = copy, hash' = hash, left' = left, queue' = queue, alone' = alone,
         trace' \in Trace, trace'.passes = trace.passes, bounds' = bounds
  PROVE  IInv'
<1>1. TypeOK /\ Held(w) /\ Chained(w) /\ Settled(w)
  BY DEF IInv
<1>2. \A t \in Tree : trace.passes[t] <= trace'.passes[t]
  BY <1>1, TraceFacts
<1>3. TypeOK'
  BY <1>1 DEF TypeOK, file, bounds
<1>4. pc'[w] = place
  BY <1>1 DEF TypeOK
<1>5. \A t \in Tree : copy'[w].passes[t] <= trace'.passes[t]
  BY <1>1, <1>2, <1>3, CopyBound
<1>6. Held(w)'
  BY <1>1, <1>4, <1>5 DEF Held
<1>7. Chained(w)' /\ Settled(w)'
  BY <1>1, Goes
<1>8. \A v \in Writer \ {w} : Untouched(v)
  BY <1>1 DEF TypeOK, Untouched
<1> QED
  BY <1>2, <1>3, <1>6, <1>7, <1>8, OfOne

LEMMA ToDecisionKeeps ==
  ASSUME IInv, NEW w \in Writer, ToDecision(w)
  PROVE  IInv'
<1>1. /\ pc' = [pc EXCEPT ![w] = "decision"]
      /\ \/ trace' = [trace EXCEPT !.revision = @ + 1]
         \/ trace' = trace
      /\ class' = class /\ tree' = tree /\ ledger' = ledger
      /\ file' = file /\ found' = found /\ copy' = copy /\ hash' = hash /\ left' = left
      /\ queue' = queue /\ line' = line /\ alone' = alone /\ bounds' = bounds
  BY DEF ToDecision, Goto
<1>2. TypeOK /\ Held(w) /\ pc[w] = "findings"
  BY DEF IInv, ToDecision, FindingsDone
<1>3. hash[w] \in Tree
  BY <1>2 DEF Held
<1>4. trace' \in Trace /\ trace'.passes = trace.passes
  <2>1. CASE trace' = [trace EXCEPT !.revision = @ + 1]
    <3>1. 1 \in Nat
      OBVIOUS
    <3> QED
      BY <1>2, <2>1, <3>1, TraceFacts
  <2>2. CASE trace' = trace
    BY <1>2, <2>2, TraceFacts
  <2> QED
    BY <1>1, <2>1, <2>2
<1>5. line' = [line EXCEPT ![w] = line[w]] /\ line[w] \in 0 .. Len(ledger)
  BY <1>1, <1>2 DEF TypeOK
<1>6. "decision" \in Place
  BY DEF Place
<1> QED
  BY <1>1, <1>3, <1>4, <1>5, <1>6, MovesOn

LEMMA RecordedKeeps ==
  ASSUME IInv, NEW w \in Writer, Recorded(w)
  PROVE  IInv'
<1>1. /\ \/ pc' = [pc EXCEPT ![w] = "snapshot"] /\ line' = [line EXCEPT ![w] = Len(ledger)]
         \/ pc' = [pc EXCEPT ![w] = "recorded"] /\ line' = line
      /\ class' = class /\ tree' = tree /\ trace' = trace /\ ledger' = ledger
      /\ file' = file /\ found' = found /\ copy' = copy /\ hash' = hash /\ left' = left
      /\ queue' = queue /\ alone' = alone /\ bounds' = bounds
  BY DEF Recorded, Goto
<1>2. TypeOK /\ left[w] = {} /\ queue[w] = << >>
  BY DEF IInv, Recorded, DecisionDone, Free
<1>3. trace' \in Trace /\ trace'.passes = trace.passes
  BY <1>1, <1>2, TraceFacts
<1>4. line = [line EXCEPT ![w] = line[w]] /\ line[w] \in 0 .. Len(ledger)
      /\ Len(ledger) \in 0 .. Len(ledger)
  <2>1. Len(ledger) \in Nat
    BY <1>2 DEF TypeOK
  <2> QED
    BY <1>2, <2>1 DEF TypeOK
<1>5. "snapshot" \in Place /\ "recorded" \in Place
  BY DEF Place
<1>6. CASE pc' = [pc EXCEPT ![w] = "snapshot"] /\ line' = [line EXCEPT ![w] = Len(ledger)]
  BY <1>1, <1>2, <1>3, <1>4, <1>5, <1>6, MovesOn
<1>7. CASE pc' = [pc EXCEPT ![w] = "recorded"] /\ line' = line
  BY <1>1, <1>2, <1>3, <1>4, <1>5, <1>7, MovesOn
<1> QED
  BY <1>1, <1>6, <1>7

LEMMA SnapshotKeeps ==
  ASSUME IInv, NEW w \in Writer, Snapshot(w)
  PROVE  IInv'
<1>1. /\ pc[w] = "idle"
      /\ pc' = [pc EXCEPT ![w] = "snapshot"] /\ line' = [line EXCEPT ![w] = Len(ledger)]
      /\ class' = class /\ tree' = tree /\ trace' = trace /\ ledger' = ledger
      /\ file' = file /\ found' = found /\ copy' = copy /\ hash' = hash /\ left' = left
      /\ queue' = queue /\ alone' = alone /\ bounds' = bounds
  BY DEF Snapshot, Goto
<1>2. TypeOK /\ left[w] = {} /\ queue[w] = << >>
  BY <1>1 DEF IInv, Held
<1>3. trace' \in Trace /\ trace'.passes = trace.passes
  BY <1>1, <1>2, TraceFacts
<1>4. Len(ledger) \in 0 .. Len(ledger)
  <2>1. Len(ledger) \in Nat
    BY <1>2 DEF TypeOK
  <2> QED
    BY <2>1
<1>5. "snapshot" \in Place
  BY DEF Place
<1> QED
  BY <1>1, <1>2, <1>3, <1>4, <1>5, MovesOn

-----------------------------------------------------------------------------
(* The mirror                                                              *)

\* Nothing is behind a torn line.
TornIsLast ==
  /\ \A n \in DOMAIN mirror : mirror[n] = Torn => n = Len(mirror)
  /\ MirroredOnce
  /\ glued # {} => ~Readable

\* In a mirror without a torn line every line is found.
LEMMA ReadableMirror ==
  ASSUME mirror \in Seq(0 .. Len(ledger)), Readable
  PROVE  Mirrored = { mirror[n] : n \in DOMAIN mirror }
<1>1. Len(mirror) \in Nat /\ DOMAIN mirror = 1 .. Len(mirror)
  OBVIOUS
<1>2. ASSUME NEW m \in DOMAIN mirror, NEW k \in 1 .. m
      PROVE  mirror[k] # Torn
  <2>1. k \in DOMAIN mirror
    BY <1>1, <1>2
  <2> QED
    BY <2>1 DEF Readable
<1> QED
  BY <1>2 DEF Mirrored

\* The last of a sequence is replaced.
LEMMA ReplaceLast ==
  ASSUME NEW S, NEW q \in Seq(S), q # << >>, NEW t \in S
  PROVE  LET r == [q EXCEPT ![Len(q)] = t]
         IN /\ r \in Seq(S) /\ Len(r) = Len(q) /\ DOMAIN r = 1 .. Len(q) /\ r[Len(q)] = t
            /\ \A k \in 1 .. Len(q) : k # Len(q) => r[k] = q[k]
<1>1. Len(q) \in Nat /\ q \in [1 .. Len(q) -> S] /\ DOMAIN q = 1 .. Len(q)
  OBVIOUS
<1>2. PICK n : n = Len(q)
  OBVIOUS
<1>3. n # 0
  BY <1>1, <1>2
<1>4. n \in 1 .. n
  BY <1>1, <1>2, <1>3
<1>5. PICK r : r = [q EXCEPT ![n] = t]
  OBVIOUS
<1>6. /\ r \in [1 .. n -> S] /\ DOMAIN r = 1 .. n /\ r[n] = t
      /\ \A k \in 1 .. n : k # n => r[k] = q[k]
  BY <1>1, <1>2, <1>4, <1>5
<1>7. r \in Seq(S) /\ Len(r) = n
  <2>1. n \in Nat
    BY <1>1, <1>2
  <2>2. r \in Seq(S)
    BY <1>6, <2>1
  <2> QED
    BY <1>6, <2>1, <2>2
<1> QED
  BY <1>2, <1>5, <1>6, <1>7

\* An unbroken mirror that is continued behind a newline,
LEMMA PutLine ==
  ASSUME mirror \in Seq(0 .. Len(ledger)), Readable, MirroredOnce,
         NEW n \in 1 .. Len(ledger), n \notin Mirrored, Len(ledger) \in Nat,
         NEW m \in {Torn, n}, mirror' = Append(mirror, m)
  PROVE  /\ mirror' \in Seq(0 .. Len(ledger)) /\ mirror' # << >>
         /\ \A k \in DOMAIN mirror' : mirror'[k] = Torn => k = Len(mirror')
         /\ MirroredOnce' /\ Mirrored \subseteq Mirrored' /\ (m = n => n \in Mirrored')
<1>1. Len(mirror) \in Nat /\ DOMAIN mirror = 1 .. Len(mirror)
  OBVIOUS
<1>2. m \in 0 .. Len(ledger) /\ n # Torn
  BY DEF Torn
<1>3. /\ mirror' \in Seq(0 .. Len(ledger)) /\ Len(mirror') = Len(mirror) + 1
      /\ DOMAIN mirror' = 1 .. Len(mirror) + 1
      /\ \A k \in 1 .. Len(mirror) : mirror'[k] = mirror[k]
      /\ mirror'[Len(mirror) + 1] = m
  BY <1>1, <1>2
<1>4. \A k \in DOMAIN mirror' : k = Len(mirror) + 1 \/ k \in 1 .. Len(mirror)
  BY <1>1, <1>3
<1>5. \A k \in 1 .. Len(mirror) : mirror[k] # Torn /\ mirror[k] # n
  BY <1>1, ReadableMirror DEF Readable
<1>6. MirroredOnce'
  <2>1. \A k \in 1 .. Len(mirror) : mirror[k] # m
    BY <1>5
  <2>2. \A j, k \in 1 .. Len(mirror) : mirror[j] = mirror[k] => j = k
    BY <1>1 DEF MirroredOnce
  <2> QED
    BY <1>3, <1>4, <2>1, <2>2 DEF MirroredOnce
<1>7. Mirrored \subseteq Mirrored'
  <2> SUFFICES ASSUME NEW j \in DOMAIN mirror
               PROVE  mirror[j] \in Mirrored'
    BY ReadableMirror
  <2>1. j \in DOMAIN mirror' /\ mirror'[j] = mirror[j]
    BY <1>1, <1>3
  <2>2. \A k \in 1 .. j : k \in 1 .. Len(mirror)
    BY <1>1
  <2>3. \A k \in 1 .. j : mirror'[k] # Torn
    BY <1>3, <1>5, <2>2
  <2> QED
    BY <2>1, <2>3 DEF Mirrored
<1>8. ASSUME m = n
      PROVE  n \in Mirrored'
  <2>1. \A k \in 1 .. Len(mirror) + 1 : mirror'[k] # Torn
    BY <1>2, <1>3, <1>4, <1>5, <1>8
  <2>2. Len(mirror) + 1 \in DOMAIN mirror'
    BY <1>1, <1>3
  <2> QED
    BY <1>3, <1>8, <2>1, <2>2 DEF Mirrored
<1>9. \A k \in DOMAIN mirror' : mirror'[k] = Torn => k = Len(mirror')
  BY <1>3, <1>4, <1>5
<1>10. mirror' # << >>
  BY <1>1, <1>3
<1> QED
  BY <1>3, <1>6, <1>7, <1>8, <1>9, <1>10

\* and one whose last line takes up another.
LEMMA PutGlued ==
  ASSUME mirror \in Seq(0 .. Len(ledger)), mirror # << >>, Readable, MirroredOnce,
         mirror' = [mirror EXCEPT ![Len(mirror)] = Torn], Len(ledger) \in Nat
  PROVE  /\ mirror' \in Seq(0 .. Len(ledger)) /\ mirror' # << >> /\ ~Readable'
         /\ \A k \in DOMAIN mirror' : mirror'[k] = Torn => k = Len(mirror')
         /\ MirroredOnce' /\ Mirrored \subseteq Mirrored' \cup {mirror[Len(mirror)]}
         /\ mirror[Len(mirror)] \in 1 .. Len(ledger)
<1>1. Len(mirror) \in Nat /\ DOMAIN mirror = 1 .. Len(mirror) /\ Len(mirror) # 0
  OBVIOUS
<1>2. Torn \in 0 .. Len(ledger) /\ Len(mirror) \in 1 .. Len(mirror)
  BY <1>1 DEF Torn
<1>3. /\ mirror' \in Seq(0 .. Len(ledger)) /\ Len(mirror') = Len(mirror)
      /\ DOMAIN mirror' = 1 .. Len(mirror)
      /\ \A k \in 1 .. Len(mirror) : k # Len(mirror) => mirror'[k] = mirror[k]
      /\ mirror'[Len(mirror)] = Torn
  BY <1>1, <1>2, ReplaceLast
<1>4. \A k \in 1 .. Len(mirror) : mirror[k] # Torn
  BY <1>1 DEF Readable
<1>5. MirroredOnce'
  BY <1>1, <1>3, <1>4 DEF MirroredOnce
<1>6. Mirrored \subseteq Mirrored' \cup {mirror[Len(mirror)]}
  <2>0. Mirrored = { mirror[n] : n \in DOMAIN mirror }
    BY ReadableMirror
  <2> SUFFICES ASSUME NEW j \in 1 .. Len(mirror), j # Len(mirror)
               PROVE  mirror[j] \in Mirrored'
    BY <1>1, <2>0
  <2>3. PICK l \in Nat : l = Len(mirror)
    BY <1>1
  <2>1. \A k \in 1 .. j : k \in 1 .. Len(mirror) /\ k # Len(mirror)
    <3>1. j \in 1 .. l /\ j # l
      BY <2>3
    <3>2. \A k \in 1 .. j : k \in 1 .. l /\ k # l
      BY <3>1
    <3> QED
      BY <2>3, <3>2
  <2>2. \A k \in 1 .. j : mirror'[k] # Torn
    BY <1>3, <1>4, <2>1
  <2> QED
    BY <1>3, <2>2 DEF Mirrored
<1>7. mirror[Len(mirror)] \in 1 .. Len(ledger)
  <2>1. mirror[Len(mirror)] \in 0 .. Len(ledger) /\ mirror[Len(mirror)] # 0
    BY <1>1, <1>2, <1>4 DEF Torn
  <2> QED
    BY <2>1
<1>8. \A k \in DOMAIN mirror' : mirror'[k] = Torn => k = Len(mirror')
  BY <1>3, <1>4
<1>9. ~Readable' /\ mirror' # << >>
  <2>1. Len(mirror) \in DOMAIN mirror' /\ mirror'[Len(mirror)] = Torn
    BY <1>2, <1>3
  <2>2. mirror' # << >>
    BY <1>1, <1>3
  <2> QED
    BY <2>1, <2>2 DEF Readable
<1> QED
  BY <1>3, <1>5, <1>6, <1>7, <1>8, <1>9

\* A copy leaves lines of the ledger,
LEMMA CopyTypes ==
  ASSUME TypeOK, NEW n \in 1 .. Len(ledger), ledger' = ledger,
         CopySome(n) \/ CopyToMirror(n), abandoned' \subseteq 1 .. Len(ledger)
  PROVE  FileTypes'
<1>1. FileTypes /\ Len(ledger) \in Nat
  BY DEF TypeOK, FileTypes
<1>2. CASE UNCHANGED <<mirror, cut, glued>>
  BY <1>1, <1>2 DEF FileTypes
<1>3. CASE ~UNCHANGED <<mirror, cut, glued>>
  <2>1. PICK m \in {Torn, n} : Put(m) /\ cut' \in BOOLEAN
    BY <1>3 DEF CopySome, CopyToMirror
  <2>2. m \in 0 .. Len(ledger) /\ Torn \in 0 .. Len(ledger)
    BY <1>1 DEF Torn
  <2>3. mirror \in Seq(0 .. Len(ledger)) /\ Len(mirror) \in Nat /\ glued \subseteq 1 .. Len(ledger)
    BY <1>1 DEF FileTypes
  <2>4. CASE cut
    <3>1. Len(mirror) \in DOMAIN mirror
      BY <1>1, <2>3, <2>4 DEF FileTypes
    <3>2. mirror[Len(mirror)] \in 0 .. Len(ledger)
      BY <2>3, <3>1
    <3>3. /\ mirror' = [mirror EXCEPT ![Len(mirror)] = Torn]
          /\ glued' = glued \cup ({mirror[Len(mirror)], m} \ {Torn})
      BY <2>1, <2>4 DEF Put
    <3>4. mirror' \in Seq(0 .. Len(ledger)) /\ Len(mirror') = Len(mirror)
      BY <1>1, <2>2, <2>3, <2>4, <3>3, ReplaceLast DEF FileTypes
    <3>5. \A k \in 0 .. Len(ledger) : k # Torn => k \in 1 .. Len(ledger)
      BY <1>1 DEF Torn
    <3>6. glued' \subseteq 1 .. Len(ledger)
      BY <2>2, <2>3, <3>2, <3>3, <3>5
    <3>7. mirror' # << >>
      BY <2>3, <3>1, <3>4
    <3> QED
      BY <1>1, <2>1, <3>4, <3>6, <3>7 DEF FileTypes
  <2>5. CASE ~cut
    <3>1. mirror' = Append(mirror, m) /\ glued' = glued
      BY <2>1, <2>5 DEF Put
    <3>2. mirror' \in Seq(0 .. Len(ledger)) /\ Len(mirror') = Len(mirror) + 1
      BY <2>2, <2>3, <3>1
    <3>3. mirror' # << >>
      BY <2>3, <3>2
    <3> QED
      BY <1>1, <2>1, <2>3, <3>1, <3>2, <3>3 DEF FileTypes
  <2> QED
    BY <2>4, <2>5
<1> QED
  BY <1>2, <1>3

\* and, interrupted or not, loses no event from the mirror but to a shared line.
LEMMA CopyFacts ==
  ASSUME TypeOK, TornIsLast, NEW n \in 1 .. Len(ledger), ledger' = ledger,
         CopySome(n) \/ CopyToMirror(n)
  PROVE  /\ TornIsLast'
         /\ Mirrored \subseteq Mirrored' \cup glued' /\ glued \subseteq glued'
         /\ CopyToMirror(n) => n \in Mirrored' \cup glued'
<1>1. /\ mirror \in Seq(0 .. Len(ledger)) /\ Len(ledger) \in Nat
      /\ cut => mirror # << >>
  BY DEF TypeOK
<1>2. CASE mirror' = mirror /\ cut' = cut /\ glued' = glued
  <2>1. Mirrored' = Mirrored /\ TornIsLast'
    BY <1>2 DEF Mirrored, TornIsLast, MirroredOnce, Readable
  <2>2. ASSUME CopyToMirror(n)
        PROVE  n \in Mirrored'
    <3>1. CASE n \in Mirrored
      BY <2>1, <3>1
    <3>2. CASE n \notin Mirrored
      <4>1. Readable /\ Put(n)
        BY <2>2, <3>2 DEF CopyToMirror
      <4>2. CASE cut
        BY <1>1, <1>2, <4>1, <4>2, PutGlued DEF Put, TornIsLast, Readable
      <4>3. CASE ~cut
        BY <1>1, <1>2, <3>2, <4>1, <4>3, PutLine DEF Put, TornIsLast
      <4> QED
        BY <4>2, <4>3
    <3> QED
      BY <3>1, <3>2
  <2> QED
    BY <1>1, <1>2, <2>1, <2>2
<1>3. CASE ~(mirror' = mirror /\ cut' = cut /\ glued' = glued)
  <2>1. PICK m \in {Torn, n}, short \in BOOLEAN :
          /\ n \notin Mirrored /\ Readable /\ Put(m) /\ cut' = short
          /\ CopyToMirror(n) => m = n
    <3>1. CASE CopyToMirror(n)
      BY <1>3, <3>1 DEF CopyToMirror
    <3>2. CASE ~CopyToMirror(n)
      BY <1>3, <3>2 DEF CopySome
    <3> QED
      BY <3>1, <3>2
  <2>2. CASE cut
    <3>1. /\ mirror' = [mirror EXCEPT ![Len(mirror)] = Torn] /\ mirror # << >>
          /\ glued' = glued \cup ({mirror[Len(mirror)], m} \ {Torn})
          /\ MirroredOnce
      BY <1>1, <2>1, <2>2 DEF Put, TornIsLast
    <3>2. /\ mirror' \in Seq(0 .. Len(ledger)) /\ mirror' # << >> /\ ~Readable'
          /\ \A k \in DOMAIN mirror' : mirror'[k] = Torn => k = Len(mirror')
          /\ MirroredOnce' /\ Mirrored \subseteq Mirrored' \cup {mirror[Len(mirror)]}
          /\ mirror[Len(mirror)] \in 1 .. Len(ledger)
      BY <1>1, <2>1, <3>1, PutGlued
    <3>3. mirror[Len(mirror)] # Torn /\ n # Torn
      BY <1>1, <3>2 DEF Torn
    <3>4. TornIsLast'
      BY <3>2 DEF TornIsLast
    <3> QED
      BY <2>1, <3>1, <3>2, <3>3, <3>4
  <2>3. CASE ~cut
    <3>1. mirror' = Append(mirror, m) /\ glued' = glued
      BY <2>1, <2>3 DEF Put
    <3>2. glued = {}
      BY <2>1 DEF TornIsLast
    <3>3. /\ mirror' \in Seq(0 .. Len(ledger)) /\ mirror' # << >>
          /\ \A k \in DOMAIN mirror' : mirror'[k] = Torn => k = Len(mirror')
          /\ MirroredOnce' /\ Mirrored \subseteq Mirrored' /\ (m = n => n \in Mirrored')
      BY <1>1, <2>1, <3>1, PutLine DEF TornIsLast
    <3>4. TornIsLast'
      BY <3>1, <3>2, <3>3 DEF TornIsLast
    <3> QED
      BY <1>1, <2>1, <3>1, <3>3, <3>4
  <2> QED
    BY <2>2, <2>3
<1> QED
  BY <1>2, <1>3

\* What is copied is a position of the ledger.
LEMMA CopyingFacts ==
  ASSUME TypeOK, NEW w \in Writer
  PROVE  /\ Copying(w) # 0 => Copying(w) \in 1 .. Len(ledger)
         /\ Unmirrored(w) # {} => Min(Unmirrored(w)) \in 1 .. Len(ledger)
<1>1. Len(ledger) \in Nat /\ line[w] \in 0 .. Len(ledger)
  BY DEF TypeOK
<1>2. Unmirrored(w) \subseteq 1 .. Len(ledger) /\ 1 .. Len(ledger) \subseteq Nat
  BY <1>1 DEF Unmirrored
<1>3. ASSUME Unmirrored(w) # {}
      PROVE  Min(Unmirrored(w)) \in 1 .. Len(ledger)
  <2>1. Min(Unmirrored(w)) \in Unmirrored(w)
    BY <1>2, <1>3, MinFacts
  <2> QED
    BY <1>2, <2>1
<1>4. line[w] # 0 => line[w] \in 1 .. Len(ledger)
  BY <1>1
<1> QED
  BY <1>3, <1>4 DEF Copying

LEMMA MirrorKeeps ==
  ASSUME IInv, NEW w \in Writer, Mirror(w)
  PROVE  IInv'
<1>1. /\ line[w] # 0 /\ CopyToMirror(line[w])
      /\ line' = [line EXCEPT ![w] = 0]
      /\ class' = class /\ tree' = tree /\ trace' = trace /\ ledger' = ledger
      /\ found' = found /\ pc' = pc /\ copy' = copy /\ hash' = hash /\ left' = left
      /\ queue' = queue /\ alone' = alone /\ abandoned' = abandoned
      /\ reports' = reports /\ captures' = captures /\ disturbances' = disturbances
  BY DEF Mirror, bounds
<1>2. TypeOK /\ Held(w) /\ Chained(w) /\ Settled(w)
  BY DEF IInv
<1>3. Len(ledger) \in Nat /\ abandoned \subseteq 1 .. Len(ledger)
  BY <1>2 DEF TypeOK
<1>4. line[w] \in 1 .. Len(ledger) /\ 0 \in 0 .. Len(ledger)
  <2>1. line[w] \in 0 .. Len(ledger)
    BY <1>2 DEF TypeOK
  <2> QED
    BY <1>1, <1>3, <2>1
<1>5. FileTypes'
  BY <1>1, <1>2, <1>3, <1>4, CopyTypes
<1>6. TypeOK'
  BY <1>1, <1>2, <1>4, <1>5 DEF TypeOK, FileTypes
<1>7. \A t \in Tree : trace.passes[t] <= trace'.passes[t]
  BY <1>1, <1>2, TraceFacts
<1>8. \A t \in Tree : copy'[w].passes[t] <= trace'.passes[t]
  BY <1>1, <1>2, <1>6, <1>7, CopyBound
<1>9. Held(w)'
  BY <1>1, <1>2, <1>8 DEF Held
<1>10. Chained(w)' /\ Settled(w)'
  BY <1>1, <1>2, Goes
<1>11. \A v \in Writer \ {w} : Untouched(v)
  BY <1>1 DEF Untouched
<1> QED
  BY <1>1, <1>6, <1>7, <1>9, <1>10, <1>11, OfOne

LEMMA SyncKeeps ==
  ASSUME IInv, NEW w \in Writer, Sync(w)
  PROVE  IInv'
<1>1. /\ Unmirrored(w) # {} /\ CopyToMirror(Min(Unmirrored(w)))
      /\ class' = class /\ tree' = tree /\ trace' = trace /\ ledger' = ledger
      /\ line' = line
      /\ found' = found /\ pc' = pc /\ copy' = copy /\ hash' = hash /\ left' = left
      /\ queue' = queue /\ alone' = alone /\ abandoned' = abandoned
      /\ reports' = reports /\ captures' = captures /\ disturbances' = disturbances
  BY DEF Sync, bounds, work
<1>2. TypeOK /\ Held(w) /\ Chained(w) /\ Settled(w)
  BY DEF IInv
<1>3. abandoned \subseteq 1 .. Len(ledger)
  BY <1>2 DEF TypeOK
<1>4. Min(Unmirrored(w)) \in 1 .. Len(ledger)
  BY <1>1, <1>2, CopyingFacts
<1>5. FileTypes'
  BY <1>1, <1>2, <1>3, <1>4, CopyTypes
<1>6. TypeOK'
  BY <1>1, <1>2, <1>5 DEF TypeOK, FileTypes
<1>7. \A t \in Tree : trace.passes[t] <= trace'.passes[t]
  BY <1>1, <1>2, TraceFacts
<1>8. \A t \in Tree : copy'[w].passes[t] <= trace'.passes[t]
  BY <1>1, <1>2, <1>6, <1>7, CopyBound
<1>9. Held(w)'
  BY <1>1, <1>2, <1>8 DEF Held
<1>10. Chained(w)' /\ Settled(w)'
  BY <1>1, <1>2, Goes
<1>11. \A v \in Writer \ {w} : Untouched(v)
  BY <1>1 DEF Untouched
<1> QED
  BY <1>1, <1>6, <1>7, <1>9, <1>10, <1>11, OfOne

\* The recordings that end or fail.
LEMMA CountsAreNat ==
  ASSUME TypeOK
  PROVE  /\ {reports, captures, disturbances} \subseteq Nat
         /\ {reports, captures, disturbances + 1} \subseteq Nat
BY DEF TypeOK

LEMMA StopTypes ==
  ASSUME TypeOK, NEW w \in Writer,
         \/ Persist(w) \/ Synced(w) \/ Refused(w) \/ TraceConflict(w)
         \/ Unreadable(w) \/ CallFails(w) \/ Die(w)
  PROVE  FileTypes'
<1>1. FileTypes /\ Len(ledger) \in Nat /\ line[w] \in 0 .. Len(ledger)
  BY DEF TypeOK, FileTypes
<1>2. ledger' = ledger
  BY DEF Persist, Synced, Refused, TraceConflict, Unreadable, CallFails, Die, GiveUp, End, Fail
<1>3. abandoned' \subseteq 1 .. Len(ledger)
  <2>1. abandoned \subseteq 1 .. Len(ledger)
    BY <1>1 DEF FileTypes
  <2>2. CASE Abandon(w)
    <3>1. line[w] = 0 \/ line[w] \in 1 .. Len(ledger)
      BY <1>1
    <3> QED
      BY <2>1, <2>2, <3>1 DEF Abandon
  <2>3. CASE abandoned' \subseteq abandoned
    BY <2>1, <2>3
  <2>4. Abandon(w) \/ abandoned' \subseteq abandoned
    BY DEF Persist, Synced, Refused, TraceConflict, Unreadable, CallFails, Die, file
  <2> QED
    BY <2>2, <2>3, <2>4
<1>4. CASE UNCHANGED <<mirror, cut, glued>>
  BY <1>1, <1>2, <1>3, <1>4 DEF FileTypes
<1>5. CASE ~UNCHANGED <<mirror, cut, glued>>
  <2>1. Copying(w) # 0 /\ CopySome(Copying(w))
    BY <1>5 DEF Persist, Synced, Refused, TraceConflict, Unreadable, CallFails, Die, file
  <2> QED
    BY <1>2, <1>3, <2>1, CopyingFacts, CopyTypes
<1> QED
  BY <1>4, <1>5

LEMMA StopKeeps ==
  ASSUME IInv, NEW w \in Writer,
         \/ Persist(w) \/ Synced(w) \/ Refused(w) \/ TraceConflict(w)
         \/ Unreadable(w) \/ CallFails(w) \/ Die(w)
  PROVE  IInv'
<1>1. End(w) \/ Fail(w)
  BY DEF Persist, Synced, Refused, TraceConflict, Unreadable, CallFails, Die, GiveUp
<1>2. \/ bounds' = bounds
      \/ disturbances' = disturbances + 1 /\ reports' = reports /\ captures' = captures
  BY DEF Persist, Synced, Refused, TraceConflict, Unreadable, CallFails, Die
<1>3. TypeOK
  BY DEF IInv
<1>4. {reports', captures', disturbances'} \subseteq Nat
  <2>1. CASE bounds' = bounds
    BY <1>3, <2>1, CountsAreNat DEF bounds
  <2>2. CASE disturbances' = disturbances + 1 /\ reports' = reports /\ captures' = captures
    BY <1>3, <2>2, CountsAreNat
  <2> QED
    BY <1>2, <2>1, <2>2
<1>5. tree' = tree
  BY <1>1 DEF End, Fail
<1>6. FileTypes'
  BY <1>3, StopTypes
<1> QED
  BY <1>1, <1>4, <1>5, <1>6, EndKeeps, FailKeeps

-----------------------------------------------------------------------------
(* Looking at an intervention *)

LEMMA LookKeeps ==
  ASSUME IInv, NEW w \in Writer, NEW i \in Item, Look(w, i)
  PROVE  IInv'
<1>1. /\ queue[w] = << >> /\ i \in left[w] /\ pc[w] \in {"decision", "findings"}
      /\ queue' = [queue EXCEPT ![w] = NewEvents(w, i)]
      /\ left' = [left EXCEPT ![w] = left[w] \ {i}]
      /\ class' = class /\ tree' = tree /\ trace' = trace /\ ledger' = ledger
      /\ file' = file /\ found' = found /\ pc' = pc /\ copy' = copy /\ hash' = hash
      /\ line' = line /\ alone' = alone
      /\ reports' = reports /\ captures' = captures /\ disturbances' = disturbances
  BY DEF Look, Free, bounds
<1>2. TypeOK /\ Held(w) /\ Settled(w)
  BY DEF IInv
<1>3. found[w][i] # Nil /\ hash[w] \in Tree
  BY <1>1, <1>2 DEF Held
<1>s. PICK s : s = StatusFor(w, i)
  OBVIOUS
<1>l. PICK statuses : statuses = Statuses(w, LastStatus(i), s)
  OBVIOUS
<1>4. s \in Status \ {"repaired"}
  BY <1>s, StatusForValues
<1>5. \/ statuses = << >>
      \/ statuses \in Chains(s) /\ (statuses[1] = "repaired" => LastStatus(i) \in Demand)
  BY <1>4, <1>l, StatusesAreChains
<1>6. NewEvents(w, i) = [n \in DOMAIN statuses |-> NewEvent(w, i, statuses[n])]
  BY <1>s, <1>l DEF NewEvents
<1>7. NewEvents(w, i) \in Seq(Event)
  <2>1. CASE statuses = << >>
    <3>1. NewEvents(w, i) = [n \in {} |-> NewEvent(w, i, statuses[n])]
      BY <1>6, <2>1
    <3>2. [n \in {} |-> NewEvent(w, i, statuses[n])] = << >>
      OBVIOUS
    <3> QED
      BY <3>1, <3>2
  <2>2. CASE statuses \in Chains(s)
    <3>1. [n \in DOMAIN statuses |-> NewEvent(w, i, statuses[n])] \in Seq(Event)
      BY <1>s, <1>2, <1>3, <2>2, ChainEvents
    <3> QED
      BY <1>6, <3>1
  <2> QED
    BY <1>5, <2>1, <2>2
<1>8. queue'[w] = NewEvents(w, i) /\ left'[w] = left[w] \ {i}
  BY <1>1, <1>2 DEF TypeOK
<1>9. TypeOK'
  BY <1>1, <1>2, <1>7 DEF TypeOK, file
<1>10. \A t \in Tree : trace.passes[t] <= trace'.passes[t]
  BY <1>1, <1>2, TraceFacts
<1>11. Held(w)'
  <2>1. \A t \in Tree : copy'[w].passes[t] <= trace'.passes[t]
    BY <1>1, <1>2, <1>9, <1>10, CopyBound
  <2> QED
    BY <1>1, <1>2, <1>8, <2>1 DEF Held
<1>12. \A j : /\ StatusFor(w, j)' = StatusFor(w, j)
              /\ \A t : NewEvent(w, j, t)' = NewEvent(w, j, t)
  BY <1>1, SameView
<1>13. /\ \A j : LastStatus(j)' = LastStatus(j)
       /\ \A j : Asked(j)' <=> Asked(j)
       /\ \A e : Duplicates(e)' = Duplicates(e)
  BY <1>1, SameLedger
<1>14. Chained(w)'
  <2> SUFFICES ASSUME queue'[w] # << >>
               PROVE  Chained(w)'
    BY DEF Chained
  <2>1. statuses # << >>
    <3>1. [n \in {} |-> NewEvent(w, i, statuses[n])] = << >>
      OBVIOUS
    <3> QED
      BY <1>6, <1>8, <3>1
  <2>2. statuses \in Chains(s) /\ (statuses[1] = "repaired" => LastStatus(i) \in Demand)
    BY <1>5, <2>1
  <2>3. statuses[1] = "repaired" => Asked(i)
    <3>1. LastStatus(i) \in Demand => LastStatus(i) # "none"
      BY DEF Demand
    <3> QED
      BY <1>2, <2>2, <3>1, LastStatusFacts DEF Asked
  <2>4. found'[w][i] # Nil /\ i \notin left'[w]
    BY <1>1, <1>3, <1>8
  <2>5. statuses \in Chains(StatusFor(w, i)')
    BY <1>s, <1>12, <2>2
  <2>6. queue'[w] = [n \in DOMAIN statuses |-> NewEvent(w, i, statuses[n])']
    BY <1>6, <1>8, <1>12
  <2>7. statuses[1] = "repaired" => Asked(i)'
    BY <1>13, <2>3
  <2> QED
    BY <2>4, <2>5, <2>6, <2>7 DEF Chained
<1>15. Settled(w)'
  <2> SUFFICES ASSUME alone'[w], NEW j \in Item \ left'[w], found'[w][j] # Nil,
                      NEW t \in Due(w, j)'
               PROVE  \/ Duplicates(NewEvent(w, j, t))' # {}
                      \/ NewEvent(w, j, t)' \in Queued(w)'
    BY DEF Settled
  <2>1. t \in Due(w, j)
    BY <1>12, <1>13 DEF Due
  <2>2. CASE j = i
    <3>1. PICK n \in DOMAIN statuses : t = statuses[n]
      BY <1>s, <1>l, <2>1, <2>2 DEF Due
    <3>2. n \in DOMAIN NewEvents(w, i) /\ NewEvents(w, i)[n] = NewEvent(w, i, t)
      BY <1>6, <3>1
    <3>3. NewEvent(w, i, t) \in Queued(w)'
      BY <1>8, <3>2 DEF Queued
    <3> QED
      BY <1>12, <2>2, <3>3
  <2>3. CASE j # i
    <3>1. j \in Item \ left[w] /\ found[w][j] # Nil /\ alone[w]
      BY <1>1, <1>8, <2>3
    <3>2. Queued(w) = {}
      BY <1>1 DEF Queued
    <3>3. Duplicates(NewEvent(w, j, t)) # {}
      BY <1>2, <2>1, <3>1, <3>2 DEF Settled
    <3> QED
      BY <1>12, <1>13, <3>3
  <2> QED
    BY <2>2, <2>3
<1>16. \A v \in Writer \ {w} : Untouched(v)
  BY <1>1, <1>2 DEF TypeOK, Untouched
<1> QED
  BY <1>1, <1>9, <1>10, <1>11, <1>14, <1>15, <1>16, OfOne

-----------------------------------------------------------------------------
(* Appending an event *)

\* What is left of a chain is a chain, and "repaired" comes after "requested".
LEMMA RestOfChain ==
  ASSUME NEW s \in Status \ {"repaired"}, NEW statuses \in Chains(s), Len(statuses) # 1
  PROVE  \E rest \in Chains(s) :
           /\ Len(rest) = Len(statuses) - 1
           /\ \A n \in 1 .. Len(rest) : rest[n] = statuses[n + 1]
           /\ rest[1] = "repaired" => statuses[1] = "requested"
<1>1. \/ statuses = <<s>>
      \/ s = "verified" /\ statuses = <<"requested", "repaired", "verified">>
      \/ s = "verified" /\ statuses = <<"repaired", "verified">>
      \/ s = "stale" /\ statuses = <<"requested", "stale">>
  BY ChainFacts
<1>2. CASE s = "verified" /\ statuses = <<"requested", "repaired", "verified">>
  <2> DEFINE rest == <<"repaired", "verified">>
  <2>1. rest \in Chains(s)
    BY <1>2 DEF Chains
  <2>2. /\ Len(rest) = 2 /\ Len(statuses) = 3
        /\ rest[1] = statuses[2] /\ rest[2] = statuses[3] /\ statuses[1] = "requested"
    BY <1>2
  <2>3. \A n \in 1 .. 2 : rest[n] = statuses[n + 1]
    <3>1. \A n \in 1 .. 2 : n = 1 \/ n = 2
      OBVIOUS
    <3> QED
      BY <2>2, <3>1
  <2> QED
    BY <2>1, <2>2, <2>3
<1>3. CASE s = "verified" /\ statuses = <<"repaired", "verified">>
  <2> DEFINE rest == <<"verified">>
  <2>1. rest \in Chains(s)
    BY <1>3 DEF Chains
  <2>2. Len(rest) = 1 /\ Len(statuses) = 2 /\ rest[1] = statuses[2] /\ rest[1] # "repaired"
    BY <1>3
  <2> QED
    BY <2>1, <2>2
<1>4. CASE s = "stale" /\ statuses = <<"requested", "stale">>
  <2> DEFINE rest == <<"stale">>
  <2>1. rest \in Chains(s)
    BY <1>4 DEF Chains
  <2>2. Len(rest) = 1 /\ Len(statuses) = 2 /\ rest[1] = statuses[2] /\ rest[1] # "repaired"
    BY <1>4
  <2> QED
    BY <2>1, <2>2
<1> QED
  BY <1>1, <1>2, <1>3, <1>4

\* Everything in one sequence is in the other.
Within(due, statuses) ==
  \A n \in DOMAIN due : \E m \in DOMAIN statuses : due[n] = statuses[m]

\* From the first status of a chain the rest of the chain is due, or the status
\* itself again.
LEMMA DueAfterFirst ==
  ASSUME NEW w, NEW s \in Status \ {"repaired"}, NEW statuses \in Chains(s),
         NEW due, due = Statuses(w, statuses[1], s)
  PROVE  Within(due, statuses)
<1> SUFFICES ASSUME NEW n \in DOMAIN Statuses(w, statuses[1], s)
             PROVE  \E m \in DOMAIN statuses : Statuses(w, statuses[1], s)[n] = statuses[m]
  BY DEF Within
<1>1. \/ statuses = <<s>>
      \/ s = "verified" /\ statuses = <<"requested", "repaired", "verified">>
      \/ s = "verified" /\ statuses = <<"repaired", "verified">>
      \/ s = "stale" /\ statuses = <<"requested", "stale">>
  BY ChainFacts
<1>2. ~Skipped(w, statuses[1], s)
  BY DEF Statuses
<1>3. CASE statuses = <<s>>
  <2>1. statuses[1] = s /\ 1 \in DOMAIN statuses /\ s # "none"
    BY <1>3 DEF Status
  <2>2. Statuses(w, s, s) = <<s>>
    BY <1>2, <2>1 DEF Statuses
  <2>3. n = 1 /\ Statuses(w, statuses[1], s)[n] = s
    BY <2>1, <2>2
  <2> QED
    BY <2>1, <2>3
<1>4. CASE s = "verified" /\ statuses = <<"requested", "repaired", "verified">>
  <2>1. /\ statuses[1] = "requested" /\ statuses[2] = "repaired" /\ statuses[3] = "verified"
        /\ 2 \in DOMAIN statuses /\ 3 \in DOMAIN statuses
    BY <1>4
  <2>2. Statuses(w, statuses[1], s) = <<"repaired", "verified">>
    BY <1>2, <1>4, <2>1 DEF Statuses
  <2>3. n \in {1, 2}
    BY <2>2
  <2>4. CASE n = 1
    BY <2>1, <2>2, <2>4
  <2>5. CASE n = 2
    BY <2>1, <2>2, <2>5
  <2> QED
    BY <2>3, <2>4, <2>5
<1>5. CASE s = "verified" /\ statuses = <<"repaired", "verified">>
  <2>1. statuses[1] = "repaired" /\ statuses[2] = "verified" /\ 2 \in DOMAIN statuses
    BY <1>5
  <2>2. Statuses(w, statuses[1], s) = <<"verified">>
    BY <1>2, <1>5, <2>1 DEF Statuses
  <2> QED
    BY <2>1, <2>2
<1>6. CASE s = "stale" /\ statuses = <<"requested", "stale">>
  <2>1. statuses[1] = "requested" /\ statuses[2] = "stale" /\ 2 \in DOMAIN statuses
    BY <1>6
  <2>2. Statuses(w, statuses[1], s) = <<"stale">>
    BY <1>2, <1>6, <2>1 DEF Statuses
  <2> QED
    BY <2>1, <2>2
<1> QED
  BY <1>1, <1>3, <1>4, <1>5, <1>6

\* The next event of a queue, and what it leaves.
LEMMA QueueFacts ==
  ASSUME TypeOK, NEW w \in Writer, Held(w), Chained(w), queue[w] # << >>
  PROVE  \E i \in Item, first \in Status :
    /\ found[w][i] # Nil /\ i \notin left[w] /\ hash[w] \in Tree
    /\ Head(queue[w]) = NewEvent(w, i, first)
    /\ first = "repaired" => Asked(i)
    /\ \A d \in Queued(w) : d = Head(queue[w]) \/ \E n \in DOMAIN Tail(queue[w]) : d = Tail(queue[w])[n]
    /\ \/ Tail(queue[w]) = << >>
       \/ \E rest \in Chains(StatusFor(w, i)) :
            /\ Tail(queue[w]) = [n \in DOMAIN rest |-> NewEvent(w, i, rest[n])]
            /\ rest[1] = "repaired" => first = "requested"
    /\ \A n \in DOMAIN Statuses(w, first, StatusFor(w, i)) :
         NewEvent(w, i, Statuses(w, first, StatusFor(w, i))[n]) \in Queued(w)
<1>1. PICK i \in Item :
        /\ found[w][i] # Nil /\ i \notin left[w]
        /\ \E statuses \in Chains(StatusFor(w, i)) :
             /\ queue[w] = [n \in DOMAIN statuses |-> NewEvent(w, i, statuses[n])]
             /\ statuses[1] = "repaired" => Asked(i)
  BY DEF Chained
<1>s. PICK s : s = StatusFor(w, i)
  OBVIOUS
<1>2. s \in Status \ {"repaired"}
  BY <1>s, StatusForValues
<1>3. PICK statuses \in Chains(s) :
        /\ queue[w] = [n \in DOMAIN statuses |-> NewEvent(w, i, statuses[n])]
        /\ statuses[1] = "repaired" => Asked(i)
  BY <1>s, <1>1
<1>4. /\ statuses \in Seq(Status) /\ Len(statuses) \in 1 .. 3
      /\ DOMAIN statuses = 1 .. Len(statuses)
  BY <1>2, ChainFacts
<1>5. hash[w] \in Tree
  <2>1. pc[w] \in Place
    BY DEF TypeOK
  <2> QED
    BY <2>1 DEF Held, Place
<1>6. statuses[1] \in Status /\ 1 \in DOMAIN statuses
  BY <1>4
<1>7. /\ queue[w] \in Seq(Event) /\ Len(queue[w]) = Len(statuses)
      /\ \A n \in 1 .. Len(statuses) : queue[w][n] = NewEvent(w, i, statuses[n])
  <2>1. queue[w] \in Seq(Event)
    BY DEF TypeOK
  <2>2. DOMAIN queue[w] = 1 .. Len(statuses)
    BY <1>3, <1>4
  <2>3. Len(queue[w]) = Len(statuses)
    BY <1>4, <2>1, <2>2
  <2> QED
    BY <1>3, <1>4, <2>1, <2>3
<1>8. Head(queue[w]) = NewEvent(w, i, statuses[1])
  BY <1>4, <1>7
<1>9. /\ Tail(queue[w]) \in Seq(Event) /\ Len(Tail(queue[w])) = Len(statuses) - 1
      /\ \A n \in 1 .. Len(statuses) - 1 : Tail(queue[w])[n] = queue[w][n + 1]
      /\ DOMAIN Tail(queue[w]) = 1 .. Len(statuses) - 1
  BY <1>4, <1>7
<1>10. ASSUME NEW d \in Queued(w)
       PROVE  d = Head(queue[w]) \/ \E n \in DOMAIN Tail(queue[w]) : d = Tail(queue[w])[n]
  <2>1. PICK n \in 1 .. Len(statuses) : d = queue[w][n]
    BY <1>3, <1>4 DEF Queued
  <2>2. CASE n = 1
    BY <1>7, <2>1, <2>2
  <2>3. CASE n # 1
    <3>1. n - 1 \in 1 .. Len(statuses) - 1 /\ (n - 1) + 1 = n
      BY <1>4, <2>3
    <3>2. Tail(queue[w])[n - 1] = queue[w][(n - 1) + 1]
      BY <1>9, <3>1
    <3> QED
      BY <1>9, <2>1, <3>1, <3>2
  <2> QED
    BY <2>2, <2>3
<1>11. \/ Tail(queue[w]) = << >>
       \/ \E rest \in Chains(s) :
            /\ Tail(queue[w]) = [n \in DOMAIN rest |-> NewEvent(w, i, rest[n])]
            /\ rest[1] = "repaired" => statuses[1] = "requested"
  <2>1. CASE Len(statuses) = 1
    BY <1>9, <2>1
  <2>2. CASE Len(statuses) # 1
    <3>1. PICK rest \in Chains(s) :
            /\ Len(rest) = Len(statuses) - 1
            /\ \A n \in 1 .. Len(rest) : rest[n] = statuses[n + 1]
            /\ rest[1] = "repaired" => statuses[1] = "requested"
      BY <1>2, <2>2, RestOfChain
    <3>2. DOMAIN rest = 1 .. Len(statuses) - 1
      BY <1>2, <3>1, ChainFacts
    <3>3. ASSUME NEW n \in 1 .. Len(statuses) - 1
          PROVE  Tail(queue[w])[n] = NewEvent(w, i, rest[n])
      <4>1. n + 1 \in 1 .. Len(statuses)
        BY <1>4
      <4> QED
        BY <1>7, <1>9, <3>1, <4>1
    <3>4. Tail(queue[w]) = [n \in 1 .. Len(statuses) - 1 |-> Tail(queue[w])[n]]
      BY <1>9
    <3>5. Tail(queue[w]) = [n \in DOMAIN rest |-> NewEvent(w, i, rest[n])]
      BY <3>2, <3>3, <3>4
    <3> QED
      BY <3>1, <3>5
  <2> QED
    BY <2>1, <2>2
<1>12. ASSUME NEW n \in DOMAIN Statuses(w, statuses[1], s)
       PROVE  NewEvent(w, i, Statuses(w, statuses[1], s)[n]) \in Queued(w)
  <2>0. PICK due : due = Statuses(w, statuses[1], s)
    OBVIOUS
  <2>1. Within(due, statuses)
    BY <1>2, <2>0, DueAfterFirst
  <2>3. PICK m \in DOMAIN statuses : Statuses(w, statuses[1], s)[n] = statuses[m]
    BY <2>0, <2>1 DEF Within
  <2>2. m \in DOMAIN queue[w] /\ queue[w][m] = NewEvent(w, i, statuses[m])
    BY <1>3
  <2> QED
    BY <2>3, <2>2 DEF Queued
<1> QED
  BY <1>1, <1>3, <1>5, <1>6, <1>8, <1>10, <1>11, <1>12, <1>s

\* What an append changes in the ledger.
LEMMA Appended ==
  ASSUME TypeOK, NEW e \in Event, ledger' = Append(ledger, e)
  PROVE  /\ Len(ledger) \in Nat /\ Len(ledger') = Len(ledger) + 1
         /\ DOMAIN ledger = 1 .. Len(ledger) /\ DOMAIN ledger' = 1 .. Len(ledger) + 1
         /\ ledger' \in Seq(Event)
         /\ \A n \in DOMAIN ledger : ledger'[n] = ledger[n]
         /\ ledger'[Len(ledger) + 1] = e
         /\ LastStatus(e.item)' = e.status
         /\ \A j : j # e.item => LastStatus(j)' = LastStatus(j)
         /\ \A j : Positions(j) \subseteq Positions(j)' /\ (Asked(j) => Asked(j)')
         /\ \A d : Duplicates(d) # {} => Duplicates(d)' # {}
         /\ Duplicates(e)' # {}
<1>1. ledger \in Seq(Event) /\ Len(ledger) \in Nat /\ DOMAIN ledger = 1 .. Len(ledger)
  BY DEF TypeOK
<1>2. /\ Len(ledger') = Len(ledger) + 1 /\ ledger' \in Seq(Event)
      /\ DOMAIN ledger' = 1 .. Len(ledger) + 1
      /\ \A n \in 1 .. Len(ledger) : ledger'[n] = ledger[n]
      /\ ledger'[Len(ledger) + 1] = e
  BY <1>1
<1>3. \A n \in DOMAIN ledger' : n \in DOMAIN ledger \/ n = Len(ledger) + 1
  BY <1>1, <1>2
<1>4. \A n \in DOMAIN ledger : n \in DOMAIN ledger' /\ n < Len(ledger) + 1
  BY <1>1, <1>2
<1>5. Len(ledger) + 1 \in DOMAIN ledger'
  BY <1>1, <1>2
<1>6. ASSUME NEW j
      PROVE  Positions(j) \subseteq Positions(j)'
  BY <1>1, <1>2, <1>4 DEF Positions
<1>7. ASSUME NEW j, j # e.item
      PROVE  Positions(j)' = Positions(j)
  BY <1>1, <1>2, <1>3, <1>4, <1>7 DEF Positions
<1>8. ASSUME NEW j, j # e.item
      PROVE  LastStatus(j)' = LastStatus(j)
  <2>1. Positions(j)' = Positions(j) /\ Positions(j) \subseteq 1 .. Len(ledger)
    BY <1>1, <1>7, <1>8 DEF Positions
  <2>2. CASE Positions(j) = {}
    BY <2>1, <2>2 DEF LastStatus
  <2>3. CASE Positions(j) # {}
    <3>1. Max(Positions(j)) \in 1 .. Len(ledger)
      BY <1>1, <2>1, <2>3, MaxFacts
    <3>2. ledger'[Max(Positions(j))] = ledger[Max(Positions(j))]
      BY <1>2, <3>1
    <3> QED
      BY <2>1, <2>3, <3>2 DEF LastStatus
  <2> QED
    BY <2>2, <2>3
<1>9. LastStatus(e.item)' = e.status
  <2>1. Len(ledger) + 1 \in Positions(e.item)'
    BY <1>2, <1>5 DEF Positions
  <2>2. Positions(e.item)' \subseteq 1 .. Len(ledger) + 1
    BY <1>2 DEF Positions
  <2>3. PICK top : top = Max(Positions(e.item)')
    OBVIOUS
  <2>4. top \in 1 .. Len(ledger) + 1 /\ Len(ledger) + 1 <= top
    BY <1>1, <2>1, <2>2, <2>3, MaxFacts
  <2>5. top = Len(ledger) + 1
    BY <1>1, <2>4
  <2>6. LastStatus(e.item)' = ledger'[top].status
    BY <2>1, <2>3 DEF LastStatus
  <2> QED
    BY <1>2, <2>5, <2>6
<1>10. ASSUME NEW j, Asked(j)
       PROVE  Asked(j)'
  <2>1. PICK d \in Positions(j) : ledger[d].status \in Demand
    BY <1>10 DEF Asked
  <2>2. d \in Positions(j)' /\ ledger'[d].status = ledger[d].status
    BY <1>1, <1>2, <1>6, <2>1 DEF Positions
  <2> QED
    BY <2>1, <2>2 DEF Asked
<1>11. ASSUME NEW d, Duplicates(d) # {}
       PROVE  Duplicates(d)' # {}
  <2>1. PICK n \in DOMAIN ledger : SameId(ledger[n], d)
    BY <1>11 DEF Duplicates
  <2>2. n \in DOMAIN ledger' /\ SameId(ledger'[n], d)
    BY <1>1, <1>2, <1>4, <2>1
  <2> QED
    BY <2>2 DEF Duplicates
<1>12. Duplicates(e)' # {}
  <2>1. SameId(ledger'[Len(ledger) + 1], e)
    BY <1>2 DEF SameId
  <2> QED
    BY <1>5, <2>1 DEF Duplicates
<1> QED
  BY <1>1, <1>2, <1>6, <1>8, <1>9, <1>10, <1>11, <1>12

\* What the ledger calls repaired and verified, if the new event is as it should be.
LEMMA AppendedInvariants ==
  ASSUME TypeOK, TypeOK', RepairsAsked, VerifiedIsEarned, trace' = trace,
         NEW e \in Event, ledger' = Append(ledger, e), Valid(e),
         e.status = "repaired" => Asked(e.item),
         e.evidence.passes <= trace.passes[e.evidence.tree]
  PROVE  RepairsAsked' /\ VerifiedIsEarned'
<1>1. /\ Len(ledger) \in Nat
      /\ DOMAIN ledger = 1 .. Len(ledger) /\ DOMAIN ledger' = 1 .. Len(ledger) + 1
      /\ \A n \in DOMAIN ledger : ledger'[n] = ledger[n]
      /\ ledger'[Len(ledger) + 1] = e
      /\ \A j : Positions(j) \subseteq Positions(j)'
  BY Appended
<1>2. \A j : Positions(j) \subseteq DOMAIN ledger
  BY DEF Positions
<1>3. RepairsAsked'
  <2> SUFFICES ASSUME NEW n \in DOMAIN ledger', ledger'[n].status = "repaired",
                      NEW j, j = ledger'[n].item
               PROVE  \E d \in Positions(j)' : d < n /\ ledger'[d].status \in Demand
    BY DEF RepairsAsked
  <2>1. CASE n \in DOMAIN ledger
    <3>0. ledger[n] = ledger'[n] /\ ledger[n].item = j
      BY <1>1, <2>1
    <3>1. PICK d \in Positions(j) : d < n /\ ledger[d].status \in Demand
      BY <2>1, <3>0 DEF RepairsAsked
    <3> QED
      BY <1>1, <1>2, <2>1, <3>1
  <2>2. CASE n \notin DOMAIN ledger
    <3>1. n = Len(ledger) + 1 /\ ledger'[n] = e /\ e.item = j
      BY <1>1, <2>2
    <3>2. PICK d \in Positions(j) : ledger[d].status \in Demand
      BY <3>1 DEF Asked
    <3>3. d \in 1 .. Len(ledger)
      BY <1>1, <1>2
    <3>4. d < n
      BY <1>1, <3>1, <3>3
    <3> QED
      BY <1>1, <3>1, <3>2, <3>3, <3>4
  <2> QED
    BY <2>1, <2>2
<1>4. VerifiedIsEarned'
  <2> SUFFICES ASSUME NEW n \in DOMAIN ledger', ledger'[n].status = "verified",
                      NEW j, j = ledger'[n].item
               PROVE  /\ ledger'[n].evidence.passes > 0
                      /\ ledger'[n].evidence.passes <= trace'.passes[ledger'[n].evidence.tree]
                      /\ \E r \in Positions(j)', d \in Positions(j)' :
                           /\ d < r /\ r < n
                           /\ ledger'[r].status = "repaired" /\ ledger'[d].status \in Demand
    BY DEF VerifiedIsEarned
  <2>1. CASE n \in DOMAIN ledger
    <3>1. /\ ledger[n].evidence.passes > 0
          /\ ledger[n].evidence.passes <= trace.passes[ledger[n].evidence.tree]
      BY <1>1, <2>1 DEF VerifiedIsEarned
    <3>0. ledger[n] = ledger'[n] /\ ledger[n].item = j
      BY <1>1, <2>1
    <3>2. PICK r \in Positions(j), d \in Positions(j) :
                 /\ d < r /\ r < n
                 /\ ledger[r].status = "repaired" /\ ledger[d].status \in Demand
      BY <2>1, <3>0 DEF VerifiedIsEarned
    <3>3. ledger'[n] = ledger[n] /\ ledger'[r] = ledger[r] /\ ledger'[d] = ledger[d]
      BY <1>1, <1>2, <2>1
    <3>4. r \in Positions(j)' /\ d \in Positions(j)'
      BY <1>1
    <3> QED
      BY <3>1, <3>2, <3>3, <3>4
  <2>2. CASE n \notin DOMAIN ledger
    <3>1. n = Len(ledger) + 1 /\ ledger'[n] = e /\ e.status = "verified" /\ e.item = j
      BY <1>1, <2>2
    <3>2. e.evidence.passes > 0 /\ LastStatus(e.item) \in {"repaired", "verified"}
      <4>1. e.status \in After(LastStatus(e.item)) \cup {LastStatus(e.item)}
        BY DEF Valid
      <4>2. LastStatus(e.item) \in Status \cup {"none"}
        <5>1. e.item \in Item
          BY DEF Event
        <5> QED
          BY <5>1, LastStatusFacts
      <4>3. ASSUME NEW s \in Status \cup {"none"}, "verified" \in After(s) \cup {s}
            PROVE  s \in {"repaired", "verified"}
        BY <4>3 DEF After, Status
      <4> QED
        BY <3>1, <4>1, <4>2, <4>3 DEF Valid
    <3>3. PICK m \in Positions(j) : ledger[m].status \in {"repaired", "verified"}
      <4>1. j \in Item /\ LastStatus(j) \in {"repaired", "verified"}
        BY <3>1, <3>2 DEF Event
      <4> QED
        BY <4>1, LastStatusFacts
    <3>4. m \in DOMAIN ledger /\ ledger[m].item = j
      BY DEF Positions
    <3>5. PICK r \in Positions(j), d \in Positions(j) :
                 d < r /\ ledger[r].status = "repaired" /\ ledger[d].status \in Demand
      <4>1. CASE ledger[m].status = "repaired"
        <5>1. PICK d \in Positions(j) : d < m /\ ledger[d].status \in Demand
          BY <3>4, <4>1 DEF RepairsAsked
        <5> QED
          BY <4>1, <5>1
      <4>2. CASE ledger[m].status = "verified"
        BY <3>4, <4>2 DEF VerifiedIsEarned
      <4> QED
        BY <3>3, <4>1, <4>2
    <3>6. r \in 1 .. Len(ledger) /\ d \in 1 .. Len(ledger)
      BY <1>1, <1>2
    <3>7. r < n
      BY <1>1, <3>1, <3>6
    <3>8. r \in Positions(j)' /\ d \in Positions(j)'
      BY <1>1
    <3>9. ledger'[r] = ledger[r] /\ ledger'[d] = ledger[d]
      BY <1>1, <3>6
    <3> QED
      BY <3>1, <3>2, <3>5, <3>7, <3>8, <3>9
  <2> QED
    BY <2>1, <2>2
<1> QED
  BY <1>3, <1>4

LEMMA AppendEventKeeps ==
  ASSUME IInv, NEW w \in Writer, AppendEvent(w)
  PROVE  IInv'
<1>1. /\ queue[w] # << >>
      /\ queue' = [queue EXCEPT ![w] = Tail(queue[w])]
      /\ class' = class /\ tree' = tree /\ trace' = trace /\ file' = file
      /\ found' = found /\ pc' = pc /\ copy' = copy /\ hash' = hash /\ left' = left
      /\ reports' = reports /\ captures' = captures /\ disturbances' = disturbances
  BY DEF AppendEvent, bounds
<1>2. TypeOK /\ RepairsAsked /\ VerifiedIsEarned
      /\ Held(w) /\ Chained(w) /\ Settled(w)
  BY DEF IInv
<1>3. PICK i \in Item, first \in Status :
    /\ found[w][i] # Nil /\ i \notin left[w] /\ hash[w] \in Tree
    /\ Head(queue[w]) = NewEvent(w, i, first)
    /\ first = "repaired" => Asked(i)
    /\ \A d \in Queued(w) : d = Head(queue[w]) \/ \E n \in DOMAIN Tail(queue[w]) : d = Tail(queue[w])[n]
    /\ \/ Tail(queue[w]) = << >>
       \/ \E rest \in Chains(StatusFor(w, i)) :
            /\ Tail(queue[w]) = [n \in DOMAIN rest |-> NewEvent(w, i, rest[n])]
            /\ rest[1] = "repaired" => first = "requested"
    /\ \A n \in DOMAIN Statuses(w, first, StatusFor(w, i)) :
         NewEvent(w, i, Statuses(w, first, StatusFor(w, i))[n]) \in Queued(w)
  BY <1>1, <1>2, QueueFacts
<1>4. PICK e : e = Head(queue[w])
  OBVIOUS
<1>5. /\ e \in Event /\ e.item = i /\ e.status = first
      /\ e.evidence.tree = hash[w]
      /\ e.evidence.passes \in {0, copy[w].passes[hash[w]]}
  BY <1>2, <1>3, <1>4, NewEventFacts
<1>6. \/ /\ Duplicates(e) # {} /\ line' = [line EXCEPT ![w] = Min(Duplicates(e))]
         /\ ledger' = ledger /\ alone' = alone
      \/ /\ Valid(e) /\ ledger' = Append(ledger, e)
         /\ line' = [line EXCEPT ![w] = Len(ledger')]
         /\ alone' = [v \in Writer |-> alone[v] /\ v = w]
  BY <1>4 DEF AppendEvent
<1>7. queue'[w] = Tail(queue[w]) /\ Tail(queue[w]) \in Seq(Event)
  BY <1>1, <1>2 DEF TypeOK
<1>8. /\ \A j : StatusFor(w, j)' = StatusFor(w, j)
      /\ \A j : \A s : NewEvent(w, j, s)' = NewEvent(w, j, s)
  BY <1>1, SameView
<1>9. /\ Len(ledger) \in Nat /\ DOMAIN ledger = 1 .. Len(ledger)
      /\ FileTypes /\ queue \in [Writer -> Seq(Event)]
      /\ line \in [Writer -> 0 .. Len(ledger)] /\ alone \in [Writer -> BOOLEAN]
  BY <1>2 DEF TypeOK, FileTypes
<1>10. /\ ledger' \in Seq(Event) /\ FileTypes'
       /\ line' \in [Writer -> 0 .. Len(ledger')] /\ alone' \in [Writer -> BOOLEAN]
  <2>1. CASE /\ Duplicates(e) # {} /\ line' = [line EXCEPT ![w] = Min(Duplicates(e))]
             /\ ledger' = ledger /\ alone' = alone
    <3>1. Min(Duplicates(e)) \in DOMAIN ledger
      BY <1>2, <2>1, DuplicateFacts
    <3>2. Min(Duplicates(e)) \in 0 .. Len(ledger)
      BY <1>9, <3>1
    <3> QED
      BY <1>1, <1>2, <1>9, <2>1, <3>2 DEF TypeOK, FileTypes, file
  <2>2. CASE /\ Valid(e) /\ ledger' = Append(ledger, e)
             /\ line' = [line EXCEPT ![w] = Len(ledger')]
             /\ alone' = [v \in Writer |-> alone[v] /\ v = w]
    <3>1. /\ ledger' \in Seq(Event) /\ Len(ledger') = Len(ledger) + 1
          /\ DOMAIN ledger' = 1 .. Len(ledger) + 1
      BY <1>2, <1>5, <2>2, Appended
    <3>3. /\ 0 .. Len(ledger) \subseteq 0 .. Len(ledger') /\ Len(ledger') \in 0 .. Len(ledger')
          /\ 1 .. Len(ledger) \subseteq 1 .. Len(ledger')
      BY <1>9, <3>1
    <3>2. FileTypes'
      <4>0. /\ mirror \in Seq(0 .. Len(ledger)) /\ cut \in BOOLEAN /\ (cut => mirror # << >>)
            /\ abandoned \subseteq 1 .. Len(ledger) /\ glued \subseteq 1 .. Len(ledger)
        BY <1>9 DEF FileTypes
      <4>1. mirror \in [1 .. Len(mirror) -> 0 .. Len(ledger)] /\ Len(mirror) \in Nat
        BY <4>0
      <4>2. mirror \in [1 .. Len(mirror) -> 0 .. Len(ledger')]
        BY <3>3, <4>1
      <4>3. mirror \in Seq(0 .. Len(ledger'))
        BY <4>1, <4>2
      <4> QED
        BY <1>1, <3>3, <4>0, <4>3 DEF FileTypes, file
    <3>4. line' \in [Writer -> 0 .. Len(ledger')]
      <4>1. line \in [Writer -> 0 .. Len(ledger')]
        BY <1>9, <3>3
      <4> QED
        BY <2>2, <3>3, <4>1
    <3>5. alone' \in [Writer -> BOOLEAN]
      BY <2>2
    <3> QED
      BY <3>1, <3>2, <3>4, <3>5
  <2> QED
    BY <1>6, <2>1, <2>2
<1>11. TypeOK'
  BY <1>1, <1>2, <1>7, <1>9, <1>10 DEF TypeOK, FileTypes
<1>12. RepairsAsked' /\ VerifiedIsEarned'
  <2>1. CASE ledger' = ledger
    BY <1>1, <1>2, <1>11, <2>1, TraceFacts, SameLedgerInvariants
  <2>2. CASE Valid(e) /\ ledger' = Append(ledger, e)
    <3>1. e.evidence.passes <= trace.passes[e.evidence.tree]
      <4>1. copy[w].passes[hash[w]] <= trace.passes[hash[w]]
        BY <1>2, <1>3 DEF Held
      <4>2. trace.passes[hash[w]] \in Nat
        BY <1>2, <1>3, TraceFacts
      <4>3. 0 <= trace.passes[hash[w]]
        BY <4>2
      <4> QED
        BY <1>5, <4>1, <4>3
    <3>2. e.status = "repaired" => Asked(e.item)
      BY <1>3, <1>5
    <3> QED
      BY <1>1, <1>2, <1>5, <1>11, <2>2, <3>1, <3>2, AppendedInvariants
  <2> QED
    BY <1>6, <2>1, <2>2
<1>13. /\ \A j : Asked(j) => Asked(j)'
       /\ Duplicates(e)' # {}
       /\ \A d : Duplicates(d) # {} => Duplicates(d)' # {}
       /\ \A j : j # i => LastStatus(j)' = LastStatus(j)
       /\ first \in Demand => Asked(i)'
  <2>1. CASE Duplicates(e) # {} /\ ledger' = ledger
    <3>1. /\ \A j : LastStatus(j)' = LastStatus(j)
          /\ \A j : Asked(j)' <=> Asked(j)
          /\ \A d : Duplicates(d)' = Duplicates(d)
      BY <2>1, SameLedger
    <3>2. ASSUME first \in Demand
          PROVE  Asked(i)
      <4>1. PICK n \in DOMAIN ledger : n \in Duplicates(e)
        BY <2>1 DEF Duplicates
      <4>2. ledger[n].item = i /\ ledger[n].status = first
        BY <1>2, <1>5, <4>1, DuplicateFacts
      <4> QED
        BY <3>2, <4>2 DEF Asked, Positions
    <3> QED
      BY <2>1, <3>1, <3>2
  <2>2. CASE ledger' = Append(ledger, e)
    <3>1. /\ DOMAIN ledger' = 1 .. Len(ledger) + 1
          /\ ledger'[Len(ledger) + 1] = e
          /\ \A j : j # e.item => LastStatus(j)' = LastStatus(j)
          /\ \A j : Asked(j) => Asked(j)'
          /\ \A d : Duplicates(d) # {} => Duplicates(d)' # {}
          /\ Duplicates(e)' # {}
      BY <1>2, <1>5, <2>2, Appended
    <3>2. ASSUME first \in Demand
          PROVE  Asked(i)'
      <4>1. Len(ledger) + 1 \in DOMAIN ledger'
        BY <1>9, <3>1
      <4> QED
        BY <1>5, <3>1, <3>2, <4>1 DEF Asked, Positions
    <3> QED
      BY <1>5, <3>1, <3>2
  <2> QED
    BY <1>6, <2>1, <2>2
<1>14. \A t \in Tree : trace.passes[t] <= trace'.passes[t]
  BY <1>1, <1>2, TraceFacts
<1>15. Held(w)'
  <2>1. \A t \in Tree : copy'[w].passes[t] <= trace'.passes[t]
    BY <1>1, <1>2, <1>11, <1>14, CopyBound
  <2>2. pc[w] \notin {"idle", "found", "recorded", "snapshot"}
    BY <1>1, <1>2 DEF Held
  <2> QED
    BY <1>1, <1>2, <1>3, <2>1, <2>2 DEF Held
<1>16. Chained(w)'
  <2> SUFFICES ASSUME queue'[w] # << >>
               PROVE  Chained(w)'
    BY DEF Chained
  <2>1. PICK rest \in Chains(StatusFor(w, i)) :
            /\ Tail(queue[w]) = [n \in DOMAIN rest |-> NewEvent(w, i, rest[n])]
            /\ rest[1] = "repaired" => first = "requested"
    BY <1>3, <1>7
  <2>2. rest \in Chains(StatusFor(w, i)')
    BY <1>8, <2>1
  <2>3. queue'[w] = [n \in DOMAIN rest |-> NewEvent(w, i, rest[n])']
    BY <1>7, <1>8, <2>1
  <2>4. rest[1] = "repaired" => Asked(i)'
    BY <1>13, <2>1 DEF Demand
  <2>5. found'[w][i] # Nil /\ i \notin left'[w]
    BY <1>1, <1>3
  <2> QED
    BY <2>2, <2>3, <2>4, <2>5 DEF Chained
<1>17. ASSUME NEW d \in Queued(w)
       PROVE  d = e \/ d \in Queued(w)'
  <2>1. CASE d = Head(queue[w])
    BY <1>4, <2>1
  <2>2. CASE d # Head(queue[w])
    <3>1. PICK n \in DOMAIN Tail(queue[w]) : d = Tail(queue[w])[n]
      BY <1>3, <2>2
    <3>2. n \in DOMAIN (queue'[w]) /\ d = queue'[w][n]
      BY <1>7, <3>1
    <3> QED
      BY <3>2 DEF Queued
  <2> QED
    BY <2>1, <2>2
<1>18. ASSUME alone'[w], NEW j \in Item \ left[w], found[w][j] # Nil, NEW t \in Due(w, j)'
       PROVE  \/ Duplicates(NewEvent(w, j, t)) # {}
              \/ NewEvent(w, j, t) \in Queued(w)
  <2>1. alone[w]
    <3>1. alone'[w] => alone[w]
      BY <1>6
    <3> QED
      BY <1>18, <3>1
  <2>2. CASE LastStatus(j)' = LastStatus(j)
    <3>1. t \in Due(w, j)
      BY <1>8, <2>2 DEF Due
    <3> QED
      BY <1>2, <1>18, <2>1, <3>1 DEF Settled
  <2>3. CASE LastStatus(j)' # LastStatus(j)
    <3>1. j = i /\ ledger' # ledger
      BY <1>13, <2>3, SameLedger
    <3>2. LastStatus(i)' = first
      BY <1>2, <1>5, <1>6, <3>1, Appended
    <3>3. Due(w, i)' = { Statuses(w, first, StatusFor(w, i))[n] :
                           n \in DOMAIN Statuses(w, first, StatusFor(w, i)) }
      BY <1>8, <3>2 DEF Due
    <3>4. PICK n \in DOMAIN Statuses(w, first, StatusFor(w, i)) :
                 t = Statuses(w, first, StatusFor(w, i))[n]
      BY <3>1, <3>3
    <3> QED
      BY <1>3, <3>1, <3>4
  <2> QED
    BY <2>2, <2>3
<1>19. Settled(w)'
  <2> SUFFICES ASSUME alone'[w], NEW j \in Item \ left'[w], found'[w][j] # Nil,
                      NEW t \in Due(w, j)'
               PROVE  \/ Duplicates(NewEvent(w, j, t))' # {}
                      \/ NewEvent(w, j, t)' \in Queued(w)'
    BY DEF Settled
  <2>1. PICK d : d = NewEvent(w, j, t)
    OBVIOUS
  <2>2. NewEvent(w, j, t)' = d
    BY <1>8, <2>1
  <2>3. Duplicates(d) # {} \/ d \in Queued(w)
    BY <1>1, <1>18, <2>1
  <2>4. Duplicates(d)' # {} \/ d \in Queued(w)'
    BY <1>13, <1>17, <2>3
  <2> QED
    BY <2>2, <2>4
<1>20. ASSUME NEW v \in Writer \ {w}
       PROVE  Held(v)' /\ Chained(v)' /\ Settled(v)'
  <2>1. Held(v) /\ Chained(v) /\ Settled(v) /\ v \in Writer /\ v # w
    BY DEF IInv
  <2>2. alone'[v] => alone[v] /\ ledger' = ledger
    BY <1>6, <2>1
  <2>3. Untouched(v)
    BY <1>1, <1>9, <2>1, <2>2 DEF Untouched
  <2> QED
    BY <1>1, <1>2, <1>11, <1>13, <1>14, <2>1, <2>3, Others
<1> QED
  BY <1>11, <1>12, <1>15, <1>16, <1>19, <1>20 DEF IInv

-----------------------------------------------------------------------------
(* Theorems *)

LEMMA StutterKeeps ==
  ASSUME IInv, UNCHANGED vars
  PROVE  IInv'
<1>1. /\ class' = class /\ tree' = tree /\ trace' = trace /\ ledger' = ledger
      /\ file' = file /\ found' = found /\ pc' = pc /\ copy' = copy /\ hash' = hash
      /\ left' = left /\ queue' = queue /\ line' = line /\ alone' = alone
      /\ reports' = reports /\ captures' = captures /\ disturbances' = disturbances
  BY DEF vars, work, bounds
<1>2. TypeOK
  BY DEF IInv
<1>3. TypeOK'
  BY <1>1, <1>2 DEF TypeOK, file
<1>4. \A v \in Writer : Untouched(v)
  BY <1>1 DEF Untouched
<1> QED
  BY <1>1, <1>2, <1>3, <1>4, TraceFacts, OfNone

\* The invariant is inductive.
THEOREM Invariance == Spec => []IInv
<1>1. Init => IInv
  BY InitIInv
<1>2. ASSUME IInv, [Next]_vars
      PROVE  IInv'
  <2>1. CASE UNCHANGED vars
    BY <1>2, <2>1, StutterKeeps
  <2>2. ASSUME NEW t \in Tree, Edit(t)
        PROVE  IInv'
    BY <1>2, <2>2, EditKeeps
  <2>3. CASE Capture
    BY <1>2, <2>3, CaptureKeeps
  <2>4. ASSUME NEW w \in Writer, NEW f \in Findings(w), Evaluate(w, f)
        PROVE  IInv'
    BY <1>2, <2>4, EvaluateKeeps
  <2>5. ASSUME NEW w \in Writer, Begin(w)
        PROVE  IInv'
    BY <1>2, <2>5, BeginKeeps
  <2>6. ASSUME NEW w \in Writer, NEW i \in Item, Look(w, i)
        PROVE  IInv'
    BY <1>2, <2>6, LookKeeps
  <2>7. ASSUME NEW w \in Writer, AppendEvent(w)
        PROVE  IInv'
    BY <1>2, <2>7, AppendEventKeeps
  <2>8. ASSUME NEW w \in Writer, Mirror(w) \/ Sync(w)
        PROVE  IInv'
    BY <1>2, <2>8, MirrorKeeps, SyncKeeps
  <2>9. ASSUME NEW w \in Writer, ToDecision(w) \/ Recorded(w) \/ Snapshot(w)
        PROVE  IInv'
    BY <1>2, <2>9, ToDecisionKeeps, RecordedKeeps, SnapshotKeeps
  <2>10. ASSUME NEW w \in Writer,
                \/ Persist(w) \/ Synced(w) \/ Refused(w) \/ TraceConflict(w)
                \/ Unreadable(w) \/ CallFails(w) \/ Die(w)
         PROVE  IInv'
    BY <1>2, <2>10, StopKeeps
  <2> QED
    BY <1>2, <2>1, <2>2, <2>3, <2>4, <2>5, <2>6, <2>7, <2>8, <2>9, <2>10 DEF Next, Work
<1> QED
  BY <1>1, <1>2, PTL DEF Spec

\* Every variable keeps its type; in particular a mirrored line is always a
\* position of the ledger, and every appended event names a tree that was hashed.
THEOREM TypeCorrect == Spec => []TypeOK
<1>1. IInv => TypeOK
  BY DEF IInv
<1> QED
  BY <1>1, Invariance, PTL

\* appendInterventionEvent checks one transition, but the ledger as a whole never
\* calls a finding verified that was not asked for, called repaired and covered by
\* a captured pass on the tree its evidence names: whoever else records, edits,
\* dies or times out in between.
THEOREM VerifiedEarned == Spec => []VerifiedIsEarned
<1>1. IInv => VerifiedIsEarned
  BY DEF IInv
<1> QED
  BY <1>1, Invariance, PTL

\* A finding is called repaired only after the ledger has asked for the repair.
THEOREM RepairedWasAsked == Spec => []RepairsAsked
<1>1. IInv => RepairsAsked
  BY DEF IInv
<1> QED
  BY <1>1, Invariance, PTL

\* A resume that records the same findings again adds no event, if nobody else
\* appended in between and nothing failed.
THEOREM RepetitionAddsNothing == Spec => []RepeatedRecordingAddsNothing
<1>1. ASSUME IInv
      PROVE  RepeatedRecordingAddsNothing
  <2> SUFFICES ASSUME NEW w \in Writer, alone[w], pc[w] \in {"recorded", "snapshot"},
                      NEW i \in Item, found[w][i] # Nil,
                      NEW n \in DOMAIN NewEvents(w, i)
               PROVE  Duplicates(NewEvents(w, i)[n]) # {}
    BY DEF RepeatedRecordingAddsNothing
  <2>1. Held(w) /\ Settled(w)
    BY <1>1 DEF IInv
  <2>2. left[w] = {} /\ Queued(w) = {}
    BY <2>1 DEF Held, Queued
  <2>3. PICK statuses : statuses = Statuses(w, LastStatus(i), StatusFor(w, i))
    OBVIOUS
  <2>4. n \in DOMAIN statuses /\ NewEvents(w, i)[n] = NewEvent(w, i, statuses[n])
    BY <2>3 DEF NewEvents
  <2>5. statuses[n] \in Due(w, i)
    BY <2>3, <2>4 DEF Due
  <2>6. Duplicates(NewEvent(w, i, statuses[n])) # {}
    BY <2>1, <2>2, <2>5 DEF Settled
  <2> QED
    BY <2>4, <2>6
<1> QED
  BY <1>1, Invariance, PTL

-----------------------------------------------------------------------------
(* The mirror has what the ledger has                                      *)

\* Where nothing is being copied.
AtRest(w) == pc[w] \in {"idle", "found", "recorded"} => line[w] = 0

MirrorInv ==
  /\ TornIsLast /\ MirrorIsComplete
  /\ \A w \in Writer : AtRest(w)

\* A step of one process that loses no event, whether it appends one or not.
LEMMA MirrorOfOne ==
  ASSUME MirrorInv, NEW w \in Writer, TornIsLast',
         Mirrored \cup glued \subseteq Mirrored' \cup glued',
         abandoned \subseteq Mirrored' \cup glued' \cup abandoned',
         \A v \in Writer \ {w} : pc'[v] = pc[v] /\ line'[v] = line[v],
         AtRest(w)',
         pc[w] # "snapshot" =>
           \/ line[w] \in Mirrored' \cup glued' \cup abandoned'
           \/ line[w] = 0
           \/ line'[w] = line[w] /\ pc'[w] # "snapshot",
         \A n \in DOMAIN ledger' \ DOMAIN ledger : n = line'[w] /\ pc'[w] # "snapshot",
         0 \notin DOMAIN ledger'
  PROVE  MirrorInv'
<1>1. \A v \in Writer : AtRest(v)'
  BY DEF MirrorInv, AtRest
<1>2. ASSUME NEW n \in DOMAIN ledger'
      PROVE  n \in Mirrored' \cup BeingCopied' \cup abandoned' \cup glued'
  <2>1. CASE n \notin DOMAIN ledger
    BY <2>1 DEF BeingCopied
  <2>2. CASE n \in Mirrored \cup glued \cup abandoned
    BY <2>2
  <2>3. CASE n \in BeingCopied
    <3>1. PICK v \in Writer : pc[v] # "snapshot" /\ n = line[v]
      BY <2>3 DEF BeingCopied
    <3>2. CASE v = w
      BY <1>2, <3>1, <3>2 DEF BeingCopied
    <3>3. CASE v # w
      BY <3>1, <3>3 DEF BeingCopied
    <3> QED
      BY <3>2, <3>3
  <2> QED
    BY <2>1, <2>2, <2>3 DEF MirrorInv, MirrorIsComplete
<1>3. MirroredOnce' /\ (glued' # {} => ~Readable')
  BY DEF TornIsLast
<1> QED
  BY <1>1, <1>2, <1>3 DEF MirrorInv, MirrorIsComplete

\* Where the file is not touched.
LEMMA SameFile ==
  ASSUME file' = file
  PROVE  /\ Mirrored' = Mirrored /\ glued' = glued /\ abandoned' = abandoned
         /\ TornIsLast => TornIsLast'
BY DEF file, Mirrored, TornIsLast, MirroredOnce, Readable

LEMMA MirrorInit == Init => MirrorInv
<1> SUFFICES ASSUME Init
             PROVE  MirrorInv
  OBVIOUS
<1>1. ledger = << >> /\ mirror = << >> /\ glued = {} /\ \A w \in Writer : line[w] = 0
  BY DEF Init
<1> QED
  BY <1>1 DEF MirrorInv, TornIsLast, MirrorIsComplete, MirroredOnce, AtRest

\* A step of one process that only moves it on.
LEMMA MirrorMoves ==
  ASSUME IInv, IInv', MirrorInv, NEW w \in Writer, file' = file, ledger' = ledger,
         \A v \in Writer \ {w} : pc'[v] = pc[v] /\ line'[v] = line[v],
         AtRest(w)',
         pc[w] # "snapshot" => line[w] = 0 \/ (line'[w] = line[w] /\ pc'[w] # "snapshot")
  PROVE  MirrorInv'
<1>1. TornIsLast' /\ Mirrored' = Mirrored /\ glued' = glued /\ abandoned' = abandoned
  BY SameFile DEF MirrorInv
<1>2. 0 \notin DOMAIN ledger'
  BY DEF IInv, TypeOK
<1> QED
  BY <1>1, <1>2, MirrorOfOne

LEMMA MirrorWork ==
  ASSUME IInv, IInv', MirrorInv, NEW w \in Writer,
         \/ \E f \in Findings(w) : Evaluate(w, f)
         \/ Begin(w) \/ (\E i \in Item : Look(w, i))
         \/ ToDecision(w) \/ Recorded(w) \/ Snapshot(w)
  PROVE  MirrorInv'
<1>1. line \in [Writer -> 0 .. Len(ledger)] /\ pc \in [Writer -> Place] /\ AtRest(w)
  BY DEF IInv, TypeOK, MirrorInv
<1>2. CASE \E f \in Findings(w) : Evaluate(w, f)
  <2>1. /\ pc[w] = "idle" /\ pc' = [pc EXCEPT ![w] = "found"]
        /\ line' = line /\ file' = file /\ ledger' = ledger
    BY <1>2 DEF Evaluate, Goto
  <2> QED
    BY <1>1, <2>1, MirrorMoves DEF AtRest
<1>3. CASE Begin(w)
  <2>1. /\ pc' = [pc EXCEPT ![w] = "findings"]
        /\ line' = line /\ file' = file /\ ledger' = ledger
    BY <1>3 DEF Begin, Goto
  <2> QED
    BY <1>1, <2>1, MirrorMoves DEF AtRest
<1>4. CASE \E i \in Item : Look(w, i)
  <2>1. pc' = pc /\ line' = line /\ file' = file /\ ledger' = ledger
    BY <1>4 DEF Look
  <2> QED
    BY <1>1, <2>1, MirrorMoves DEF AtRest
<1>5. CASE ToDecision(w)
  <2>1. /\ pc' = [pc EXCEPT ![w] = "decision"]
        /\ line' = line /\ file' = file /\ ledger' = ledger
    BY <1>5 DEF ToDecision, Goto
  <2> QED
    BY <1>1, <2>1, MirrorMoves DEF AtRest
<1>6. CASE Recorded(w)
  <2>1. /\ line[w] = 0 /\ file' = file /\ ledger' = ledger
        /\ \/ pc' = [pc EXCEPT ![w] = "snapshot"] /\ line' = [line EXCEPT ![w] = Len(ledger)]
           \/ pc' = [pc EXCEPT ![w] = "recorded"] /\ line' = line
    BY <1>6 DEF Recorded, DecisionDone, Free, Goto
  <2> QED
    BY <1>1, <2>1, MirrorMoves DEF AtRest
<1>7. CASE Snapshot(w)
  <2>1. /\ pc[w] = "idle" /\ file' = file /\ ledger' = ledger
        /\ pc' = [pc EXCEPT ![w] = "snapshot"] /\ line' = [line EXCEPT ![w] = Len(ledger)]
    BY <1>7 DEF Snapshot, Goto
  <2>2. line[w] = 0
    BY <1>1, <2>1 DEF AtRest
  <2> QED
    BY <1>1, <2>1, <2>2, MirrorMoves DEF AtRest
<1> QED
  BY <1>2, <1>3, <1>4, <1>5, <1>6, <1>7

LEMMA MirrorAppend ==
  ASSUME IInv, IInv', MirrorInv, NEW w \in Writer, AppendEvent(w)
  PROVE  MirrorInv'
<1>1. /\ queue[w] # << >> /\ line[w] = 0 /\ pc' = pc /\ file' = file
      /\ \/ ledger' = ledger /\ \E n : line' = [line EXCEPT ![w] = n]
         \/ ledger' = Append(ledger, Head(queue[w])) /\ line' = [line EXCEPT ![w] = Len(ledger')]
  BY DEF AppendEvent
<1>2. TypeOK /\ TypeOK' /\ Held(w)
  BY DEF IInv
<1>3. pc[w] \notin {"idle", "found", "recorded", "snapshot"}
  BY <1>1, <1>2 DEF Held
<1>4. TornIsLast' /\ Mirrored' = Mirrored /\ glued' = glued /\ abandoned' = abandoned
  BY <1>1, SameFile DEF MirrorInv
<1>5. 0 \notin DOMAIN ledger' /\ line \in [Writer -> 0 .. Len(ledger)]
  BY <1>2 DEF TypeOK
<1>6. \A n \in DOMAIN ledger' \ DOMAIN ledger : n = line'[w]
  <2>1. CASE ledger' = ledger
    BY <2>1
  <2>2. CASE ledger' = Append(ledger, Head(queue[w])) /\ line' = [line EXCEPT ![w] = Len(ledger')]
    <3>1. ledger \in Seq(Event) /\ Len(ledger) \in Nat /\ ledger' \in Seq(Event)
      BY <1>2 DEF TypeOK
    <3>2. Len(ledger') = Len(ledger) + 1
      BY <2>2, <3>1
    <3>3. DOMAIN ledger = 1 .. Len(ledger) /\ DOMAIN ledger' = 1 .. Len(ledger) + 1
      BY <3>1, <3>2
    <3>4. line'[w] = Len(ledger) + 1
      BY <1>5, <2>2, <3>2
    <3> QED
      BY <3>1, <3>3, <3>4
  <2> QED
    BY <1>1, <2>1, <2>2
<1>7. \A v \in Writer \ {w} : pc'[v] = pc[v] /\ line'[v] = line[v]
  BY <1>1, <1>5
<1>8. AtRest(w)'
  BY <1>1, <1>3 DEF AtRest
<1> QED
  BY <1>1, <1>3, <1>4, <1>5, <1>6, <1>7, <1>8, MirrorOfOne

LEMMA MirrorCopies ==
  ASSUME IInv, IInv', MirrorInv, NEW w \in Writer, Mirror(w) \/ Sync(w)
  PROVE  MirrorInv'
<1>1. TypeOK /\ TornIsLast /\ AtRest(w) /\ Len(ledger) \in Nat
      /\ line \in [Writer -> 0 .. Len(ledger)]
  BY DEF IInv, TypeOK, MirrorInv
<1>2. ledger' = ledger /\ abandoned' = abandoned /\ pc' = pc
  BY DEF Mirror, Sync, work
<1>3. 0 \notin DOMAIN ledger'
  BY DEF IInv, TypeOK
<1>4. CASE Mirror(w)
  <2>1. /\ pc[w] # "snapshot" /\ line[w] # 0 /\ CopyToMirror(line[w])
        /\ line' = [line EXCEPT ![w] = 0]
    BY <1>4 DEF Mirror
  <2>2. line[w] \in 1 .. Len(ledger)
    BY <1>1, <2>1
  <2>3. /\ TornIsLast' /\ Mirrored \subseteq Mirrored' \cup glued' /\ glued \subseteq glued'
        /\ line[w] \in Mirrored' \cup glued'
    BY <1>1, <1>2, <2>1, <2>2, CopyFacts
  <2> QED
    BY <1>1, <1>2, <1>3, <2>1, <2>3, MirrorOfOne DEF AtRest
<1>5. CASE Sync(w)
  <2>1. /\ pc[w] = "snapshot" /\ Unmirrored(w) # {} /\ CopyToMirror(Min(Unmirrored(w)))
        /\ line' = line
    BY <1>5 DEF Sync, work
  <2>2. Min(Unmirrored(w)) \in 1 .. Len(ledger)
    BY <1>1, <2>1, CopyingFacts
  <2>3. TornIsLast' /\ Mirrored \subseteq Mirrored' \cup glued' /\ glued \subseteq glued'
    BY <1>1, <1>2, <2>1, <2>2, CopyFacts
  <2> QED
    BY <1>1, <1>2, <1>3, <2>1, <2>3, MirrorOfOne DEF AtRest
<1> QED
  BY <1>4, <1>5

LEMMA MirrorStops ==
  ASSUME IInv, IInv', MirrorInv, NEW w \in Writer,
         \/ Persist(w) \/ Synced(w) \/ Refused(w) \/ TraceConflict(w)
         \/ Unreadable(w) \/ CallFails(w) \/ Die(w)
  PROVE  MirrorInv'
<1>1. /\ TypeOK /\ TornIsLast /\ AtRest(w)
      /\ line \in [Writer -> 0 .. Len(ledger)] /\ pc \in [Writer -> Place]
  BY DEF IInv, TypeOK, MirrorInv
<1>2. 0 \notin DOMAIN ledger'
  BY DEF IInv, TypeOK
<1>3. End(w) \/ Fail(w)
  BY DEF Persist, Synced, Refused, TraceConflict, Unreadable, CallFails, Die, GiveUp
<1>4. /\ ledger' = ledger /\ line' = [line EXCEPT ![w] = 0]
      /\ \A v \in Writer \ {w} : pc'[v] = pc[v]
  BY <1>1, <1>3 DEF End, Fail, Goto
<1>5. line'[w] = 0 /\ AtRest(w)' /\ \A v \in Writer \ {w} : line'[v] = line[v]
  BY <1>1, <1>4 DEF AtRest
<1>6. /\ TornIsLast' /\ Mirrored \subseteq Mirrored' \cup glued' /\ glued \subseteq glued'
  <2>1. CASE UNCHANGED <<mirror, cut, glued>>
    BY <1>1, <2>1 DEF Mirrored, TornIsLast, MirroredOnce, Readable
  <2>2. CASE ~UNCHANGED <<mirror, cut, glued>>
    <3>1. Copying(w) # 0 /\ CopySome(Copying(w))
      BY <2>2 DEF Persist, Synced, Refused, TraceConflict, Unreadable, CallFails, Die, file
    <3> QED
      BY <1>1, <1>4, <3>1, CopyingFacts, CopyFacts
  <2> QED
    BY <2>1, <2>2
<1>7. CASE Synced(w)
  <2>1. /\ pc[w] = "snapshot" /\ Unmirrored(w) = {}
        /\ abandoned' = abandoned \ (1 .. line[w]) /\ mirror' = mirror
    BY <1>7 DEF Synced
  <2>2. 1 .. line[w] \subseteq Mirrored'
    BY <2>1 DEF Unmirrored, Mirrored
  <2>3. abandoned \subseteq Mirrored' \cup abandoned'
    BY <2>1, <2>2
  <2> QED
    BY <1>2, <1>4, <1>5, <1>6, <2>1, <2>3, MirrorOfOne
<1>8. CASE Abandon(w)
  <2>1. /\ abandoned \subseteq abandoned'
        /\ pc[w] # "snapshot" => line[w] = 0 \/ line[w] \in abandoned'
    BY <1>8 DEF Abandon
  <2> QED
    BY <1>2, <1>4, <1>5, <1>6, <2>1, MirrorOfOne
<1>9. CASE Persist(w) \/ Refused(w) \/ TraceConflict(w)
  <2>1. line[w] = 0
    BY <1>1, <1>9 DEF Persist, Refused, TraceConflict, FindingsDone, Free, AtRest
  <2>2. abandoned' = abandoned
    BY <1>9 DEF Persist, Refused, TraceConflict, file
  <2> QED
    BY <1>2, <1>4, <1>5, <1>6, <2>1, <2>2, MirrorOfOne
<1> QED
  BY <1>7, <1>8, <1>9 DEF Unreadable, CallFails, Die

\* The mirror lacks no event of the ledger and has none twice, whoever was cut off
\* in a copy: but what is being copied, what was cut off since the last snapshot
\* that went through, and the two events of a line that was continued.
THEOREM MirrorLacksNothingElse == Spec => []MirrorIsComplete
<1>1. Init => MirrorInv
  BY MirrorInit
<1>2. ASSUME IInv, IInv', MirrorInv, [Next]_vars
      PROVE  MirrorInv'
  <2>1. CASE /\ file' = file /\ ledger' = ledger /\ pc' = pc /\ line' = line
    <3>1. TornIsLast' /\ Mirrored' = Mirrored /\ glued' = glued /\ abandoned' = abandoned
      BY <1>2, <2>1, SameFile DEF MirrorInv
    <3>2. MirrorIsComplete'
      BY <1>2, <2>1, <3>1 DEF MirrorInv, MirrorIsComplete, BeingCopied, TornIsLast
    <3> QED
      BY <1>2, <2>1, <3>1, <3>2 DEF MirrorInv, AtRest
  <2>2. CASE UNCHANGED vars \/ Capture \/ \E t \in Tree : Edit(t)
    BY <2>1, <2>2 DEF vars, work, Capture, Edit
  <2>3. ASSUME NEW w \in Writer,
               \/ \E f \in Findings(w) : Evaluate(w, f)
               \/ Begin(w) \/ (\E i \in Item : Look(w, i))
               \/ ToDecision(w) \/ Recorded(w) \/ Snapshot(w)
        PROVE  MirrorInv'
    BY <1>2, <2>3, MirrorWork
  <2>4. ASSUME NEW w \in Writer, AppendEvent(w)
        PROVE  MirrorInv'
    BY <1>2, <2>4, MirrorAppend
  <2>5. ASSUME NEW w \in Writer, Mirror(w) \/ Sync(w)
        PROVE  MirrorInv'
    BY <1>2, <2>5, MirrorCopies
  <2>6. ASSUME NEW w \in Writer,
               \/ Persist(w) \/ Synced(w) \/ Refused(w) \/ TraceConflict(w)
               \/ Unreadable(w) \/ CallFails(w) \/ Die(w)
        PROVE  MirrorInv'
    BY <1>2, <2>6, MirrorStops
  <2> QED
    BY <1>2, <2>2, <2>3, <2>4, <2>5, <2>6 DEF Next, Work
<1>3. MirrorInv => MirrorIsComplete
  BY DEF MirrorInv
<1> QED
  BY <1>1, <1>2, <1>3, Invariance, PTL DEF Spec
=============================================================================
