------------------------ MODULE ContextRegistryProofs ------------------------
(***************************************************************************)
(* Theorems of ContextRegistry for any processes, sources, packs, trees and *)
(* configurations, and any number of loads and changes.                     *)
(***************************************************************************)
EXTENDS ContextRegistry, TLAPS

\* The files of an entry have in this tree the contents they were handed out with.
Holds(entry, files, t) ==
  /\ LocalPack[entry.source][t] # Invalid
  /\ \E d \in LocalPack[entry.source][t] :
       d.name = entry.document.name /\ Verified(d, files, entry)

(***************************************************************************)
(* What a process has in memory.  A source is loaded once, so a copy that   *)
(* was read for it is still to be used when the request has failed; what    *)
(* came from the remote matched the pin when it was fetched; and what was   *)
(* read has the contents of the tree that is recorded with it.              *)
(***************************************************************************)
GoodLoad(l, pins) ==
  /\ l.stage \in {"loading", "fetching", "storing"} => l.config \in Config
  /\ l.stage \in {"fetching", "storing"} => Remote \in l.todo
  /\ l.todo \cap l.failed = {}
  /\ l.fetched # Nil <=> l.stage = "storing"
  /\ l.stage = "storing" => <<l.config.location, l.fetched>> \in pins
  /\ l.copy # Nil =>
       l.copy \in CacheFile /\ <<l.config.location, l.copy.pack>> \in pins /\ Remote \notin l.failed
  /\ \A pack \in l.packs : pack[1] = Remote => <<l.config.location, pack[2]>> \in pins
  /\ l.stage \in {"read", "hashed", "checked"} => l.entry \in Entry /\ l.tree \in Tree
  /\ l.stage = "read" => ~l.late
  /\ l.stage \in {"read", "hashed", "checked"} /\ ~l.late => Holds(l.entry, l.files, l.tree)

Types ==
  /\ tree \in Tree /\ config \in Config
  /\ cache \in {Nil, Invalid} \cup CacheFile
  /\ usage \subseteq Record
  /\ clock \in Nat
  /\ load \in [Process -> Load]
  /\ pinned \subseteq Location \X RemotePack

CacheInv == cache \notin {Nil, Invalid} => <<cache.location, cache.pack>> \in pinned

UsageInv == \A r \in usage : ~r.late => Holds(r.entry, r.files, r.tree)

Inv == Types /\ CacheInv /\ UsageInv /\ \A p \in Process : GoodLoad(load[p], pinned)

-----------------------------------------------------------------------------
(* The operators on a load *)

LEMMA IdleFacts ==
  /\ Idle \in Load /\ Idle.stage = "idle" /\ Idle.todo = {} /\ Idle.failed = {}
  /\ Idle.packs = {} /\ Idle.copy = Nil /\ Idle.fetched = Nil /\ Idle.late = FALSE
  /\ \A pins : GoodLoad(Idle, pins)
<1>1. Idle \in Load
  BY DEF Idle, Load, Stage
<1> QED
  BY <1>1 DEF Idle, GoodLoad

LEMMA LoadFields ==
  ASSUME NEW l \in Load
  PROVE  /\ l.stage \in Stage /\ l.config \in Config \cup {Nil} /\ l.todo \subseteq Source
         /\ l.packs \subseteq Source \X SUBSET Document /\ l.failed \subseteq Source
         /\ l.copy \in CacheFile \cup {Nil} /\ l.fetched \in RemotePack \cup {Nil} /\ l.base \in Nat
         /\ l.entry \in Entry \cup {Nil} /\ l.files \subseteq File /\ l.tree \in Tree \cup {Nil}
         /\ l.late \in BOOLEAN /\ l.at \in Nat
BY DEF Load

LEMMA LoadedFacts ==
  ASSUME NEW l \in Load, NEW s \in Source, NEW pack \in {Nil, Invalid} \cup SUBSET Document,
         NEW new, new = Loaded(l, s, pack)
  PROVE  /\ new \in Load
         /\ new.stage = "loading" /\ new.config = l.config /\ new.todo = l.todo \ {s}
         /\ new.copy = l.copy /\ new.fetched = Nil
         /\ pack \in {Nil, Invalid} => new.packs = l.packs /\ new.failed = l.failed \cup {s}
         /\ pack \notin {Nil, Invalid} =>
              new.packs = l.packs \cup {<<s, pack>>} /\ new.failed = l.failed
<1> DEFINE packs == IF pack \in {Nil, Invalid} THEN l.packs ELSE l.packs \cup {<<s, pack>>}
           failed == IF pack \in {Nil, Invalid} THEN l.failed \cup {s} ELSE l.failed
<1>1. packs \subseteq Source \X SUBSET Document /\ failed \subseteq Source
  BY LoadFields
<1>2. new = [l EXCEPT !.stage = "loading", !.todo = @ \ {s}, !.packs = packs, !.failed = failed,
                      !.fetched = Nil, !.base = 0]
  BY DEF Loaded, Load
<1>3. /\ pack \in {Nil, Invalid} => packs = l.packs /\ failed = l.failed \cup {s}
      /\ pack \notin {Nil, Invalid} => packs = l.packs \cup {<<s, pack>>} /\ failed = l.failed
  OBVIOUS
<1> HIDE DEF packs, failed
<1>4. new \in Load
  <2>1. new = [stage |-> "loading", config |-> l.config, todo |-> l.todo \ {s}, packs |-> packs,
               failed |-> failed, copy |-> l.copy, fetched |-> Nil, base |-> 0, entry |-> l.entry,
               files |-> l.files, tree |-> l.tree, late |-> l.late, at |-> l.at]
    BY <1>2 DEF Load
  <2>2. "loading" \in Stage /\ 0 \in Nat /\ l.todo \ {s} \in SUBSET Source
    BY LoadFields DEF Stage
  <2> QED
    BY <1>1, <2>1, <2>2, LoadFields DEF Load
<1> QED
  BY <1>2, <1>3, <1>4 DEF Load

LEMMA RemoteFacts ==
  /\ \A s \in Local : s \in Source /\ s # Remote
  /\ Remote \in Source
  /\ \A pack \in RemotePack : pack \in SUBSET Document /\ pack \notin {Nil, Invalid}
  /\ \A c \in Config : c.sources \subseteq Source /\ c.location \in Location /\ c.pin \in RemotePack
  /\ \A s \in Local, t \in Tree : LocalPack[s][t] \in {Nil, Invalid} \cup SUBSET Document
BY RegistryAssumption DEF Source, ValidPack


LEMMA MoreWasPinned ==
  ASSUME NEW l, NEW pins, NEW more, pins \subseteq more, GoodLoad(l, pins)
  PROVE  GoodLoad(l, more)
BY DEF GoodLoad

\* A process that goes on leaves the others as they were.
LEMMA BecomeInv ==
  ASSUME Inv, NEW p \in Process, NEW l \in Load, Become(p, l),
         pinned \subseteq pinned', GoodLoad(l, pinned')
  PROVE  load' \in [Process -> Load] /\ \A q \in Process : GoodLoad(load'[q], pinned')
<1>1. load' = [load EXCEPT ![p] = l] /\ load \in [Process -> Load]
  BY DEF Inv, Types, Become
<1>2. ASSUME NEW q \in Process PROVE GoodLoad(load'[q], pinned')
  <2>1. CASE q = p
    BY <1>1, <2>1
  <2>2. CASE q # p
    <3>1. load'[q] = load[q] /\ GoodLoad(load[q], pinned)
      BY <1>1, <2>2 DEF Inv
    <3> QED
      BY <3>1, MoreWasPinned
  <2> QED
    BY <2>1, <2>2
<1> QED
  BY <1>1, <1>2

\* A source that is done leaves the load good.
LEMMA LoadedGood ==
  ASSUME NEW l \in Load, NEW s \in Source, NEW pack \in {Nil, Invalid} \cup SUBSET Document,
         NEW pins, GoodLoad(l, pins), s \in l.todo,
         l.stage \in {"loading", "fetching", "storing"},
         s = Remote /\ l.copy # Nil => pack \notin {Nil, Invalid},
         s = Remote /\ pack \notin {Nil, Invalid} => <<l.config.location, pack>> \in pins
  PROVE  Loaded(l, s, pack) \in Load /\ GoodLoad(Loaded(l, s, pack), pins)
<1> DEFINE new == Loaded(l, s, pack)
<1>1. /\ new \in Load
      /\ new.stage = "loading" /\ new.config = l.config /\ new.todo = l.todo \ {s}
      /\ new.copy = l.copy /\ new.fetched = Nil
      /\ pack \in {Nil, Invalid} => new.packs = l.packs /\ new.failed = l.failed \cup {s}
      /\ pack \notin {Nil, Invalid} =>
           new.packs = l.packs \cup {<<s, pack>>} /\ new.failed = l.failed
  BY LoadedFacts
<1> HIDE DEF new
<1>2. new.config \in Config /\ new.todo \cap new.failed = {}
  BY <1>1 DEF GoodLoad
<1>3. new.copy # Nil =>
        /\ new.copy \in CacheFile /\ <<new.config.location, new.copy.pack>> \in pins
        /\ Remote \notin new.failed
  BY <1>1 DEF GoodLoad
<1>4. \A u \in new.packs : u[1] = Remote => <<new.config.location, u[2]>> \in pins
  BY <1>1 DEF GoodLoad
<1>5. GoodLoad(new, pins)
  BY <1>1, <1>2, <1>3, <1>4 DEF GoodLoad
<1> QED
  BY <1>1, <1>5 DEF new

\* What readSourceCache returns is a copy that matched the pin for this location.
LEMMA CopyForFacts ==
  ASSUME Types, CacheInv, NEW location, NEW copy, copy = CopyFor(location), copy # Nil
  PROVE  copy \in CacheFile /\ <<location, copy.pack>> \in pinned
BY DEF Types, CacheInv, CopyFor

LEMMA PackOfFacts ==
  ASSUME NEW copy \in CacheFile \cup {Nil}
  PROVE  /\ PackOf(copy) \in {Nil, Invalid} \cup SUBSET Document
         /\ copy # Nil => copy.pack \in RemotePack /\ PackOf(copy) = copy.pack
                          /\ PackOf(copy) \notin {Nil, Invalid}
         /\ copy = Nil => PackOf(copy) = Nil
BY RemoteFacts DEF PackOf, CacheFile

-----------------------------------------------------------------------------
(* What a step has to show: everything but the load of p is typed, and the  *)
(* new load of p is good.                                                   *)

LEMMA Step ==
  ASSUME Inv, NEW p \in Process, NEW l \in Load, Become(p, l), GoodLoad(l, pinned),
         UNCHANGED <<tree, config, cache, usage, pinned>>, clock' \in Nat
  PROVE  Inv'
<1>1. load' \in [Process -> Load] /\ \A q \in Process : GoodLoad(load'[q], pinned')
  BY BecomeInv
<1>2. Types'
  BY <1>1 DEF Inv, Types
<1>3. CacheInv' /\ UsageInv'
  BY DEF Inv, CacheInv, UsageInv
<1> QED
  BY <1>1, <1>2, <1>3 DEF Inv

LEMMA ToIdle ==
  ASSUME Inv, NEW p \in Process, Become(p, Idle),
         UNCHANGED <<tree, config, cache, usage, pinned, clock>>
  PROVE  Inv'
<1>1. Idle \in Load /\ GoodLoad(Idle, pinned) /\ clock' \in Nat
  BY IdleFacts DEF Inv, Types
<1> QED
  BY <1>1, Step

LEMMA InitInv == Init => Inv
<1> SUFFICES ASSUME Init PROVE Inv
  OBVIOUS
<1>1. Types
  BY IdleFacts DEF Init, Types
<1>2. CacheInv /\ UsageInv
  BY DEF Init, CacheInv, UsageInv
<1>3. \A p \in Process : GoodLoad(load[p], pinned)
  BY IdleFacts DEF Init
<1> QED
  BY <1>1, <1>2, <1>3 DEF Inv

LEMMA BeginInv ==
  ASSUME Inv, NEW p \in Process, Begin(p) PROVE Inv'
<1> DEFINE new == [Idle EXCEPT !.stage = "loading", !.config = config, !.todo = config.sources]
<1>1. config \in Config /\ config.sources \subseteq Source /\ clock' \in Nat
  BY RemoteFacts DEF Inv, Types, Begin
<1>2. new = [stage |-> "loading", config |-> config, todo |-> config.sources, packs |-> {},
             failed |-> {}, copy |-> Nil, fetched |-> Nil, base |-> 0, entry |-> Nil,
             files |-> {}, tree |-> Nil, late |-> FALSE, at |-> 0]
  <2>1. Idle.base = 0 /\ Idle.entry = Nil /\ Idle.files = {} /\ Idle.tree = Nil /\ Idle.at = 0
    BY DEF Idle
  <2> DEFINE idle == Idle
  <2>2. /\ idle \in Load /\ idle.packs = {} /\ idle.failed = {} /\ idle.copy = Nil
        /\ idle.fetched = Nil /\ idle.base = 0 /\ idle.entry = Nil /\ idle.files = {}
        /\ idle.tree = Nil /\ idle.late = FALSE /\ idle.at = 0
    BY <2>1, IdleFacts
  <2>3. new = [idle EXCEPT !.stage = "loading", !.config = config, !.todo = config.sources]
    OBVIOUS
  <2> HIDE DEF idle, new
  <2> QED
    BY <2>2, <2>3 DEF Load
<1>3. new \in Load
  <2>1. /\ "loading" \in Stage /\ config.sources \in SUBSET Source /\ {} \in SUBSET Source
        /\ {} \in SUBSET (Source \X SUBSET Document) /\ {} \in SUBSET File /\ 0 \in Nat
    BY <1>1 DEF Stage
  <2> QED
    BY <1>1, <1>2, <2>1 DEF Load
<1>4. GoodLoad(new, pinned)
  BY <1>1, <1>2 DEF GoodLoad
<1>5. Become(p, new) /\ UNCHANGED <<tree, config, cache, usage, pinned>>
  BY DEF Begin
<1> HIDE DEF new
<1> QED
  BY <1>1, <1>3, <1>4, <1>5, Step

LEMMA LoadLocalInv ==
  ASSUME Inv, NEW p \in Process, NEW s \in Local, LoadLocal(p, s) PROVE Inv'
<1> DEFINE l == load[p]
           new == Loaded(l, s, LocalPack[s][tree])
<1>1. l \in Load /\ GoodLoad(l, pinned) /\ clock' \in Nat /\ tree \in Tree
  BY DEF Inv, Types, LoadLocal
<1>2. l.stage = "loading" /\ s \in l.todo /\ Become(p, new)
      /\ UNCHANGED <<tree, config, cache, usage, pinned>>
  BY DEF LoadLocal, Loading
<1>3. s \in Source /\ s # Remote /\ LocalPack[s][tree] \in {Nil, Invalid} \cup SUBSET Document
  BY <1>1, RemoteFacts
<1> HIDE DEF l
<1>4. new \in Load /\ GoodLoad(new, pinned)
  BY <1>1, <1>2, <1>3, LoadedGood
<1> HIDE DEF new
<1> QED
  BY <1>1, <1>2, <1>4, Step

\* The copy that is read for a source whose turn it is.
WithCopy(l, stage) == [l EXCEPT !.stage = stage, !.copy = CopyFor(l.config.location)]

LEMMA WithCopyGood ==
  ASSUME Inv, NEW p \in Process, Loading(p, Remote), NEW stage \in {"loading", "fetching"}
  PROVE  /\ WithCopy(load[p], stage) \in Load /\ GoodLoad(WithCopy(load[p], stage), pinned)
         /\ Remote \in WithCopy(load[p], stage).todo
         /\ WithCopy(load[p], stage).stage = stage
         /\ WithCopy(load[p], stage).copy = CopyFor(load[p].config.location)
<1> DEFINE old == load[p]
           copy == CopyFor(old.config.location)
           l == WithCopy(old, stage)
<1>1. old \in Load /\ GoodLoad(old, pinned) /\ old.stage = "loading" /\ Remote \in old.todo
  BY DEF Inv, Types, Loading
<1>2. copy # Nil => copy \in CacheFile /\ <<old.config.location, copy.pack>> \in pinned
  BY CopyForFacts DEF Inv
<1>3. copy \in CacheFile \cup {Nil} /\ Remote \notin old.failed
  BY <1>1, <1>2 DEF GoodLoad
<1>4. l = [old EXCEPT !.stage = stage, !.copy = copy]
  BY DEF WithCopy
<1> HIDE DEF old, copy, l
<1>5. l = [stage |-> stage, config |-> old.config, todo |-> old.todo, packs |-> old.packs,
           failed |-> old.failed, copy |-> copy, fetched |-> old.fetched, base |-> old.base,
           entry |-> old.entry, files |-> old.files, tree |-> old.tree, late |-> old.late,
           at |-> old.at]
  BY <1>1, <1>4 DEF Load
<1>6. l \in Load
  BY <1>1, <1>3, <1>5, LoadFields DEF Load, Stage
<1>7. GoodLoad(l, pinned)
  <2>1. /\ l.stage = stage /\ l.config = old.config /\ l.todo = old.todo /\ l.packs = old.packs
        /\ l.failed = old.failed /\ l.copy = copy /\ l.fetched = old.fetched
    BY <1>1, <1>4 DEF Load
  <2>2. /\ old.config \in Config /\ old.todo \cap old.failed = {} /\ old.fetched = Nil
        /\ \A pack \in old.packs :
             pack[1] = Remote => <<old.config.location, pack[2]>> \in pinned
    BY <1>1 DEF GoodLoad
  <2> QED
    BY <1>1, <1>2, <1>3, <2>1, <2>2 DEF GoodLoad
<1> QED
  BY <1>1, <1>4, <1>5, <1>6, <1>7 DEF old, copy, l


LEMMA LoadCopyInv ==
  ASSUME Inv, NEW p \in Process, LoadCopy(p) PROVE Inv'
<1> DEFINE copy == CopyFor(load[p].config.location)
           l == WithCopy(load[p], "loading")
           pack == PackOf(copy)
           new == [Loaded(load[p], Remote, pack) EXCEPT !.copy = copy]
<1>1. Loading(p, Remote) /\ Become(p, new) /\ UNCHANGED <<tree, config, cache, usage, pinned>>
      /\ clock' \in Nat
  BY DEF LoadCopy, Inv, Types
<1>2. /\ l \in Load /\ GoodLoad(l, pinned) /\ Remote \in l.todo /\ l.stage = "loading"
      /\ l.copy = copy
  BY <1>1, WithCopyGood
<1>3. copy \in CacheFile \cup {Nil}
  BY <1>2, LoadFields
<1>4. new = Loaded(l, Remote, pack)
  <2>1. load[p] \in Load /\ load[p].stage = "loading"
    BY <1>1 DEF Inv, Types, Loading
  <2> DEFINE old == load[p]
             c == copy
             k == pack
  <2>2. [Loaded(old, Remote, k) EXCEPT !.copy = c]
          = Loaded([old EXCEPT !.stage = "loading", !.copy = c], Remote, k)
    <3>1. old \in Load
      BY <2>1
    <3> HIDE DEF old, c, k
    <3> QED
      BY <3>1 DEF Loaded, Load
  <2> QED
    BY <2>2 DEF WithCopy
<1>5. /\ pack \in {Nil, Invalid} \cup SUBSET Document
      /\ copy # Nil => pack = copy.pack /\ pack \notin {Nil, Invalid}
      /\ copy = Nil => pack = Nil
  BY <1>3, PackOfFacts
<1> HIDE DEF copy, l, pack, new
<1>6. pack \notin {Nil, Invalid} => <<l.config.location, pack>> \in pinned
  BY <1>2, <1>5 DEF GoodLoad
<1>7. new \in Load /\ GoodLoad(new, pinned)
  BY <1>2, <1>4, <1>5, <1>6, RemoteFacts, LoadedGood
<1> QED
  BY <1>1, <1>7, Step

LEMMA RequestInv ==
  ASSUME Inv, NEW p \in Process, Request(p) PROVE Inv'
<1> DEFINE l == WithCopy(load[p], "fetching")
<1>1. Loading(p, Remote) /\ Become(p, l) /\ UNCHANGED <<tree, config, cache, usage, pinned>>
      /\ clock' \in Nat
  BY DEF Request, Inv, Types, WithCopy
<1>2. l \in Load /\ GoodLoad(l, pinned)
  BY <1>1, WithCopyGood
<1> HIDE DEF l
<1> QED
  BY <1>1, <1>2, Step

\* Falling back to the copy that was read before the request.
LEMMA FallBackGood ==
  ASSUME NEW l \in Load, NEW pins, GoodLoad(l, pins), l.stage \in {"fetching", "storing"}
  PROVE  /\ Loaded(l, Remote, PackOf(l.copy)) \in Load
         /\ GoodLoad(Loaded(l, Remote, PackOf(l.copy)), pins)
<1>1. l.copy \in CacheFile \cup {Nil} /\ Remote \in l.todo
  BY LoadFields DEF GoodLoad
<1>2. /\ PackOf(l.copy) \in {Nil, Invalid} \cup SUBSET Document
      /\ l.copy # Nil => PackOf(l.copy) = l.copy.pack /\ PackOf(l.copy) \notin {Nil, Invalid}
      /\ l.copy = Nil => PackOf(l.copy) = Nil
  BY <1>1, PackOfFacts
<1>3. PackOf(l.copy) \notin {Nil, Invalid} => <<l.config.location, PackOf(l.copy)>> \in pins
  BY <1>2 DEF GoodLoad
<1> QED
  BY <1>1, <1>2, <1>3, RemoteFacts, LoadedGood

LEMMA FallBackInv ==
  ASSUME Inv, NEW p \in Process, FallBack(p), load[p].stage \in {"fetching", "storing"},
         UNCHANGED <<tree, config, cache, usage, clock, pinned>>
  PROVE  Inv'
<1> DEFINE new == Loaded(load[p], Remote, PackOf(load[p].copy))
<1>1. load[p] \in Load /\ GoodLoad(load[p], pinned) /\ clock' \in Nat /\ Become(p, new)
  BY DEF Inv, Types, FallBack
<1>2. new \in Load /\ GoodLoad(new, pinned)
  BY <1>1, FallBackGood
<1> HIDE DEF new
<1> QED
  BY <1>1, <1>2, Step

LEMMA FetchedLoad ==
  ASSUME NEW l \in Load, NEW pack \in RemotePack, NEW rev \in Nat
  PROVE  [l EXCEPT !.stage = "storing", !.fetched = pack, !.base = rev] \in Load
<1> DEFINE new == [l EXCEPT !.stage = "storing", !.fetched = pack, !.base = rev]
<1>0. new = [l EXCEPT !.stage = "storing", !.fetched = pack, !.base = rev]
  OBVIOUS
<1> HIDE DEF new
<1>1. new = [stage |-> "storing", config |-> l.config, todo |-> l.todo, packs |-> l.packs,
             failed |-> l.failed, copy |-> l.copy, fetched |-> pack, base |-> rev,
             entry |-> l.entry, files |-> l.files, tree |-> l.tree, late |-> l.late,
             at |-> l.at]
  BY <1>0 DEF Load
<1>2. "storing" \in Stage
  BY DEF Stage
<1>3. new \in Load
  BY <1>1, <1>2, LoadFields DEF Load
<1> QED
  BY <1>3 DEF new

LEMMA RespondInv ==
  ASSUME Inv, NEW p \in Process, Respond(p) PROVE Inv'
<1>1. CASE FallBack(p) /\ UNCHANGED pinned
  BY <1>1, FallBackInv DEF Respond
<1>2. ASSUME NEW pack \in RemotePack, pack = load[p].config.pin,
             pinned' = pinned \cup {<<load[p].config.location, pack>>},
             Become(p, [load[p] EXCEPT !.stage = "storing", !.fetched = pack, !.base = Revision])
      PROVE  Inv'
  <2> DEFINE old == load[p]
             rev == Revision
             l == [old EXCEPT !.stage = "storing", !.fetched = pack, !.base = rev]
  <2>1. old \in Load /\ GoodLoad(old, pinned) /\ old.stage = "fetching" /\ Become(p, l)
        /\ UNCHANGED <<tree, config, cache, usage, clock>>
    BY <1>2 DEF Inv, Types, Respond
  <2>2. rev \in Nat
    BY DEF Inv, Types, Revision, CacheFile
  <2>3. pack \notin {Nil, Invalid} /\ old.config \in Config /\ old.config.location \in Location
    BY <2>1, RemoteFacts DEF GoodLoad
  <2>4. pinned' \subseteq Location \X RemotePack /\ pinned \subseteq pinned'
        /\ <<old.config.location, pack>> \in pinned'
    BY <1>2, <2>3 DEF Inv, Types
  <2>5. GoodLoad(old, pinned')
    BY <2>1, <2>4, MoreWasPinned
  <2> HIDE DEF old, rev
  <2>6. /\ l.stage = "storing" /\ l.config = old.config /\ l.todo = old.todo
        /\ l.packs = old.packs /\ l.failed = old.failed /\ l.copy = old.copy
        /\ l.fetched = pack
    BY <2>1 DEF Load
  <2>7. l \in Load
    BY <2>1, <2>2, FetchedLoad
  <2> HIDE DEF l
  <2>9. GoodLoad(l, pinned')
    BY <2>1, <2>3, <2>4, <2>5, <2>6 DEF GoodLoad
  <2>10. load' \in [Process -> Load] /\ \A q \in Process : GoodLoad(load'[q], pinned')
    BY <2>1, <2>4, <2>7, <2>9, BecomeInv
  <2>11. Types'
    BY <2>1, <2>4, <2>10 DEF Inv, Types
  <2>12. CacheInv' /\ UsageInv'
    BY <2>1, <2>4 DEF Inv, CacheInv, UsageInv
  <2> QED
    BY <2>10, <2>11, <2>12 DEF Inv
<1> QED
  BY <1>1, <1>2 DEF Respond

LEMMA StoreInv ==
  ASSUME Inv, NEW p \in Process, Store(p) PROVE Inv'
<1>1. CASE ~CanStore(load[p].base)
  BY <1>1, FallBackInv DEF Store
<1>2. CASE CanStore(load[p].base)
  <2> DEFINE l == load[p]
             new == Loaded(l, Remote, l.fetched)
             file == [revision |-> l.base + 1, location |-> l.config.location,
                      pack |-> l.fetched]
  <2>1. l \in Load /\ GoodLoad(l, pinned) /\ l.stage = "storing" /\ Become(p, new)
        /\ cache' = file /\ UNCHANGED <<tree, config, usage, clock, pinned>>
    BY <1>2 DEF Inv, Types, Store
  <2> HIDE DEF l
  <2>2. /\ l.config \in Config /\ l.config.location \in Location /\ Remote \in l.todo
        /\ l.fetched \in RemotePack /\ <<l.config.location, l.fetched>> \in pinned
    BY <2>1, LoadFields, RemoteFacts DEF GoodLoad
  <2>3. l.fetched \in SUBSET Document /\ l.fetched \notin {Nil, Invalid}
    BY <2>2, RemoteFacts
  <2>4. new \in Load /\ GoodLoad(new, pinned)
    BY <2>1, <2>2, <2>3, RemoteFacts, LoadedGood
  <2>5. file \in CacheFile /\ file.location = l.config.location /\ file.pack = l.fetched
    BY <2>1, <2>2, LoadFields DEF CacheFile
  <2> HIDE DEF new, file
  <2>6. load' \in [Process -> Load] /\ \A q \in Process : GoodLoad(load'[q], pinned')
    BY <2>1, <2>4, BecomeInv
  <2>7. Types'
    BY <2>1, <2>5, <2>6 DEF Inv, Types
  <2>8. CacheInv' /\ UsageInv'
    BY <2>1, <2>2, <2>5 DEF Inv, CacheInv, UsageInv
  <2> QED
    BY <2>6, <2>7, <2>8 DEF Inv
<1> QED
  BY <1>1, <1>2


LEMMA MergeInv ==
  ASSUME Inv, NEW p \in Process, Merge(p) PROVE Inv'
<1> DEFINE old == load[p]
           new == [old EXCEPT !.stage = "loaded"]
<1>1. old \in Load /\ GoodLoad(old, pinned) /\ old.stage = "loading"
      /\ UNCHANGED <<tree, config, cache, usage, clock, pinned>> /\ clock' \in Nat
  BY DEF Inv, Types, Merge
<1>2. Become(p, Idle) \/ Become(p, new)
  BY DEF Merge
<1>3. new \in Load /\ GoodLoad(new, pinned)
  <2>0. new = [old EXCEPT !.stage = "loaded"]
    OBVIOUS
  <2> HIDE DEF old, new
  <2>1. new \in Load
    BY <1>1, <2>0 DEF Load, Stage
  <2>2. /\ new.stage = "loaded" /\ new.config = old.config /\ new.todo = old.todo
        /\ new.packs = old.packs /\ new.failed = old.failed /\ new.copy = old.copy
        /\ new.fetched = old.fetched
    BY <1>1, <2>0 DEF Load
  <2> QED
    BY <1>1, <2>1, <2>2 DEF GoodLoad
<1> HIDE DEF new
<1> QED
  BY <1>1, <1>2, <1>3, Step, ToIdle

\* The entries of a load are made of what its sources hold.
LEMMA EntriesTyped ==
  ASSUME NEW l \in Load, NEW e \in Entries(l)
  PROVE  e \in Entry
<1>1. PICK pack \in l.packs : e \in { [source |-> pack[1], document |-> d,
             renamed |-> Cardinality(Providers(l, d.name)) > 1] : d \in pack[2] }
  BY DEF Entries
<1>2. PICK d \in pack[2] : e = [source |-> pack[1], document |-> d,
                                renamed |-> Cardinality(Providers(l, d.name)) > 1]
  BY <1>1
<1>3. pack[1] \in Source /\ d \in Document
  BY <1>2, LoadFields
<1>4. (Cardinality(Providers(l, d.name)) > 1) \in BOOLEAN
  OBVIOUS
<1> QED
  BY <1>2, <1>3, <1>4 DEF Entry

\* A load that has read files.
LEMMA ReadGood ==
  ASSUME NEW e \in Entry, NEW files \in SUBSET File, NEW t \in Tree, Holds(e, files, t), NEW pins
  PROVE  /\ [Idle EXCEPT !.stage = "read", !.entry = e, !.files = files, !.tree = t] \in Load
         /\ GoodLoad([Idle EXCEPT !.stage = "read", !.entry = e, !.files = files, !.tree = t], pins)
<1> DEFINE idle == Idle
           new == [idle EXCEPT !.stage = "read", !.entry = e, !.files = files, !.tree = t]
<1>0. new = [idle EXCEPT !.stage = "read", !.entry = e, !.files = files, !.tree = t]
  OBVIOUS
<1>1. /\ idle \in Load /\ idle.packs = {} /\ idle.failed = {} /\ idle.todo = {}
      /\ idle.copy = Nil /\ idle.fetched = Nil /\ idle.late = FALSE
  BY IdleFacts
<1> HIDE DEF idle, new
<1>2. new = [stage |-> "read", config |-> idle.config, todo |-> idle.todo, packs |-> idle.packs,
             failed |-> idle.failed, copy |-> idle.copy, fetched |-> idle.fetched,
             base |-> idle.base, entry |-> e, files |-> files, tree |-> t, late |-> idle.late,
             at |-> idle.at]
  BY <1>0, <1>1 DEF Load
<1>3. "read" \in Stage
  BY DEF Stage
<1>4. new \in Load
  BY <1>1, <1>2, <1>3, LoadFields DEF Load
<1>5. /\ new.stage = "read" /\ new.entry = e /\ new.files = files /\ new.tree = t
      /\ new.packs = {} /\ new.failed = {} /\ new.todo = {} /\ new.copy = Nil
      /\ new.fetched = Nil /\ new.late = FALSE
  BY <1>0, <1>1 DEF Load
<1>6. GoodLoad(new, pins)
  BY <1>5 DEF GoodLoad
<1> QED
  BY <1>4, <1>6 DEF new, idle

LEMMA ReadFilesInv ==
  ASSUME Inv, NEW p \in Process, ReadFiles(p) PROVE Inv'
<1>1. load[p] \in Load /\ tree \in Tree /\ clock' \in Nat
      /\ UNCHANGED <<tree, config, cache, usage, pinned>>
  BY DEF Inv, Types, ReadFiles
<1>2. PICK name \in { d.name : d \in UNION { pack[2] : pack \in load[p].packs } },
           files \in {{"main"}, {"reference"}, File} :
        \E e \in Found(load[p], name) :
          /\ e.source \in Local
          /\ LocalPack[e.source][tree] # Invalid
          /\ \E d \in LocalPack[e.source][tree] : d.name = name /\ Verified(d, files, e)
          /\ Become(p, [Idle EXCEPT !.stage = "read", !.entry = e, !.files = files,
                                    !.tree = tree])
  BY DEF ReadFiles
<1>3. PICK e \in Found(load[p], name) :
        /\ LocalPack[e.source][tree] # Invalid
        /\ \E d \in LocalPack[e.source][tree] : d.name = name /\ Verified(d, files, e)
        /\ Become(p, [Idle EXCEPT !.stage = "read", !.entry = e, !.files = files,
                                  !.tree = tree])
  BY <1>2
<1>4. e \in Entry /\ e.document.name = name
  BY <1>1, EntriesTyped DEF Found
<1>5. Holds(e, files, tree) /\ files \in SUBSET File
  BY <1>3, <1>4 DEF Holds, File
<1> DEFINE new == [Idle EXCEPT !.stage = "read", !.entry = e, !.files = files, !.tree = tree]
<1>6. new \in Load /\ GoodLoad(new, pinned) /\ Become(p, new)
  BY <1>1, <1>3, <1>4, <1>5, ReadGood
<1> HIDE DEF new
<1> QED
  BY <1>1, <1>6, Step

LEMMA HashTreeInv ==
  ASSUME Inv, NEW p \in Process, HashTree(p) PROVE Inv'
<1> DEFINE old == load[p]
           late == (load[p].tree # tree)
           new == [old EXCEPT !.stage = "hashed", !.tree = tree, !.late = late]
<1>1. old \in Load /\ GoodLoad(old, pinned) /\ old.stage = "read" /\ tree \in Tree
      /\ UNCHANGED <<tree, config, cache, usage, pinned>> /\ clock' \in Nat /\ Become(p, new)
  BY DEF Inv, Types, HashTree
<1>2. late \in BOOLEAN /\ (~late => old.tree = tree)
  OBVIOUS
<1>3. new = [old EXCEPT !.stage = "hashed", !.tree = tree, !.late = late]
  OBVIOUS
<1> HIDE DEF old, late, new
<1>4. new \in Load
  <2>1. new = [stage |-> "hashed", config |-> old.config, todo |-> old.todo,
               packs |-> old.packs, failed |-> old.failed, copy |-> old.copy,
               fetched |-> old.fetched, base |-> old.base, entry |-> old.entry,
               files |-> old.files, tree |-> tree, late |-> late, at |-> old.at]
    BY <1>1, <1>3 DEF Load
  <2>2. "hashed" \in Stage
    BY DEF Stage
  <2> QED
    BY <1>1, <1>2, <2>1, <2>2, LoadFields DEF Load
<1>5. /\ new.stage = "hashed" /\ new.config = old.config /\ new.todo = old.todo
      /\ new.packs = old.packs /\ new.failed = old.failed /\ new.copy = old.copy
      /\ new.fetched = old.fetched /\ new.entry = old.entry /\ new.files = old.files
      /\ new.tree = tree /\ new.late = late
  BY <1>1, <1>3 DEF Load
<1>6. GoodLoad(new, pinned)
  <2>1. old.entry \in Entry /\ Holds(old.entry, old.files, old.tree)
    BY <1>1 DEF GoodLoad
  <2>2. ~new.late => Holds(new.entry, new.files, new.tree)
    BY <1>2, <1>5, <2>1
  <2> QED
    BY <1>1, <1>5, <2>1, <2>2 DEF GoodLoad
<1> QED
  BY <1>1, <1>4, <1>6, Step

LEMMA CheckInv ==
  ASSUME Inv, NEW p \in Process, Check(p) PROVE Inv'
<1> DEFINE old == load[p]
           new == [old EXCEPT !.stage = "checked", !.at = clock]
<1>1. old \in Load /\ GoodLoad(old, pinned) /\ old.stage = "hashed" /\ clock \in Nat
      /\ UNCHANGED <<tree, config, cache, usage, pinned>> /\ clock' \in Nat /\ Become(p, new)
  BY DEF Inv, Types, Check
<1>2. new = [old EXCEPT !.stage = "checked", !.at = clock]
  OBVIOUS
<1> HIDE DEF old, new
<1>3. new \in Load
  BY <1>1, <1>2 DEF Load, Stage
<1>4. /\ new.stage = "checked" /\ new.config = old.config /\ new.todo = old.todo
      /\ new.packs = old.packs /\ new.failed = old.failed /\ new.copy = old.copy
      /\ new.fetched = old.fetched /\ new.entry = old.entry /\ new.files = old.files
      /\ new.tree = old.tree /\ new.late = old.late
  BY <1>1, <1>2 DEF Load
<1>5. GoodLoad(new, pinned)
  BY <1>1, <1>4 DEF GoodLoad
<1> QED
  BY <1>1, <1>3, <1>5, Step

\* A ledger has after a fetch the new record, and otherwise what it had.
LEMMA WithFacts ==
  ASSUME NEW records, NEW r
  PROVE  /\ With(records, r) \subseteq records \cup {r} /\ r \in With(records, r)
         /\ \A old \in records : UsageId(old) = UsageId(r) \/ old \in With(records, r)
BY DEF With

\* What a process records of its checked load.
LEMMA RecordFacts ==
  ASSUME Inv, NEW p \in Process, load[p].stage = "checked"
  PROVE  /\ NewRecord(load[p]) \in Record
         /\ NewRecord(load[p]).entry = load[p].entry /\ NewRecord(load[p]).tree = load[p].tree
         /\ NewRecord(load[p]).at = load[p].at
         /\ ~NewRecord(load[p]).late =>
              Holds(NewRecord(load[p]).entry, NewRecord(load[p]).files, NewRecord(load[p]).tree)
<1> DEFINE l == load[p]
<1>1. l \in Load /\ GoodLoad(l, pinned) /\ l.stage = "checked"
  BY DEF Inv, Types
<1> HIDE DEF l
<1>2. l.entry \in Entry /\ l.tree \in Tree /\ (~l.late => Holds(l.entry, l.files, l.tree))
  BY <1>1 DEF GoodLoad
<1>3. NewRecord(l) \in Record
  BY <1>1, <1>2, LoadFields DEF NewRecord, Record
<1> QED
  BY <1>2, <1>3 DEF NewRecord, l

LEMMA RecordUsageInv ==
  ASSUME Inv, NEW p \in Process, RecordUsage(p) PROVE Inv'
<1> DEFINE r == NewRecord(load[p])
<1>1. r \in Record /\ (~r.late => Holds(r.entry, r.files, r.tree))
  BY RecordFacts DEF RecordUsage
<1>2. usage' = With(usage, r) /\ Become(p, Idle)
      /\ UNCHANGED <<tree, config, cache, clock, pinned>>
  BY DEF RecordUsage
<1> HIDE DEF r
<1>3. usage' \subseteq usage \cup {r}
  BY <1>2, WithFacts
<1>4. load' \in [Process -> Load] /\ \A q \in Process : GoodLoad(load'[q], pinned')
  BY <1>2, IdleFacts, BecomeInv
<1>5. Types'
  BY <1>1, <1>2, <1>3, <1>4 DEF Inv, Types
<1>6. CacheInv'
  BY <1>2 DEF Inv, CacheInv
<1>7. UsageInv'
  BY <1>1, <1>3 DEF Inv, UsageInv
<1> QED
  BY <1>4, <1>5, <1>6, <1>7 DEF Inv

LEMMA NextInv == Inv /\ [Next]_vars => Inv'
<1> SUFFICES ASSUME Inv, [Next]_vars PROVE Inv'
  OBVIOUS
<1>1. ASSUME NEW p \in Process, Work(p) PROVE Inv'
  <2>1. CASE Answer(p)
    BY <2>1, ToIdle DEF Answer
  <2> QED
    BY <1>1, <2>1, BeginInv, LoadLocalInv, LoadCopyInv, RequestInv, RespondInv, StoreInv,
       MergeInv, ReadFilesInv, HashTreeInv, CheckInv, RecordUsageInv DEF Work
<1>2. ASSUME NEW p \in Process, Stop(p) PROVE Inv'
  BY <1>2, ToIdle DEF Stop
<1>3. ASSUME NEW t \in Tree, Edit(t) PROVE Inv'
  BY <1>3 DEF Edit, Inv, Types, CacheInv, UsageInv
<1>4. ASSUME NEW c \in Config, Configure(c) PROVE Inv'
  BY <1>4 DEF Configure, Inv, Types, CacheInv, UsageInv
<1>5. CASE UNCHANGED vars
  BY <1>5 DEF vars, Inv, Types, CacheInv, UsageInv
<1> QED
  BY <1>1, <1>2, <1>3, <1>4, <1>5 DEF Next

-----------------------------------------------------------------------------

(***************************************************************************)
(* Whatever order the loads, fetches, edits and changes of the              *)
(* configuration come in (loadRegistry and loadSource of registry.ts,       *)
(* fetchRemoteContextPack and the cache of remote-source.ts, the ledger of   *)
(* usage-ledger.ts), the cache file and the loads hold only packs that      *)
(* matched the pin for their location, and the records that are not late    *)
(* describe their tree.                                                     *)
(***************************************************************************)
THEOREM Invariance == Spec => []Inv
  BY InitInv, NextInv, PTL DEF Spec

(***************************************************************************)
(* The state has its type, and a process holds a pack that was fetched only  *)
(* while it stores it: what loadSource fetched for one source is never left  *)
(* for the next.                                                            *)
(***************************************************************************)
THEOREM TypeCorrect == Spec => []TypeOK
<1>1. Inv => TypeOK
  BY DEF Inv, Types, GoodLoad, TypeOK
<1> QED
  BY <1>1, Invariance, PTL

(***************************************************************************)
(* loadSource serves for the remote source a pack that matched the pin for   *)
(* the configured location, and the copy readSourceCache found whenever     *)
(* anything after that fails.                                               *)
(***************************************************************************)
THEOREM RemoteServedSafely == Spec => []RemoteIsServedSafely
<1>1. Inv => RemoteIsServedSafely
  BY DEF Inv, GoodLoad, RemoteIsServedSafely, ServedPacksWerePinned, CopyIsServed
<1> QED
  BY <1>1, Invariance, PTL

(***************************************************************************)
(* What assessExternalContextPolicy lets pass has in the present tree the    *)
(* contents getContextFiles handed out, unless HEAD has moved.              *)
(***************************************************************************)
THEOREM FreshIsCurrent == Spec => []FreshContextIsCurrent
<1>1. Inv => FreshContextIsCurrent
  <2> SUFFICES ASSUME Inv, NEW r \in Passed, ~r.late, Head[r.tree] = Head[tree]
               PROVE  Holds(r.entry, r.files, tree)
    BY DEF FreshContextIsCurrent, Holds
  <2>1. r \in usage /\ Hash[r.tree] = Hash[tree]
    BY DEF Passed, Latest, Accepted
  <2>2. r.tree \in Tree /\ tree \in Tree
    BY <2>1 DEF Inv, Types, Record
  <2>3. r.tree = tree
    BY <2>1, <2>2, RegistryAssumption
  <2> QED
    BY <2>1, <2>3 DEF Inv, UsageInv
<1> QED
  BY <1>1, Invariance, PTL

LEMMA RecordingUnblocks ==
  ASSUME Inv, NEW p \in Process, RecordUsage(p), Hash[load[p].tree] = Hash[tree],
         \A r \in usage : Key(r.entry) = Key(load[p].entry) => r.at < load[p].at,
         NEW r \in Blocked'
  PROVE  Key(r.entry) # Key(load[p].entry)
<1> DEFINE new == NewRecord(load[p])
<1>1. /\ new \in Record /\ new.entry = load[p].entry /\ Hash[new.tree] = Hash[tree]
      /\ new.at = load[p].at /\ usage' = With(usage, new) /\ tree' = tree
  BY RecordFacts DEF RecordUsage
<1> HIDE DEF new
<1>2. r \in usage' /\ Hash[r.tree] # Hash[tree'] /\ new \in usage' /\ usage' \subseteq usage \cup {new}
  BY <1>1, WithFacts DEF Blocked, Latest, Accepted
<1>3. \A s \in usage' : Key(s.entry) = Key(r.entry) => s.at <= r.at
  BY DEF Blocked, Latest
<1>4. SUFFICES ASSUME Key(r.entry) = Key(load[p].entry) PROVE FALSE
  OBVIOUS
<1>5. r \in usage /\ r.at < new.at /\ new.at <= r.at
  BY <1>1, <1>2, <1>3, <1>4
<1>6. r.at \in Nat /\ new.at \in Nat
  BY <1>1, <1>5 DEF Inv, Types, Record
<1> QED
  BY <1>5, <1>6

(***************************************************************************)
(* Fetching a document again for the present hash (recordContextUsage under  *)
(* the lock of the ledger) ends a block of latestUsage and                  *)
(* contextStaleReasons, whatever the ledger held.                           *)
(***************************************************************************)
THEOREM RefetchIsTheWayOut == Spec => RefetchUnblocks
<1>1. Inv =>
        \A p \in Process :
          /\ RecordUsage(p) /\ Hash[load[p].tree] = Hash[tree]
          /\ \A r \in usage : Key(r.entry) = Key(load[p].entry) => r.at < load[p].at
          => \A r \in Blocked' : Key(r.entry) # Key(load[p].entry)
  BY RecordingUnblocks
<1> QED
  BY <1>1, Invariance, PTL DEF RefetchUnblocks
=============================================================================
