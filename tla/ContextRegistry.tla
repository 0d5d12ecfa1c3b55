--------------------------- MODULE ContextRegistry ---------------------------
(***************************************************************************)
(* Context from outside the task: documents of local sources in the         *)
(* repository and of remote ones, which are fetched against a pinned hash    *)
(* and kept in a cache file per source.  A process loads its sources one    *)
(* after the other, the most trusted first, and answers from what it got;   *)
(* for the files of a document it reads the source again, checks them       *)
(* against the entry it loaded, hashes the working tree and records in the  *)
(* task's usage ledger what it handed out.  The policy of an evaluation     *)
(* compares the ledger with the tree.                                       *)
(*                                                                         *)
(* Several processes (editor plugins, servers, command lines) do this on    *)
(* one repository while it is edited and its configuration is changed; a    *)
(* remote may publish anything at any time.  A pack is the set of its       *)
(* documents, and its hash is the pack itself.  The fingerprint of a tree   *)
(* says nothing of its commit: all clean trees have the same one.           *)
(***************************************************************************)
EXTENDS Integers, FiniteSets

CONSTANTS
  Process,
  Tree,         \* the repository: its files, and the commit that HEAD is at
  Head,         \* Head[t]: that commit
  Hash,         \* Hash[t]: fingerprint of the changes against it
  Local,        \* local and bundled sources, in the repository
  Remote,       \* the remote source
  Trust,        \* Trust[s]: position of a source in the order of their loading
  Location,     \* addresses the remote source may be configured with
  LocalPack,    \* LocalPack[s][t]: what source s holds in tree t, or Invalid
  RemotePack,   \* packs a remote may publish
  Config,       \* configurations: sources, offline, location, pin
  Invalid,      \* a document that cannot be parsed, a pack that is not valid
  Nil,
  MaxLoads,     \* bound on loads,
  MaxChanges    \* ... and on edits and changed configurations

Source == Local \cup {Remote}

Document == [name : STRING, main : STRING, reference : STRING]

\* validateContextPack: names are unique within a pack.
ValidPack(pack) ==
  /\ pack \subseteq Document
  /\ \A d, e \in pack : d.name = e.name => d = e

ASSUME RegistryAssumption ==
  /\ Remote \notin Local
  /\ \A t, u \in Tree : Head[t] = Head[u] /\ Hash[t] = Hash[u] => t = u
  /\ Trust \in [Source -> Nat] /\ \A s, u \in Source : Trust[s] = Trust[u] => s = u
  /\ \A s \in Local, t \in Tree :
       LocalPack[s][t] = Invalid \/ ValidPack(LocalPack[s][t])
  /\ \A pack \in RemotePack : ValidPack(pack) /\ pack \notin {Nil, Invalid}
  /\ Config \subseteq [sources : SUBSET Source, offline : BOOLEAN,
                       location : Location, pin : RemotePack]
  /\ {MaxLoads, MaxChanges} \subseteq Nat

VARIABLES
  tree,      \* the working tree
  config,    \* the configuration on disk
  cache,     \* the cache file of the remote source
  usage,     \* records of the task's usage ledger
  clock,     \* time of the next check
  load,      \* what each process is doing
  pinned,    \* ghost: fetched packs that matched the pin of their fetch
  loads, changes   \* ghosts: used up bounds

vars == <<tree, config, cache, usage, clock, load, pinned, loads, changes>>

Entry == [source : Source, document : Document, renamed : BOOLEAN]

\* A file's place: in the middle of the document, and beside it.
File == {"main", "reference"}

CacheFile == [revision : Nat, location : Location, pack : RemotePack]

Record == [entry : Entry, files : SUBSET File, tree : Tree, at : Nat, late : BOOLEAN]

Stage == {"idle", "loading", "fetching", "storing", "loaded", "read", "hashed",
          "checked"}

Load ==
  [ stage   : Stage,
    config  : Config \cup {Nil},
    todo    : SUBSET Source,               \* sources to load
    packs   : SUBSET (Source \X SUBSET Document),
    failed  : SUBSET Source,               \* sources with issues
    copy    : CacheFile \cup {Nil},        \* the cache as it was before a fetch
    fetched : RemotePack \cup {Nil},
    base    : Nat,                         \* revision the cache is replaced at
    entry   : Entry \cup {Nil},
    files   : SUBSET File,
    tree    : Tree \cup {Nil},             \* read from, then hashed
    late    : BOOLEAN,                     \* ghost: changed between the two
    at      : Nat ]

Idle ==
  [ stage |-> "idle", config |-> Nil, todo |-> {}, packs |-> {}, failed |-> {},
    copy |-> Nil, fetched |-> Nil, base |-> 0, entry |-> Nil, files |-> {},
    tree |-> Nil, late |-> FALSE, at |-> 0 ]

Init ==
  /\ tree \in Tree
  /\ config \in Config
  /\ cache \in {Nil, Invalid}
  /\ usage = {}
  /\ clock = 1
  /\ load = [p \in Process |-> Idle]
  /\ pinned = {}
  /\ loads = 0 /\ changes = 0

-----------------------------------------------------------------------------
(* The cache file of the remote source                                     *)

\* Mutant: the location the copy was fetched from is not compared.
CopyForAnywhere(location) == IF cache \in {Nil, Invalid} THEN Nil ELSE cache

\* readSourceCache: a copy from another location is as good as none.
CopyFor(location) ==
  IF cache \in {Nil, Invalid} THEN Nil
  ELSE IF cache.location = location THEN cache ELSE Nil

Revision == IF cache \in {Nil, Invalid} THEN 0 ELSE cache.revision

\* The locked write: the file is not corrupt and still has the revision.
CanStore(base) == cache # Invalid /\ Revision = base

-----------------------------------------------------------------------------
(* Loading the sources                                                     *)

Loading(p, s) ==
  /\ load[p].stage = "loading" /\ s \in load[p].todo
  /\ \A u \in load[p].todo : Trust[s] <= Trust[u]

\* Mutant: the fetched pack is kept for the next source.
LoadedKeeps(l, s, pack) ==
  [l EXCEPT !.stage = "loading", !.todo = @ \ {s},
            !.packs = IF pack \in {Nil, Invalid} THEN @ ELSE @ \cup {<<s, pack>>},
            !.failed = IF pack \in {Nil, Invalid} THEN @ \cup {s} ELSE @]

\* The source is done: with a pack, or with an issue.
Loaded(l, s, pack) ==
  [l EXCEPT !.stage = "loading", !.todo = @ \ {s},
            !.packs = IF pack \in {Nil, Invalid} THEN @ ELSE @ \cup {<<s, pack>>},
            !.failed = IF pack \in {Nil, Invalid} THEN @ \cup {s} ELSE @,
            !.fetched = Nil, !.base = 0]

PackOf(copy) == IF copy = Nil THEN Nil ELSE copy.pack

Become(p, l) == load' = [load EXCEPT ![p] = l]

\* loadRegistry reads the configuration.
Begin(p) ==
  /\ load[p].stage = "idle" /\ loads < MaxLoads
  /\ Become(p, [Idle EXCEPT !.stage = "loading", !.config = config, !.todo = config.sources])
  /\ loads' = loads + 1
  /\ UNCHANGED <<tree, config, cache, usage, clock, pinned, changes>>

\* buildContextPack: every document of the source, or the issues of some.
LoadLocal(p, s) ==
  /\ Loading(p, s) /\ s \in Local
  /\ Become(p, Loaded(load[p], s, LocalPack[s][tree]))
  /\ UNCHANGED <<tree, config, cache, usage, clock, pinned, loads, changes>>

\* Offline, a remote source is its copy.
LoadCopy(p) ==
  /\ Loading(p, Remote) /\ load[p].config.offline
  /\ LET copy == CopyFor(load[p].config.location)
     IN Become(p, [Loaded(load[p], Remote, PackOf(copy)) EXCEPT !.copy = copy])
  /\ UNCHANGED <<tree, config, cache, usage, clock, pinned, loads, changes>>

\* Online, the copy is read before the request is sent.
Request(p) ==
  /\ Loading(p, Remote) /\ ~load[p].config.offline
  /\ Become(p, [load[p] EXCEPT !.stage = "fetching",
                               !.copy = CopyFor(load[p].config.location)])
  /\ UNCHANGED <<tree, config, cache, usage, clock, pinned, loads, changes>>

\* What loadSource falls back to when anything fails.
FallBack(p) == Become(p, Loaded(load[p], Remote, PackOf(load[p].copy)))

(***************************************************************************)
(* fetchRemoteContextPack: the request fails, times out, is answered with   *)
(* something else than the pinned pack, or succeeds; then the revision of   *)
(* the cache file is read.                                                  *)
(***************************************************************************)
Respond(p) ==
  /\ load[p].stage = "fetching"
  /\ \/ FallBack(p) /\ UNCHANGED pinned
     \/ \E pack \in RemotePack :
          /\ pack = load[p].config.pin
          /\ pinned' = pinned \cup {<<load[p].config.location, pack>>}
          /\ Become(p, [load[p] EXCEPT !.stage = "storing", !.fetched = pack,
                                       !.base = Revision])
  /\ UNCHANGED <<tree, config, cache, usage, clock, loads, changes>>

(***************************************************************************)
(* writeSourceCache.  When the file has another revision by now, or cannot  *)
(* be parsed, the pack that was fetched is given up for the copy that was   *)
(* read before.                                                             *)
(***************************************************************************)
Store(p) ==
  /\ load[p].stage = "storing"
  /\ IF CanStore(load[p].base)
     THEN /\ cache' = [revision |-> load[p].base + 1, location |-> load[p].config.location,
                       pack |-> load[p].fetched]
          /\ Become(p, Loaded(load[p], Remote, load[p].fetched))
     ELSE FallBack(p) /\ UNCHANGED cache
  /\ UNCHANGED <<tree, config, usage, clock, pinned, loads, changes>>

\* Without any pack the load fails as a whole.
Merge(p) ==
  /\ load[p].stage = "loading" /\ load[p].todo = {}
  /\ Become(p, IF load[p].packs = {} /\ load[p].failed # {} THEN Idle
               ELSE [load[p] EXCEPT !.stage = "loaded"])
  /\ UNCHANGED <<tree, config, cache, usage, clock, pinned, loads, changes>>

-----------------------------------------------------------------------------
(* Answering                                                               *)

Providers(l, name) ==
  { s \in Source : \E pack \in l.packs : pack[1] = s /\ \E d \in pack[2] : d.name = name }

(***************************************************************************)
(* mergePacks: the entries of all packs.  A document that several sources   *)
(* have gets another identifier in each.                                    *)
(***************************************************************************)
Entries(l) ==
  UNION { { [source |-> pack[1], document |-> d,
             renamed |-> Cardinality(Providers(l, d.name)) > 1] : d \in pack[2] } :
          pack \in l.packs }

\* findEntry, by name: the entry of the most trusted source.
Found(l, name) ==
  { e \in Entries(l) : e.document.name = name /\ \A s \in Providers(l, name) : Trust[e.source] <= Trust[s] }

\* A search, or a request that found nothing, ends with the answer.
Answer(p) ==
  /\ load[p].stage = "loaded"
  /\ Become(p, Idle)
  /\ UNCHANGED <<tree, config, cache, usage, clock, pinned, loads, changes>>

\* readVerifiedFile: the files are those the entry was made of.
Verified(document, files, entry) ==
  \A f \in files : document[f] = entry.document[f]

(***************************************************************************)
(* getContextFiles: the source of the entry is read once more.  The request *)
(* fails if the source is remote, cannot be read any more, or no longer     *)
(* has the document or the contents of the entry.                           *)
(***************************************************************************)
ReadFiles(p) ==
  /\ load[p].stage = "loaded"
  /\ \E name \in { d.name : d \in UNION { pack[2] : pack \in load[p].packs } },
        files \in {{"main"}, {"reference"}, File} :
       \E e \in Found(load[p], name) :
         /\ e.source \in Local
         /\ LocalPack[e.source][tree] # Invalid
         /\ \E d \in LocalPack[e.source][tree] :
              d.name = name /\ Verified(d, files, e)
         /\ Become(p, [Idle EXCEPT !.stage = "read", !.entry = e, !.files = files,
                                   !.tree = tree])
  /\ UNCHANGED <<tree, config, cache, usage, clock, pinned, loads, changes>>

\* The working tree is hashed: of the tree only its hash is looked at later,
HashTree(p) ==
  /\ load[p].stage = "read"
  /\ Become(p, [load[p] EXCEPT !.stage = "hashed", !.tree = tree,
                               !.late = load[p].tree # tree])
  /\ UNCHANGED <<tree, config, cache, usage, clock, pinned, loads, changes>>

\* ... and the time of the check taken.
Check(p) ==
  /\ load[p].stage = "hashed"
  /\ Become(p, [load[p] EXCEPT !.stage = "checked", !.at = clock])
  /\ clock' = clock + 1
  /\ UNCHANGED <<tree, config, cache, usage, pinned, loads, changes>>

-----------------------------------------------------------------------------
(* The usage ledger of the task, and the policy                            *)

\* usageId
UsageId(r) == <<r.entry, r.files, Hash[r.tree]>>

\* Mutant: what has been recorded is not recorded again.
WithKept(records, r) ==
  IF \E old \in records : UsageId(old) = UsageId(r) THEN records ELSE records \cup {r}

\* A later record with the identifier of an earlier one replaces it.
With(records, r) == { old \in records : UsageId(old) # UsageId(r) } \cup {r}

\* createContextUsageRecord
NewRecord(l) ==
  [entry |-> l.entry, files |-> l.files, tree |-> l.tree, at |-> l.at, late |-> l.late]

\* recordContextUsage, under the lock of the ledger
RecordUsage(p) ==
  /\ load[p].stage = "checked"
  /\ usage' = With(usage, NewRecord(load[p]))
  /\ Become(p, Idle)
  /\ UNCHANGED <<tree, config, cache, clock, pinned, loads, changes>>

\* The key of latestUsage: the source and the identifier of the entry.
Key(e) == <<e.source, e.document.name, e.renamed>>

\* latestUsage: of the records of an entry the one that was checked last.
Latest(records) ==
  { r \in records : \A s \in records : Key(s.entry) = Key(r.entry) => s.at <= r.at }

\* Mutant: the hash of the tree the files were fetched for is not compared.
AcceptedAnyTree(r) == TRUE

\* contextStaleReasons: a fetch records nothing that is stale when it is made.
Accepted(r) == Hash[r.tree] = Hash[tree]

\* assessExternalContextPolicy
Passed == { r \in Latest(usage) : Accepted(r) }
Blocked == { r \in Latest(usage) : ~Accepted(r) }

-----------------------------------------------------------------------------
(* The others                                                              *)

\* The repository changes: by edits, a commit, a pull or a checkout.
Edit(t) ==
  /\ changes < MaxChanges /\ t # tree
  /\ tree' = t /\ changes' = changes + 1
  /\ UNCHANGED <<config, cache, usage, clock, load, pinned, loads>>

Configure(c) ==
  /\ changes < MaxChanges /\ c # config
  /\ config' = c /\ changes' = changes + 1
  /\ UNCHANGED <<tree, cache, usage, clock, load, pinned, loads>>

\* A process ends, or a request does with an error.
Stop(p) ==
  /\ load[p].stage # "idle"
  /\ Become(p, Idle)
  /\ UNCHANGED <<tree, config, cache, usage, clock, pinned, loads, changes>>

Work(p) ==
  \/ Begin(p) \/ LoadCopy(p) \/ Request(p) \/ Respond(p) \/ Store(p) \/ Merge(p)
  \/ \E s \in Local : LoadLocal(p, s)
  \/ Answer(p) \/ ReadFiles(p) \/ HashTree(p) \/ Check(p) \/ RecordUsage(p)

Next ==
  \/ \E p \in Process : Work(p) \/ Stop(p)
  \/ \E t \in Tree : Edit(t)
  \/ \E c \in Config : Configure(c)

Spec == Init /\ [][Next]_vars

-----------------------------------------------------------------------------

TypeOK ==
  /\ tree \in Tree
  /\ config \in Config
  /\ cache \in {Nil, Invalid} \cup CacheFile
  /\ usage \subseteq Record
  /\ load \in [Process -> Load]
  /\ \A p \in Process : load[p].fetched # Nil <=> load[p].stage = "storing"
  /\ pinned \subseteq Location \X RemotePack

ServedPacksWerePinned(p) ==
  \A pack \in load[p].packs :
    pack[1] = Remote => <<load[p].config.location, pack[2]>> \in pinned

CopyIsServed(p) == load[p].copy # Nil => Remote \notin load[p].failed

(***************************************************************************)
(* What is served for the remote source came from the location in the       *)
(* configuration of the load and matched the pin when it was fetched: never *)
(* a copy of another location or a response that was refused.  A source of  *)
(* which there was a copy when its turn came is served, whether the request *)
(* fails, its answer is refused or the cache file was replaced or damaged   *)
(* meanwhile.                                                               *)
(***************************************************************************)
RemoteIsServedSafely == \A p \in Process : ServedPacksWerePinned(p) /\ CopyIsServed(p)

(***************************************************************************)
(* Context that the policy passes is that of the present working tree, as   *)
(* long as HEAD is where it was: the files that were handed out have the    *)
(* contents they have in it, although they were loaded, read and recorded   *)
(* at different times.  Excepted is a change between the reading of the     *)
(* files and the hash; and when HEAD is at another commit, outdated context *)
(* may pass, as the fingerprint may be the same.                            *)
(***************************************************************************)
FreshContextIsCurrent ==
  \A r \in Passed : ~r.late /\ Head[r.tree] = Head[tree] =>
    /\ LocalPack[r.entry.source][tree] # Invalid
    /\ \E d \in LocalPack[r.entry.source][tree] :
         d.name = r.entry.document.name /\ Verified(d, r.files, r.entry)

(***************************************************************************)
(* Fetching again is the way out of a blocked policy: a record made for the *)
(* present hash, by the last check of its entry, is passed, whatever was    *)
(* recorded before and in whatever order.                                   *)
(***************************************************************************)
RefetchUnblocks ==
  [][ \A p \in Process :
        /\ RecordUsage(p) /\ Hash[load[p].tree] = Hash[tree]
        /\ \A r \in usage : Key(r.entry) = Key(load[p].entry) => r.at < load[p].at
        => \A r \in Blocked' : Key(r.entry) # Key(load[p].entry) ]_vars
=============================================================================
