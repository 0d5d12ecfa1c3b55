---------------------------- MODULE ContextBuilds ----------------------------
(***************************************************************************)
(* How contexts of a repository are built and kept.  A build opens the     *)
(* incremental cache, lists the files while it waits, reads and indexes    *)
(* them in one go, waits for a summary, writes the cache back and, when    *)
(* asked to, writes the generated package with its manifest.  Three        *)
(* builders share cache and package: loadPluginHarnessContext, which keeps *)
(* the last context in memory and lets concurrent callers share one build, *)
(* the idle verification of the same process, and a build command of       *)
(* another one.                                                            *)
(*                                                                         *)
(* The contents of the repository are a version number: every edit makes   *)
(* a tree that has not been there before, and uncommitted changes that     *)
(* have not been there before.  When HEAD moves, by a commit, a pull or a  *)
(* checkout, the uncommitted changes may be any that were there already,   *)
(* none among them, in the same tree or in a new one.                      *)
(***************************************************************************)
EXTENDS Integers

CONSTANTS
    Callers,    \* whoever calls loadPluginHarnessContext in the plugin
    MaxTree,    \* bound: the number of versions of the tree
    MaxMoves,   \* bound: how often HEAD moves
    None        \* no build, no package, no context

ASSUME MaxTreeAssumption == MaxTree \in Nat \ {0} /\ MaxMoves \in Nat

VARIABLES
    tree,       \* version of the repository's files
    changes,    \* the uncommitted changes, if any: the version that had them first
    added,      \* versions that differ from the one before by new files only
    head,       \* ghost: how often HEAD has moved
    corrupt,    \* a file of the incremental cache on disk cannot be parsed
    manifest,   \* manifest.json: what the package was made of
    external,   \* the build command of another process
    memory,     \* contextCache: the last context with the hash it is filed under
    shared,     \* contextBuilds: the build that concurrent callers share
    calls,      \* callers of loadPluginHarnessContext that wait for it
    verifying   \* the build of the idle verification in progress

repository == <<tree, changes, added, head>>
disk == <<corrupt, manifest, external>>
kept == <<memory, shared, calls>>
buildVars == <<repository, disk, kept, verifying>>

Trees == 1..MaxTree

(* A context: the versions that were listed and read for it. *)
Contexts == {c \in [listed: Trees, read: Trees] : c.listed <= c.read}

(* A build in progress, with its context once it has indexed the files.    *)
(* "current": nobody has written the cache since it was opened, so its     *)
(* revisions are still those on disk.                                      *)
Build == [begun: Trees, current: BOOLEAN, context: Contexts \cup {None}]

ASSUME NoneAssumption == None \notin Build

(* What a fingerprint was taken of; "tree" and "head" are ghosts. *)
Mark == [hash: Trees, tree: Trees, head: 0..MaxMoves]

Packages == [context: Contexts, source: Trees]

BuildTypeOK ==
    /\ tree \in Trees /\ changes \in Trees
    /\ added \subseteq Trees /\ head \in 0..MaxMoves
    /\ corrupt \in BOOLEAN
    /\ manifest \in Packages \cup {None}
    /\ external \in Contexts \cup {None}
    /\ memory \in [mark: Mark, context: Contexts] \cup {None}
    /\ shared \in [stage: {"assess", "write"}, mark: Mark, build: Build] \cup {None}
    /\ calls \subseteq Callers
    /\ verifying \in Build \cup {None}

BuildInit ==
    /\ tree = 1 /\ changes = 1 /\ added = {} /\ head = 0
    /\ corrupt \in BOOLEAN
    /\ manifest = None
    /\ external = None
    /\ memory = None /\ shared = None
    /\ calls = {}
    /\ verifying = None

------------------------------------------------------------------------------
(* One build                                                               *)

OpenBuild == [begun |-> tree, current |-> TRUE, context |-> None]

(* The files are listed at some moment of the wait ... *)
Listings(build) == build.begun..tree

(* ... and read and indexed after it, in one go.  Then the build waits     *)
(* once more, for a summary, which a language model may be asked for.      *)
Indexed(listing) == [listed |-> listing, read |-> tree]

BuiltBy(build) == {Indexed(listing) : listing \in Listings(build)}

IsIndexed(build) == build.context # None

(* The cache is written with the revisions it was opened with: it throws,  *)
(* and the build with it, when another build has written it meanwhile or   *)
(* when what is on disk cannot be parsed.                                  *)
CanFlush(build) == build.current /\ ~corrupt

Outdated(build) == [build EXCEPT !.current = FALSE]

(* What becomes of the other builds when one writes the cache. *)
SharedOutdated == IF shared = None THEN None ELSE [shared EXCEPT !.build = Outdated(@)]

VerifyingOutdated == IF verifying = None THEN None ELSE Outdated(verifying)

(* The diff against HEAD and the untracked files: nothing tells of HEAD. *)
Fingerprint == changes

Taken == [hash |-> Fingerprint, tree |-> tree, head |-> head]

(* The versions that lie between two. *)
Since(a, b) == {v \in Trees : (a < v /\ v <= b) \/ (b < v /\ v <= a)}

SameFiles(a, b) == Since(a, b) \cap added = {}

(* The contents of files that are known already. *)
SameContents(a, b) == Since(a, b) \subseteq added

(* The listed files are hashed again, as they are now: one that came later *)
(* is not seen.                                                            *)
SameSource(context) ==
    SameFiles(manifest.context.listed, context.listed) /\ SameContents(manifest.source, tree)

(* Index, graph, contracts and task packs are those of the context. *)
SameIndex(context) ==
    /\ SameFiles(manifest.context.listed, context.listed)
    /\ SameContents(manifest.context.read, context.read)

IsFresh(context) == manifest # None /\ SameSource(context) /\ SameIndex(context)

(* The manifest is written last, with the sources hashed at that moment. *)
Manifest(context, source) == [context |-> context, source |-> source]

WritePackage(context, source) == manifest' = Manifest(context, source)

------------------------------------------------------------------------------
(* loadPluginHarnessContext                                                *)

\* Mutant: the hash the context is filed under is not looked at.
KeptIsFresh == memory # None /\ IsFresh(memory.context)

KeptIsCurrent == memory # None /\ memory.mark.hash = Fingerprint /\ IsFresh(memory.context)

(* What is on disk already is assessed first. *)
FirstStage == IF manifest = None THEN {"assess", "write"} ELSE {"assess"}

(* The kept context is handed out when the fingerprint is the one it is    *)
(* filed under and it is fresh; otherwise the caller waits for the build   *)
(* in progress, however far that is, or for its own, filed under the       *)
(* fingerprint as it is now.                                               *)
LoadContext(c) ==
    /\ c \notin calls
    /\ IF KeptIsCurrent
       THEN UNCHANGED <<calls, shared>>
       ELSE /\ calls' = calls \cup {c}
            /\ IF shared = None
               THEN \E stage \in FirstStage :
                      shared' = [stage |-> stage, mark |-> Taken, build |-> OpenBuild]
               ELSE UNCHANGED shared
    /\ UNCHANGED <<repository, disk, memory, verifying>>

IndexShared ==
    /\ shared # None /\ ~IsIndexed(shared.build)
    /\ \E context \in BuiltBy(shared.build) : shared' = [shared EXCEPT !.build.context = context]
    /\ UNCHANGED <<repository, disk, memory, calls, verifying>>

(* All who wait are handed the context that is kept. *)
Keep(context) ==
    /\ memory' = [mark |-> shared.mark, context |-> context]
    /\ calls' = {}
    /\ shared' = None

(* The first build of a load: kept as it is when the package on disk is    *)
(* that of the same context, and otherwise built again, to be written.     *)
AssessShared ==
    /\ shared # None /\ shared.stage = "assess"
    /\ IsIndexed(shared.build) /\ CanFlush(shared.build)
    /\ IF IsFresh(shared.build.context)
       THEN Keep(shared.build.context)
       ELSE /\ shared' = [shared EXCEPT !.stage = "write", !.build = OpenBuild]
            /\ UNCHANGED <<memory, calls>>
    /\ verifying' = VerifyingOutdated
    /\ UNCHANGED <<repository, disk>>

(* Someone saves files, or adds some, unless t is the tree that is there.  *)
EditTo(t) ==
    /\ tree' = t
    /\ changes' = IF t = tree THEN changes ELSE t
    /\ added' \in {added, added \cup ({t} \ {tree})}
    /\ UNCHANGED head

(* The second one writes the package.  The manifest hashes the files again *)
(* at the end: an edit of another process may come in between.             *)
WriteShared ==
    /\ shared # None /\ shared.stage = "write"
    /\ IsIndexed(shared.build) /\ CanFlush(shared.build)
    /\ \E hashed \in {tree, tree + 1} \cap Trees :
          /\ EditTo(hashed)
          /\ WritePackage(shared.build.context, hashed)
    /\ Keep(shared.build.context)
    /\ verifying' = VerifyingOutdated
    /\ UNCHANGED <<corrupt, external>>

(* The cache cannot be written: every caller of the build gets the error.  *)
FailShared ==
    /\ shared # None /\ IsIndexed(shared.build) /\ ~CanFlush(shared.build)
    /\ shared' = None
    /\ calls' = {}
    /\ UNCHANGED <<repository, disk, memory, verifying>>

------------------------------------------------------------------------------
(* A build command of another process.  It opens the cache, reads the tree *)
(* and writes the cache in one step (that it may fail at that itself is of *)
(* no consequence here), and later writes the package; it may stop before. *)
ExternalReads ==
    /\ external = None /\ ~corrupt
    /\ external' = Indexed(tree)
    /\ verifying' = VerifyingOutdated
    /\ shared' = SharedOutdated
    /\ UNCHANGED <<repository, corrupt, manifest, memory, calls>>

ExternalWrites ==
    /\ external # None
    /\ WritePackage(external, tree)
    /\ external' = None
    /\ UNCHANGED <<repository, corrupt, memory, shared, calls, verifying>>

ExternalStops ==
    /\ external # None
    /\ external' = None
    /\ UNCHANGED <<repository, corrupt, manifest, memory, shared, calls, verifying>>

------------------------------------------------------------------------------
(* Someone edits the repository, *)
Edit ==
    /\ tree < MaxTree
    /\ EditTo(tree + 1)
    /\ UNCHANGED <<disk, memory, shared, calls, verifying>>

(* or commits, pulls or checks out. *)
MoveHead ==
    /\ head < MaxMoves
    /\ head' = head + 1
    /\ tree' \in {tree, tree + 1} \cap Trees
    /\ changes' \in 1..tree
    /\ added' \in {added, added \cup ({tree'} \ {tree})}
    /\ UNCHANGED <<disk, memory, shared, calls, verifying>>

BuildNext ==
    \/ IndexShared \/ AssessShared \/ WriteShared \/ FailShared
    \/ ExternalReads \/ ExternalWrites \/ ExternalStops
    \/ Edit \/ MoveHead

------------------------------------------------------------------------------
(* What loadPluginHarnessContext gives its callers is not older than the   *)
(* load that answers them.  Those who waited for a build are given what    *)
(* was read after it began, and whoever is given the kept context at once  *)
(* is given what was read of the tree as it is: an edit saved during a     *)
(* build, the package of another process and a manifest that hashed a      *)
(* later tree than the one that was indexed never bring an outdated        *)
(* context back (harness/context.ts, assessFreshness).  Only when HEAD has *)
(* moved since the context was filed may they: its fingerprint does not    *)
(* tell.                                                                   *)
ServedContextIsCurrent ==
    memory # None =>
        /\ memory.context.read >= memory.mark.tree
        /\ KeptIsCurrent /\ memory.mark.head = head => memory.context.read >= tree

==============================================================================
