------------------------- MODULE PluginRuntimeProofs -------------------------
(***************************************************************************)
(* Theorems of PluginRuntime for any number of sessions, of edits and of   *)
(* moves of HEAD: what the plugin hands out is not older than the load it  *)
(* answers, and edits it was told of are not forgotten.                    *)
(***************************************************************************)
EXTENDS PluginRuntime, TLAPS

(***************************************************************************)
(* The inductive invariant.  A mark that was taken of an earlier tree,     *)
(* with HEAD where it still is, has another fingerprint than the present   *)
(* one: an edit makes one that is newer than all before.  What is indexed  *)
(* or kept was read after the mark it goes with was taken.                 *)
(***************************************************************************)
Fits(m, t, c, h) ==
    /\ m.hash <= t /\ m.tree <= t /\ m.head <= h
    /\ m.hash = c /\ m.head = h => m.tree = t

SharedFits ==
    shared # None =>
        /\ Fits(shared.mark, tree, changes, head)
        /\ IsIndexed(shared.build) => shared.build.context.read >= shared.mark.tree

MemoryFits ==
    memory # None =>
        /\ Fits(memory.mark, tree, changes, head)
        /\ memory.context.read >= memory.mark.tree

BuildInv ==
    /\ BuildTypeOK
    /\ changes <= tree
    /\ SharedFits
    /\ MemoryFits

(* While a verification runs, another that ended before does not count. *)
EditsInv ==
    /\ reported <= tree
    /\ \/ dirty
       \/ verifying # None /\ verifying.begun >= reported
       \/ verifying = None /\ ended >= reported

RuntimeInv ==
    /\ stateFile \in StateFiles
    /\ chosen \subseteq Sessions
    /\ dirty \in BOOLEAN /\ debounced \in BOOLEAN /\ timer \in BOOLEAN
    /\ reported \in Trees \cup {NoTree} /\ ended \in Trees \cup {NoTree}
    /\ ~(timer /\ ReadyRunning)

Inv == BuildInv /\ RuntimeInv /\ EditsInv

Kinds == [stage: {"assess", "write"}, mark: Mark, build: Build]

LEMMA TreesFacts ==
    /\ 1 \in Trees
    /\ \A t \in Trees : t \in Int /\ t >= 1 /\ t <= MaxTree
    /\ \A t \in Int : t >= 1 /\ t <= MaxTree => t \in Trees
    /\ MaxTree \in Int /\ MaxMoves \in Int
BY MaxTreeAssumption DEF Trees

LEMMA InvTypeOK == Inv => TypeOK
BY DEF Inv, BuildInv, RuntimeInv, TypeOK

LEMMA InitInv == Init => Inv
<1> SUFFICES ASSUME Init PROVE Inv
    OBVIOUS
<1>1. BuildTypeOK
    BY TreesFacts, MaxTreeAssumption DEF Init, BuildInit, BuildTypeOK
<1>2. changes <= tree /\ SharedFits /\ MemoryFits
    BY DEF Init, BuildInit, SharedFits, MemoryFits
<1>3. RuntimeInv
    BY DEF Init, BuildInit, RuntimeInv, ReadyRunning
<1>4. EditsInv
    BY DEF Init, BuildInit, EditsInv, NoTree
<1> QED
    BY <1>1, <1>2, <1>3, <1>4 DEF Inv, BuildInv

\* What the invariant is for, (1): with HEAD where it was, the fingerprint tells.
LEMMA KeptIsOfThisTree == BuildInv => ServedContextIsCurrent
<1> SUFFICES ASSUME BuildInv, memory # None
             PROVE  /\ memory.context.read >= memory.mark.tree
                    /\ KeptIsCurrent /\ memory.mark.head = head => memory.context.read >= tree
    BY DEF ServedContextIsCurrent
<1> QED
    BY DEF BuildInv, MemoryFits, Fits, KeptIsCurrent, Fingerprint

\* and (2): whatever runs or has ended began after the latest report.
LEMMA NotForgotten == EditsInv => EditsAreNotForgotten
BY DEF EditsInv, EditsAreNotForgotten

------------------------------------------------------------------------------
(* Builds                                                                  *)

\* What a build has made of the tree was read now.
LEMMA BuiltNow ==
    ASSUME tree \in Trees, NEW build \in Build, NEW context \in BuiltBy(build)
    PROVE  context \in Contexts /\ context.read = tree
<1>1. PICK listing \in Listings(build) : context = Indexed(listing)
    BY DEF BuiltBy
<1>2. build.begun \in Trees
    BY DEF Build
<1>3. listing \in Trees /\ listing <= tree
    BY <1>1, <1>2, TreesFacts DEF Listings
<1> QED
    BY <1>1, <1>3 DEF Indexed, Contexts

LEMMA OpenBuildFacts ==
    ASSUME tree \in Trees
    PROVE  OpenBuild \in Build /\ OpenBuild.begun = tree /\ ~IsIndexed(OpenBuild)
BY DEF OpenBuild, Build, IsIndexed

\* A mark that is taken now fits, and goes on doing so when the files change:
\* an edit makes a new fingerprint, and a move of HEAD is one more move.
LEMMA MarkTaken ==
    ASSUME BuildTypeOK, changes <= tree
    PROVE  Taken \in Mark /\ Fits(Taken, tree, changes, head)
BY TreesFacts DEF BuildTypeOK, Taken, Mark, Fits, Fingerprint

FilesMove ==
    \/ \E t \in {tree, tree + 1} \cap Trees : EditTo(t)
    \/ /\ head < MaxMoves /\ head' = head + 1
       /\ tree' \in {tree, tree + 1} \cap Trees
       /\ changes' \in 1..tree
       /\ added' \in {added, added \cup ({tree'} \ {tree})}
    \/ UNCHANGED repository

LEMMA FilesMoveFacts ==
    ASSUME BuildTypeOK, changes <= tree, FilesMove
    PROVE  /\ tree' \in Trees /\ changes' \in Trees
           /\ added' \subseteq Trees /\ head' \in 0..MaxMoves
           /\ tree <= tree' /\ changes' <= tree'
           /\ \A m \in Mark : Fits(m, tree, changes, head) => Fits(m, tree', changes', head')
<1>1. /\ tree \in Trees /\ changes \in Trees /\ tree \in Int /\ changes \in Int /\ head \in Int
      /\ tree <= MaxTree /\ MaxTree \in Int
      /\ head >= 0 /\ head <= MaxMoves /\ MaxMoves \in Int /\ added \subseteq Trees
    BY TreesFacts DEF BuildTypeOK
<1>2. \A m \in Mark : m.hash \in Int /\ m.tree \in Int /\ m.head \in Int
    BY TreesFacts DEF Mark
<1>3. CASE \E t \in {tree, tree + 1} \cap Trees : EditTo(t)
    <2>1. PICK t \in {tree, tree + 1} \cap Trees : EditTo(t)
        BY <1>3
    <2>2. /\ tree' = t /\ changes' = IF t = tree THEN changes ELSE t
          /\ added' \in {added, added \cup ({t} \ {tree})} /\ head' = head
        BY <2>1 DEF EditTo
    <2>3. /\ tree' \in Trees /\ changes' \in Trees /\ tree <= tree' /\ changes' <= tree'
          /\ added' \subseteq Trees /\ head' \in 0..MaxMoves
        BY <1>1, <2>2
    <2>4. ASSUME NEW m \in Mark, Fits(m, tree, changes, head)
          PROVE  Fits(m, tree', changes', head')
        BY <1>1, <1>2, <2>2, <2>4 DEF Fits
    <2> QED
        BY <2>3, <2>4
<1>4. CASE /\ head < MaxMoves /\ head' = head + 1
           /\ tree' \in {tree, tree + 1} \cap Trees
           /\ changes' \in 1..tree
           /\ added' \in {added, added \cup ({tree'} \ {tree})}
    <2>1. tree' \in Trees /\ tree' \in Int /\ tree <= tree' /\ added' \subseteq Trees
        BY <1>1, <1>4
    <2>2. changes' \in Int /\ changes' >= 1 /\ changes' <= tree
        BY <1>1, <1>4
    <2>3. changes' \in Trees /\ changes' <= tree'
        BY <1>1, <2>1, <2>2, TreesFacts
    <2>4. head' \in 0..MaxMoves
        BY <1>1, <1>4
    <2>5. ASSUME NEW m \in Mark, Fits(m, tree, changes, head)
          PROVE  Fits(m, tree', changes', head')
        BY <1>1, <1>2, <1>4, <2>1, <2>5 DEF Fits
    <2> QED
        BY <2>1, <2>3, <2>4, <2>5
<1>5. CASE UNCHANGED repository
    <2>1. tree' = tree /\ changes' = changes /\ added' = added /\ head' = head
        BY <1>5 DEF repository
    <2>2. head' \in 0..MaxMoves
        BY <2>1 DEF BuildTypeOK
    <2> QED
        BY <1>1, <2>1, <2>2
<1> QED
    BY <1>3, <1>4, <1>5 DEF FilesMove

\* The parts of the invariant are kept when each variable is, or gets what fits.
LEMMA BuildInvStep ==
    ASSUME BuildInv, FilesMove,
           corrupt' = corrupt,
           manifest' \in Packages \cup {None},
           external' \in Contexts \cup {None},
           verifying' \in Build \cup {None},
           calls' \subseteq Callers,
           \/ memory' \in {memory, None}
           \/ /\ memory' \in [mark: Mark, context: Contexts]
              /\ Fits(memory'.mark, tree, changes, head)
              /\ memory'.context.read >= memory'.mark.tree,
           \/ shared' \in {shared, None}
           \/ /\ shared' \in Kinds
              /\ Fits(shared'.mark, tree, changes, head)
              /\ IsIndexed(shared'.build) => shared'.build.context.read >= shared'.mark.tree
    PROVE  BuildInv'
<1>1. /\ BuildTypeOK /\ changes <= tree
      /\ memory \in [mark: Mark, context: Contexts] \cup {None}
      /\ shared \in Kinds \cup {None} /\ corrupt \in BOOLEAN
    BY DEF BuildInv, BuildTypeOK, Kinds
<1>2. /\ tree' \in Trees /\ changes' \in Trees /\ added' \subseteq Trees /\ head' \in 0..MaxMoves
      /\ changes' <= tree'
      /\ \A m \in Mark : Fits(m, tree, changes, head) => Fits(m, tree', changes', head')
    BY <1>1, FilesMoveFacts
<1>3. memory' \in [mark: Mark, context: Contexts] \cup {None}
    BY <1>1
<1>4. shared' \in Kinds \cup {None}
    BY <1>1
<1>5. BuildTypeOK'
    BY <1>1, <1>2, <1>3, <1>4 DEF BuildTypeOK, Kinds
<1>6. ASSUME memory' # None
      PROVE  Fits(memory'.mark, tree', changes', head') /\ memory'.context.read >= memory'.mark.tree
    <2>1. memory'.mark \in Mark
        BY <1>3, <1>6
    <2>2. Fits(memory'.mark, tree, changes, head) /\ memory'.context.read >= memory'.mark.tree
        BY <1>6 DEF BuildInv, MemoryFits
    <2> QED
        BY <1>2, <2>1, <2>2
<1>7. ASSUME shared' # None
      PROVE  /\ Fits(shared'.mark, tree', changes', head')
             /\ IsIndexed(shared'.build) => shared'.build.context.read >= shared'.mark.tree
    <2>1. shared'.mark \in Mark
        BY <1>4, <1>7 DEF Kinds
    <2>2. /\ Fits(shared'.mark, tree, changes, head)
          /\ IsIndexed(shared'.build) => shared'.build.context.read >= shared'.mark.tree
        BY <1>7 DEF BuildInv, SharedFits
    <2> QED
        BY <1>2, <2>1, <2>2
<1> QED
    BY <1>2, <1>5, <1>6, <1>7 DEF BuildInv, MemoryFits, SharedFits

\* A build that cannot write the cache any more is the same build.
LEMMA OutdatedFacts ==
    ASSUME BuildInv
    PROVE  /\ SharedOutdated # None =>
                /\ SharedOutdated \in Kinds
                /\ Fits(SharedOutdated.mark, tree, changes, head)
                /\ IsIndexed(SharedOutdated.build) =>
                     SharedOutdated.build.context.read >= SharedOutdated.mark.tree
           /\ VerifyingOutdated \in Build \cup {None}
           /\ (VerifyingOutdated = None) <=> (verifying = None)
           /\ verifying # None => VerifyingOutdated.begun = verifying.begun
<1>1. ASSUME NEW b \in Build
      PROVE  /\ Outdated(b) \in Build
             /\ Outdated(b).begun = b.begun /\ Outdated(b).context = b.context
    BY DEF Outdated, Build
<1>2. ASSUME SharedOutdated # None
      PROVE  /\ SharedOutdated \in Kinds
             /\ Fits(SharedOutdated.mark, tree, changes, head)
             /\ IsIndexed(SharedOutdated.build) =>
                  SharedOutdated.build.context.read >= SharedOutdated.mark.tree
    <2>1. shared # None /\ shared \in Kinds
        BY <1>2 DEF SharedOutdated, BuildInv, BuildTypeOK, Kinds
    <2>2. SharedOutdated = [shared EXCEPT !.build = Outdated(@)]
        BY <2>1 DEF SharedOutdated
    <2>3. shared.build \in Build
        BY <2>1 DEF Kinds
    <2>4. /\ SharedOutdated \in Kinds
          /\ SharedOutdated.mark = shared.mark
          /\ SharedOutdated.build = Outdated(shared.build)
        BY <1>1, <2>1, <2>2, <2>3 DEF Kinds
    <2> QED
        BY <1>1, <2>1, <2>3, <2>4 DEF BuildInv, SharedFits, IsIndexed
<1> QED
    BY <1>1, <1>2, NoneAssumption DEF VerifyingOutdated, BuildInv, BuildTypeOK

\* A load is answered from memory, waits for the build in progress or begins one.
LEMMA LoadContextInv ==
    ASSUME BuildInv, NEW c \in Callers, LoadContext(c)
    PROVE  BuildInv' /\ tree' = tree /\ verifying' = verifying
<1>1. BuildTypeOK /\ changes <= tree
    BY DEF BuildInv
<1>2. /\ corrupt' = corrupt /\ manifest' = manifest /\ external' = external
      /\ memory' = memory /\ verifying' = verifying /\ tree' = tree /\ FilesMove
    BY DEF LoadContext, disk, repository, FilesMove
<1>3. calls' \subseteq Callers
    BY <1>1 DEF LoadContext, BuildTypeOK
<1>4. \/ shared' = shared
      \/ /\ shared' \in Kinds
         /\ Fits(shared'.mark, tree, changes, head)
         /\ ~IsIndexed(shared'.build)
    <2>1. CASE shared' = shared
        BY <2>1
    <2>2. CASE shared' # shared
        <3>1. PICK stage \in FirstStage :
                shared' = [stage |-> stage, mark |-> Taken, build |-> OpenBuild]
            BY <2>2 DEF LoadContext
        <3>2. stage \in {"assess", "write"}
            BY DEF FirstStage
        <3>3. Taken \in Mark /\ Fits(Taken, tree, changes, head)
            BY <1>1, MarkTaken
        <3>4. OpenBuild \in Build /\ ~IsIndexed(OpenBuild)
            BY <1>1, OpenBuildFacts DEF BuildTypeOK
        <3> QED
            BY <3>1, <3>2, <3>3, <3>4 DEF Kinds
    <2> QED
        BY <2>1, <2>2
<1> QED
    BY <1>1, <1>2, <1>3, <1>4, BuildInvStep DEF BuildTypeOK

\* A build that is indexed now has read what was there when its mark was taken.
LEMMA IndexSharedInv ==
    ASSUME BuildInv, IndexShared
    PROVE  BuildInv' /\ tree' = tree /\ verifying' = verifying
<1>1. BuildTypeOK /\ tree \in Trees /\ shared \in Kinds /\ shared.build \in Build
    BY DEF IndexShared, BuildInv, BuildTypeOK, Kinds
<1>2. PICK context \in BuiltBy(shared.build) : shared' = [shared EXCEPT !.build.context = context]
    BY DEF IndexShared
<1>3. context \in Contexts /\ context.read = tree
    BY <1>1, BuiltNow
<1>4. /\ corrupt' = corrupt /\ manifest' = manifest /\ external' = external /\ calls' = calls
      /\ memory' = memory /\ verifying' = verifying /\ tree' = tree /\ FilesMove
    BY DEF IndexShared, disk, repository, FilesMove
<1>5. /\ shared' \in Kinds /\ shared'.mark = shared.mark
      /\ shared'.build.context = context
    BY <1>1, <1>2, <1>3 DEF Kinds, Build
<1>6. Fits(shared.mark, tree, changes, head)
    BY DEF IndexShared, BuildInv, SharedFits
<1>7. shared'.build.context.read >= shared'.mark.tree
    BY <1>1, <1>3, <1>5, <1>6, TreesFacts DEF Fits, Kinds, Mark
<1> QED
    BY <1>1, <1>4, <1>5, <1>6, <1>7, BuildInvStep DEF BuildTypeOK

\* What is kept of a build is filed under the mark of its load.
LEMMA KeepFacts ==
    ASSUME BuildInv, shared # None, IsIndexed(shared.build), Keep(shared.build.context)
    PROVE  /\ shared.build.context \in Contexts
           /\ memory' \in [mark: Mark, context: Contexts]
           /\ Fits(memory'.mark, tree, changes, head)
           /\ memory'.context.read >= memory'.mark.tree
           /\ calls' \subseteq Callers
           /\ shared' = None
BY DEF BuildInv, BuildTypeOK, SharedFits, Build, IsIndexed, Keep

\* The first build is kept, or followed by one that writes the package,
LEMMA AssessSharedInv ==
    ASSUME BuildInv, AssessShared
    PROVE  BuildInv' /\ tree' = tree /\ verifying' = VerifyingOutdated
<1>1. BuildTypeOK /\ tree \in Trees /\ shared \in Kinds /\ shared # None /\ IsIndexed(shared.build)
    BY DEF AssessShared, BuildInv, BuildTypeOK, Kinds
<1>2. /\ corrupt' = corrupt /\ manifest' = manifest /\ external' = external
      /\ verifying' = VerifyingOutdated /\ tree' = tree /\ FilesMove
      /\ verifying' \in Build \cup {None}
    BY OutdatedFacts DEF AssessShared, disk, repository, FilesMove
<1>3. CASE IsFresh(shared.build.context)
    <2>1. Keep(shared.build.context)
        BY <1>3 DEF AssessShared
    <2> QED
        BY <1>1, <1>2, <2>1, KeepFacts, BuildInvStep DEF BuildTypeOK
<1>4. CASE ~IsFresh(shared.build.context)
    <2>1. /\ shared' = [shared EXCEPT !.stage = "write", !.build = OpenBuild]
          /\ memory' = memory /\ calls' = calls
        BY <1>4 DEF AssessShared
    <2>2. /\ shared' \in Kinds /\ shared'.mark = shared.mark /\ shared'.build = OpenBuild
          /\ ~IsIndexed(OpenBuild)
        BY <1>1, <2>1, OpenBuildFacts DEF Kinds
    <2>3. Fits(shared'.mark, tree, changes, head)
        BY <1>1, <2>2 DEF BuildInv, SharedFits
    <2> QED
        BY <1>1, <1>2, <2>1, <2>2, <2>3, BuildInvStep DEF BuildTypeOK
<1> QED
    BY <1>3, <1>4

\* whose manifest may hash a later tree than the one it has read,
LEMMA WriteSharedInv ==
    ASSUME BuildInv, WriteShared
    PROVE  BuildInv' /\ tree' >= tree /\ verifying' = VerifyingOutdated
<1>1. BuildTypeOK /\ changes <= tree /\ shared # None /\ IsIndexed(shared.build)
    BY DEF WriteShared, BuildInv
<1>2. PICK hashed \in {tree, tree + 1} \cap Trees :
        EditTo(hashed) /\ WritePackage(shared.build.context, hashed)
    BY DEF WriteShared
<1>3. Keep(shared.build.context)
    BY DEF WriteShared
<1>4. FilesMove
    BY <1>2 DEF FilesMove
<1>5. tree <= tree' /\ tree \in Int /\ tree' \in Int
    BY <1>1, <1>4, FilesMoveFacts, TreesFacts DEF BuildTypeOK
<1>6. manifest' \in Packages
    BY <1>1, <1>2, <1>3, KeepFacts DEF WritePackage, Manifest, Packages
<1>7. /\ corrupt' = corrupt /\ external' = external
      /\ verifying' = VerifyingOutdated /\ verifying' \in Build \cup {None}
    BY OutdatedFacts DEF WriteShared
<1>8. BuildInv'
    BY <1>1, <1>3, <1>4, <1>6, <1>7, KeepFacts, BuildInvStep DEF BuildTypeOK
<1> QED
    BY <1>5, <1>7, <1>8

\* or fails, and its callers with it.
LEMMA FailSharedInv ==
    ASSUME BuildInv, FailShared
    PROVE  BuildInv' /\ tree' = tree /\ verifying' = verifying
<1>1. /\ corrupt' = corrupt /\ manifest' = manifest /\ external' = external
      /\ memory' = memory /\ verifying' = verifying /\ tree' = tree /\ FilesMove
      /\ shared' = None /\ calls' = {}
    BY DEF FailShared, disk, repository, FilesMove
<1> QED
    BY <1>1, BuildInvStep DEF BuildInv, BuildTypeOK

\* The other process only outdates builds and replaces the package.
LEMMA ExternalInv ==
    ASSUME BuildInv, ExternalReads \/ ExternalWrites \/ ExternalStops
    PROVE  BuildInv' /\ tree' = tree /\ verifying' \in {verifying, VerifyingOutdated}
<1>1. BuildTypeOK /\ tree \in Trees
    BY DEF BuildInv, BuildTypeOK
<1>2. /\ corrupt' = corrupt /\ memory' = memory /\ calls' = calls /\ tree' = tree /\ FilesMove
    BY DEF ExternalReads, ExternalWrites, ExternalStops, repository, FilesMove
<1>3. external' \in Contexts \cup {None} /\ manifest' \in Packages \cup {None}
    <2>1. CASE ExternalReads
        BY <1>1, <2>1, TreesFacts DEF ExternalReads, Indexed, Contexts, BuildTypeOK
    <2>2. CASE ExternalWrites
        BY <1>1, <2>2 DEF ExternalWrites, WritePackage, Manifest, Packages, BuildTypeOK
    <2>3. CASE ExternalStops
        BY <1>1, <2>3 DEF ExternalStops, BuildTypeOK
    <2> QED
        BY <2>1, <2>2, <2>3
<1>4. shared' \in {shared, SharedOutdated} /\ verifying' \in {verifying, VerifyingOutdated}
    BY DEF ExternalReads, ExternalWrites, ExternalStops
<1>5. verifying' \in Build \cup {None}
    BY <1>1, <1>4, OutdatedFacts DEF BuildTypeOK
<1>6. \/ shared' \in {shared, None}
      \/ /\ shared' \in Kinds
         /\ Fits(shared'.mark, tree, changes, head)
         /\ IsIndexed(shared'.build) => shared'.build.context.read >= shared'.mark.tree
    BY <1>4, OutdatedFacts
<1> QED
    BY <1>1, <1>2, <1>3, <1>4, <1>5, <1>6, BuildInvStep DEF BuildTypeOK

\* Whoever changes the files or moves HEAD.
LEMMA EditInv ==
    ASSUME BuildInv, Edit \/ MoveHead
    PROVE  BuildInv' /\ tree' >= tree /\ verifying' = verifying
<1>1. BuildTypeOK /\ changes <= tree
    BY DEF BuildInv
<1>2. FilesMove
    <2>1. CASE Edit
        BY <1>1, <2>1, TreesFacts DEF Edit, FilesMove, BuildTypeOK
    <2>2. CASE MoveHead
        BY <2>2 DEF MoveHead, FilesMove
    <2> QED
        BY <2>1, <2>2
<1>3. tree <= tree' /\ tree \in Int /\ tree' \in Int
    BY <1>1, <1>2, FilesMoveFacts, TreesFacts DEF BuildTypeOK
<1>4. /\ corrupt' = corrupt /\ manifest' = manifest /\ external' = external
      /\ memory' = memory /\ verifying' = verifying /\ shared' = shared /\ calls' = calls
    BY DEF Edit, MoveHead, disk
<1>5. BuildInv'
    BY <1>1, <1>2, <1>4, BuildInvStep DEF BuildTypeOK
<1> QED
    BY <1>3, <1>4, <1>5

LEMMA BuildNextInv ==
    ASSUME BuildInv, BuildNext
    PROVE  BuildInv' /\ tree' >= tree /\ verifying' \in {verifying, VerifyingOutdated}
<1>1. tree >= tree
    BY TreesFacts DEF BuildInv, BuildTypeOK
<1> QED
    BY <1>1, IndexSharedInv, AssessSharedInv, WriteSharedInv, FailSharedInv, ExternalInv, EditInv
       DEF BuildNext

\* What a step of a build does to those who wait: they wait on, or all are answered.
LEMMA BuildNextCalls ==
    ASSUME BuildNext
    PROVE  calls' = calls \/ calls' = {}
BY DEF BuildNext, IndexShared, AssessShared, WriteShared, FailShared, Keep, ExternalReads,
    ExternalWrites, ExternalStops, Edit, MoveHead

------------------------------------------------------------------------------
(* The runtime                                                             *)

\* Steps of the runtime that leave contexts, builds and calls alone.
LEMMA QuietInv ==
    ASSUME BuildInv, UNCHANGED <<repository, disk, memory, shared, calls>>,
           verifying' \in Build \cup {None}
    PROVE  BuildInv'
BY BuildInvStep DEF disk, repository, FilesMove, BuildInv, BuildTypeOK

LEMMA ChatMessageInv ==
    ASSUME Inv, NEW s \in Sessions, NEW mode \in {"opencode++", "build"}, ChatMessage(s, mode)
    PROVE  Inv'
<1>1. BuildInv'
    BY QuietInv DEF Inv, ChatMessage, BuildInv, BuildTypeOK
<1>2. chosen' \subseteq Sessions /\ dirty' \in BOOLEAN
    BY DEF ChatMessage, Active, Inv, RuntimeInv
<1>3. timer' \in BOOLEAN /\ ~(timer' /\ ReadyRunning)
    BY DEF ChatMessage, Inv, RuntimeInv, ScheduledTimer, ClearedTimer
<1>4. RuntimeInv'
    BY <1>2, <1>3 DEF ChatMessage, Inv, RuntimeInv, ReadyRunning
<1>5. EditsInv'
    BY DEF ChatMessage, repository, Inv, EditsInv
<1> QED
    BY <1>1, <1>4, <1>5 DEF Inv

\* A verification begins with the tree as it is, after whatever was reported.
LEMMA VerifyBeginsInv ==
    ASSUME Inv, NEW s \in Sessions, VerifyBegins(s)
    PROVE  Inv'
<1>1. tree \in Trees /\ tree \in Int /\ OpenBuild \in Build /\ OpenBuild.begun = tree
    BY OpenBuildFacts, TreesFacts DEF Inv, BuildInv, BuildTypeOK
<1>2. BuildInv'
    BY <1>1, QuietInv DEF VerifyBegins, Inv
<1>3. RuntimeInv'
    BY DEF VerifyBegins, Inv, RuntimeInv, ReadyRunning
<1>4. reported \in Int
    BY TreesFacts DEF Inv, RuntimeInv, NoTree
<1>5. EditsInv'
    BY <1>1, <1>4, NoneAssumption DEF VerifyBegins, repository, Inv, EditsInv
<1> QED
    BY <1>2, <1>3, <1>5 DEF Inv

\* It ends, and what was reported meanwhile has made the repository dirty.
LEMMA VerifyEndsInv ==
    ASSUME Inv, VerifyEnds
    PROVE  Inv'
<1>1. BuildTypeOK /\ BuildInv /\ verifying \in Build /\ verifying # None
    BY DEF VerifyEnds, Inv, BuildInv, BuildTypeOK
<1>2. /\ corrupt' = corrupt /\ manifest' = manifest /\ external' = external /\ calls' = calls
      /\ memory' = memory /\ verifying' = None /\ tree' = tree /\ FilesMove
      /\ shared' \in {shared, SharedOutdated} /\ ended' = verifying.begun
      /\ reported' = reported /\ dirty' = dirty
    BY DEF VerifyEnds, disk, repository, FilesMove
<1>3. \/ shared' \in {shared, None}
      \/ /\ shared' \in Kinds
         /\ Fits(shared'.mark, tree, changes, head)
         /\ IsIndexed(shared'.build) => shared'.build.context.read >= shared'.mark.tree
    BY <1>1, <1>2, OutdatedFacts
<1>4. BuildInv'
    BY <1>1, <1>2, <1>3, BuildInvStep DEF BuildTypeOK
<1>5. ended' \in Trees
    BY <1>1, <1>2 DEF Build
<1>6. RuntimeInv'
    BY <1>5 DEF VerifyEnds, Inv, RuntimeInv, ReadyRunning
<1>7. EditsInv'
    BY <1>1, <1>2 DEF Inv, EditsInv
<1> QED
    BY <1>4, <1>6, <1>7 DEF Inv

LEMMA EditEventInv ==
    ASSUME Inv, NEW s \in Sessions, EditEvent(s)
    PROVE  Inv'
<1>1. BuildInv'
    BY QuietInv DEF Inv, EditEvent, BuildInv, BuildTypeOK
<1>2. tree \in Trees /\ tree \in Int
    BY TreesFacts DEF Inv, BuildInv, BuildTypeOK
<1>3. RuntimeInv'
    BY <1>2 DEF EditEvent, Inv, RuntimeInv, ReadyRunning
<1>4. EditsInv'
    BY <1>2 DEF EditEvent, repository, EditsInv
<1> QED
    BY <1>1, <1>3, <1>4 DEF Inv

\* The timer has gone when the ready build calls; a tool is another caller.
LEMMA CallersInv ==
    ASSUME Inv, ReadyBuild \/ \E s \in Sessions : HarnessTool(s)
    PROVE  Inv'
<1>1. ReadyCaller \in Callers /\ ToolCaller \in Callers /\ ReadyCaller # ToolCaller
    BY CallersAssumption
<1>2. PICK c \in Callers :
        /\ LoadContext(c)
        /\ UNCHANGED <<stateFile, chosen, dirty, debounced, reported, ended>>
        /\ \/ timer' = FALSE
           \/ timer' = timer /\ c = ToolCaller
    BY <1>1 DEF ReadyBuild, HarnessTool, runtimeVars
<1>3. BuildInv' /\ tree' = tree /\ verifying' = verifying
    BY <1>2, LoadContextInv DEF Inv
<1>4. calls' \in {calls, calls \cup {c}}
    BY <1>2 DEF LoadContext
<1>5. timer' \in BOOLEAN /\ ~(timer' /\ ReadyCaller \in calls')
    <2>1. CASE timer' = FALSE
        BY <2>1
    <2>2. CASE timer' = timer /\ c = ToolCaller
        <3>1. timer \in BOOLEAN /\ ~(timer /\ ReadyCaller \in calls)
            BY DEF Inv, RuntimeInv, ReadyRunning
        <3>2. ReadyCaller \in calls' => ReadyCaller \in calls
            BY <1>1, <1>4, <2>2
        <3> QED
            BY <2>2, <3>1, <3>2
    <2> QED
        BY <1>2, <2>1, <2>2
<1>6. RuntimeInv'
    BY <1>2, <1>5 DEF Inv, RuntimeInv, ReadyRunning
<1>7. EditsInv'
    BY <1>2, <1>3 DEF Inv, EditsInv
<1> QED
    BY <1>3, <1>6, <1>7 DEF Inv

LEMMA ToolsInv ==
    ASSUME Inv, DebounceEnds \/ EnableTool \/ DisableTool \/ ExternalToggle
    PROVE  Inv'
<1>1. BuildInv'
    BY QuietInv DEF Inv, DebounceEnds, EnableTool, DisableTool, ExternalToggle, BuildInv, BuildTypeOK
<1>2. stateFile' \in StateFiles
    BY DEF DebounceEnds, EnableTool, DisableTool, ExternalToggle, Written, Inv, RuntimeInv,
        StateFiles
<1>3. UNCHANGED <<tree, calls, verifying, dirty, reported, ended>>
    BY DEF DebounceEnds, EnableTool, DisableTool, ExternalToggle, repository
<1>4. chosen' \subseteq Sessions /\ debounced' \in BOOLEAN
    BY DEF DebounceEnds, EnableTool, DisableTool, ExternalToggle, Inv, RuntimeInv
<1>5. timer' = timer \/ timer' = FALSE
    BY DEF DebounceEnds, EnableTool, DisableTool, ExternalToggle, ClearedTimer
<1>6. timer' \in BOOLEAN /\ ~(timer' /\ ReadyRunning')
    <2>1. CASE timer' = timer
        BY <1>3, <2>1 DEF Inv, RuntimeInv, ReadyRunning
    <2>2. CASE timer' = FALSE
        BY <2>2
    <2> QED
        BY <1>5, <2>1, <2>2
<1>7. RuntimeInv'
    BY <1>2, <1>3, <1>4, <1>6 DEF Inv, RuntimeInv
<1>8. EditsInv'
    BY <1>3 DEF Inv, EditsInv
<1> QED
    BY <1>1, <1>7, <1>8 DEF Inv

LEMMA RestartInv ==
    ASSUME Inv, Restart
    PROVE  Inv'
<1>1. BuildInv'
    BY BuildInvStep DEF Restart, disk, repository, FilesMove, Inv, BuildInv, BuildTypeOK
<1>2. RuntimeInv'
    BY DEF Restart, Inv, RuntimeInv, ReadyRunning
<1>3. EditsInv'
    BY TreesFacts DEF Restart, repository, Inv, EditsInv, NoTree, BuildInv, BuildTypeOK
<1> QED
    BY <1>1, <1>2, <1>3 DEF Inv

LEMMA BuildStepInv ==
    ASSUME Inv, BuildNext, UNCHANGED runtimeVars
    PROVE  Inv'
<1>1. BuildInv' /\ tree' >= tree /\ verifying' \in {verifying, VerifyingOutdated}
    BY BuildNextInv DEF Inv
<1>2. RuntimeInv'
    BY BuildNextCalls DEF runtimeVars, Inv, RuntimeInv, ReadyRunning
<1>3. tree \in Int /\ tree' \in Int /\ reported \in Int
    BY <1>1, TreesFacts DEF Inv, BuildInv, BuildTypeOK, RuntimeInv, NoTree
<1>4. /\ (verifying' = None) <=> (verifying = None)
      /\ verifying # None => verifying'.begun = verifying.begun
    BY <1>1, OutdatedFacts DEF Inv
<1>5. EditsInv'
    BY <1>1, <1>3, <1>4 DEF runtimeVars, Inv, EditsInv
<1> QED
    BY <1>1, <1>2, <1>5 DEF Inv

LEMMA StutterInv ==
    ASSUME Inv, UNCHANGED vars
    PROVE  Inv'
<1>1. BuildInv'
    BY QuietInv DEF vars, buildVars, kept, Inv, BuildInv, BuildTypeOK
<1>2. RuntimeInv' /\ EditsInv'
    BY DEF vars, buildVars, runtimeVars, repository, kept, Inv, RuntimeInv, ReadyRunning, EditsInv
<1> QED
    BY <1>1, <1>2 DEF Inv

LEMMA NextInv ==
    ASSUME Inv, [Next]_vars
    PROVE  Inv'
BY ChatMessageInv, EditEventInv, VerifyBeginsInv, VerifyEndsInv, CallersInv, ToolsInv,
    RestartInv, BuildStepInv, StutterInv DEF Next

------------------------------------------------------------------------------
(* Theorems                                                                *)

\* The invariant holds of every behaviour of the plugin's runtime.
THEOREM Invariance == Spec => []Inv
<1>1. Init => Inv
    BY InitInv
<1>2. Inv /\ [Next]_vars => Inv'
    BY NextInv
<1> QED
    BY <1>1, <1>2, PTL DEF Spec

\* The variables have their types, and the ready build never runs next to its timer
\* (ready-build.ts: schedule and cancel).
THEOREM TypeCorrect == Spec => []TypeOK
<1> QED
    BY InvTypeOK, Invariance, PTL

\* The context that loadPluginHarnessContext keeps was read after the load it is
\* filed for began, and while HEAD stays where it was then it is handed out only
\* for the tree it was read of (harness/context.ts).
THEOREM ServedIsCurrent == Spec => []ServedContextIsCurrent
<1>1. Inv => ServedContextIsCurrent
    BY KeptIsOfThisTree DEF Inv
<1> QED
    BY <1>1, Invariance, PTL

\* An edit the plugin was told of keeps the repository dirty until a verification
\* has begun after it, whatever overlaps with that one (idle-verify.ts).
THEOREM EditsKept == Spec => []EditsAreNotForgotten
<1>1. Inv => EditsAreNotForgotten
    BY NotForgotten DEF Inv
<1> QED
    BY <1>1, Invariance, PTL
==============================================================================
