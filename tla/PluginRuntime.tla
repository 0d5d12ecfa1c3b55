---------------------------- MODULE PluginRuntime ----------------------------
(***************************************************************************)
(* The plugin inside an OpenCode process: the hooks for messages, edits    *)
(* and idle sessions, the idle verification with its dirty flag and its    *)
(* debounce, the ready build behind a timer, the enabled flag in a state   *)
(* file that other processes write too, and the tools that need a context. *)
(* The process is single-threaded: every action runs from one await to the *)
(* next.                                                                   *)
(***************************************************************************)
EXTENDS ContextBuilds

CONSTANTS
    Sessions,       \* OpenCode sessions
    ReadyCaller,    \* the ready build, as a caller of loadPluginHarnessContext
    ToolCaller      \* a tool of the harness, likewise

ASSUME CallersAssumption == Callers = {ReadyCaller, ToolCaller} /\ ReadyCaller # ToolCaller

VARIABLES
    stateFile,  \* the plugin's state file
    chosen,     \* sessionAgents: sessions whose latest message chose OpenCode++
    dirty,      \* idle verifier: something changed since a verification began
    debounced,  \* idle verifier: the latest verification ended a moment ago
    timer,      \* the timer of the ready build runs
    reported,   \* latest tree an edit event has told this process about
    ended       \* tree at the start of this process's latest verification that ended,
                \* with a report in sidecar/latest.json or an error in the event log

runtimeVars == <<stateFile, chosen, dirty, debounced, timer, reported, ended>>
vars == <<buildVars, runtimeVars>>

NoTree == 0

StateFiles == {"enabled", "disabled", "corrupt"}

(* Only a file that says so disables the plugin: one that is missing or    *)
(* cannot be parsed leaves it on.                                          *)
enabled == stateFile # "disabled"

Active(s) == enabled /\ s \in chosen

ReadyRunning == ReadyCaller \in calls

(* One type invariant; its last line: the ready build is behind its timer  *)
(* or runs, never both.                                                    *)
TypeOK ==
    /\ BuildTypeOK
    /\ stateFile \in StateFiles
    /\ chosen \subseteq Sessions
    /\ dirty \in BOOLEAN /\ debounced \in BOOLEAN /\ timer \in BOOLEAN
    /\ {reported, ended} \subseteq Trees \cup {NoTree}
    /\ ~(timer /\ ReadyRunning)

Init ==
    /\ BuildInit
    /\ stateFile \in StateFiles
    /\ chosen = {}
    /\ dirty = FALSE /\ debounced = FALSE /\ timer = FALSE
    /\ reported = NoTree /\ ended = NoTree

------------------------------------------------------------------------------
(* Hooks                                                                   *)

(* The timer is cleared when the last session leaves OpenCode++. *)
ClearedTimer == FALSE

\* Mutant: the timer is started whether or not the ready build runs.
ScheduledTimerAnyway == TRUE

(* A timer is not started while the ready build runs. *)
ScheduledTimer == timer \/ ~ReadyRunning

(* A message chooses the agent of its session.  Entering OpenCode++ marks  *)
(* the repository dirty and schedules the ready build; when the last       *)
(* session leaves, the timer is cleared.                                   *)
ChatMessage(s, mode) ==
    LET now == IF mode = "opencode++" THEN chosen \cup {s} ELSE chosen \ {s}
        isActive == enabled /\ s \in now
    IN  /\ chosen' = now
        /\ dirty' = (dirty \/ (isActive /\ ~Active(s)))
        /\ timer' = CASE isActive /\ ~Active(s) -> ScheduledTimer
                      [] Active(s) /\ ~isActive /\ now = {} -> ClearedTimer
                      [] OTHER -> timer
        /\ UNCHANGED <<repository, disk, memory, shared, calls, verifying,
                       stateFile, debounced, reported, ended>>

(* file.edited, and file.watcher.updated of a session with a task, for a   *)
(* path that is not generated.                                             *)
EditEvent(s) ==
    /\ Active(s)
    /\ reported < tree
    /\ reported' = tree
    /\ dirty' = TRUE
    /\ UNCHANGED <<repository, disk, memory, shared, calls, verifying,
                   stateFile, chosen, debounced, timer, ended>>

(* session.idle: the verification begins unless nothing is dirty, another  *)
(* one runs or one has just ended; dirty is cleared before it runs.  An    *)
(* idle that comes at such a moment is dropped.                            *)
VerifyBegins(s) ==
    /\ Active(s)
    /\ dirty /\ verifying = None /\ ~debounced
    /\ dirty' = FALSE
    /\ verifying' = OpenBuild
    /\ UNCHANGED <<repository, disk, memory, shared, calls,
                   stateFile, chosen, debounced, timer, reported, ended>>

\* Mutant: dirty is cleared when the verification has ended.
VerifyEndsClean ==
    /\ verifying # None
    /\ shared' = IF CanFlush(verifying) THEN SharedOutdated ELSE shared
    /\ ended' = verifying.begun
    /\ verifying' = None
    /\ debounced' = TRUE
    /\ dirty' = FALSE
    /\ UNCHANGED <<repository, disk, memory, calls, stateFile, chosen, timer, reported>>

(* The report is written, of the tree as it was when the changed files     *)
(* were listed, before the context was built; where the guards could not   *)
(* run, because the cache could not be written, it says so.  Or the        *)
(* verification throws, which is logged; it is not repeated for that.      *)
VerifyEnds ==
    /\ verifying # None
    /\ shared' = IF CanFlush(verifying) THEN SharedOutdated ELSE shared
    /\ ended' = verifying.begun
    /\ verifying' = None
    /\ debounced' = TRUE
    /\ UNCHANGED <<repository, disk, memory, calls,
                   stateFile, chosen, dirty, timer, reported>>

DebounceEnds ==
    /\ debounced
    /\ debounced' = FALSE
    /\ UNCHANGED <<repository, disk, memory, shared, calls, verifying,
                   stateFile, chosen, dirty, timer, reported, ended>>

------------------------------------------------------------------------------
(* Contexts and the control tools                                          *)

(* The timer of the ready build fires. *)
ReadyBuild ==
    /\ timer
    /\ timer' = FALSE
    /\ LoadContext(ReadyCaller)
    /\ UNCHANGED <<stateFile, chosen, dirty, debounced, reported, ended>>

(* prepare, retrieve or evaluate, in a session that chose OpenCode++. *)
HarnessTool(s) ==
    /\ Active(s)
    /\ LoadContext(ToolCaller)
    /\ UNCHANGED runtimeVars

(* The tools read the state file and write it against the revision they    *)
(* read.  When another process wrote it in between, the write is refused   *)
(* and the tool returns what that process wrote, with a diagnostic.  A     *)
(* corrupt file is not replaced: the tool throws and nothing changes.      *)
Written(value) == IF stateFile = "corrupt" THEN {} ELSE {value, stateFile}

EnableTool ==
    /\ stateFile' \in Written("enabled")
    /\ UNCHANGED <<repository, disk, memory, shared, calls, verifying,
                   chosen, dirty, debounced, timer, reported, ended>>

(* Sessions are forgotten and the timer is cleared, refused or not. *)
DisableTool ==
    /\ stateFile' \in Written("disabled")
    /\ chosen' = {}
    /\ timer' = ClearedTimer
    /\ UNCHANGED <<repository, disk, memory, shared, calls, verifying,
                   dirty, debounced, reported, ended>>

(* The installer's --enable and --disable, in a process of their own. *)
ExternalToggle ==
    /\ stateFile' \in Written("enabled") \cup Written("disabled")
    /\ stateFile' # stateFile
    /\ UNCHANGED <<repository, disk, memory, shared, calls, verifying,
                   chosen, dirty, debounced, timer, reported, ended>>

(* OpenCode ends and is started again: what is on disk stays. *)
Restart ==
    /\ chosen' = {} /\ dirty' = FALSE /\ debounced' = FALSE /\ timer' = FALSE
    /\ reported' = NoTree /\ ended' = NoTree
    /\ memory' = None /\ shared' = None /\ verifying' = None
    /\ calls' = {}
    /\ UNCHANGED <<repository, disk, stateFile>>

Next ==
    \/ \E s \in Sessions, mode \in {"opencode++", "build"} : ChatMessage(s, mode)
    \/ \E s \in Sessions : EditEvent(s) \/ VerifyBegins(s) \/ HarnessTool(s)
    \/ VerifyEnds
    \/ DebounceEnds
    \/ ReadyBuild
    \/ EnableTool \/ DisableTool \/ ExternalToggle
    \/ Restart
    \/ BuildNext /\ UNCHANGED runtimeVars

Spec == Init /\ [][Next]_vars

------------------------------------------------------------------------------
(* An edit that was reported to an active session is not forgotten: the    *)
(* repository is dirty, a verification runs that began after the edit, or  *)
(* one has ended that did, with a report or with an error in the event     *)
(* log.  So it is whatever reports, verifications that overlap them, the   *)
(* debounce, sessions that come and go and the tools do to the flag; only  *)
(* a process that ends forgets (idle-verify.ts).                           *)
EditsAreNotForgotten ==
    \/ dirty
    \/ verifying # None /\ verifying.begun >= reported
    \/ ended >= reported

==============================================================================
