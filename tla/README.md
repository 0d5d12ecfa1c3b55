# A TLA+ model of opencode-plusplus

opencode-plusplus is a harness around a code agent: it gives the agent a task, a context and an edit
boundary, lets it edit a working tree, evaluates what it did, and decides whether the run finalizes, goes
round again or stops. Everything it knows about a run is in JSON files under `.agent-context/`, written by
whichever process (command line, MCP server, editor hook) happens to run. What is hard about it is therefore
not an algorithm but what survives: a process that dies between two writes, two processes on one run, a hook
that is delivered twice, a lock that outlives its owner, evidence for a tree that has changed since.

The modules here model the parts of the code that carry this and TLC checks them on small instances. Every
invariant and every safety property of an action that a passing run checks is also proved by TLAPS, for every
value of the constants the assumptions admit; the two liveness properties stay with TLC.

## Inventory

| component | state | operations | hard behaviour | what makes it correct |
|---|---|---|---|---|
| Orchestrator (`src/src/harness/control-plane/orchestrator.ts`, `orchestrator-state.ts`) | `state.json` with a revision, artifacts per phase and iteration, trace, report; in memory: copy of the state, results, worktree | start, resume, one step per phase, finalize | death anywhere, concurrent resume, limits that change between invocations, a worktree that is lost with its process | phases in order and once; decision follows from the artifacts; one trace entry per iteration; every run completes |
| Decision engine, convergence (`decision-engine.ts`, `convergence.ts`) | none | candidates, arbitration, stop rule | ties, boundaries of the loop budget | deterministic; finalize only without objections |
| Guards, policy, loop controller, gates (`harness/verification-plane/`, `loop-controller.ts`, `guard-gates.ts`, `outputs/evidence.ts`) | none of their own; they read the tree, the execution trace and the generated package one after the other | collect findings, judge evidence, derive gates and a decision | the tree or the trace changes between two reads; evidence older than the last edit; steps that look like repeated deliveries | nothing is finalized on evidence for another tree; a forbidden change never passes; no captured result is lost |
| Executors, sandboxes (`orchestrator-executors.ts`, `sandbox/`) | a git worktree or the host tree | prepare, execute, diff, discard | patches that do not apply, host edits | the worktree of a resumed run holds the agent's edits |
| File lock (`core/file-lock.ts`) | a lock file per protected file | acquire, recover a stale lock, release | every system call interleaves with those of others; suspended and dead owners | mutual exclusion; every call ends |
| Atomic store (`core/atomic-store.ts`) | JSON files, JSONL logs, temporary and backup files | append a line, update, save with a revision, read | torn lines, lines without their newline, denied renames on Windows, stale copies | no acknowledged update is lost, and of acknowledged lines only two that were glued; gapless sequence numbers |
| Sidecar (`integrations/opencode/sidecar*.ts`, `harness/observability/execution-trace.ts`) | event log, execution trace | record a hook's event | repeated and concurrent hooks, two files under two locks | events once and in order; captured results kept |
| Intervention ledger (`harness/observability/intervention-*.ts`, `plugin-runtime/harness/interventions.ts`) | JSON ledger and JSONL mirror per task | record findings and evidence, change a status, repair the mirror from a snapshot | two recorders with identifiers of their own; death between the two writes; transitions that throw | "verified" only behind evidence captured for the tree; recording again adds nothing; the mirror lacks only what was cut off |
| Plugin harness, human review, task resume (`integrations/opencode/plugin-runtime/harness/`) | session, workflow, evaluation, identity, review and manifest files | prepare, evaluate, next, approve, reject, take over, hooks | evaluation races edits and its own timeout; takeovers die half way; approvals while an evaluation is in flight | a task is handed over whole; protected paths stay outside the boundary; only what was granted passes |
| Plugin runtime (`plugin-runtime/*.ts`) | sessions, dirty, verifying and debounce flags; timers; `state.json` | hooks, idle verification, ready build, control tools | a hook during a verification; debounced skips; conflicts at the cache | a reported edit is not forgotten before it was verified |
| Freshness and caches (`core/freshness.ts`, `core/cache.ts`, `plugin-runtime/harness/context.ts`, `idle-verify.ts`) | results keyed by tree hashes, incremental cache with revisions | build, look up, join a running build, flush | a build that spans an edit; two builds that flush one cache; hashes that do not tell of HEAD | no stale context is served as fresh while HEAD stays |
| Context registry (`context-registry/`) | configuration, a cache file per remote source, a usage ledger per task | load the sources, fetch and pin, read the files of an entry, record the usage, judge it | the tree, the configuration and the cache change between loading, reading and recording; remotes that fail or publish something else | only pinned packs of the configured location are served; context the policy passes is that of the tree while HEAD stays; fetching again unblocks |
| Indexing, rendering, CLI, MCP, installer, benchmarks | none that outlives a call | | | not modelled: sequential data processing and I/O |

The orchestrator calls the executor, evaluates, asks the decision engine, and saves its state through the
atomic store, whose every write is an operation under a file lock. The sidecar, the ledger and the plugin
harness use the same store. `PROJECT.json` lists every component with its sources and the hazards at the lines
where they bite.

## Modules

| module | models | extends |
|---|---|---|
| `DecisionEngine` | candidates, arbitration, convergence, stop rule, as operators | |
| `OrchestratorLifecycle` | abstract specification: phases go forward within an iteration and from `persist` to the next | |
| `Orchestrator` | one run, several processes, crashes | `DecisionEngine`; instantiates `OrchestratorLifecycle` |
| `MCOrchestrator` | the evaluations TLC enumerates | `Orchestrator` |
| `Repository` | the files of a tree, what git reports, what scanner, indexer and graph find | `DecisionEngine` |
| `VerificationPlan` | kind and risk of a change, commands the repository offers, tests and checks selected | `Repository` |
| `RepositoryContracts` | contracts generated from a tree, their validation, the impact of a change | `Repository` |
| `RepositoryGuards` | hallucination and regression guards, what the policy forbids or calls a risk | `VerificationPlan`, `RepositoryContracts` |
| `Verification` | evidence in a trace, guard, policy and loop reports, gates, all as operators | `RepositoryGuards` |
| `VerificationLoop` | a run of the orchestrator in the host tree, with an executor and a user that edit and record commands while it is judged | `Verification` |
| `MCVerificationLoop` | trees, commands and policies TLC enumerates | `VerificationLoop` |
| `InterventionLedger` | ledger and mirror, the orchestrator's recorder and the plugin's | |
| `MCInterventionLedger` | profiles of findings TLC enumerates | `InterventionLedger` |
| `PluginWorkflow` | prepare, evaluate, next, reviews, takeovers and hooks over the files of the plugin harness | |
| `MCPluginWorkflow` | its constants and symmetry | `PluginWorkflow` |
| `ContextBuilds` | builds of the context by the plugin and by another process, over the shared incremental cache | |
| `PluginRuntime` | sessions, dirty flag, debounce, idle verification, ready build, control tools | `ContextBuilds` |
| `ContextRegistry` | loads of local and remote context, their cache, the usage ledger and its policy | |
| `MCContextRegistry` | packs, sources and configurations TLC enumerates | `ContextRegistry` |
| `FileLock` | `withFileLock`, one step per system call | |
| `EventLog` | `appendJsonLineLocked` under the lock | `FileLock` |
| `AtomicFile` | `updateJsonAtomic`, `writeJsonAtomicWithRevision` under the lock | `FileLock` |
| `OrchestratorProofs`, `EventLogProofs`, `AtomicFileProofs`, `VerificationLoopProofs`, `InterventionLedgerProofs`, `PluginWorkflowProofs`, `PluginRuntimeProofs`, `ContextRegistryProofs` | theorems and proofs; those of `DecisionEngine` are in `OrchestratorProofs`, those of the lock in `EventLogProofs` and `AtomicFileProofs` | the module they are about and TLAPS |

**Orchestrator.** `disk` is `state.json`, `execution`, `evaluated`, `report` the artifacts of each iteration,
`trace` the executor steps of the execution trace, `published` is `orchestrator.json`, `memory` the memory
candidate, `hostTree` the sources. Each process has a copy `mem` of the state, and `result`, `finding`,
`outcome`, `previous` for the variables of `runHarnessOrchestrator` of the same meaning; `pc` tells how far it
is between two saves. A phase is three steps, as in the code: do the work, write the artifact, `Advance` (the
`advance` closure: `completePhase` and a save the revision of the file must allow). `RevisionConflict` is the
save that is refused, `Crash` a death or an exception at any place; both lose what the process knew. `RecordingRefused` is
the exception of `recordIterationInterventions`, which precedes the writes of the persist phase: the ledger refuses a
transition, or the trace was written meanwhile. It is not bounded, because what was refused once may be refused at every
resume. A tree is
an abstract value; `HeadTree` is the committed one, and every other is uncommitted, which matters because the
executor's patch is a diff against HEAD. `mode` is the sandbox of the run (host tree or git worktree), chosen
at its start from `Modes`. An evaluation is reduced to what the decision engine reads. Writes of
a single artifact are atomic here; that they are is the subject of `AtomicFile`.

**Repository, VerificationPlan, RepositoryContracts, RepositoryGuards.** A path is the sequence of its names and a tree
maps the paths of its files to what the analyzers find in them (a version, imports, scripts, dependencies). The patterns
that the code applies to a single name are the "traits" of the name; what it does with directories, modules, imports and
scripts is spelled out. A context package is represented by the tree it was built from, so that a judgement is a function
of up to three trees: the one the contracts on disk were generated from, the one the package describes, and the
working tree. `WorkingTreeFingerprint` is what `currentWorkingTreeFingerprint` tells of a tree: the files that differ from
HEAD, tracked or not, as they are in HEAD and in the tree, and nothing else. The hash of all files, which the code falls back to where git
fails, is left out. These modules are functions of trees; they have no state.

**Verification, VerificationLoop.** A tree goes by a name here. `Plans` and `Findings` are tables of what the four
modules above say of each combination of trees, written out in the MC module and compared with the operators by
`TableAssumption`, so that TLC works them out once and a proof can take them as functions. A trace is a sequence of
steps, each with its source (captured by the harness, reported by hand, by an agent or by CI), command, exit code,
outcome, files, time and tree hash. `Contents` are the files of a tree, `Heads` those of the commit it is based on,
`TreeHash` names the fingerprint of the one against the other: it is what the code stamps on steps and compares, and
two trees of different commits may share it. It is a table too; `HashAssumption` says that two trees have the same
name there exactly when `WorkingTreeFingerprint` is the same. `Verification` has the functions that read it: which
step is a repeated delivery, the evidence of `outputs/evidence.ts`, the guard, policy and loop reports, the gates and
what the decision engine selects. `VerificationLoop` computes them when the code does. The run takes the steps `Plan`,
`WriteContext`, `Execute`, `Collect`, `Guards`, `CheckPolicy`, `ControlLoop`, `Decide`, each of which reads the tree
and the trace anew, in the order of `phases/evaluate.ts`; between any two of them somebody may edit the tree (`Edit`),
report a step (`Report`, which is `trace add`) or have a command captured (`trace run`, which is `RunCommand` when the
command ends and `RecordCommand` when its tree is hashed). An edit may be a commit or a pull, which is a tree of
another commit. The ghost `mixed` remembers that the tree changed between the end of a command and its record. Left out: texts and labels,
external context policy, `failOn`, a base reference that moves while a run goes on, edits between two reads of one
report (the loop report reads the freshness before the changed files), the trace mirror of the worktree mode, the
no-progress rule (it belongs to `Orchestrator`), and the rewrite of the trace with the ids of interventions.

**InterventionLedger.** `ledger` is the task's JSON file as a sequence of records, `mirror` the JSONL log, `trace`
the captured passes per tree with a revision. The orchestrator's recorder (`intervention-mapper.ts`) and the
plugin's (`interventions.ts`) give the same finding different identifiers; both append under the ledger's lock
and mirror afterwards under another, and both check the transition table, at which the one throws and the other
goes on. What counts as evidence is each recorder's own (`Provable`): the orchestrator asks what a step was for, the
plugin for a keyword in the finding, the action or the command, which `run-test` always has. A copy to the mirror is
`appendJsonLineLocked`: it may be cut anywhere (`CopySome`), a line cut before its newline is glued to the next one
(`cut`, `Put`), and a line that does not parse ends every later copy (`Unreadable`), which the plugin swallows. A
snapshot copies what the mirror lacks. What the findings are is arbitrary: a report has any profile
of the constant. An edit may be seen by a hook, which then bumps the revision of the trace, at which a
recorder in the middle of its work throws.

**PluginWorkflow.** One task, several sessions, and the files `session.json`, `workflow.json`, the evaluation,
the identity, the review request and the boundary manifest as variables; every write is a step of its own, so
that a handler that dies or is overtaken leaves what the code leaves. Sessions prepare, evaluate (with the
60 s timeout, behind which the evaluation goes on), ask for the next action, request, approve and reject a
plan, and take over the task of a session that is gone or whose identity is stale. Revisions, phases, event
keys and the fingerprint (reduced to whether it is that of the present tree) are not kept; the statuses of a
task that is worked on are one; a repeated prepare may replace what it would in the code only for a new
objective. Edits are never taken back.

**ContextBuilds, PluginRuntime.** A tree is a version number that only grows, and `changes` the uncommitted changes, named
by the version that had them first. Every edit makes new ones; when HEAD moves (`MoveHead`: a commit, a pull, a checkout)
they may be any that were there before, or none, with or without a change of the files. `Fingerprint` is `changes`. `added` are the versions that only
have new files, which a manifest of known files does not notice. A build opens the incremental cache,
lists the files, reads and indexes them in one go (`IndexShared`), waits for the summary, and flushes the cache against the revision it
opened; the manifest is hashed at the end. A second caller of `loadPluginHarnessContext` joins a build that is running,
however far it is, so that it may get what was indexed before it called; the idle verification does not.
`PluginRuntime` composes the builds with the runtime's hooks: a message activates a session and starts the
debounced ready build, an edit makes it dirty, `session.idle` begins a verification unless it is debounced or one
runs, in which case it is dropped; the state file may be enabled, disabled or corrupt, and other processes switch it, edit and
commit. The ghosts are `head`, `tree` and `head` of a mark, `reported` and `ended`. Left out: the package's own generated
files, failures of another process' build, and an edit that is undone without a commit, which brings contents back, not
only their fingerprint.

**ContextRegistry.** A pack is the set of its documents and its own hash; a document has a main and a companion file.
`load` is what each process does with its sources (`loadRegistry`, `loadSource`, `fetchRemoteContextPack`,
`getContextFiles`), `cache` the cache file of the remote source, `usage` the records of the task. Every read, request
and locked write is a step of its own, so that edits, other configurations and other processes come between. `Hash` is the
fingerprint of a tree against its commit `Head`; both together tell a tree, the fingerprint alone does not, and records and
policy have only that. The order of trust is fixed, and every local source lies inside the tree that is hashed (one outside the repository
or under `.agent-context/` may change without changing the hash, and the policy passes it then). Left out: duplicate source
names, which refuse the load; the expiry of copies and the configured trust, which only label what is served; search
ranking, annotations and feedback.

**FileLock.** `at` follows a process through `withFileLock`: exclusive open, write of the metadata, stat, read
of the owner, probe of the pid, unlink, wait, and at the end read of the token and unlink. The lock has a
creator and, once the metadata are written, an owner. `GetStale` lets `staleMs` pass, which suspends the
owner for that long. The ghost `stolen` counts the removals of a live process' lock.

**EventLog.** Lines are records of an id and a sequence, or `Torn`, which does not parse. A write may be interrupted anywhere
(`WriteSome`): behind nothing, a part of the line, all but its newline (`cut`, the line parses), or all. What is written
next is glued to a cut line and makes it `Torn`. The scan reads line by line: an event it finds before a torn line is
a duplicate, otherwise the torn line ends the call.

**AtomicFile.** A content is its revision and the set of calls it contains, so that a lost update shows. The
rename over the target may be denied, the target be moved aside, and the second rename be denied again.
`Load` is the read without a lock that a later save is made from.

Definitions marked "Mutant" in the modules are plausible bugs of the definition they precede; no specification
uses them. Replacing the definition by its mutant makes TLC report the property named in `PROJECT.json`, which
shows that the property depends on the code it is about.

## Runs

| run | instance | shows |
|---|---|---|
| Run | 1 process, host tree and git worktree, limits 2 and 3, 2 trees, 2 deaths, any number of refused recordings | the trace tells the launch whose result is the artifact; decisions (rollback among them) follow from the artifacts on disk; references resolve, and memory is only of finalized runs; no needless launch of the executor; a recreated worktree holds the executor's edits; the run completes, if recordings are not refused for ever |
| Race | 2 processes, limits 1 and 2, no deaths | exact history; the copy with the current revision is current; refinement of `OrchestratorLifecycle` |
| EventLogAppends | 3 processes, 2 events, 3 calls, 1 stale lock, 1 death, writes cut anywhere | mutual exclusion unless a live lock was removed; exact log; acknowledged events logged, but for the two of a glued line; every call ends |
| AtomicFileUpdates | 3 processes, 3 calls, 3 denied renames, 1 stale lock, 1 death | no acknowledged call is lost; the content changes by one call at a time |
| VerificationLoop | 2 iterations, 1 edit out of 6 (one of them a pull) from 3 trees (unchanged, built, with the change committed), 2 reported or captured steps, 9 trees (unchanged, done, broken, built, with a forbidden import, with a dangling one, without scripts, committed, with a pulled file), a balanced run of an agent and a strict run of `npm test` | what is finalized was tested on the tree that was judged, but for files that were committed or pulled in between, and in strict runs behind a validation of the contracts (`FinalizesTestedTrees`); a forbidden change never finalizes; a quiet iteration with all evidence does; no captured result is lost as a repeated delivery |
| InterventionLedger | 1 orchestrator, 1 plugin, 2 reports, 1 captured command, 1 disturbance (edit, death or failing call, in the middle of a line too) | a verified intervention was asked for, called repaired and behind a captured pass on the tree it names; recording the same again adds nothing; the mirror gets every record of the ledger once, but for copies that were cut off |
| PluginWorkflow | 2 sessions (symmetric), 3 files, 2 evaluations, 2 takeovers, 1 death | a takeover keeps objective and boundary of the task; protected files stay outside every boundary; a boundary is empty, which means unbounded, only after a death; evaluations pass only what was planned or granted; a review of the present tree is not lost |
| PluginRuntime | 1 session (the proofs cover any number), 2 callers, 2 versions, 1 move of HEAD | what is handed out was read at or after the load it answers, and a context that is kept is that of the tree unless HEAD has moved since (`ServedContextIsCurrent`); a reported edit is dirty until a verification that began after it has ended (`EditsAreNotForgotten`) |
| ContextRegistry | 2 processes (symmetric), 1 local and 1 remote source, 4 trees of 2 commits, two of them with one fingerprint, 3 configurations, 2 packs, 3 loads, 2 changes | what is served for a remote source was pinned, and a copy is served whenever there is one; context that the policy passes is that of the tree unless HEAD has moved; a fetch for the present fingerprint unblocks |
| ResumedTree | 1 process, worktree, 1 death | **violated**, see below |
| EventLogStale | 2 processes, 1 stale lock, no death | **violated**, see below |
| AtomicFileAside | 2 processes, 3 denied renames, no stale lock, no death | **violated**, see below |

The three violations are disagreements of the code with what its documentation says of it:

* *ResumedTree.* `runtime-state-machine.md` says that a resumed git-worktree run reapplies the persisted
  executor patch before it continues. Between iterations the reference to the patch has been cleared, and in
  `plan` and `execute` it is not looked at: the resumed run continues from the host tree.
* *EventLogStale.* Hooks are promised monotonic sequences because they serialize through file locks. A waiting
  process that saw a stale lock treats its disappearance (`ENOENT`) as recoverable and then removes the lock
  that is there by now.
* *AtomicFileAside.* A locked Windows file is never to be treated as an empty state. If the target was moved
  aside and cannot be moved back, the next update starts from revision 0.

### What the models show besides

The models contain behaviour that no document excludes, or that one contradicts in passing. It is part of the actions,
and the properties are stated so that they hold in spite of it:

* *Fingerprints.* The hash of a working tree is that of the changes against HEAD and does not tell of HEAD: all clean trees
  share one. A file that is committed or pulled between the test and the evaluation is finalized untested, although
  `architecture.md:348` says that "a test run does not stay valid after later source edits"; the plugin serves a kept context, and
  the registry's policy passes documents, of the tree before the commit.
* *Orchestrator.* An exception of the ledger or the trace in the persist phase meets every resume again, so that the run never
  completes. `runtime-state-machine.md:55` says that a run without progress asks for a human review, where the code stops
  with `no-progress`. `runtime-state-machine.md` says that the status `max-loops-reached` tells that the budget ended. A
  resume under a lower limit ends the loop with the status of the iteration before and publishes `progressing`.
* *Plugin harness.* `next` never completes a task, because the stored decision is an action of the loop controller and
  the gate asks for `finalize`. An approved boundary is overwritten by an evaluation that was in flight
  (`review.ts:157`); a rebuild drops approved expansions; a death between identity and workflow in prepare leaves
  an empty boundary, which the guards read as none. A pending request of an earlier evaluation is never withdrawn,
  and an approval that dies between manifest and request can be followed by a rejection.
* *Verification.* `trace run` stamps the tree at the end of a command and never compares it with the one at its
  beginning. A focused test satisfies the requirement of a wider one; a test step that names files counts as an edit and
  can hide its own failure. A claim of a script that does not exist stays in the trace for good. Changes of docs alone
  are blocked by `evidence.no-test-after-edit` (`guard-gates.ts:209`), which `verification-planner.md:85` excludes.
* *Commands.* A captured `npm test` does not satisfy a required `npm run test` (`evidence.ts:242` compares the texts), although
  `cli-reference.zh-CN.md:30` recommends `--command "npm test"`; a step that is merely reported is not compared at all. A
  required `npm run test` is satisfied by `npm run test:unit`, any one of several required commands suffices, and where the
  plan found none any successful test command does. A claim of `npm ci` or `npm install` is taken for a package script
  that is missing. A repository whose test script is named `e2e` or `spec`, or that tests by make or tox, gets a required
  command that does not count as a test execution, which ends in a human review.
* *Planning.* The scanner writes `pnpm run test` where the discovery writes `pnpm test`; its pattern of CI files misses
  `.gitlab-ci.yml`, and a `go test ./...` in CI is never extracted. A new file in `src/core` belongs to a module `src/core`
  where the index says `core`; source files at the root relate to every test. A deleted file that a trace step names asks
  for a human review. Contracts that are generated again from a tree with violations allow them from then on, and a module that
  imports a file at the root may import everything. A file that is added between the refresh of the package and the policy
  report is not judged, though the contents of all known files are unchanged.
* *Event log.* A write that is interrupted just before its newline leaves a line that parses; the next append is glued to
  it and acknowledged, and then neither event can be read. Every later append fails at that line, as it does at a line
  that was cut earlier; nothing repairs the file.
* *Ledger.* To the plugin any captured pass is evidence for any satisfied requirement. A torn line of the mirror
  closes it for good, and the plugin swallows that at every snapshot. The orchestrator's recorder throws at a refused transition (verified to requested), at every resume again; the
  plugin's swallows it, so that an intervention stays "verified" behind a later edit, which
  `intervention-ledger.md:13` excludes. Lines of the mirror may be in another order than the ledger.
* *Caches.* The idle verification's build and that of a tool call are not coalesced, so the second flush is refused and its
  call fails. A corrupt cache file is read with the warning that it will be rebuilt, but the flush refuses to
  replace it. A verification that throws is only logged. An idle that comes while a verification runs or within the
  debounce is dropped without a timer that repeats it: edits stay dirty, but unverified until the session is idle
  again, which may never be. A caller that joins a running build may get what was indexed before it called.
* *Context registry.* A pack that was fetched is given up when the cache file has another revision by then, and a cache
  file that cannot be parsed is never replaced. A source that gets a second document of one name renames its
  entries, so the record of the earlier identifier stays blocked and the fetch it asks for cannot find it. The same
  holds behind a corrupt usage ledger, which refuses every update. The gate `context.external-stale` asks for
  `repack`, which fetches nothing. `retrieve` answers with an error after three seconds while the late fetch still records
  its usage. Nothing in the program writes the registry snapshot that is read.

### Bounds

`MaxCrashes`, `MaxCrash`, `MaxStale`, `MaxCalls`, `MaxDenied` and, in the newer modules, `MaxLoops`, `MaxEdits`,
`MaxSteps`, `MaxReports`, `MaxCaptures`, `MaxDisturbances`, `MaxEvaluations`, `MaxTakeovers`, `MaxDeaths`, `MaxUsed`,
`MaxLoads`, `MaxChanges`, `MaxMoves` and `MaxTree` bound counters in guards; nothing else is cut off.
Two deaths let a resume die itself. Three iterations have a first, a middle and a last one; the no-progress
rule compares two neighbours. Two trees are a changed and an unchanged one. The race has one tree and a plain
set of evaluations because it is about the state file. Three processes at a lock are an owner, a waiting process
that recovers, and one whose fresh lock may be hit. Three calls are two that conflict and one that builds on
them; three denials reach the restore that fails. TLC enumerates the evaluations that `MCOrchestrator` defines:
each decision of the engine occurs in one of them, alone and with a competing one.

One edit of the user per verification loop is enough because each read of a judgement is before or behind it, and
what an iteration leaves is the trace and the package only. Two steps are a captured command and a report in either
order, or two results of one command. The trees differ in what the judgements tell apart: nothing changed, a
change as it should be, one whose tests fail, one with a build output, one that imports what its contract excludes, one that
imports what does not exist, one that lost its test script. Two reports in the ledger are the same
finding by the same or by the other recorder, or a finding and its repair; one disturbance is the edit that outdates evidence, the death between ledger and mirror, or the line of the mirror that is cut. Two
evaluations of the plugin are one that is overtaken and the one that overtakes it, two takeovers are one of a
live and one of a stale task, three files one in the plan, one outside it and a protected one. Two versions in the plugin's
runtime are the tree that was hashed or listed and the one after an edit within a build or a verification; one move of HEAD
brings the fingerprint of the first one back.

Two changes in the registry are an edit and its undoing, an edit and the commit that brings its fingerprint back to that of the
clean tree, or an edit and a new configuration; three loads are two that
overlap and a later one of either process.

Deadlock is not checked where the system may stop: at the locks when the calls are used up, in the ledger, the
plugin's workflow, the registry and the verification loop when nobody reports, calls or edits any more.

### Fairness

`Orchestrator!FairSpec` is weakly fair to every process: the executor has a timeout, the other phases end, and a
run that is not completed is invoked again, which is what the interruption message asks the user for. Weak
fairness suffices because every step of a process stays enabled until it is taken or the process dies, and
deaths are bounded. `EventLog!FairSpec` is weakly fair to every process in a call and strongly fair to
`TimeOut`: the deadline is measured by the clock, so a process that comes to the check again and again meets
it after the deadline in the end. No fairness is assumed of stale locks, deaths or new calls.

`RunCompletes` is about a budget that is kept (the same `--max-loops` at every invocation), about recordings that are
refused finitely often (`RefusalsEnd`; a refusal lasts until somebody else writes to ledger or trace, which nobody has to), and about
runs in the host tree; a lower budget at a resume ends the run at once, and the patch of a git worktree may be refused at every
resume, which is the code's behaviour.

No fairness is assumed of the plugin or of the ledger. Whether a session is ever idle at a moment that is not debounced,
and whether a snapshot ever goes through, is not for the code to say; the properties there are invariants that say what is
kept until then.

## Proofs

Every theorem holds for all values of the constants that satisfy the named assumptions of its module: any number of
processes, sessions, files, trees, events and calls, any bounds. TLC evaluates the same assumptions on the instances of the
runs. An invariant of a run is seldom inductive; each proof module first states the stronger one that is, proves per
action that a step keeps it, and derives the properties.

*Orchestrator*, any number of processes (`Invariance`): the heart of `IInv` is `CopyIsCurrent`: a copy with the
revision of the file equals the file, because a revision is written once and copies are only made of it. With it,
a save that passes the revision check starts from the state on disk, so `Sound` (history exact, iteration within
the budget, references set exactly in the phases that need them) is preserved although the copy, not the file,
is what the process updates. `Resolved` says that what the state refers to is on disk, and `ProcessOK`, per
process, that what a process knows fits its place; both are needed because artifacts are written by processes
that may lose the race. `ReportsAreAPrefix` keeps the last report the one of the iteration before. From `IInv`
follow `TypeCorrect`, `CopyCurrent`, `HistoryIsExact`, `BudgetRespected`, `ReferencesAreOnDisk`, and, step by step,
the refinement `ImplementsLifecycle`.

*Orchestrator*, one process at a time (`SoleInvariance`): artifacts, trace and tree carry no revision, so what
is said of them holds when `Proc = {p}`, which is one process and all its restarts; two processes on one run may
overwrite each other's artifacts, and no property says otherwise. `Sole(p)` adds to `IInv` that the copy is the file while
the process is up (`Current`), that the trace has one entry for each iteration whose execution was recorded (`TraceInv`),
that the result in memory is the artifact (`ResultInv`), that the worktree is the tree the executor left (`TreeInv`), that
the print a decision compares with is that of the iteration before (`PreviousInv`), that an outcome is what the decision
engine and the convergence make of the artifacts on disk (`OutcomeInv`), that the report and the memory
candidate are those of the outcome (`PublishedInv`), and that each launch is an iteration or was paid for by a death (`LaunchInv`). From it follow
`TraceIsOfTheLaunch`, `DecisionFollows`, `ReferencesHold`, `RelaunchIsPaidFor` and `WorktreeIsTheExecutors`.

*Decision engine*: arbitration selects exactly one action (`SelectionIsUnique`), a run finalizes exactly without
objections (`FinalizeWithoutObjections`), and a forbidden change or a failed executor ends it
(`ForbiddenOrFailedStops`).

*File lock*: `LockInv` says who may be between which system calls, given that no live lock was removed: whoever is between
the creation of the lock and its removal finds its own file there, so there is one such process. It is proved per action
of `FileLock`, in `EventLogProofs` and again in `AtomicFileProofs`, as neither module extends the other.

*Event log* (`LogInvariance`): `LogInv` adds that, until a live lock is removed, the log is exact and a computed sequence
number is still the next one while its process holds the lock, that only the last line may be torn or cut, and that an
acknowledged event is in the log or shares the torn line. From it follow `Exclusive`, `LogExact` and
`NothingElseIsLost`. `TypeCorrect` and `NumbersAreBounded` (no line carries a
number higher than its position) need no such condition: they hold by `NumberedInv` whatever happens to the lock.

*Atomic file* (`Invariance`): `ShapeInv` (lock, types, who is at which place of an update) holds always; `ContentInv` holds
while no live lock was removed and no content was left aside, which are the two disagreements of the violation
runs. It says that what the holder prepared is the next revision with its own call added, that the target is missing
only while its holder is replacing it and has the content aside, and that every acknowledged call is in the content. From
both follow `AcknowledgedSurvives` and, step by step, `AtomicRegister`.

*Verification loop* (`Invariance`): `ReportsInv` ties each report to its moment: it is the function `Verification` defines,
of a prefix of the trace (`Told`), of one package, one manifest and one tree. The trace only grows, hence a report stays
what it was when later steps arrive. `StepsInv` says that every step is older than the clock (`Timely`), which the
de-duplication of deliveries relies on, and that a captured success is one of the recorded tree unless `mixed`
(`Truthful`). `CleanInv` says that behind a finalized verdict no report had an objection. From these follow `FinalizesTested` (an equal fingerprint is an equal tree but for files that HEAD has otherwise: `OneFingerprint`, `MatchIsSame`),
`ForbiddenNever`, `FinalizesQuiet` and `CapturedKept`, for any repository, commands, policies and edits. Assumed are that the
tables are those of the operators, that the tests of a plan are commands a step may name, that a command is made of its
parts, and that the files named for a captured command exist in some tree.

*Intervention ledger* (`Invariance`): `Chained` says that the records a recorder has queued continue the statuses the
ledger has for the finding, with "repaired" only behind a status that asks for it; `Settled`, that what is due for a
report is in the ledger or queued, unless somebody else appended meanwhile; `Held`, that what a recorder knows fits its
place. From these follow `VerifiedEarned`, `RepairedWasAsked` and
`RepetitionAddsNothing`. For the mirror, the invariant says that a position is in it at most once, that only its last line may be torn or
cut, and that an event that is in the ledger is in the mirror, in the hands of a recorder, cut off (`abandoned`) or glued:
from it follows `MirrorLacksNothingElse`, which is `MirrorIsComplete`.

*Plugin workflow* (`Invariance`): `BoundaryInv` keeps every boundary, on disk or in the hands of a handler, free of protected
files and within the plan and what was granted (`Fenced`); it has to speak about evaluations, reviews and takeovers in
flight, because each writes a boundary that it read earlier. `TaskInv` says that, until a death, whoever has an
identity has the task and its boundary, `HandoverInv` that a session a task was handed to exists and has it. From these follow `HandoverIsSafe`, `ProtectedStaysProtected`,
`BoundedWhileAlive`, `OnlyGrantedPasses` and `ReviewHolds`.

*Plugin runtime* (`Invariance`): `Fits` says of a fingerprint and the tree and HEAD it was taken of that, while HEAD stays, the same
fingerprint means the same version; `SharedFits`, that what a running build has listed and read is not older than the
fingerprint it will be filed under; `MemoryFits`, the same of the context that is kept. So a lookup by an equal fingerprint,
with HEAD where it was, finds a present context (`ServedIsCurrent`). `EditsInv` says which tree the verification that runs, and the last one that ended,
began with; from it follows `EditsKept`.

*Context registry* (`Invariance`): `CacheInv` (what the cache file holds was pinned), `UsageInv` (a record that is not late
describes files as they are in the tree it names; with its HEAD and its fingerprint that is the present tree) and, per process, `GoodLoad` (what a load carries from one stage to the next).
From these follow `RemoteServedSafely`, `FreshIsCurrent` and, as an action property, `RefetchIsTheWayOut`.

### Only model-checked

* Liveness, which needs fairness and ENABLED and is out of the prover's reach: `RunCompletes`, `CallsEnd`.
* What the operators of `Repository`, `VerificationPlan`, `RepositoryContracts` and `RepositoryGuards` compute: the proofs take
  them as functions of trees, TLC evaluates them on the trees of `MCVerificationLoop`.
* The three violations, which are counterexamples.

## Not modelled

* The content of findings, reports, prompts and patches, and how guards parse diffs, imports and claims: a tree
  has the facts they find.
* Edits of the host tree by the user while `Orchestrator` runs; `VerificationLoop` has them.
* Races on the artifacts of one run: the code does not protect them, and nothing claims it does. `Race`
  checks the state file.
* In the lock: a pid that is used again, a live process of another user (its `EPERM` counts as dead), and
  clocks that jump.
* In the store: the contents of directories and what a power failure does to unsynced ones.
* In the plugin: retrieval and feedback, the text of guards and reports, and other tasks and repositories in one process.
* The components marked `not_modelled` in `PROJECT.json`, with the reason there: parsing, scoring, rendering,
  argument handling and installation are sequential code without state that outlives a call, which unit tests reach.

## Plan

1. Abstract specifications of the two stores, as an append-only log of distinct events and a register that changes by one
   call, with `EventLog` and `AtomicFile` shown to implement them until a live lock is removed.
2. Lemmas about the operators of the planning and guard modules that hold for every tree: what is required for a
   change is among the commands the repository offers, a module may import what it imported in the tree its
   contracts were generated from.
3. More of the verification guards' and registry validators' source, which are the largest parts in use that the
   modules only touch.
