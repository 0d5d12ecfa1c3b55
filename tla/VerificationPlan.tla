-------------------------- MODULE VerificationPlan --------------------------
(***************************************************************************)
(* Which verification a change calls for (core/verification): what kind of  *)
(* change it is, which commands the repository offers, and which of them    *)
(* the planner and the test selector choose.  The commands are looked for   *)
(* on disk, in the tree t; modules, imports and tests come from the context *)
(* package p, which may describe an older tree.                             *)
(***************************************************************************)
EXTENDS Repository

(* core/test-command.ts                                                    *)

ScriptRunners == {"npm", "npm run", "pnpm", "pnpm run", "yarn", "bun"}

\* isTestExecutionCommand: the scripts test and test:..., and some tools.
TestExecution(c) ==
  \/ c.tool \in ScriptRunners /\ "test-script" \in Traits[c.name]
  \/ <<c.tool, c.name>> \in {<<"python -m", "pytest">>, <<"go", "test">>, <<"cargo", "test">>}

-----------------------------------------------------------------------------
(* core/verification/classifier.ts                                         *)

IsDoc(f) == Under(f, <<"docs">>) \/ Is(f, "doc")

IsTestPath(f) ==
  \/ Under(f, <<"test">>) \/ Under(f, <<"tests">>)
  \/ InDir(Tail(f), {"__tests__"}) \/ Is(f, "test-word")

IsCi(f) == InWorkflows(f) \/ Is(f, "ci")

IsConfig(f) == Is(f, "config-extension") \/ InDir(f, {"config", "configs"})

SecurityNames == {"auth", "security", "session", "credential", "credentials", "secret", "token",
                  "payment", "billing", "checkout", "invoice"}

IsSecuritySensitive(f) == InDir(f, SecurityNames) \/ Is(f, "security")

IsSource(f) ==
  /\ Is(f, "code-extension")
  /\ ~IsDoc(f) /\ ~IsTestPath(f) /\ ~IsCi(f) /\ ~IsConfig(f)
  /\ ~Is(f, "dependency") /\ ~Is(f, "build")

\* A package directory the path lies in, by the name of the directory above.
NamedPackage(f) ==
  { SubSeq(f, 1, i + 1) : i \in { j \in 1 .. Len(f) - 1 :
      /\ f[j] \in {"packages", "apps", "libs", "modules"}
      /\ ~InDir(SubSeq(f, 1, j), {"packages", "apps", "libs", "modules"}) } }

\* fallbackModuleName: for files the package does not know.
FallbackModule(f) ==
  LET dirs == { i \in 1 .. Len(f) - 1 : f[i] \in {"src", "lib", "app", "cmd"} }
  IN CASE NamedPackage(f) # {} -> CHOOSE d \in NamedPackage(f) : TRUE
       [] NamedPackage(f) = {} /\ dirs # {} ->
            SubSeq(f, 1, (CHOOSE i \in dirs : \A j \in dirs : i <= j) + 1)
       [] OTHER -> << >>

(***************************************************************************)
(* sourceKind.  A file that is new since the package was built gets another *)
(* module name than its neighbours, unless it lies in a workspace package.  *)
(***************************************************************************)
SourceKind(p, sources) ==
  LET modules == { IF f \in Scanned(p) THEN ModuleOf(p, f) ELSE FallbackModule(f) : f \in sources }
  IN IF Cardinality(modules) > 1 THEN {"source-cross-module"} ELSE {"source-local"}

\* classifyVerificationChanges: no file at all counts as documentation.
DocsOnly(t) == \A f \in Changed(t) : IsDoc(f)

\* The kinds of a change; a change that fits none of them counts as config.
ChangeKinds(p, t) ==
  LET files   == Changed(t)
      some(P(_), kind) == IF \E f \in files : P(f) THEN {kind} ELSE {}
      sources == { f \in files : IsSource(f) }
      kinds   == some(IsCi, "ci") \cup some(IsConfig, "config")
                   \cup some(LAMBDA f : Is(f, "dependency"), "dependency")
                   \cup some(LAMBDA f : Is(f, "build"), "build")
                   \cup some(IsSecuritySensitive, "security")
                   \cup (IF \A f \in files : IsTestPath(f) THEN {"tests-only"} ELSE {})
                   \cup (IF sources # {} THEN SourceKind(p, sources) ELSE {})
  IN IF DocsOnly(t) THEN {"docs-only"} ELSE IF kinds = {} THEN {"config"} ELSE kinds

RequiresSource(p, t) == ChangeKinds(p, t) \ {"docs-only", "tests-only"} # {}

CodeTestRequired(t) == ~DocsOnly(t)

\* affectedPackageNames
AffectedPackages(p, t) ==
  UNION { IF f \in Scanned(p) /\ ModuleOf(p, f) # << >> THEN {ModuleOf(p, f)} ELSE NamedPackage(f) :
            f \in Changed(t) }

-----------------------------------------------------------------------------
(* core/verification/discovery.ts: commands, as the files on disk have them *)

Discovered(cmd, kind, scope, dir) ==
  [ cmd |-> cmd, kind |-> kind, scope |-> scope, package |-> dir ]

\* discoverProjectFiles leaves these out at any depth.
ProjectFiles(t) ==
  { f \in DOMAIN t : ~InDir(f, {"node_modules", ".git", "dist", "build", ".agent-context"}) }

(***************************************************************************)
(* kindForScript, in the order of its questions; the name and the body of a *)
(* script are asked together, but what builds or documents goes by name.    *)
(***************************************************************************)
KindOf(nameTraits, bodyTraits) ==
  LET both == nameTraits \cup bodyTraits
  IN Cascade(<< << "build" \in nameTraits, "build" >>,
                << "test" \in both, "test" >>,
                << "lint" \in both, "lint" >>,
                << "docs" \in nameTraits, "docs" >>,
                << "typecheck" \in both, "typecheck" >>,
                << TRUE, Nil >> >>)

\* nodeRunner: not the words by which the package runs a script.
NodeRunner(t) ==
  Cascade(<< << {<<"pnpm-lock.yaml">>, <<"pnpm-workspace.yaml">>} \cap DOMAIN t # {}, "pnpm" >>,
             << <<"yarn.lock">> \in DOMAIN t, "yarn" >>,
             << TRUE, "npm run" >> >>)

\* addPackageScriptCommands
ScriptCommands(t, parsed, scope, dir) ==
  { Discovered(Cmd(NodeRunner(t), s[1], Nil), KindOf(Traits[s[1]], Traits[s[2]]), scope, dir) :
      s \in { r \in ToSet(Scripts(parsed)) : KindOf(Traits[r[1]], Traits[r[2]]) # Nil } }

\* workspacePackagePaths: directories of packages that a workspace pattern names.
WorkspaceDirs(t) ==
  { d \in RootManifest(t).workspaces
          \cup (IF <<"pnpm-workspace.yaml">> \in DOMAIN t
                THEN t[<<"pnpm-workspace.yaml">>].workspaces ELSE {}) :
      Append(d, "package.json") \in ProjectFiles(t) }

\* discoverNodeCommands: nothing without a root manifest that parses.
NodeCommands(t) ==
  LET root == RootManifest(t)
  IN IF root = Nil \/ (root # Nil /\ "unparsable" \in root.sections) THEN {}
     ELSE ScriptCommands(t, root, IF WorkspaceDirs(t) = {} THEN "repository" ELSE "workspace", Nil)
            \cup UNION { ScriptCommands(t, t[Append(d, "package.json")], "package", d) :
                           d \in WorkspaceDirs(t) }

HasSection(t, file, section) == <<file>> \in DOMAIN t /\ section \in t[<<file>>].sections

\* discoverPythonCommands
PythonCommands(t) ==
  LET tests == \E f \in ProjectFiles(t) :
                 BaseName(f) = "package.json" /\ InDir(f, {"test", "tests"})
      when(condition, tool, name, kind) ==
        IF condition THEN {Discovered(Cmd(tool, name, Nil), kind, "repository", Nil)} ELSE {}
  IN when(HasSection(t, "pyproject.toml", "pytest") \/ (<<"pyproject.toml">> \in DOMAIN t /\ tests)
          \/ <<"pytest.ini">> \in DOMAIN t \/ HasSection(t, "setup.cfg", "pytest"),
          "python -m", "pytest", "test")
       \cup when(HasSection(t, "pyproject.toml", "ruff"), "ruff", "check", "lint")
       \cup when(HasSection(t, "pyproject.toml", "mypy"), "python -m", "mypy", "typecheck")
       \cup when(<<"tox.ini">> \in DOMAIN t, "tox", Nil, "test")

\* discoverRustCommands
RustCommands(t) ==
  LET scope == IF HasSection(t, "Cargo.toml", "workspace") THEN "workspace" ELSE "repository"
  IN IF <<"Cargo.toml">> \notin DOMAIN t THEN {}
     ELSE { Discovered(Cmd("cargo", k[1], Nil), k[2], scope, Nil) :
              k \in {<<"test", "test">>, <<"check", "typecheck">>, <<"build", "build">>} }

\* discoverGoCommands
GoCommands(t) ==
  IF <<"go.mod">> \notin DOMAIN t THEN {}
  ELSE { Discovered(Cmd("go", k[1], Nil), k[2], "workspace", Nil) :
           k \in {<<"test", "test">>, <<"vet", "lint">>, <<"build", "build">>} }

\* discoverMakeAndJustCommands
MakeCommands(t) ==
  UNION { { Discovered(Cmd(IF Is(f, "just") THEN "just" ELSE "make", n, Nil),
                       KindOf(Traits[n], {}), "repository", Nil) :
              n \in { m \in t[f].targets : KindOf(Traits[m], {}) # Nil } } :
          f \in { g \in DOMAIN t : Len(g) = 1 /\ Is(g, "makefile") } }

\* discoverCiCommands: a command of no kind is kept, as "other".
CiCommands(t) ==
  LET kind(c) == KindOf({}, Traits[c.name])
  IN { Discovered(c, IF kind(c) = Nil THEN "other" ELSE kind(c), "repository", Nil) :
         c \in UNION { t[f].commands : f \in { g \in ProjectFiles(t) :
                         InWorkflows(g) \/ (Len(g) = 1 /\ Is(g, "ci")) } } }

\* discoverConfigFallbacks: tsc and eslint where no command does their work.
Fallbacks(t, commands) ==
  LET root(trait) == \E f \in DOMAIN t : Len(f) = 1 /\ Is(f, trait)
      none(kind)  == \A c \in commands : c.kind # kind
  IN IF \A f \in ProjectFiles(t) : BaseName(f) # "package.json" THEN {}
     ELSE (IF root("tsconfig") /\ none("typecheck")
           THEN {Discovered(Cmd("npx", "tsc", Nil), "typecheck", "workspace", Nil)} ELSE {})
       \cup (IF root("eslint") /\ none("lint")
             THEN {Discovered(Cmd("npx", "eslint", Nil), "lint", "repository", Nil)} ELSE {})

DeclaredCommands(t) ==
  NodeCommands(t) \cup PythonCommands(t) \cup RustCommands(t) \cup GoCommands(t)
    \cup MakeCommands(t) \cup CiCommands(t)

\* discoverVerificationCommands
DiscoveredCommands(t) == DeclaredCommands(t) \cup Fallbacks(t, DeclaredCommands(t))

-----------------------------------------------------------------------------
(* outputs/test-selector.ts                                                *)

RunnableTests(p) ==
  { f \in Scanned(p) : IsTest(f) /\ (Is(f, "runnable-test") \/ InDir(Tail(f), {"__tests__"})) }

\* A file directly in src or at the root is related to tests all over.
IsRelatedTest(p, test, f) ==
  LET dir    == DirOf(f)
      inner  == IF Under(f, <<"src">>) THEN Tail(dir) ELSE dir
      module == ModuleOf(p, f)
  IN \/ f \in Resolved(p, test)
     \/ Occurs(<<BaseName(f)>>, test)
     \/ inner # << >> /\ Occurs(inner, test)
     \/ module \notin {<< >>, <<"test">>} /\ Occurs(module, test)
     \/ Len(dir) > 1 /\ Under(f, <<"src">>)
          /\ (Occurs(<<"test">> \o inner, test) \/ Occurs(<<"tests">> \o inner, test))
     \/ ~(Len(dir) > 1 /\ Under(f, <<"src">>)) /\ Occurs(dir, test)

RelatedTests(p, files) ==
  { test \in RunnableTests(p) : \E f \in files : IsRelatedTest(p, test, f) }

SourceFiles(p, files) == { f \in files \cap Scanned(p) : ~IsTest(f) }

MinimalTests(p, t) ==
  (Changed(t) \cap RunnableTests(p)) \cup RelatedTests(p, SourceFiles(p, Changed(t)))

\* dependentsOf
RegressionTests(p, t) ==
  RelatedTests(p, SourceFiles(p, Reaching(p, Changed(t), {}) \ Changed(t))) \ MinimalTests(p, t)

\* The first test script runs a test file; without one there is only advice.
RunTestFiles(p, tests) ==
  IF ScanTestCommands(p) = << >> THEN {}
  ELSE { [ScanTestCommands(p)[1] EXCEPT !.file = f] : f \in tests }

FirstOf(commands, n) == { commands[i] : i \in { j \in DOMAIN commands : j <= n } }

\* recommendedRegressionCommands
RecommendedCommands(p, t) ==
  RunTestFiles(p, RegressionTests(p, t))
    \cup FirstOf(NamedCommands(p, "typecheck"), 1) \cup FirstOf(NamedCommands(p, "lint"), 1)

FullConfidenceCommands(p) ==
  FirstOf(ScanTestCommands(p), 2) \cup FirstOf(NamedCommands(p, "typecheck"), 1)

-----------------------------------------------------------------------------
(* core/verification/planner.ts                                            *)

\* compareCommand of discovery: the first command lends focused tests its kind.
TemplateKind(commands) ==
  LET root    == { c \in commands : c.package = Nil }
      pool    == IF root = {} THEN commands ELSE root
      scoped  == { c \in pool : c.scope = "repository" }
      kinds   == { c.kind : c \in IF scoped = {} THEN pool ELSE scoped }
  IN Cascade([ i \in 1 .. 6 |->
       LET kind == << "build", "docs", "lint", "other", "test", "typecheck" >>[i]
       IN << kind \in kinds, kind >> ])

\* focusedTestCommands: of the kind of the first fallback, none without one.
FocusedTests(testFiles, fallback) ==
  IF fallback = {} THEN {}
  ELSE { Discovered(c, TemplateKind(fallback), "file", Nil) : c \in { d \in testFiles : TestExecution(d) } }

\* packageScoped: the commands of the affected packages, else those of the root.
PackageScoped(commands, dirs, kind) ==
  LET all    == { c \in commands : c.kind = kind }
      within == { c \in all : c.package # Nil /\ \E d \in dirs : IsPrefix(d, c.package) }
  IN IF within # {} THEN within ELSE { c \in all : c.package = Nil }

RootOrWorkspace(commands, kind) ==
  { c \in commands : c.kind = kind /\ c.scope \in {"workspace", "repository"} }

\* selectDocsCommands takes the first two of these.
DocsCommands(commands) ==
  { c \in commands :
      c.kind = "docs" \/ (c.kind = "lint" /\ c.cmd.name # Nil /\ "docs" \in Traits[c.cmd.name]) }

\* selectCommands; linting changed files only repeats a lint command with them.
CommandsFor(kinds, commands, dirs, testFiles) ==
  LET scoped(kind) == PackageScoped(commands, dirs, kind)
      far(kind)    == IF kinds \cap {"dependency", "build", "ci", "security"} # {}
                      THEN RootOrWorkspace(commands, kind) ELSE {}
  IN CASE "docs-only" \in kinds -> DocsCommands(commands)
       [] "tests-only" \in kinds -> FocusedTests(testFiles, commands) \cup scoped("test")
       [] OTHER ->
            FocusedTests(testFiles, scoped("test"))
              \cup scoped("test") \cup scoped("lint") \cup scoped("typecheck")
              \cup (IF "source-cross-module" \in kinds THEN RootOrWorkspace(commands, "test") ELSE {})
              \cup far("test") \cup far("typecheck") \cup far("build")

\* buildVerificationPlan
SelectedCommands(p, t) ==
  CommandsFor(ChangeKinds(p, t), DiscoveredCommands(t), AffectedPackages(p, t),
              RunTestFiles(p, MinimalTests(p, t)))

RequiredTests(selected) == { c.cmd : c \in { d \in selected : d.kind = "test" } }

VerificationRequired(t, selected) == CodeTestRequired(t) \/ selected # {}

(***************************************************************************)
(* What the loop controller may ask somebody to run: of a code change an    *)
(* actual test command, wherever it comes from.                             *)
(***************************************************************************)
UsefulCommands(p, t, selected) ==
  LET planned  == { c.cmd : c \in selected }
      selector == RunTestFiles(p, MinimalTests(p, t)) \cup RecommendedCommands(p, t)
                    \cup FullConfidenceCommands(p)
  IN IF CodeTestRequired(t) THEN { c \in planned \cup selector : TestExecution(c) } ELSE planned
=============================================================================
