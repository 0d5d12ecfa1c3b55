----------------------------- MODULE Repository -----------------------------
(***************************************************************************)
(* A repository as the program sees it: the files of a working tree, what   *)
(* git reports as changed, and what scanner, indexer and graph make of it   *)
(* (the context package).                                                   *)
(*                                                                         *)
(* A path is the sequence of its names; a tree maps the paths of its files  *)
(* to what the analyzers find in them.  The patterns that the code applies  *)
(* to a single name (extension, well-known name, word in a script) are the  *)
(* "traits" of the name; what it does with directories is spelled out.      *)
(* A context package is represented by the tree it was built from.          *)
(***************************************************************************)
EXTENDS DecisionEngine, SequencesExt

CONSTANTS
  Base,       \* the tree of the base commit
  Traits,     \* Traits[n]: the patterns that the name n matches
  Includes,   \* pairs of names: the second contains the first, less its extension
  Nil

\* The value of the first case that holds: an if-else chain of the code.
Cascade(cases) ==
  LET i == CHOOSE i \in DOMAIN cases : cases[i][1] /\ \A j \in 1 .. i - 1 : ~cases[j][1]
  IN cases[i][2]

-----------------------------------------------------------------------------
(* Paths (core/path-utils.ts, core/file-classifier.ts)                     *)

BaseName(f) == Last(f)

Is(f, trait) == trait \in Traits[BaseName(f)]

DirOf(f) == Front(f)

InDir(f, names) == \E i \in 1 .. Len(f) - 1 : f[i] \in names

Under(f, dir) == IsStrictPrefix(dir, f)

(***************************************************************************)
(* The text of the part occurs in the path, name by name; "Includes" holds  *)
(* for texts of three letters or more, shorter ones are never looked for.   *)
(***************************************************************************)
Occurs(part, f) ==
  \E i \in 0 .. Len(f) - Len(part) :
    \A k \in DOMAIN part : <<part[k], f[i + k]>> \in Includes

IsGeneratedPath(f) == InDir(f, {"generated", "__generated__", "gen"}) \/ Is(f, "generated")

IsTest(f) == InDir(f, {"__tests__", "test", "tests", "spec"}) \/ Is(f, "test-name")

\* isCiFile, CONFIG_NAMES
InWorkflows(f) == Under(f, <<".github", "workflows">>)

\* classifyFile, in the order of its questions.
FileKind(f) ==
  Cascade(<< << IsGeneratedPath(f), "generated" >>,
             << Is(f, "lockfile"), "lockfile" >>,
             << IsTest(f), "test" >>,
             << Is(f, "prose"), "docs" >>,
             << Is(f, "asset"), "asset" >>,
             << Is(f, "config") \/ InWorkflows(f), "config" >>,
             << Is(f, "code"), "source" >>,
             << TRUE, "unknown" >> >>)

\* DEFAULT_EXCLUDES
ExcludedDirs ==
  {".git", ".agent-context", "node_modules", "dist", "build", "coverage", ".next", ".nuxt",
   ".svelte-kit", ".turbo", ".cache", ".venv", "venv", "__pycache__", "target", "vendor"}

\* scanRepository: the files of the package; the patterns name top directories.
Scanned(t) == { f \in DOMAIN t : f[1] \notin ExcludedDirs }

-----------------------------------------------------------------------------
(* Contents                                                                *)

(***************************************************************************)
(* What the program looks for in a file.  "imports" are the local files it  *)
(* imports, existing or not, "uses" the names it imports from them;         *)
(* "scripts" are pairs of a name and a body, in order; "commands" are the   *)
(* validation commands found in a workflow, "targets" those of a makefile,  *)
(* "sections" what a manifest configures.                                   *)
(***************************************************************************)
Blank ==
  [ version |-> 0, imports |-> {}, uses |-> {}, packages |-> {}, exports |-> {}, env |-> {},
    mentions |-> {}, scripts |-> << >>, workspaces |-> {}, dependencies |-> {},
    commands |-> {}, targets |-> {}, sections |-> {} ]

Read(t, f) == IF f \in DOMAIN t THEN t[f] ELSE Nil

\* changedFilesSince and git status: tracked files that differ, and new ones.
Changed(t) == { f \in DOMAIN t \cup DOMAIN Base : Read(t, f) # Read(Base, f) }

(***************************************************************************)
(* currentWorkingTreeFingerprint (core/working-tree.ts): "git diff HEAD"    *)
(* and the untracked files, with what HEAD and the disk have of each.  What *)
(* HEAD is does not enter: two clean trees of different commits have one    *)
(* fingerprint.                                                             *)
(***************************************************************************)
Uncommitted(head, t) ==
  { f \in DOMAIN head \cup DOMAIN t :
      f[1] \notin {".agent-context", "AGENTS.md"} /\ Read(head, f) # Read(t, f) }

WorkingTreeFingerprint(head, t) ==
  { <<f, Read(head, f), Read(t, f)>> : f \in Uncommitted(head, t) }

-----------------------------------------------------------------------------
(* The context package (core/indexer.ts, core/graph.ts, core/scanner.ts)   *)

\* loadPackagePrefixes
PackageDirs(p) == { DirOf(f) : f \in { g \in Scanned(p) : BaseName(g) = "package.json" } } \ {<< >>}

(***************************************************************************)
(* moduleNameFor: the longest package directory, else the directory under   *)
(* src or app, else the first directory.  << >> is the module "root".       *)
(***************************************************************************)
ModuleOf(p, f) ==
  LET dirs == { d \in PackageDirs(p) : Under(f, d) }
  IN CASE dirs # {} -> CHOOSE d \in dirs : \A e \in dirs : Len(e) <= Len(d)
       [] dirs = {} /\ f[1] \in {"src", "app"} /\ Len(f) > 2 -> <<f[2]>>
       [] OTHER -> SubSeq(f, 1, IF Len(f) > 1 THEN 1 ELSE 0)

\* An import that resolves to no scanned file has no edge.
Resolved(p, f) == p[f].imports \cap Scanned(p)

Unresolved(p, f) == p[f].imports \ Scanned(p)

\* buildDependencyGraph: fileEdges
FileEdges(p) == UNION { { <<f, g>> : g \in Resolved(p, f) } : f \in Scanned(p) }

Modules(p) == { ModuleOf(p, f) : f \in Scanned(p) }

\* buildModules
ModuleFiles(p, module) == { f \in Scanned(p) : ModuleOf(p, f) = module }

ModuleImports(p, module) ==
  { ModuleOf(p, e[2]) : e \in { d \in FileEdges(p) : ModuleOf(p, d[1]) = module } } \ {module}

\* The files that import a file of S.
Importers(p, S) == { e[1] : e \in { d \in FileEdges(p) : d[2] \in S } }

\* ... those that import these, and so on, but not through the files of stop.
Reaching(p, S, stop) ==
  LET step[n \in 0 .. Cardinality(Scanned(p))] ==
        IF n = 0 THEN S ELSE step[n - 1] \cup (Importers(p, step[n - 1]) \ stop)
  IN step[Cardinality(Scanned(p))]

RootManifest(t) == Read(t, <<"package.json">>)

\* readPackageJson: scripts are those of a manifest that parses.
Scripts(parsed) ==
  IF parsed = Nil THEN << >>
  ELSE IF "unparsable" \in parsed.sections THEN << >> ELSE parsed.scripts

\* detectPackageManagers, formatScriptCommand: how the package runs a script.
ScanRunner(p) ==
  Cascade(<< << <<"pnpm-lock.yaml">> \in Scanned(p), "pnpm run" >>,
             << <<"yarn.lock">> \in Scanned(p), "yarn" >>,
             << TRUE, "npm run" >> >>)

\* A command: what runs it, the script or subcommand, and the file it is given.
Cmd(tool, name, file) == [ tool |-> tool, name |-> name, file |-> file ]

\* detectTestCommands, in the order of package.json.
ScanTestCommands(p) ==
  LET tests == SelectSeq(Scripts(RootManifest(p)), LAMBDA s : "test" \in Traits[s[1]])
  IN [ i \in DOMAIN tests |-> Cmd(ScanRunner(p), tests[i][1], Nil) ]

\* detectNamedCommands: the name or the body speaks of it.
NamedCommands(p, trait) ==
  LET named == SelectSeq(Scripts(RootManifest(p)),
                         LAMBDA s : trait \in Traits[s[1]] \cup Traits[s[2]])
  IN [ i \in DOMAIN named |-> Cmd(ScanRunner(p), named[i][1], Nil) ]

EnvExamples(p) == { f \in Scanned(p) : Is(f, "env-example") }

CiFiles(p) == { f \in Scanned(p) : InWorkflows(f) \/ Is(f, "ci-scanned") }

Migrations(p) ==
  { f \in Scanned(p) : InDir(f, {"migration", "migrations", "prisma"})
                       \/ \E i \in 1 .. Len(f) - 2 : f[i] = "db" /\ f[i + 1] = "migrate" }

ConfigFiles(p) == { f \in Scanned(p) : FileKind(f) = "config" }

-----------------------------------------------------------------------------
(* core/freshness.ts                                                       *)

\* What indexHash and graphHash tell apart: paths, sizes, imports and exports of the
\* package's files. Two versions of a file are taken to differ in size.
Index(p) == [ f \in Scanned(p) |-> p[f] ]

(***************************************************************************)
(* sourceHash: the files of the package are hashed again on disk; files     *)
(* that are not in the package are not seen.                                *)
(***************************************************************************)
SameContents(p, old, new) == \A f \in Scanned(p) : Read(old, f) = Read(new, f)
=============================================================================
