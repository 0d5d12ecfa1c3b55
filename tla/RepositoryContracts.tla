------------------------- MODULE RepositoryContracts -------------------------
(***************************************************************************)
(* The contracts generated for a repository (outputs/contracts.ts), the     *)
(* validation of a change against them (outputs/contract-validator.ts) and  *)
(* the impact of a change (outputs/impact.ts).                              *)
(*                                                                         *)
(* Three trees are in play: m, from which the contracts on disk were        *)
(* generated, p, which the context package in memory describes, and t, the  *)
(* working tree.  What changed is a matter of t, what a changed file        *)
(* imports is taken from p, what it may import from m.                      *)
(***************************************************************************)
EXTENDS Repository

(* The contracts                                                           *)

\* moduleOwns: the directories that a module owns with all that is below.
Owns(m, module) ==
  LET roots == { d \in { DirOf(f) : f \in ModuleFiles(m, module) } : IsSuffix(module, d) }
  IN IF roots = {} THEN {module} ELSE roots

OwnedBy(f, dirs) == \E d \in dirs : Under(f, d)

CommonModules(m) ==
  { n \in Modules(m) \ {<< >>} :
      Last(n) \in {"core", "config", "shared", "common", "util", "utils", "lib"} }

\* allowedImportsFor; a module that imports a file at the root may import all.
AllowedDirs(m, module) ==
  UNION { Owns(m, n) : n \in {module} \cup ModuleImports(m, module) \cup CommonModules(m) }

SensitiveModules(m) ==
  { n \in Modules(m) : \E i \in DOMAIN n :
      n[i] \in {"admin", "payment", "payments", "billing", "checkout", "invoice",
                "secret", "secrets"} }

\* forbiddenImportsFor, its module-independent patterns first.
ForbiddenTarget(m, module, g) ==
  \/ InDir(Tail(g), {"generated"}) \/ (Len(g) > 1 /\ Is(g, "generated-infix"))
  \/ OwnedBy(g, {<<"dist">>, <<"build">>})
  \/ /\ \A i \in DOMAIN module : "sensitive-word" \notin Traits[module[i]]
     /\ OwnedBy(g, {<<"src", d>> : d \in {"admin", "payment", "payments", "billing"}})
  \/ \E n \in SensitiveModules(m) \ (ModuleImports(m, module) \cup {module}) :
       OwnedBy(g, Owns(m, n))

\* architectureLayers: what lies directly in src; the command line may import any of it.
LayerAllowed ==
  [ core       |-> {<<"src", "core">>, <<"src", "config">>},
    config     |-> {<<"src", "core">>, <<"src", "config">>},
    outputs    |-> {<<"src", d>> : d \in {"core", "config", "outputs", "retrievers"}},
    retrievers |-> {<<"src", d>> : d \in {"core", "config", "retrievers"}},
    cli        |-> {<<"src">>} ]

LayerForbidden(layer) ==
  {<<"test">>, <<"benchmarks">>}
    \cup (IF layer = "cli" THEN {} ELSE {<<"src", "cli">>})
    \cup (IF layer \in {"core", "config"} THEN {<<"src", "outputs">>} ELSE {})

\* The layer of a file, among those that had a file.
LayersOf(m, f) ==
  { layer \in DOMAIN LayerAllowed :
      Under(f, <<"src", layer>>) /\ \E g \in Scanned(m) : Under(g, <<"src", layer>>) }

\* The test's path has the file's name in it, its module's, or any long name of its path.
SharesName(p, f, test) ==
  \/ Occurs(<<BaseName(f)>>, test)
  \/ ModuleOf(p, f) \notin {<< >>, <<"test">>} /\ Occurs(ModuleOf(p, f), test)
  \/ \E i \in DOMAIN f : "long" \in Traits[f[i]] /\ Occurs(<<f[i]>>, test)

\* relatedTestsFor
ContractTests(m, f) ==
  { test \in Scanned(m) : IsTest(test) /\ (f \in Resolved(m, test) \/ SharesName(m, f, test)) }

-----------------------------------------------------------------------------
(* contract-validator.ts                                                   *)

\* "tests" says that the loop controller takes it for a sign of missing tests.
Violation(file, severity, rule, tests) ==
  [ file |-> file, severity |-> severity, rule |-> rule, tests |-> tests ]

\* validateProtectedPaths: files that were there when the contracts were generated.
ProtectedPaths(m, t) ==
  { Violation(f, "warning", "generated", FALSE) :
      f \in { g \in Changed(t) \cap Scanned(m) : IsGeneratedPath(g) } }
  \cup { Violation(f, "error", "migration", FALSE) : f \in Changed(t) \cap Migrations(m) }
  \cup { Violation(f, "error", "ci", FALSE) : f \in Changed(t) \cap CiFiles(m) }

\* validateLockfilePairing: any manifest will do for any lockfile.
LockfilePairing(t) ==
  IF \E f \in Changed(t) : Is(f, "manifest") THEN {}
  ELSE { Violation(f, "error", "lockfile", FALSE) :
           f \in { g \in Changed(t) : Is(g, "lockfile") } }

\* validateEnvExamples: the names are read from the disk; a warning for each that is new.
UndocumentedEnv(m, p, t) ==
  LET declared == UNION { Read(t, f).env : f \in EnvExamples(p) \cap DOMAIN t }
      readers  == { f \in Changed(t) \cap Scanned(p) \cap DOMAIN t :
                      ~IsTest(f) /\ FileKind(f) \in {"source", "config"} }
      documented == Changed(t) \cap (EnvExamples(p) \cup EnvExamples(m)) # {}
  IN IF documented THEN {}
     ELSE { Violation(f, "warning", "env", FALSE) :
              f \in { g \in readers : ~(t[g].env \subseteq declared) } }

\* validateArchitectureLayers
LayerViolations(m, p, t) ==
  UNION { { Violation(e[1], "error", "layer",
                      /\ OwnedBy(e[2], LayerForbidden(layer))
                      /\ \E i \in DOMAIN e[2] : "test-mention" \in Traits[e[2][i]]) :
              layer \in { l \in LayersOf(m, e[1]) : \/ OwnedBy(e[2], LayerForbidden(l))
                                                    \/ ~OwnedBy(e[2], LayerAllowed[l]) } } :
          e \in { d \in FileEdges(p) : d[1] \in Changed(t) } }

(***************************************************************************)
(* validateModuleBoundaries.  The boundary is that of the module the file   *)
(* has in the package; a module that is new to the contracts falls back on  *)
(* one that owns the file.  The module "root" has no boundary.              *)
(***************************************************************************)
BoundaryModules(m, p, f) ==
  LET known  == Modules(m) \ {<< >>}
      owners == { n \in known : OwnedBy(f, Owns(m, n)) }
  IN IF ModuleOf(p, f) \in known THEN {ModuleOf(p, f)}
     ELSE IF owners = {} THEN {} ELSE {CHOOSE n \in owners : TRUE}

OutsideBoundary(m, module, g) ==
  ForbiddenTarget(m, module, g) \/ ~OwnedBy(g, AllowedDirs(m, module))

BoundaryViolations(m, p, t) ==
  { Violation(e[1], "error", "boundary",
              \E i \in DOMAIN ModuleOf(p, e[1]) : "test-mention" \in Traits[ModuleOf(p, e[1])[i]]) :
      e \in { d \in FileEdges(p) :
                d[1] \in Changed(t)
                /\ \E module \in BoundaryModules(m, p, d[1]) : OutsideBoundary(m, module, d[2]) } }

\* validateChangedSourceTests, which only asks for tests of core modules.
UntestedSources(m, t) ==
  { Violation(f, "warning", "test", TRUE) :
      f \in { g \in Changed(t) \cap Scanned(m) :
                /\ FileKind(g) = "source"
                /\ InDir(Tail(g), {"core"})
                /\ ContractTests(m, g) \cap Changed(t) = {} } }

\* validateContracts
ContractViolations(m, p, t) ==
  ProtectedPaths(m, t) \cup LockfilePairing(t) \cup UndocumentedEnv(m, p, t)
    \cup LayerViolations(m, p, t) \cup BoundaryViolations(m, p, t) \cup UntestedSources(m, t)

-----------------------------------------------------------------------------
(* impact.ts, by its internal backend                                      *)

\* directDependentsOf
DirectDependents(p, t) == { f \in Importers(p, Changed(t)) \ Changed(t) : ~IsTest(f) }

\* transitiveDependentsOf goes on through test files, but not through changed ones.
TransitiveDependents(p, t) ==
  { f \in Reaching(p, DirectDependents(p, t), Changed(t)) \ DirectDependents(p, t) : ~IsTest(f) }

\* relatedTestsFor: of the changed files and of their dependents.
ImpactTests(p, t) ==
  LET files == Changed(t) \cup DirectDependents(p, t) \cup TransitiveDependents(p, t)
  IN { test \in Scanned(p) :
         IsTest(test) /\ \/ Resolved(p, test) \cap files # {}
                         \/ \E f \in files \cap Scanned(p) : SharesName(p, f, test) }

AtMost(n, limit) == IF n < limit THEN n ELSE limit

\* impactRisk
ImpactScore(p, t) ==
  LET changed == Changed(t) \cap Scanned(p)
      sources == { f \in changed : FileKind(f) = "source" }
      points(condition, n) == IF condition THEN n ELSE 0
  IN AtMost(12 * Cardinality(sources), 30)
       + AtMost(8 * Cardinality(DirectDependents(p, t)), 25)
       + AtMost(6 * Cardinality(TransitiveDependents(p, t)), 25)
       + points(changed \cap (ConfigFiles(p) \cup Migrations(p)) # {}, 25)
       + points(sources # {} /\ ImpactTests(p, t) = {}, 15)
       + points(\E f \in changed : Is(f, "important"), 10)

HighImpact(p, t) == ImpactScore(p, t) >= 70
=============================================================================
