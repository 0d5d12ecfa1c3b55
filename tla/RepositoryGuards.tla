--------------------------- MODULE RepositoryGuards ---------------------------
(***************************************************************************)
(* What the guards find in a change: references to what does not exist      *)
(* (guards/hallucination.ts), earlier bugs it touches (guards/regression.ts *)
(* with regression-memory.ts), and what the policy engine forbids or calls  *)
(* a risk (policy-engine.ts).  As in RepositoryContracts, the contracts are *)
(* those of the tree m, the context package is that of p, the disk has t.   *)
(***************************************************************************)
EXTENDS VerificationPlan, RepositoryContracts

CONSTANTS
  Memory,        \* the entries of the regression memory
  TaskTerms,     \* the words of the task
  ContextShown   \* git reports the generated contracts among the changed files

\* What a memory entry says; "terms" are the words of its pattern.
ASSUME MemoryAssumption ==
  \A e \in Memory : DOMAIN e = {"id", "module", "files", "required", "triggers", "terms"}

-----------------------------------------------------------------------------
(* guards/hallucination.ts                                                 *)

Modified(p, t) == Changed(t) \cap Scanned(p)

Checked(p, t) == { f \in Modified(p, t) : FileKind(f) \in {"source", "test", "config"} }

\* readPackageIndex
ScriptNames(t) == { s[1] : s \in ToSet(Scripts(RootManifest(t))) }

Dependencies(t) ==
  IF RootManifest(t) = Nil \/ Scripts(RootManifest(t)) = << >> THEN {}
  ELSE RootManifest(t).dependencies

\* packageScriptClaim: a subcommand of the package manager counts as a script.
IsScriptClaim(c) == c.tool \in ScriptRunners

\* collectNamedImportClaims reads the disk, exportExists asks the package.
UnknownSymbols(p, t, f) ==
  { u \in Read(t, f).uses : u[1] \in Scanned(p) /\ u[2] \notin p[u[1]].exports \cup {"default"} }

(***************************************************************************)
(* The errors: a local import that does not resolve, a name its target does *)
(* not export.                                                              *)
(***************************************************************************)
BrokenReference(p, t) ==
  \E f \in Checked(p, t) :
    \/ Unresolved(p, f) # {}
    \/ f \in DOMAIN t /\ UnknownSymbols(p, t, f) # {}

\* configKeyExists
DocumentedEnv(p, t) ==
  UNION { t[f].env : f \in (EnvExamples(p) \cup ConfigFiles(p)) \cap DOMAIN t }

\* collectFileReferenceClaims: paths in added lines of files that git tracks.
MentionedPaths(t) ==
  UNION { t[f].mentions \ Base[f].mentions : f \in DOMAIN t \cap DOMAIN Base }

IsPathClaim(f) == Len(f) > 1 /\ f[1] \notin {"node_modules", "dist", "build", "coverage"}

\* The warnings about the change itself.
DoubtfulReference(p, t) ==
  \/ \E f \in Checked(p, t) : ~(p[f].packages \subseteq Dependencies(t))
  \/ \E f \in { g \in Checked(p, t) : FileKind(g) \in {"source", "config"} } \cap DOMAIN t :
       ~(t[f].env \subseteq DocumentedEnv(p, t))

\* Claimed paths that are neither in the package nor on disk: a warning as well.
MissingPaths(p, t, claimed) ==
  { f \in claimed : IsPathClaim(f) /\ f \notin Scanned(p) \cup DOMAIN t }

-----------------------------------------------------------------------------
(* guards/regression.ts                                                    *)

(***************************************************************************)
(* modulesForFiles: the module a file is indexed under, and the shortest    *)
(* one whose name its path begins with.                                     *)
(***************************************************************************)
AffectedModules(p, t) ==
  LET leading(f) == { n \in Modules(p) : IsPrefix(n, f) /\ n # << >> }
      first(f)   == { n \in leading(f) : \A o \in leading(f) : Len(n) <= Len(o) }
  IN (UNION { first(f) : f \in Changed(t) } \cup { ModuleOf(p, f) : f \in Modified(p, t) })
       \ {<< >>}

\* matchRegressionEntry
Matches(entry, p, t) ==
  \/ entry.files \cap Changed(t) # {}
  \/ entry.module \in AffectedModules(p, t)
  \/ (entry.triggers \cup entry.terms) \cap TaskTerms # {}

MatchedMemory(p, t) == { entry \in Memory : Matches(entry, p, t) }

RegressionCommands(p, t) == UNION { entry.required : entry \in MatchedMemory(p, t) }

-----------------------------------------------------------------------------
(* guards/regression-memory.ts                                             *)

\* moduleFromPath, for files the package does not know.
ModuleFromPath(f) == IF f[1] = "src" /\ Len(f) > 1 THEN <<f[2]>> ELSE <<f[1]>>

\* dominantModule
DominantModule(p, files) ==
  LET module(f)    == IF f \in Scanned(p) THEN ModuleOf(p, f) ELSE ModuleFromPath(f)
      count(n)     == Cardinality({ f \in files : module(f) = n })
      candidates   == { module(f) : f \in files }
  IN IF files = {} THEN << >>
     ELSE CHOOSE n \in candidates : \A o \in candidates : count(o) <= count(n)

(***************************************************************************)
(* buildRegressionMemoryCandidate and candidateToMemoryEntry: what is       *)
(* remembered of the fix that made the tree t.  The words of the paths, of  *)
(* which the code takes the first few, are the names on them.               *)
(***************************************************************************)
CandidateEntry(p, t, task) ==
  LET files  == Changed(t)
      module == DominantModule(p, files)
  IN [ id       |-> <<module, task, files>>,
       module   |-> module,
       files    |-> files,
       required |-> RunTestFiles(p, MinimalTests(p, t)) \cup RecommendedCommands(p, t),
       triggers |-> task \cup UNION { ToSet(f) : f \in files },
       terms    |-> task ]

\* writeFinalizeMemoryCandidate: nothing changed, nothing to remember.
FinalizeCandidate(p, t, task) == IF Changed(t) = {} THEN {} ELSE {CandidateEntry(p, t, task)}

\* addRegressionMemoryFromCandidate
Remembered(entries, entry) == { e \in entries : e.id # entry.id } \cup {entry}

-----------------------------------------------------------------------------
(* policy-engine.ts                                                        *)

IsBuildOutput(f) == InDir(f, {"dist", "build", "coverage", ".next", "out"})

IsSensitive(f) ==
  InDir(f, {"auth", "session", "security", "payment", "payments", "billing", "checkout",
            "invoice", "invoices"}) \/ Is(f, "sensitive-prefix")

IsContractGenerator(f) == Is(f, "generator") \/ Under(f, <<"src", "outputs", "contracts">>)

\* Of generated files only those that the package knows are forbidden.
ForbiddenChanges(m, p, t) ==
  (IF \E f \in Modified(p, t) : IsGeneratedPath(f) THEN {"generated-source"} ELSE {})
    \cup (IF \E f \in Changed(t) : IsBuildOutput(f) THEN {"build-output"} ELSE {})
    \cup (IF \E v \in ContractViolations(m, p, t) : v.severity = "error"
          THEN {"contract-error"} ELSE {})

RiskyChange(m, p, t) ==
  \/ \E f \in Changed(t) : IsSensitive(f)
  \/ Cardinality(Changed(t)) >= 10
  \/ HighImpact(p, t)
  \/ \E v \in ContractViolations(m, p, t) : v.severity = "warning"

\* requiresContractRegeneration
ContractsNotRegenerated(t) == ~ContextShown /\ \E f \in Changed(t) : IsContractGenerator(f)
=============================================================================
