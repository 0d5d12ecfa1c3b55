-------------------------- MODULE MCVerificationLoop --------------------------
(* Values for the runs of VerificationLoop: a small repository and its edits. *)
EXTENDS VerificationLoop, TLC

manifestFile == <<"package.json">>
main         == <<"src", "app", "main.ts">>
util         == <<"src", "core", "util.ts">>
extra        == <<"src", "app", "extra.ts">>
keys         == <<"src", "admin", "keys.ts">>
mainTest     == <<"test", "main.test.ts">>
output       == <<"dist", "main.js">>

MCTraits ==
  [ n \in {"package.json", "src", "app", "main.ts", "extra.ts", "core", "util.ts", "admin", "keys.ts",
           "test", "main.test.ts", "dist", "main.js", "check", "vitest", "tsc"} |->
      CASE n = "package.json" -> {"config", "dependency", "manifest"}
        [] n \in {"main.ts", "extra.ts", "util.ts", "keys.ts", "main.js"} -> {"code", "code-extension"}
        [] n = "main.test.ts" -> {"test-name", "test-word", "runnable-test", "code", "code-extension",
                                  "test-mention", "long"}
        [] n = "test" -> {"test", "test-script", "test-mention", "long"}
        [] n = "vitest" -> {"test"}
        [] n = "tsc" -> {"typecheck"}
        [] n = "check" -> {"typecheck"}
        [] n = "admin" -> {"sensitive-word", "long"}
        [] n \in {"core", "dist"} -> {"long"}
        [] OTHER -> {} ]

MCIncludes == {<<"main.ts", "main.test.ts">>, <<"main.test.ts", "main.test.ts">>, <<"test", "test">>,
               <<"test", "main.test.ts">>}

MCBegins == { <<n, n>> : n \in DOMAIN MCTraits }

Source(version, imports) == [Blank EXCEPT !.version = version, !.imports = imports]

MCBase ==
  ( manifestFile :> [Blank EXCEPT !.scripts = << <<"test", "vitest">> >>] ) @@
  ( main :> Source(0, {util}) ) @@ ( util :> Source(0, {}) ) @@ ( keys :> Source(0, {}) ) @@
  ( mainTest :> Source(0, {main}) )

MCContents ==
  [ base       |-> MCBase,
    broken     |-> ( extra :> Source(0, {}) ) @@ [MCBase EXCEPT ![main] = Source(2, {util})],
    done       |-> [MCBase EXCEPT ![main] = Source(2, {util})],
    built      |-> ( output :> Source(0, {}) ) @@ [MCBase EXCEPT ![main] = Source(2, {util})],
    leaky      |-> [MCBase EXCEPT ![main] = Source(2, {util, keys})],
    dangling   |-> [MCBase EXCEPT ![main] = Source(2, {util, <<"src", "app", "gone.ts">>})],
    committed  |-> [MCBase EXCEPT ![main] = Source(2, {util})],
    pulled     |-> ( extra :> Source(0, {}) ) @@ [MCBase EXCEPT ![main] = Source(2, {util})],
    unscripted |-> [MCBase EXCEPT ![main] = Source(2, {util}), ![manifestFile] = Blank] ]

MCEdits ==
  { <<"base", t>> : t \in {"done", "leaky", "dangling", "unscripted"} }
    \cup { <<"committed", t>> : t \in {"broken", "pulled"} }

MCTree == DOMAIN MCContents

\* The unchanged tree is clean, and so are the one with its change committed and the one
\* with a file pulled behind that; "broken" has the same file, but not committed.
MCHeads ==
  [ t \in MCTree |->
      CASE t \in {"committed", "broken"} -> MCContents["committed"]
        [] t = "pulled" -> MCContents["pulled"]
        [] OTHER -> MCBase ]

MCTreeHash ==
  [ base |-> "clean", committed |-> "clean", pulled |-> "clean", broken |-> "broken",
    done |-> "done", built |-> "built", leaky |-> "leaky", dangling |-> "dangling",
    unscripted |-> "unscripted" ]

npmTest           == Cmd("npm run", "test", Nil)
npmTestFile       == Cmd("npm run", "test", mainTest)
validateContracts == ContractCommand
agent             == Cmd("codex", "exec", Nil)

MCCommand == {npmTest, npmTestFile, validateContracts, agent}

MCRuns == {<<"balanced", agent>>, <<"strict", npmTest>>}

MCCaptured == {npmTestFile, validateContracts}

MCNamed == ( npmTestFile :> {main} ) @@ ( validateContracts :> {} )

MCPasses ==
  [ t \in MCTree |->
      {agent, validateContracts} \cup (IF t \in {"broken", "pulled"} THEN {npmTestFile}
                                       ELSE {npmTest, npmTestFile}) ]
\* What a run that made "done" of "base" has left to remember.
MCMemory == Remembered({}, CandidateEntry(MCBase, MCContents["done"], {}))

(***************************************************************************)
(* What comes of these trees, written out; TableAssumption compares it with *)
(* what the operators say.  All changes are changes of main.ts.             *)
(***************************************************************************)
MCPlans ==
  [ known \in MCTree |-> [ current \in MCTree |->
      IF current = "base"
      THEN [ source |-> FALSE, required |-> FALSE, tests |-> {}, useful |-> {}, broken |-> FALSE,
             doubtful |-> FALSE, remembered |-> FALSE, regression |-> {} ]
      ELSE LET offered == IF known = "unscripted" THEN {} ELSE {npmTestFile}
               scripts == IF current = "unscripted" THEN {} ELSE {npmTest}
           IN [ source     |-> TRUE,
                required   |-> TRUE,
                tests      |-> IF scripts = {} THEN {} ELSE scripts \cup offered,
                useful     |-> IF offered = {} THEN scripts ELSE {npmTest, npmTestFile},
                broken     |-> known = "dangling",
                doubtful   |-> FALSE,
                remembered |-> TRUE,
                regression |-> {npmTestFile} ] ] ]

MCFindings ==
  [ contracts \in MCTree |-> [ known \in MCTree |-> [ current \in MCTree |->
      [ forbidden    |-> (IF current = "built" THEN {"build-output"} ELSE {})
                           \cup (IF known = "leaky" /\ current # "base"
                                 THEN {"contract-error"} ELSE {}),
        risk         |-> FALSE,
        missingTests |-> FALSE,
        highImpact   |-> FALSE ] ] ] ]
===============================================================================
