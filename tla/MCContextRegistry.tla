-------------------------- MODULE MCContextRegistry --------------------------
(* Values for the run of ContextRegistry. *)
EXTENDS ContextRegistry, TLC

CONSTANTS local, remote, t0, t1, t2, t3, here, there

Doc(main, reference) == [name |-> "guide", main |-> main, reference |-> reference]

\* Between the first two trees the companion file changes, which is committed in the
\* last one; in the third the document is broken.
MCLocalPack ==
  [s \in {local} |->
     [t \in {t0, t1, t2, t3} |-> CASE t = t0 -> {Doc("a", "a")}
                                   [] t \in {t1, t3} -> {Doc("a", "b")}
                                   [] t = t2 -> Invalid]]

MCHead == [t \in {t0, t1, t2, t3} |-> IF t = t3 THEN "second" ELSE "first"]

\* The first tree and the last are clean.
MCHash == [t \in {t0, t1, t2, t3} |-> CASE t \in {t0, t3} -> "clean"
                                         [] t = t1 -> "changed"
                                         [] t = t2 -> "broken"]

First == {Doc("r", "r")}
Second == {[name |-> "other", main |-> "r", reference |-> "r"]}

MCRemotePack == {First, Second}

\* The remote source is loaded before the local one.
MCTrust == [s \in {local, remote} |-> IF s = remote THEN 1 ELSE 2]

Settings(sources, offline, location, pin) ==
  [sources |-> sources, offline |-> offline, location |-> location, pin |-> pin]

MCConfig ==
  { Settings({local, remote}, FALSE, here, First),
    Settings({local, remote}, FALSE, there, Second),
    Settings({local, remote}, TRUE, here, First) }

ProcessSymmetry == Permutations(Process)
==============================================================================
