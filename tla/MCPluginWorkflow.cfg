CONSTANTS
  Session = {s1, s2}
  in = in
  out = out
  prot = prot
  File <- MCFile
  Scope = {in}
  Avoid = {prot}
  Docs = {prot}
  Verdict <- MCVerdict
  Edited = {out, prot}
  MaxEvaluations = 2
  MaxTakeovers = 2
  MaxDeaths = 1
  MaxUsed = 3
  Nil = Nil
SYMMETRY Sessions
SPECIFICATION Spec
INVARIANTS
  TypeOK
  HandoverKeepsTheTask
  BoundariesStayProtected
  UnboundedOnlyAfterDeath
PROPERTIES
  PassesOnlyWhatWasGranted
  ReviewOfThisTreeHolds
CHECK_DEADLOCK FALSE
