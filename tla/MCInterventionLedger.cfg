CONSTANTS
  Orchestrator = {o}
  Plugin = {p}
  Item = {i, j}
  Profiles <- MCProfiles
  Text = {x}
  Tree = {t0, t1}
  MaxReports = 2
  MaxCaptures = 1
  MaxDisturbances = 1
  Nil = Nil
SPECIFICATION Spec
INVARIANTS
  TypeOK
  VerifiedIsEarned
  RepeatedRecordingAddsNothing
  MirrorIsComplete
CHECK_DEADLOCK FALSE
