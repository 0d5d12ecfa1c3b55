CONSTANTS
  Process = {p1, p2}
  local = local
  remote = remote
  t0 = t0
  t1 = t1
  t2 = t2
  t3 = t3
  here = here
  there = there
  Tree = {t0, t1, t2, t3}
  Head <- MCHead
  Hash <- MCHash
  Local = {local}
  Remote = remote
  Trust <- MCTrust
  Location = {here, there}
  LocalPack <- MCLocalPack
  RemotePack <- MCRemotePack
  Config <- MCConfig
  Invalid = Invalid
  Nil = Nil
  MaxLoads = 3
  MaxChanges = 2
SPECIFICATION Spec
INVARIANTS
  TypeOK
  RemoteIsServedSafely
  FreshContextIsCurrent
PROPERTIES
  RefetchUnblocks
SYMMETRY ProcessSymmetry
CHECK_DEADLOCK FALSE
