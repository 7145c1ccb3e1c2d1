SPECIFICATION Spec
CONSTANTS
  Dims = {"cores"}
  None = None
  u1 = u1
  u2 = u2
  p1 = p1
  p2 = p2
  g1 = g1
  g2 = g2
  g3 = g3
  root = root
  Users = {u1, u2, root}
  Pools = {p1, p2}
  Guests = {g1, g2}
  Slots = {s1, s2}
  TaskIds = {t1, t2}
  Acl <- TenantAcl
  Cap <- MCCap
  Ops <- EveryOp
  Configs <- TenantConfigs
  Worlds <- TenantWorlds
  Admins = {root}
  Enforce = TRUE
  FailClosed = FALSE
  DefaultDeny = FALSE
  Faults = {"read", "content", "slow", "reply", "crash"}
  Stalled = {}
  UnusedDims = {"cores"}
CONSTRAINT Follow
SYMMETRY Perms
INVARIANTS ReadCoversUsage TypeOK LockDiscipline PoolSerial WithinQuotaUnlessSlipped
PROPERTIES ImplementsQuotaGate
