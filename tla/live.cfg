SPECIFICATION FairSpec
CONSTANTS
  Dims = {"cores"}
  None = None
  u1 = u1
  u2 = u2
  p1 = p1
  p2 = p2
  g1 = g1
  g2 = g2
  g3 = g3
  root = root
  Users = {u1, u2}
  Pools = {p1, p2}
  Guests = {g1, g2}
  Slots = {s1, s2}
  TaskIds = {t1, t2}
  Acl <- OwnPool
  Cap <- MCCap
  Ops <- LiveOps
  Configs <- LiveConfig
  Worlds <- LiveWorlds
  Admins = {}
  Enforce = TRUE
  FailClosed = TRUE
  DefaultDeny = FALSE
  Faults = {"reply", "read", "slow"}
  Stalled = {u1}
  UnusedDims = {"cores"}
PROPERTIES EveryRequestCompletes
