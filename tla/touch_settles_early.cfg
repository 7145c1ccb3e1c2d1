SPECIFICATION Spec
CONSTANTS
  Dims = {"cores", "disk"}
  None = None
  u1 = u1
  u2 = u2
  p1 = p1
  p2 = p2
  g1 = g1
  g2 = g2
  g3 = g3
  root = root
  Users = {u1}
  Pools = {p1}
  Guests = {g1, g2}
  Slots = {s1, s2}
  TaskIds = {t1, t2}
  Acl <- OwnPool
  Cap <- MCCap
  Ops <- ResizeOps
  Configs <- OneConfig
  Worlds <- FloodWorlds
  Admins = {}
  Enforce = TRUE
  FailClosed = TRUE
  DefaultDeny = FALSE
  Faults = {}
  Stalled = {}
  UnusedDims = {}
SYMMETRY Perms
INVARIANTS SettledMeansLanded
