SPECIFICATION FairSpec
CONSTANTS
  root = root
  alice = alice
  bob = bob
  carol = carol
  None = None
  Users = {root, alice, bob, carol}
  Admins = {root}
  Recorded = {alice, carol}
  Requests <- AllRequests
  Flags <- AllFlags
  Bytes = {1, 2}
  MaxBody = 3
INVARIANTS TypeOK BodyIntact BufferBounded  DeniesOnlyEnforced
PROPERTIES Delivered
CHECK_DEADLOCK FALSE
