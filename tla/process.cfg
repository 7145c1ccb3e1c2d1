SPECIFICATION FairSpec
CONSTANTS
  root = root
  alice = alice
  None = None
  Users = {root, alice}
  Files <- ThreeFiles
  Flags <- AllLines
  Slots = {1, 2}
  MaxEdits = 2
  MaxFaults = 1
INVARIANTS TypeOK OnlyAdminsBypass
PROPERTIES ComesBack SignalEndsProcess
CHECK_DEADLOCK FALSE
