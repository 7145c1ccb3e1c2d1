SPECIFICATION FairSpec
CONSTANTS
  root = root
  alice = alice
  None = None
  Users = {root, alice}
  Files <- ThreeFiles
  Flags <- UnitLine
  Slots = {1}
  MaxEdits = 1
  MaxFaults = 0
PROPERTIES ExemptAreListed
CHECK_DEADLOCK FALSE
