SPECIFICATION FairSpec
CONSTANTS
  Good = {c1, c2, c3}
  Bad = {b1}
  Torn = {t1}
  NoFile = NoFile
  Coarse = FALSE
  MaxWrites = 4
CHECK_DEADLOCK FALSE
INVARIANTS TypeOK CurrentWhenQuiet
PROPERTIES Converges
