SPECIFICATION Spec
CONSTANTS
  Good = {c1, c2}
  Bad = {b1}
  Torn = {t1}
  NoFile = NoFile
  Coarse = FALSE
  MaxWrites = 4
CHECK_DEADLOCK FALSE
PROPERTIES KeepsGood
