\* Three readers race with up to five lines of four sizes.
CONSTANTS
  Reader = {r1, r2, r3}
  Size = {1, 2, 3, 5, 8}
  Threshold = 2
  MaxLines = 5
SPECIFICATION Spec
INVARIANTS
  InductiveInv
  WarnsDouble
  WorseningReported
CHECK_DEADLOCK FALSE
