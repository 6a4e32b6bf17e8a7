\* Nothing fails: two overlapping drains are enough.
CONSTANTS
  MaxMsg = 3
  BodyOf <- Mixed
  Mode <- JobMode
  OutCap = 1
  PushCap = 1
  MaxFaults = 0
  Disturbances = {}
SPECIFICATION Spec
INVARIANTS
  DispatchedOnce
