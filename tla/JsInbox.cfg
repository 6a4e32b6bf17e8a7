\* A router with a handler, a buffer of one, and any two disturbances.
CONSTANTS
  MaxMsg = 4
  BodyOf <- Mixed
  Mode <- JobMode
  OutCap = 1
  PushCap = 1
  MaxFaults = 2
  Disturbances = {"call", "dies", "hangs", "leaves", "reenters", "disposes"}
SPECIFICATION FairSpec
INVARIANTS
  InductiveInv
  InFlightIsExact
  NoCommandAbandoned
PROPERTIES
  EveryMessageServed
  FailedSessionNoticed
  YieldsInOrder
  ImplementsContract
CHECK_DEADLOCK FALSE
