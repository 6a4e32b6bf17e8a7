\* The default inbox(), a row that does not parse, another whose body is not a
\* string, queues of one, and any one disturbance.
CONSTANTS
  MaxMsg = 5
  BodyOf <- OddRowLast
  Mode <- LegacyMode
  OutCap = 1
  PushCap = 1
  MaxFaults = 1
  Disturbances = {"call", "dies", "hangs", "leaves", "reenters"}
SPECIFICATION FairSpec
INVARIANTS
  OneDrainAtATime
  InFlightIsExact
  ReadWasShown
  DispatchedOnce
  InductiveInv
PROPERTIES
  YieldsInOrder
  ImplementsContract
  EveryMessageServed
  FailedSessionNoticed
CHECK_DEADLOCK FALSE
