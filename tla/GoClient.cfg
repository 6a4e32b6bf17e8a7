\* Every kind of disturbance, twice, against bridges that poll or do not.
CONSTANTS
  MaxMsg = 2
  MaxStream = 3
  MaxFaults = 2
  Disturbances = {"break", "restart", "rpc", "refuse", "ping"}
SPECIFICATION FairSpec
INVARIANTS
  TypeOK
  OneStreamPerSession
PROPERTIES
  EveryMessageFetched
  PushesAreFetched
CHECK_DEADLOCK FALSE
