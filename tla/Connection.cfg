\* Both SDKs, three messages, a push queue of one, any two disturbances.
CONSTANTS
  Langs = {"py", "js"}
  ArgChoices <- Callers
  EnvChoices <- Environments
  MaxMsg = 3
  PushCap = 1
  MaxFaults = 2
  Disturbances = {"call", "dies", "hangs", "leaves", "cancels", "env"}
SPECIFICATION FairSpec
INVARIANTS
  TypeOK
  NothingLeftOpen
  OneIdentity
  EnteredIsVisible
PROPERTIES
  AnnouncedIsServed
  ConnectEnds
CHECK_DEADLOCK FALSE
