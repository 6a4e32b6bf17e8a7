\* The Python SDK and a hub that hangs.
CONSTANTS
  Langs = {"py"}
  ArgChoices <- Callers
  EnvChoices <- Environments
  MaxMsg = 1
  PushCap = 1
  MaxFaults = 1
  Disturbances = {"hangs"}
SPECIFICATION FairSpec
PROPERTIES
  HungHubPinsNobody
CHECK_DEADLOCK FALSE
