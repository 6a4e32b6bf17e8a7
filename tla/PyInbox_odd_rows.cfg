\* No disturbance at all, a body that is not a string, the default inbox().
CONSTANTS
  MaxMsg = 3
  BodyOf <- WithNonString
  Mode <- LegacyMode
  OutCap = 1
  PushCap = 1
  MaxFaults = 0
  Disturbances = {}
SPECIFICATION FairSpec
PROPERTIES
  TextsSurviveOddRows
