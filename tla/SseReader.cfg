\* Every stream of up to six lines, ended in every way.
CONSTANTS
  MaxStream = 6
SPECIFICATION ReaderSpec
INVARIANTS
  EachEventOnce
  AnswerIsFirstEvent
  NoAnswerIgnored
CHECK_DEADLOCK FALSE
