\* Every budget up to five attempts, with Python's time-out.
CONSTANTS
  MaxMax = 5
  Base = 1
  HasTimeOut = TRUE
SPECIFICATION Spec
INVARIANTS
  CopiesBounded
  BudgetUsedExactly
  AbsentPeerEndsIt
CHECK_DEADLOCK FALSE
