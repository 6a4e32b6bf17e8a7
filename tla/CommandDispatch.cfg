\* Every body, and every table a bridge can build over a handful of commands, in
\* the three SDKs.
CONSTANTS
  Langs = {"py", "js", "go"}
  Bodies <- Body
  Handled <- SomeHandled
  Passed <- SomePassed
SPECIFICATION Spec
INVARIANTS
  TypeOK
  HandledIsAckedLast
  YieldedIsUntouched
  ReadyMeansRestarted
  HelpIsHonest
