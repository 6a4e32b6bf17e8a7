\* The JavaScript router: its handlers may also throw null.
CONSTANTS
  Langs = {"js"}
  Bodies <- Body
  Handled <- SomeHandled
  Passed <- SomePassed
SPECIFICATION Spec
INVARIANTS
  ReadyOnlyOnSuccess
