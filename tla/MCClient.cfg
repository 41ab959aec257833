SPECIFICATION Spec
CHECK_DEADLOCK FALSE
CONSTANTS
  Options <- SomeOptions
  MaxOptions = 3
  DefaultTimeout = 10
  ApiKey = "own"
  OtherKeys = {"another"}
  Callers = {"a", "b"}
  None = None
INVARIANTS
  OnlyConflictsPanic
  RequestsAreBounded
  OwnKey
  FallbackNeverFails
PROPERTIES
  ReadyForGood
  EventuallyReady
