SPECIFICATION Spec
CONSTANTS
  InitialBackoff = 200
  MaxBackoff = 30000
  Jitters <- SomeJitters
  MaxFailures = 15
INVARIANT CappedAtMax
