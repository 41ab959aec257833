SPECIFICATION Spec
CHECK_DEADLOCK FALSE
CONSTANTS
  Identifiers <- Plain
  ArrayOf <- Arrays
  JSONStarts <- Starts
  FeatureStates <- SomeStates
  Sprint <- SomeTexts
  MaxFeatures = 2
  MaxIdentities = 3
INVARIANTS
  OwnOverridesApply
  SameOverridesOneSegment
