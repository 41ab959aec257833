SPECIFICATION Spec
CHECK_DEADLOCK FALSE
CONSTANTS
  Identifiers <- WithComma
  ArrayOf <- Arrays
  JSONStarts <- Starts
  FeatureStates <- OneState
  Sprint <- SomeTexts
  MaxFeatures = 1
  MaxIdentities = 2
INVARIANTS
  GroupsAreSegments
