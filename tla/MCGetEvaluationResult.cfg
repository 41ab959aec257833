SPECIFICATION Spec
CHECK_DEADLOCK FALSE
CONSTANTS
  Keys <- ThreeKeys
  Names = {"feature", "gone"}
  Features = {"feature"}
  MaxPriority = 0
  MaxOverrides = 2
  None = None
INVARIANTS
  TypeOK
  LastOfTheStrongest
  IdentityOverridesWin
