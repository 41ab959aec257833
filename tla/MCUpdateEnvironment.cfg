SPECIFICATION Spec
CONSTANTS
  Callers = {c1, c2, c3}
  MaxVersion = 3
  PageCount <- Pages
  None = None
SYMMETRY CallerSymmetry
INVARIANTS
  TypeOK
  StampIsConservative
  AgreeUnlessMixed
PROPERTY RefreshesAtomically
