SPECIFICATION Spec
CHECK_DEADLOCK FALSE
SYMMETRY Alike
CONSTANTS
  Values <- SomeValues
  Unset = Unset
  Object = Object
  Found <- SomeFound
  Texts <- SomeTexts
  TextOf <- AsText
  BoolOf <- Bools
  IntOf <- Ints
  FloatOf <- Floats
  NaN = NaN
  Rank <- SomeRank
  VersionOf <- Versions
  SuffixOf <- Suffixed
  ModuloOf <- Modulos
  Contained <- Substrings
  Regexp <- Substrings
  Percentage <- Hash
  IdentityKey = "true"
  Buckets = 8
  Weights <- SomeWeights
  Ids = {1}
  Uuids = {3, 9}
  NoPriority = 5
  Missing = Missing
  MaxVariants = 1
  Atoms = {a, b, c}
  MaxSize = 1
INVARIANTS
  IntegersAreOrdered
