---------------------------- MODULE MatchCondition ----------------------------
(***************************************************************************)
(* contextMatchesCondition and parseAndMatch: whether a value of the       *)
(* context matches a condition of a segment.  Both become texts, and what  *)
(* two texts both parse as decides how they are compared: as booleans, as  *)
(* integers, as floats or, in the end, as strings.                         *)
(*                                                                         *)
(* A text is a value of the model; what the parsers of the standard        *)
(* library and of semver make of it is given by constants, partial         *)
(* functions that are undefined where parsing fails.  The operator IN is   *)
(* in IdentityOverrides.                                                   *)
(***************************************************************************)
EXTENDS Integers

CONSTANTS
  Values,     \* primitive values of the context
  Object,     \* what a path finds that is no primitive value
  Unset,      \* no value: no such trait, or nil
  Texts,      \* texts of values and of conditions
  TextOf,     \* ToString: TextOf[v] is the text of value v
  BoolOf,     \* strconv.ParseBool
  IntOf,      \* strconv.ParseInt
  FloatOf,    \* strconv.ParseFloat, in tenths
  NaN,        \* the float that is no number
  Rank,       \* the place of each text in the order of strings
  VersionOf,  \* semver.Make, in the order of versions
  SuffixOf,   \* of a text that ends in ":semver", what stands before it
  ModuloOf,   \* of a text "d|r" of two floats, d and r in tenths
  Contained,  \* the pairs <<text, substring>>
  Regexp,     \* the pairs <<text, pattern>> that match
  Percentage, \* hash of the segment's key and a text, in tenths
  IdentityKey \* ec.Identity.Key, or Unset when there is no identity

ASSUME MatchAssumption ==
  /\ {Unset, Object} \cap Values = {} /\ Unset # Object /\ Unset \notin Texts
  /\ TextOf \in [Values -> Texts]
  /\ \A f \in {BoolOf, IntOf, FloatOf, VersionOf, SuffixOf, ModuloOf} : DOMAIN f \subseteq Texts
  /\ \A f \in {IntOf, VersionOf, Rank, Percentage}, t \in Texts : t \in DOMAIN f => f[t] \in Int
  /\ \A t \in DOMAIN FloatOf : FloatOf[t] \in Int \cup {NaN}
  /\ NaN \notin Int
  /\ Texts \subseteq DOMAIN Rank \cap DOMAIN Percentage
  /\ IdentityKey \in Texts \cup {Unset}

\* What parses as an integer parses as a float, to which it is rounded; a text with
\* a suffix is no number.
ASSUME RoundingAssumption ==
  /\ \A t \in DOMAIN IntOf : t \in DOMAIN FloatOf /\ FloatOf[t] # NaN
  /\ \A t, u \in DOMAIN IntOf : IntOf[t] <= IntOf[u] => FloatOf[t] <= FloatOf[u]
  /\ DOMAIN SuffixOf \cap DOMAIN FloatOf = {}

Orders == {"EQUAL", "NOT_EQUAL", "GREATER_THAN", "LESS_THAN",
           "GREATER_THAN_INCLUSIVE", "LESS_THAN_INCLUSIVE"}

Operators == Orders \cup {"MODULO", "REGEX", "CONTAINS", "NOT_CONTAINS",
                          "IS_SET", "IS_NOT_SET", "PERCENTAGE_SPLIT"}

\* A condition's value is Unset when it is nil or not a string.
Condition == [operator : Operators, value : Texts \cup {Unset}]

\* getContextValue, of what a property that is a JSONPath finds first in the context
\* (Unset if it is none, does not parse or finds nothing), and of the trait that
\* has the property's very name.
GetContextValue(found, trait) == IF found \in Values THEN found ELSE trait

-------------------------------------------------------------------------------
(* Comparing two texts.                                                     *)

\* Mutant: at most is less than.
CompareAtMost(operator, x, y) ==
  CASE operator = "NOT_EQUAL" -> x # y \/ x = NaN
    [] operator = "EQUAL" -> x = y /\ x # NaN
    [] NaN \in {x, y} -> FALSE
    [] operator \in {"LESS_THAN", "LESS_THAN_INCLUSIVE"} -> x < y
    [] operator = "GREATER_THAN" -> x > y
    [] operator = "GREATER_THAN_INCLUSIVE" -> x >= y

\* dispatchOperator and evaluateSemverGeneric; nothing compares with NaN.
Compare(operator, x, y) ==
  CASE operator = "NOT_EQUAL" -> x # y \/ x = NaN
    [] operator = "EQUAL" -> x = y /\ x # NaN
    [] NaN \in {x, y} -> FALSE
    [] operator = "GREATER_THAN" -> x > y
    [] operator = "LESS_THAN" -> x < y
    [] operator = "GREATER_THAN_INCLUSIVE" -> x >= y
    [] operator = "LESS_THAN_INCLUSIVE" -> x <= y

\* dispatchComparableOperator: booleans have no order.
CompareBools(operator, x, y) ==
  \/ operator = "EQUAL" /\ x = y
  \/ operator = "NOT_EQUAL" /\ x # y

\* A version that does not parse, on either side, matches nothing.
CompareVersions(operator, text, suffixed) ==
  /\ SuffixOf[suffixed] \in DOMAIN VersionOf
  /\ text \in DOMAIN VersionOf
  /\ Compare(operator, VersionOf[text], VersionOf[SuffixOf[suffixed]])

\* math.Mod has the sign of the dividend; modulo zero is NaN.
Mod(x, d) == IF x >= 0 THEN x % d ELSE -((-x) % d)

CompareModulo(text, value) ==
  /\ value \in DOMAIN ModuloOf
  /\ text \in DOMAIN FloatOf
  /\ FloatOf[text] # NaN
  /\ LET d == ModuloOf[value][1] IN
     d # 0 /\ Mod(FloatOf[text], IF d > 0 THEN d ELSE -d) = ModuloOf[value][2]

Both(f, text, value) == {text, value} \subseteq DOMAIN f

\* Mutant: floats are not tried.
ParseAndCompareNoFloats(operator, text, value) ==
  CASE Both(BoolOf, text, value) -> CompareBools(operator, BoolOf[text], BoolOf[value])
    [] ~Both(BoolOf, text, value) /\ Both(IntOf, text, value) ->
         Compare(operator, IntOf[text], IntOf[value])
    [] OTHER -> Compare(operator, Rank[text], Rank[value])

\* The ladder of parseAndMatch.
ParseAndCompare(operator, text, value) ==
  CASE Both(BoolOf, text, value) -> CompareBools(operator, BoolOf[text], BoolOf[value])
    [] ~Both(BoolOf, text, value) /\ Both(IntOf, text, value) ->
         Compare(operator, IntOf[text], IntOf[value])
    [] ~Both(BoolOf, text, value) /\ ~Both(IntOf, text, value) /\ Both(FloatOf, text, value) ->
         Compare(operator, FloatOf[text], FloatOf[value])
    [] OTHER -> Compare(operator, Rank[text], Rank[value])

ParseAndMatch(operator, text, value) ==
  CASE operator = "MODULO" -> CompareModulo(text, value)
    [] operator = "REGEX" -> <<text, value>> \in Regexp
    [] operator = "CONTAINS" -> <<text, value>> \in Contained
    [] operator = "NOT_CONTAINS" -> <<text, value>> \notin Contained
    [] operator \in Orders /\ value \in DOMAIN SuffixOf -> CompareVersions(operator, text, value)
    [] operator \in Orders /\ value \notin DOMAIN SuffixOf ->
         ParseAndCompare(operator, text, value)

\* matchPercentageSplit: of the value if there is one, or else of the identity.
MatchPercentageSplit(v, value) ==
  LET hashed == IF v # Unset THEN TextOf[v] ELSE IdentityKey IN
  /\ hashed # Unset
  /\ value # Unset
  /\ value \in DOMAIN FloatOf
  /\ FloatOf[value] # NaN
  /\ Percentage[hashed] <= FloatOf[value]

\* contextMatchesCondition.
Matches(v, operator, value) ==
  CASE operator = "PERCENTAGE_SPLIT" -> MatchPercentageSplit(v, value)
    [] operator = "IS_NOT_SET" -> v = Unset
    [] operator = "IS_SET" -> v # Unset
    [] OTHER -> v # Unset /\ value # Unset /\ ParseAndMatch(operator, TextOf[v], value)

-------------------------------------------------------------------------------
(* What segments rely on; EngineEdits says of which edits.                  *)

\* An order can be told of the two: no boolean on both sides, no NaN, and a
\* version against a version.
Comparable(text, value) ==
  IF value \in DOMAIN SuffixOf
  THEN text \in DOMAIN VersionOf /\ SuffixOf[value] \in DOMAIN VersionOf
  ELSE /\ ~Both(BoolOf, text, value)
       /\ Both(FloatOf, text, value) => NaN \notin {FloatOf[text], FloatOf[value]}

\* Just one of <, = and > holds, and the other operators are made of these.
Partitions(v, value) ==
  /\ Matches(v, "LESS_THAN", value) <=> ~Matches(v, "GREATER_THAN_INCLUSIVE", value)
  /\ Matches(v, "GREATER_THAN", value) <=> ~Matches(v, "LESS_THAN_INCLUSIVE", value)
  /\ Matches(v, "EQUAL", value) <=> ~Matches(v, "NOT_EQUAL", value)
  /\ Matches(v, "EQUAL", value)
       <=> /\ Matches(v, "LESS_THAN_INCLUSIVE", value)
           /\ Matches(v, "GREATER_THAN_INCLUSIVE", value)

LowerBounds == {"GREATER_THAN", "GREATER_THAN_INCLUSIVE"}

Numeric(text) == text \in DOMAIN FloatOf /\ FloatOf[text] # NaN

\* From one text to the next a number grows, or stays the same as an integer.
Grows(text, next) ==
  \/ FloatOf[text] < FloatOf[next]
  \/ Both(IntOf, text, next) /\ IntOf[text] <= IntOf[next]

===============================================================================
