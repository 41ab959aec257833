--------------------------- MODULE EngineEditsProofs ---------------------------
(***************************************************************************)
(* What edits may change, for any environment: for texts whatever the      *)
(* parsers make of them, for variants of any weights and priorities, and   *)
(* for rules of any depth.                                                 *)
(***************************************************************************)
EXTENDS EngineEdits, WellFoundedInduction, FiniteSetTheorems, TLAPS

-------------------------------------------------------------------------------
(* Induction over numbers.                                                  *)

LEMMA LeastNumber ==
  ASSUME NEW S, S \subseteq Nat, S # {}
  PROVE  \E n \in S : \A m \in S : ~(m < n)
<1>1. PICK n \in S : \A m \in S : <<m, n>> \notin OpToRel(<, Nat)
  BY NatLessThanWellFounded, WFMin
<1> QED BY <1>1 DEF OpToRel

LEMMA NatSetInduction ==
  ASSUME NEW S, 0 \in S, \A n \in Nat : n \in S => n + 1 \in S
  PROVE  Nat \subseteq S
<1> SUFFICES ASSUME Nat \ S # {}
             PROVE  FALSE
  OBVIOUS
<1>1. PICK n \in Nat \ S : \A m \in Nat \ S : ~(m < n)
  BY LeastNumber
<1>2. n - 1 \in Nat /\ n - 1 < n /\ n - 1 + 1 = n
  BY <1>1
<1>3. n - 1 \in S
  BY <1>1, <1>2
<1> QED BY <1>1, <1>2, <1>3

-------------------------------------------------------------------------------
(* Conditions.                                                              *)

\* Integers compare as they should.
LEMMA IntegersCompare ==
  ASSUME NEW x \in Int, NEW y \in Int
  PROVE  /\ Compare("EQUAL", x, y) <=> x = y
         /\ Compare("NOT_EQUAL", x, y) <=> x # y
         /\ Compare("GREATER_THAN", x, y) <=> x > y
         /\ Compare("LESS_THAN", x, y) <=> x < y
         /\ Compare("GREATER_THAN_INCLUSIVE", x, y) <=> x >= y
         /\ Compare("LESS_THAN_INCLUSIVE", x, y) <=> x <= y
  <1>1. NaN \notin {x, y} /\ x # NaN
    BY MatchAssumption
  <1>2. QED
    BY <1>1, SMT DEF Compare

\* Two texts that an order can be told of are compared as two integers, whatever
\* the operator.
LEMMA SomeRung ==
  ASSUME NEW text \in Texts, NEW value \in Texts, Comparable(text, value)
  PROVE  \E x, y \in Int : \A operator \in Orders :
           ParseAndMatch(operator, text, value) <=> Compare(operator, x, y)
  <1>1. \A operator \in Orders :
          operator \notin {"MODULO", "REGEX", "CONTAINS", "NOT_CONTAINS"}
    BY DEF Orders
  <1>2. CASE value \in DOMAIN SuffixOf
    <2>1. VersionOf[text] \in Int /\ VersionOf[SuffixOf[value]] \in Int
      BY <1>2, MatchAssumption DEF Comparable
    <2>2. \A operator \in Orders :
            ParseAndMatch(operator, text, value)
              <=> Compare(operator, VersionOf[text], VersionOf[SuffixOf[value]])
      BY <1>1, <1>2 DEF ParseAndMatch, CompareVersions, Comparable
    <2>3. QED
      BY <2>1, <2>2
  <1>3. CASE value \notin DOMAIN SuffixOf
    <2>1. \A operator \in Orders :
            ParseAndMatch(operator, text, value) <=> ParseAndCompare(operator, text, value)
      BY <1>1, <1>3 DEF ParseAndMatch
    <2>2. ~Both(BoolOf, text, value)
      BY <1>3 DEF Comparable
    <2>3. CASE Both(IntOf, text, value)
      <3>1. IntOf[text] \in Int /\ IntOf[value] \in Int
        BY <2>3, MatchAssumption DEF Both
      <3>2. \A operator \in Orders :
              ParseAndCompare(operator, text, value) <=> Compare(operator, IntOf[text], IntOf[value])
        BY <2>2, <2>3 DEF ParseAndCompare
      <3>3. QED
        BY <2>1, <3>1, <3>2
    <2>4. CASE ~Both(IntOf, text, value) /\ Both(FloatOf, text, value)
      <3>1. FloatOf[text] \in Int /\ FloatOf[value] \in Int
        BY <1>3, <2>4, MatchAssumption DEF Both, Comparable
      <3>2. \A operator \in Orders :
              ParseAndCompare(operator, text, value) <=> Compare(operator, FloatOf[text], FloatOf[value])
        BY <2>2, <2>4 DEF ParseAndCompare
      <3>3. QED
        BY <2>1, <3>1, <3>2
    <2>5. CASE ~Both(IntOf, text, value) /\ ~Both(FloatOf, text, value)
      <3>1. Rank[text] \in Int /\ Rank[value] \in Int
        BY MatchAssumption
      <3>2. \A operator \in Orders :
              ParseAndCompare(operator, text, value) <=> Compare(operator, Rank[text], Rank[value])
        BY <2>2, <2>5 DEF ParseAndCompare
      <3>3. QED
        BY <2>1, <3>1, <3>2
    <2>6. QED
      BY <2>3, <2>4, <2>5
  <1>4. QED
    BY <1>2, <1>3

\* A condition on an order matches if its text does.
LEMMA OrderMatches ==
  ASSUME NEW v \in Values, NEW value \in Texts, NEW operator \in Orders, value # Unset
  PROVE  Matches(v, operator, value) <=> ParseAndMatch(operator, TextOf[v], value)
  <1>1. v # Unset
    BY MatchAssumption
  <1>2. operator \notin {"PERCENTAGE_SPLIT", "IS_NOT_SET", "IS_SET"}
    BY DEF Orders
  <1>3. QED
    BY <1>1, <1>2 DEF Matches

\* Complementary conditions part the contexts, on every rung of the ladder.
THEOREM OrdersPartition ==
  ASSUME NEW v \in Values, NEW value \in Texts, value # Unset, Comparable(TextOf[v], value)
  PROVE  Partitions(v, value)
  <1>1. TextOf[v] \in Texts
    BY MatchAssumption
  <1>2. PICK x \in Int, y \in Int : \A operator \in Orders :
          ParseAndMatch(operator, TextOf[v], value) <=> Compare(operator, x, y)
    BY <1>1, SomeRung
  <1>3. \A operator \in Orders : Matches(v, operator, value) <=> Compare(operator, x, y)
    BY <1>2, OrderMatches
  <1>4. /\ Matches(v, "EQUAL", value) <=> x = y
        /\ Matches(v, "NOT_EQUAL", value) <=> x # y
        /\ Matches(v, "GREATER_THAN", value) <=> x > y
        /\ Matches(v, "LESS_THAN", value) <=> x < y
        /\ Matches(v, "GREATER_THAN_INCLUSIVE", value) <=> x >= y
        /\ Matches(v, "LESS_THAN_INCLUSIVE", value) <=> x <= y
    BY <1>3, IntegersCompare DEF Orders
  <1>5. QED
    BY <1>4, SMT DEF Partitions

\* How a lower bound is compared with a number: as an integer if both are, or
\* else as a float; and not at all if both are booleans.
LEMMA BoundRung ==
  ASSUME NEW text \in Texts, NEW value \in Texts, NEW operator \in LowerBounds,
         Numeric(text), Numeric(value)
  PROVE  /\ Both(BoolOf, text, value) => ~ParseAndMatch(operator, text, value)
         /\ ~Both(BoolOf, text, value) =>
              (ParseAndMatch(operator, text, value)
                 <=> IF Both(IntOf, text, value)
                     THEN Compare(operator, IntOf[text], IntOf[value])
                     ELSE Compare(operator, FloatOf[text], FloatOf[value]))
  <1>1. /\ operator \in Orders
        /\ operator \notin {"MODULO", "REGEX", "CONTAINS", "NOT_CONTAINS", "EQUAL", "NOT_EQUAL"}
    BY DEF LowerBounds, Orders
  <1>2. value \notin DOMAIN SuffixOf /\ Both(FloatOf, text, value)
    BY RoundingAssumption DEF Numeric, Both
  <1>3. ParseAndMatch(operator, text, value) <=> ParseAndCompare(operator, text, value)
    BY <1>1, <1>2 DEF ParseAndMatch
  <1>4. Both(BoolOf, text, value) => ~ParseAndCompare(operator, text, value)
    BY <1>1 DEF ParseAndCompare, CompareBools
  <1>5. ~Both(BoolOf, text, value) =>
          (ParseAndCompare(operator, text, value)
             <=> IF Both(IntOf, text, value)
                 THEN Compare(operator, IntOf[text], IntOf[value])
                 ELSE Compare(operator, FloatOf[text], FloatOf[value]))
    <2>1. CASE Both(BoolOf, text, value)
      BY <2>1
    <2>2. CASE ~Both(BoolOf, text, value) /\ Both(IntOf, text, value)
      BY <2>2 DEF ParseAndCompare
    <2>3. CASE ~Both(BoolOf, text, value) /\ ~Both(IntOf, text, value)
      BY <1>2, <2>3 DEF ParseAndCompare
    <2>4. QED
      BY <2>1, <2>2, <2>3
  <1>6. QED
    BY <1>3, <1>4, <1>5

\* A number that grows keeps above a lower bound, though it may be compared now as
\* an integer and now as a float: rounding keeps the order.  Only if it and the bound
\* are both booleans is it no longer above it, whatever the numbers.
THEOREM GrowthKeepsBound ==
  ASSUME NEW text \in Texts, NEW next \in Texts, NEW value \in Texts,
         NEW operator \in LowerBounds,
         Numeric(text), Numeric(next), Numeric(value),
         Grows(text, next),
         ParseAndMatch(operator, text, value)
  PROVE  ParseAndMatch(operator, next, value) <=> ~Both(BoolOf, next, value)
  <1>1. /\ FloatOf[text] \in Int /\ FloatOf[next] \in Int /\ FloatOf[value] \in Int
        /\ \A t \in DOMAIN IntOf : IntOf[t] \in Int
    BY MatchAssumption DEF Numeric
  <1>2. \A t, u \in DOMAIN IntOf : IntOf[t] <= IntOf[u] => FloatOf[t] <= FloatOf[u]
    BY RoundingAssumption
  <1>3. /\ ~Both(BoolOf, text, value)
        /\ IF Both(IntOf, text, value)
           THEN Compare(operator, IntOf[text], IntOf[value])
           ELSE Compare(operator, FloatOf[text], FloatOf[value])
    BY BoundRung
  <1>4. SUFFICES ASSUME ~Both(BoolOf, next, value)
                 PROVE  IF Both(IntOf, next, value)
                        THEN Compare(operator, IntOf[next], IntOf[value])
                        ELSE Compare(operator, FloatOf[next], FloatOf[value])
    BY BoundRung
  <1>5. CASE operator = "GREATER_THAN"
    <2>1. \A x, y \in Int : Compare(operator, x, y) <=> x > y
      BY <1>5, IntegersCompare
    <2>2. CASE Both(IntOf, next, value)
      BY <1>1, <1>2, <1>3, <2>1, <2>2, SMT DEF Both, Grows
    <2>3. CASE ~Both(IntOf, next, value)
      BY <1>1, <1>2, <1>3, <2>1, <2>3, SMT DEF Both, Grows
    <2>4. QED
      BY <2>2, <2>3
  <1>6. CASE operator = "GREATER_THAN_INCLUSIVE"
    <2>1. \A x, y \in Int : Compare(operator, x, y) <=> x >= y
      BY <1>6, IntegersCompare
    <2>2. CASE Both(IntOf, next, value)
      BY <1>1, <1>2, <1>3, <2>1, <2>2, SMT DEF Both, Grows
    <2>3. CASE ~Both(IntOf, next, value)
      BY <1>1, <1>2, <1>3, <2>1, <2>3, SMT DEF Both, Grows
    <2>4. QED
      BY <2>2, <2>3
  <1>7. QED
    BY <1>5, <1>6 DEF LowerBounds

-------------------------------------------------------------------------------
(* Rules.                                                                   *)

Rule == [type : {"ALL", "ANY", "NONE"}, conditions : SUBSET Atoms, parent : Nat]

\* Every rule comes after the one that it is below.
Tree(rs) == rs \in Seq(Rule) /\ \A i \in 1..Len(rs) : rs[i].parent < i

\* A group of conditions or rules X of which those in Y match.
Passes(type, X, Y) ==
  CASE type = "ALL" -> X \subseteq Y
    [] type = "NONE" -> X \cap Y = {}
    [] type = "ANY" -> X = {} \/ X \cap Y # {}

LEMMA PassesByRuleType ==
  ASSUME NEW type \in {"ALL", "ANY", "NONE"}, NEW X, NEW f, \A x \in X : f[x] \in BOOLEAN,
         NEW Y, \A x \in X : x \in Y <=> f[x]
  PROVE  MatchesByRuleType(type, {f[x] : x \in X}) <=> Passes(type, X, Y)
<1> DEFINE R == {f[x] : x \in X}
<1>1. /\ FALSE \in R <=> \E x \in X : x \notin Y
      /\ TRUE \in R <=> \E x \in X : x \in Y
      /\ R = {} <=> X = {}
  <2>1. \A x \in X : (f[x] = TRUE <=> x \in Y) /\ (f[x] = FALSE <=> x \notin Y)
    BY Zenon
  <2> QED BY <2>1, Zenon
<1> HIDE DEF R
<1>2. MatchesByRuleType(type, R) <=> Passes(type, X, Y)
  <2>1. CASE type = "ALL"
    BY <1>1, <2>1 DEF MatchesByRuleType, Passes
  <2>2. CASE type = "NONE"
    BY <1>1, <2>2 DEF MatchesByRuleType, Passes
  <2>3. CASE type = "ANY"
    BY <1>1, <2>3 DEF MatchesByRuleType, Passes
  <2> QED BY <2>1, <2>2, <2>3
<1> QED BY <1>2 DEF R

\* What contextMatchesSegmentRule makes of rule i, when f says which rules match.
Body(rs, k, f, i) ==
  /\ MatchesByRuleType(rs[i].type, {Holds(c, k) : c \in rs[i].conditions})
  /\ MatchesByRuleType(rs[i].type, {f[j] : j \in Below(rs, i)})

\* f says of the rules from the n-th which match.
IsMatchFrom(rs, k, f, n) == f = [i \in n..Len(rs) |-> Body(rs, k, f, i)]

LEMMA BodyLooksBelow ==
  ASSUME NEW rs, Tree(rs), NEW k, NEW i \in 1..Len(rs), NEW f, NEW g,
         \A j \in (i + 1)..Len(rs) : f[j] = g[j]
  PROVE  Body(rs, k, f, i) = Body(rs, k, g, i)
<1>1. \A j \in Below(rs, i) : f[j] = g[j]
  BY DEF Below, Tree
<1>2. {f[j] : j \in Below(rs, i)} = {g[j] : j \in Below(rs, i)}
  BY <1>1
<1> QED BY <1>2 DEF Body

LEMMA MatchExists ==
  ASSUME NEW rs, Tree(rs), NEW k
  PROVE  \E f : IsMatchFrom(rs, k, f, 1)
<1> DEFINE N == Len(rs)
           S == {d \in Nat : d <= N => \E f : IsMatchFrom(rs, k, f, N + 1 - d)}
<1>0. N \in Nat
  BY DEF Tree
<1>1. 0 \in S
  <2> DEFINE f == [i \in (N + 1)..N |-> TRUE]
  <2>1. f = [i \in (N + 1)..N |-> f[i]]
    OBVIOUS
  <2> HIDE DEF f
  <2>2. \A i \in (N + 1)..N : f[i] = Body(rs, k, f, i)
    BY <1>0
  <2>3. IsMatchFrom(rs, k, f, N + 1 - 0)
    BY <1>0, <2>1, <2>2 DEF IsMatchFrom
  <2> QED BY <2>3
<1>2. ASSUME NEW d \in Nat, d \in S
      PROVE  d + 1 \in S
  <2> SUFFICES ASSUME d + 1 <= N
               PROVE  \E f : IsMatchFrom(rs, k, f, N + 1 - (d + 1))
    OBVIOUS
  <2> DEFINE n == N - d
  <2>1. n \in 1..N /\ N + 1 - d = n + 1 /\ N + 1 - (d + 1) = n
    BY <1>0
  <2>2. PICK f : IsMatchFrom(rs, k, f, n + 1)
    BY <1>0, <1>2, <2>1
  <2> HIDE DEF n
  <2> DEFINE g == [i \in n..N |-> IF i = n THEN Body(rs, k, f, n) ELSE f[i]]
  <2>3. ASSUME NEW i \in n..N
        PROVE  g[i] = Body(rs, k, g, i)
    <3>1. \A j \in (i + 1)..N : f[j] = g[j]
      BY <1>0, <2>1
    <3>2. Body(rs, k, g, i) = Body(rs, k, f, i)
      BY <1>0, <2>1, <3>1, BodyLooksBelow
    <3>3. CASE i = n
      BY <3>2, <3>3
    <3>4. CASE i # n
      <4>1. i \in (n + 1)..N
        BY <1>0, <2>1, <3>4
      <4>2. f[i] = Body(rs, k, f, i)
        BY <2>2, <4>1 DEF IsMatchFrom
      <4> QED BY <3>2, <3>4, <4>2
    <3> QED BY <3>3, <3>4
  <2>4. g = [i \in n..N |-> g[i]]
    OBVIOUS
  <2>5. IsMatchFrom(rs, k, g, n)
    <3> HIDE DEF g
    <3> QED BY <2>3, <2>4 DEF IsMatchFrom
  <2> QED BY <2>1, <2>5
<1>3. N \in S
  <2> HIDE DEF S
  <2>1. Nat \subseteq S
    BY <1>1, <1>2, NatSetInduction
  <2> QED BY <1>0, <2>1
<1>4. N + 1 - N = 1 /\ N <= N
  BY <1>0
<1> QED BY <1>3, <1>4

\* M is the set of the rules that match.
IsMatching(rs, k, M) ==
  \A i \in 1..Len(rs) :
    i \in M <=> /\ Passes(rs[i].type, rs[i].conditions, k)
                /\ Passes(rs[i].type, Below(rs, i), M)

MatchingRules(rs, k) == {i \in DOMAIN rs : MatchesRule(rs, k)[i]}

LEMMA MatchesRuleBody ==
  ASSUME NEW rs, Tree(rs), NEW k, NEW i \in 1..Len(rs)
  PROVE  MatchesRule(rs, k)[i] = Body(rs, k, MatchesRule(rs, k), i)
<1> DEFINE IsMatch(f) == f = [j \in DOMAIN rs |-> Body(rs, k, f, j)]
           h == CHOOSE f : IsMatch(f)
<1>1. DOMAIN rs = 1..Len(rs)
  BY DEF Tree
<1>2. \E f : IsMatch(f)
  BY <1>1, MatchExists DEF IsMatchFrom
<1>3. IsMatch(h)
  BY <1>2
<1>4. MatchesRule(rs, k) = h
  BY DEF MatchesRule, Body
<1> HIDE DEF h
<1>5. h[i] = Body(rs, k, h, i)
  BY <1>1, <1>3
<1> QED BY <1>4, <1>5

LEMMA RulesMatching ==
  ASSUME NEW rs, Tree(rs), NEW k
  PROVE  /\ IsMatching(rs, k, MatchingRules(rs, k))
         /\ InSegment(rs, k)
              <=> Below(rs, 0) # {} /\ Below(rs, 0) \subseteq MatchingRules(rs, k)
<1> DEFINE m == MatchesRule(rs, k)
           M == MatchingRules(rs, k)
<1>1. DOMAIN rs = 1..Len(rs) /\ \A i \in 1..Len(rs) : rs[i] \in Rule
  BY DEF Tree
<1>2. \A i \in 1..Len(rs) : m[i] = Body(rs, k, m, i)
  BY MatchesRuleBody
<1>3. \A i \in 1..Len(rs) : m[i] \in BOOLEAN
  BY <1>2, Zenon DEF Body
<1>4. \A i \in 1..Len(rs) : i \in M <=> m[i]
  BY <1>1 DEF MatchingRules
<1>5. \A i : Below(rs, i) \subseteq 1..Len(rs)
  BY <1>1 DEF Below
<1> HIDE DEF m, M
<1>6. ASSUME NEW i \in 1..Len(rs)
      PROVE  i \in M <=> /\ Passes(rs[i].type, rs[i].conditions, k)
                         /\ Passes(rs[i].type, Below(rs, i), M)
  <2>1. rs[i].type \in {"ALL", "ANY", "NONE"}
    BY <1>1 DEF Rule
  <2>2. MatchesByRuleType(rs[i].type, {m[j] : j \in Below(rs, i)})
          <=> Passes(rs[i].type, Below(rs, i), M)
    BY <1>3, <1>4, <1>5, <2>1, PassesByRuleType
  <2>3. MatchesByRuleType(rs[i].type, {Holds(c, k) : c \in rs[i].conditions})
          <=> Passes(rs[i].type, rs[i].conditions, k)
    <3> DEFINE f == [c \in rs[i].conditions |-> Holds(c, k)]
    <3>0. \A c \in rs[i].conditions : f[c] = Holds(c, k)
      BY Zenon
    <3>2. {f[c] : c \in rs[i].conditions} = {Holds(c, k) : c \in rs[i].conditions}
      BY <3>0, Zenon
    <3> HIDE DEF f
    <3>4. \A c : Holds(c, k) \in BOOLEAN /\ (c \in k <=> Holds(c, k))
      BY DEF Holds
    <3>1. \A c \in rs[i].conditions : f[c] \in BOOLEAN /\ (c \in k <=> f[c])
      BY <3>0, <3>4, Zenon
    <3>3. MatchesByRuleType(rs[i].type, {f[c] : c \in rs[i].conditions})
            <=> Passes(rs[i].type, rs[i].conditions, k)
      BY <2>1, <3>1, PassesByRuleType
    <3> QED BY <3>2, <3>3
  <2> QED BY <1>2, <1>4, <2>2, <2>3, Zenon DEF Body
<1> QED BY <1>4, <1>5, <1>6 DEF IsMatching, InSegment, M, m

-------------------------------------------------------------------------------
(* An edit moves every rule in one direction.                               *)

\* Up: the rules, and 0 for the segment, that can only come to match more.
Directions(rs, Up) ==
  \A j \in 1..Len(rs) :
    LET p == rs[j].parent IN
    j \in Up <=> IF p # 0 /\ rs[p].type = "NONE" THEN p \notin Up ELSE p \in Up

\* rs2 is rs with other conditions of some rules, and rules added that match; each
\* change is in the direction of the rule that it is made to.
MovesConditions(rs, rs2, Up, k) ==
  \A j \in 1..Len(rs) :
    /\ rs2[j].type = rs[j].type /\ rs2[j].parent = rs[j].parent
    /\ j \in Up => (Passes(rs[j].type, rs[j].conditions, k)
                      => Passes(rs[j].type, rs2[j].conditions, k))
    /\ j \notin Up => (Passes(rs[j].type, rs2[j].conditions, k)
                         => Passes(rs[j].type, rs[j].conditions, k))

MovesRules(rs, rs2, Up, M2) ==
  \A n \in (Len(rs) + 1)..Len(rs2) :
    LET p == rs2[n].parent IN
    /\ n \in M2
    /\ p \in 1..Len(rs) =>
         rs[p].type = "ALL" \/ (IF p \in Up THEN rs[p].type = "ANY" ELSE rs[p].type = "NONE")

\* What the members of a group do decides which way the group may go.
LEMMA PassesOneWay ==
  ASSUME NEW type \in {"ALL", "ANY", "NONE"}, NEW j, NEW Up,
         NEW X, NEW Y, X \subseteq Y, NEW M, NEW M2,
         \A c \in X : IF type = "NONE" <=> j \in Up THEN c \in M2 => c \in M ELSE c \in M => c \in M2,
         Y \ X \subseteq M2,
         \/ Y = X
         \/ type = "ALL"
         \/ IF j \in Up THEN type = "ANY" ELSE type = "NONE"
  PROVE  IF j \in Up
         THEN Passes(type, X, M) => Passes(type, Y, M2)
         ELSE Passes(type, Y, M2) => Passes(type, X, M)
<1>1. CASE type = "ALL" /\ j \in Up
  BY <1>1 DEF Passes
<1>2. CASE type = "ALL" /\ j \notin Up
  BY <1>2 DEF Passes
<1>3. CASE type = "NONE" /\ j \in Up
  <2>1. Y = X
    BY <1>3
  <2> QED BY <1>3, <2>1 DEF Passes
<1>4. CASE type = "NONE" /\ j \notin Up
  BY <1>4 DEF Passes
<1>5. CASE type = "ANY" /\ j \in Up
  <2>1. X = {} => Y = {} \/ Y \cap M2 # {}
    OBVIOUS
  <2>2. X \cap M # {} => Y \cap M2 # {}
    BY <1>5
  <2> QED BY <1>5, <2>1, <2>2 DEF Passes
<1>6. CASE type = "ANY" /\ j \notin Up
  <2>1. Y = X
    BY <1>6
  <2> QED BY <1>6, <2>1 DEF Passes
<1> QED BY <1>1, <1>2, <1>3, <1>4, <1>5, <1>6

LEMMA OneWay ==
  ASSUME NEW rs, Tree(rs), NEW rs2, Tree(rs2), Len(rs) <= Len(rs2),
         NEW Up, Directions(rs, Up), NEW k, MovesConditions(rs, rs2, Up, k),
         NEW M, IsMatching(rs, k, M), NEW M2, IsMatching(rs2, k, M2), MovesRules(rs, rs2, Up, M2),
         NEW i \in 1..Len(rs)
  PROVE  IF i \in Up THEN i \in M => i \in M2 ELSE i \in M2 => i \in M
<1> DEFINE N == Len(rs)
           Right(j) == IF j \in Up THEN j \in M => j \in M2 ELSE j \in M2 => j \in M
           Wrong == {d \in Nat : \E j \in 1..N : d = N - j /\ ~Right(j)}
<1>0. /\ N \in Nat /\ Len(rs2) \in Nat /\ N <= Len(rs2)
      /\ DOMAIN rs = 1..N /\ DOMAIN rs2 = 1..Len(rs2)
      /\ \A j \in 1..N : rs[j] \in Rule /\ rs[j].parent < j /\ j \in 1..Len(rs2)
      /\ \A j \in 1..N : rs2[j].type = rs[j].type /\ rs2[j].parent = rs[j].parent
  BY DEF Tree, MovesConditions
<1> SUFFICES ASSUME ~Right(i)
             PROVE  FALSE
  OBVIOUS
<1> HIDE DEF N, Right
<1>1. N - i \in Wrong
  BY <1>0 DEF N
<1>2. PICK d \in Wrong : \A e \in Wrong : ~(e < d)
  <2> HIDE DEF Wrong
  <2>1. Wrong \subseteq Nat
    BY DEF Wrong
  <2> QED BY <1>1, <2>1, LeastNumber
<1>3. PICK j \in 1..N : d = N - j /\ ~Right(j)
  OBVIOUS
<1>4. ASSUME NEW c \in 1..N, c > j
      PROVE  Right(c)
  <2>1. N - c \in Nat /\ N - c < d
    BY <1>0, <1>3, <1>4
  <2> QED BY <1>2, <2>1
<1>5. /\ rs[j].type \in {"ALL", "ANY", "NONE"}
      /\ rs2[j].type = rs[j].type
      /\ j \in 1..Len(rs2)
  BY <1>0 DEF Rule
<1>6. \A c \in Below(rs, j) : c \in 1..N /\ c > j /\ c \in Below(rs2, j)
  BY <1>0 DEF Below, Rule
<1>7. \A c \in Below(rs2, j) : c \in Below(rs, j) \/ c \in (N + 1)..Len(rs2)
  BY <1>0 DEF Below
<1>8. \A c \in Below(rs, j) :
        IF (c \in Up) THEN c \in M => c \in M2 ELSE c \in M2 => c \in M
  BY <1>4, <1>6 DEF Right
<1>9. \A c \in Below(rs, j) :
        c \in Up <=> IF rs[j].type = "NONE" THEN j \notin Up ELSE j \in Up
  <2>1. ASSUME NEW c \in Below(rs, j)
        PROVE  c \in Up <=> IF rs[j].type = "NONE" THEN j \notin Up ELSE j \in Up
    <3>1. c \in 1..Len(rs)
      BY <1>6 DEF N
    <3>2. rs[c].parent = j /\ j # 0
      BY <1>3 DEF Below
    <3> QED BY <3>1, <3>2 DEF Directions
  <2> QED BY <2>1
<1>10. \A c \in Below(rs2, j) : c \notin Below(rs, j) =>
         /\ c \in M2
         /\ rs[j].type = "ALL" \/ (IF j \in Up THEN rs[j].type = "ANY" ELSE rs[j].type = "NONE")
  BY <1>7 DEF MovesRules, Below, N
<1>11. IF j \in Up
       THEN Passes(rs[j].type, Below(rs, j), M) => Passes(rs[j].type, Below(rs2, j), M2)
       ELSE Passes(rs[j].type, Below(rs2, j), M2) => Passes(rs[j].type, Below(rs, j), M)
  <2>1. \A c \in Below(rs, j) :
          IF rs[j].type = "NONE" <=> j \in Up THEN c \in M2 => c \in M ELSE c \in M => c \in M2
    BY <1>8, <1>9
  <2>2. Below(rs, j) \subseteq Below(rs2, j)
    BY <1>6
  <2>3. /\ Below(rs2, j) \ Below(rs, j) \subseteq M2
        /\ \/ Below(rs2, j) = Below(rs, j)
           \/ rs[j].type = "ALL"
           \/ IF j \in Up THEN rs[j].type = "ANY" ELSE rs[j].type = "NONE"
    <3>1. Below(rs2, j) \ Below(rs, j) \subseteq M2
      BY <1>10
    <3>2. CASE Below(rs2, j) \ Below(rs, j) = {}
      BY <2>2, <3>2, Zenon
    <3>3. CASE Below(rs2, j) \ Below(rs, j) # {}
      BY <1>10, <3>1, <3>3
    <3> QED BY <3>2, <3>3
  <2>4. rs[j].type \in {"ALL", "ANY", "NONE"}
    BY <1>5
  <2> QED BY ONLY <2>1, <2>2, <2>3, <2>4, PassesOneWay
<1>12. /\ j \in M <=> /\ Passes(rs[j].type, rs[j].conditions, k)
                      /\ Passes(rs[j].type, Below(rs, j), M)
       /\ j \in M2 <=> /\ Passes(rs[j].type, rs2[j].conditions, k)
                       /\ Passes(rs[j].type, Below(rs2, j), M2)
  BY <1>0, <1>5, Zenon DEF IsMatching, N
<1> QED BY <1>3, <1>11, <1>12 DEF MovesConditions, N, Right

\* Whether what is below rule j, 0 for the segment, is inverted, f telling of the
\* rules before it.
InvertedBody(f, j) ==
  IF j = 0
  THEN FALSE
  ELSE LET p == rules[j].parent IN f[p] # (p # 0 /\ rules[p].type = "NONE")

IsInverted(f, n) == f = [j \in 0..n |-> InvertedBody(f, j)]

LEMMA ParentBefore ==
  ASSUME NEW rs, Tree(rs)
  PROVE  \A j \in 1..Len(rs) : rs[j].parent \in 0..(j - 1)
<1>1. \A j \in 1..Len(rs) : rs[j] \in Rule /\ rs[j].parent < j
  BY DEF Tree
<1>2. \A r \in Rule : r.parent \in Nat
  BY DEF Rule
<1> QED BY <1>1, <1>2

LEMMA InvertedExists == ASSUME Tree(rules) PROVE \E f : IsInverted(f, Len(rules))
<1> DEFINE N == Len(rules)
           S == {n \in Nat : n <= N => \E f : IsInverted(f, n)}
<1>0. N \in Nat /\ \A j \in 1..N : rules[j].parent \in 0..(j - 1)
  BY ParentBefore DEF Tree
<1>1. 0 \in S
  <2> DEFINE f == [j \in 0..0 |-> FALSE]
  <2>1. f = [j \in 0..0 |-> f[j]]
    OBVIOUS
  <2>2. f[0] = FALSE
    OBVIOUS
  <2> HIDE DEF f
  <2>3. \A j \in 0..0 : f[j] = InvertedBody(f, j)
    <3>1. \A j \in 0..0 : j = 0
      OBVIOUS
    <3> QED BY <2>2, <3>1 DEF InvertedBody
  <2>4. IsInverted(f, 0)
    BY <2>1, <2>3 DEF IsInverted
  <2> QED BY <2>4
<1>2. ASSUME NEW n \in Nat, n \in S
      PROVE  n + 1 \in S
  <2> SUFFICES ASSUME n + 1 <= N
               PROVE  \E f : IsInverted(f, n + 1)
    OBVIOUS
  <2>1. PICK f : IsInverted(f, n)
    BY <1>0, <1>2
  <2> DEFINE g == [j \in 0..(n + 1) |-> IF j = n + 1 THEN InvertedBody(f, n + 1) ELSE f[j]]
  <2>2. g = [j \in 0..(n + 1) |-> g[j]]
    OBVIOUS
  <2>3. g[n + 1] = InvertedBody(f, n + 1) /\ \A j \in 0..n : g[j] = f[j]
    OBVIOUS
  <2> HIDE DEF g
  <2>4. ASSUME NEW j \in 0..(n + 1)
        PROVE  g[j] = InvertedBody(g, j)
    <3>1. InvertedBody(g, j) = InvertedBody(f, j)
      <4>1. CASE j = 0
        BY <4>1 DEF InvertedBody
      <4>2. CASE j # 0
        <5>1. rules[j].parent \in 0..n
          BY <1>0, <4>2
        <5> QED BY <2>3, <5>1 DEF InvertedBody
      <4> QED BY <4>1, <4>2
    <3>2. CASE j = n + 1
      BY <2>3, <3>1, <3>2
    <3>3. CASE j \in 0..n
      <4>1. f[j] = InvertedBody(f, j)
        BY <2>1, <3>3 DEF IsInverted
      <4> QED BY <2>3, <3>1, <3>3, <4>1
    <3> QED BY <3>2, <3>3
  <2>5. IsInverted(g, n + 1)
    BY <2>2, <2>4 DEF IsInverted
  <2> QED BY <2>5
<1>3. N \in S
  <2> HIDE DEF S
  <2>1. Nat \subseteq S
    BY <1>1, <1>2, NatSetInduction
  <2> QED BY <1>0, <2>1
<1> QED BY <1>0, <1>3

LEMMA InvertedLikeParent ==
  ASSUME Tree(rules)
  PROVE  /\ ~Inverted(0)
         /\ \A j \in 0..Len(rules) : Inverted(j) \in BOOLEAN
         /\ \A j \in 1..Len(rules) :
              LET p == rules[j].parent IN
              Inverted(j) <=> IF p # 0 /\ rules[p].type = "NONE" THEN ~Inverted(p) ELSE Inverted(p)
<1> DEFINE h == CHOOSE f : IsInverted(f, Len(rules))
<1>1. \A j : Inverted(j) = h[j]
  BY DEF Inverted, IsInverted, InvertedBody
<1>2. IsInverted(h, Len(rules))
  BY InvertedExists
<1> HIDE DEF h
<1>3. /\ Len(rules) \in Nat
      /\ \A j \in 1..Len(rules) : rules[j].parent \in 0..Len(rules)
  BY ParentBefore DEF Tree
<1>4. \A j \in 0..Len(rules) : h[j] = InvertedBody(h, j)
  BY <1>2 DEF IsInverted
<1>5. \A j \in 0..Len(rules) : h[j] \in BOOLEAN
  BY <1>4, Zenon DEF InvertedBody
<1>6. ~h[0]
  <2>1. h[0] = InvertedBody(h, 0)
    BY <1>3, <1>4
  <2> QED BY <2>1, Zenon DEF InvertedBody
<1>7. ASSUME NEW j \in 1..Len(rules)
      PROVE  LET p == rules[j].parent IN
             h[j] <=> IF p # 0 /\ rules[p].type = "NONE" THEN ~h[p] ELSE h[p]
  <2> DEFINE p == rules[j].parent
             none == p # 0 /\ rules[p].type = "NONE"
  <2>1. h[j] = (h[p] # none)
    <3>1. j \in 0..Len(rules) /\ j # 0
      OBVIOUS
    <3> QED BY <1>4, <3>1, Zenon DEF InvertedBody
  <2>2. h[p] = TRUE \/ h[p] = FALSE
    BY <1>3, <1>5, Zenon
  <2>3. none = TRUE \/ none = FALSE
    OBVIOUS
  <2> HIDE DEF none
  <2>4. h[j] <=> IF none THEN ~h[p] ELSE h[p]
    BY <2>1, <2>2, <2>3, Zenon
  <2> QED BY <2>4, Zenon DEF none
<1> QED BY <1>1, <1>5, <1>6, <1>7, Zenon

\* What can only come to match more when rule i, 0 for the segment, comes to match
\* more, or if not widens, less.
Upward(i, widens) == {j \in 0..Len(rules) : widens <=> (Inverted(j) <=> Inverted(i))}

LEMMA UpwardDirections ==
  ASSUME Tree(rules), NEW i \in 0..Len(rules), NEW widens \in BOOLEAN
  PROVE  /\ Directions(rules, Upward(i, widens))
         /\ 0 \in Upward(i, widens) <=> (widens <=> ~Inverted(i))
         /\ i \in Upward(i, widens) <=> widens
<1>1. Len(rules) \in Nat /\ \A j \in 1..Len(rules) : j \in 0..Len(rules)
  BY DEF Tree
<1>2. \A j \in 1..Len(rules) : rules[j].parent \in 0..Len(rules)
  BY <1>1, ParentBefore
<1>3. \A j \in 0..Len(rules) : j \in Upward(i, widens) <=> (widens <=> (Inverted(j) <=> Inverted(i)))
  BY DEF Upward
<1>4. ASSUME NEW j \in 1..Len(rules)
      PROVE  LET p == rules[j].parent IN
             j \in Upward(i, widens) <=> IF p # 0 /\ rules[p].type = "NONE"
                                         THEN p \notin Upward(i, widens)
                                         ELSE p \in Upward(i, widens)
  <2> DEFINE p == rules[j].parent
             none == p # 0 /\ rules[p].type = "NONE"
  <2>1. Inverted(j) <=> IF none THEN ~Inverted(p) ELSE Inverted(p)
    BY InvertedLikeParent
  <2>2. /\ j \in Upward(i, widens) <=> (widens <=> (Inverted(j) <=> Inverted(i)))
        /\ p \in Upward(i, widens) <=> (widens <=> (Inverted(p) <=> Inverted(i)))
    BY <1>1, <1>2, <1>3
  <2> HIDE DEF none
  <2>3. j \in Upward(i, widens) <=> IF none THEN p \notin Upward(i, widens)
                                            ELSE p \in Upward(i, widens)
    BY <2>1, <2>2
  <2> QED BY <2>3 DEF none
<1>5. 0 \in Upward(i, widens) <=> (widens <=> ~Inverted(i))
  BY <1>1, <1>3, InvertedLikeParent
<1>6. i \in Upward(i, widens) <=> widens
  BY <1>3
<1> QED BY <1>4, <1>5, <1>6 DEF Directions

\* An edit below the segment's own rules, or to their conditions.
LEMMA SegmentMoves ==
  ASSUME Tree(rules), Tree(rules'), Len(rules) <= Len(rules'),
         NEW i \in 0..Len(rules), NEW widens \in BOOLEAN, NEW k,
         MovesConditions(rules, rules', Upward(i, widens), k),
         MovesRules(rules, rules', Upward(i, widens), MatchingRules(rules', k)),
         Below(rules', 0) \subseteq 1..Len(rules)
  PROVE  IF widens # Inverted(i)
         THEN InSegment(rules, k) => InSegment(rules', k)
         ELSE InSegment(rules', k) => InSegment(rules, k)
<1> DEFINE M == MatchingRules(rules, k)
           M2 == MatchingRules(rules', k)
           Up == Upward(i, widens)
<1>1. /\ IsMatching(rules, k, M) /\ IsMatching(rules', k, M2)
      /\ InSegment(rules, k) <=> Below(rules, 0) # {} /\ Below(rules, 0) \subseteq M
      /\ InSegment(rules', k) <=> Below(rules', 0) # {} /\ Below(rules', 0) \subseteq M2
  BY RulesMatching
<1>2. Directions(rules, Up) /\ (0 \in Up <=> (widens <=> ~Inverted(i)))
  BY UpwardDirections
<1> HIDE DEF M, M2, Up
<1>3. \A j \in 1..Len(rules) : IF j \in Up THEN j \in M => j \in M2 ELSE j \in M2 => j \in M
  BY <1>1, <1>2, OneWay DEF M2, Up
<1>4. Below(rules, 0) = Below(rules', 0)
  BY DEF Below, Tree, MovesConditions
<1>5. \A j \in Below(rules, 0) : j \in 1..Len(rules) /\ (j \in Up <=> 0 \in Up)
  BY <1>2 DEF Below, Tree, Directions
<1>6. Inverted(i) = TRUE \/ Inverted(i) = FALSE
  BY InvertedLikeParent, Zenon
<1>7. widens # Inverted(i) <=> 0 \in Up
  BY <1>2, <1>6
<1>8. CASE 0 \in Up
  BY <1>1, <1>3, <1>4, <1>5, <1>7, <1>8
<1>9. CASE 0 \notin Up
  BY <1>1, <1>3, <1>4, <1>5, <1>7, <1>9
<1> QED BY <1>8, <1>9

-------------------------------------------------------------------------------
(* The edits of the rules.                                                  *)

LEMMA NewRuleStep ==
  ASSUME Tree(rules), NEW p \in 0..Len(rules), NEW t \in DocumentType,
         rules' = Append(rules, NewRule(p, t))
  PROVE  /\ Tree(rules')
         /\ Len(rules') = Len(rules) + 1
         /\ \A j \in 1..Len(rules) : rules'[j] = rules[j]
         /\ rules'[Len(rules) + 1].parent = p
         /\ \A k : Len(rules) + 1 \in MatchingRules(rules', k)
<1>1. NewRule(p, t) \in Rule
  BY DEF NewRule, Rule, RuleType, Tree
<1>2. /\ Len(rules) \in Nat /\ rules \in Seq(Rule)
      /\ rules' \in Seq(Rule) /\ Len(rules') = Len(rules) + 1
      /\ \A j \in 1..Len(rules) : rules'[j] = rules[j]
      /\ rules'[Len(rules) + 1] = NewRule(p, t)
  BY <1>1 DEF Tree
<1>3. rules'[Len(rules) + 1].parent = p /\ rules'[Len(rules) + 1].conditions = {}
  BY <1>2 DEF NewRule
<1>4. Tree(rules')
  <2>1. \A j \in 1..Len(rules') : j \in 1..Len(rules) \/ j = Len(rules) + 1
    BY <1>2
  <2>2. p < Len(rules) + 1
    BY <1>2
  <2> QED BY <1>2, <1>3, <2>1, <2>2 DEF Tree
<1>5. Below(rules', Len(rules) + 1) = {}
  BY <1>2, <1>4, ParentBefore DEF Below, Tree
<1>6. \A Y : \A type \in {"ALL", "ANY", "NONE"} : Passes(type, {}, Y)
  BY DEF Passes
<1>7. ASSUME NEW k
      PROVE  Len(rules) + 1 \in MatchingRules(rules', k)
  <2>1. Len(rules) + 1 \in 1..Len(rules')
    BY <1>2
  <2>2. rules'[Len(rules) + 1].type \in {"ALL", "ANY", "NONE"}
    BY <1>1, <1>2 DEF Rule
  <2>3. IsMatching(rules', k, MatchingRules(rules', k))
    BY <1>4, RulesMatching
  <2> QED BY <1>3, <1>5, <1>6, <2>1, <2>2, <2>3 DEF IsMatching
<1> QED BY <1>2, <1>3, <1>4, <1>7

LEMMA NewConditionStep ==
  ASSUME Tree(rules), NEW i \in DOMAIN rules, NEW c \in Atoms,
         rules' = [rules EXCEPT ![i].conditions = @ \cup {c}]
  PROVE  /\ Tree(rules')
         /\ Len(rules') = Len(rules)
         /\ \A j \in 1..Len(rules) : rules'[j].type = rules[j].type
                                     /\ rules'[j].parent = rules[j].parent
         /\ \A j \in 1..Len(rules) \ {i} : rules'[j] = rules[j]
         /\ rules'[i].conditions = rules[i].conditions \cup {c}
<1>1. /\ i \in 1..Len(rules) /\ DOMAIN rules = 1..Len(rules) /\ Len(rules) \in Nat
      /\ \A j \in 1..Len(rules) : rules[j] \in Rule
  BY DEF Tree
<1>2. /\ DOMAIN rules' = 1..Len(rules)
      /\ rules' = [j \in 1..Len(rules) |-> rules'[j]]
      /\ \A j \in 1..Len(rules) \ {i} : rules'[j] = rules[j]
      /\ rules'[i] = [rules[i] EXCEPT !.conditions = @ \cup {c}]
  BY <1>1
<1>3. /\ rules'[i].type = rules[i].type /\ rules'[i].parent = rules[i].parent
      /\ rules'[i].conditions = rules[i].conditions \cup {c}
      /\ rules'[i] \in Rule
  BY <1>1, <1>2 DEF Rule
<1>4. \A j \in 1..Len(rules) : rules'[j] \in Rule
  BY <1>1, <1>2, <1>3
<1>5. rules' \in Seq(Rule) /\ Len(rules') = Len(rules)
  <2>1. rules' \in [1..Len(rules) -> Rule]
    BY <1>2, <1>4
  <2> QED BY <1>1, <2>1
<1>6. \A j \in 1..Len(rules) : rules'[j].type = rules[j].type
                               /\ rules'[j].parent = rules[j].parent
  BY <1>1, <1>2, <1>3
<1>7. Tree(rules')
  BY <1>5, <1>6 DEF Tree
<1> QED BY <1>2, <1>3, <1>5, <1>6, <1>7

LEMMA TreeInductive == Tree(rules) /\ [Next]_vars => Tree(rules)'
<1> SUFFICES ASSUME Tree(rules), [Next]_vars
             PROVE  Tree(rules')
  OBVIOUS
<1>1. ASSUME NEW p \in 0..Len(rules), NEW t \in DocumentType, AddRule(p, t)
      PROVE  Tree(rules')
  BY <1>1, NewRuleStep DEF AddRule
<1>2. ASSUME NEW i \in DOMAIN rules, NEW c \in Atoms, AddCondition(i, c)
      PROVE  Tree(rules')
  BY <1>2, NewConditionStep DEF AddCondition
<1> QED BY <1>1, <1>2 DEF Next, SetWeight, Swap, SetTrait, EditCondition, ruleVars, vars

LEMMA TreeAlways == Spec => []Tree(rules)
<1>1. Init => Tree(rules)
  BY DEF Init, Tree
<1> QED BY <1>1, TreeInductive, PTL DEF Spec

LEMMA RuleStepOneWay ==
  ASSUME Tree(rules), NEW t \in DocumentType, NEW p \in 0..Len(rules), AddRule(p, t),
         NEW widens \in BOOLEAN, p # 0 => (widens <=> rules[p].type = "ANY"), NEW k,
         p = 0 => ~widens
  PROVE  /\ p = 0 /\ rules # <<>> => (InSegment(rules', k) => InSegment(rules, k))
         /\ p # 0 => IF widens # Inverted(p)
                     THEN InSegment(rules, k) => InSegment(rules', k)
                     ELSE InSegment(rules', k) => InSegment(rules, k)
<1> DEFINE M2 == MatchingRules(rules', k)
           Up == Upward(p, widens)
<1>0. Len(rules) \in Nat /\ \A j \in 1..Len(rules) : rules[j].type \in {"ALL", "ANY", "NONE"}
  <2>1. Len(rules) \in Nat /\ \A j \in 1..Len(rules) : rules[j] \in Rule
    BY DEF Tree
  <2>2. \A r \in Rule : r.type \in {"ALL", "ANY", "NONE"}
    BY DEF Rule
  <2> QED BY <2>1, <2>2
<1>1. /\ Tree(rules') /\ Len(rules') = Len(rules) + 1 /\ Len(rules) <= Len(rules')
      /\ \A j \in 1..Len(rules) : rules'[j] = rules[j]
      /\ rules'[Len(rules) + 1].parent = p
      /\ Len(rules) + 1 \in M2
  BY <1>0, NewRuleStep DEF AddRule
<1>2. Directions(rules, Up) /\ (0 \in Up <=> (widens <=> ~Inverted(p))) /\ (p \in Up <=> widens)
  BY UpwardDirections
<1> HIDE DEF M2, Up
<1>3. MovesConditions(rules, rules', Up, k)
  BY <1>1 DEF MovesConditions
<1>4. MovesRules(rules, rules', Up, M2)
  <2>1. \A n \in (Len(rules) + 1)..Len(rules') : n = Len(rules) + 1
    BY <1>0, <1>1
  <2>2. p \in 1..Len(rules) =>
          rules[p].type = "ALL" \/ IF p \in Up THEN rules[p].type = "ANY" ELSE rules[p].type = "NONE"
    BY <1>0, <1>2
  <2> QED BY <1>1, <2>1, <2>2 DEF MovesRules
<1>5. CASE p # 0
  <2>1. Below(rules', 0) \subseteq 1..Len(rules)
    BY <1>0, <1>1, <1>5 DEF Below, Tree
  <2> QED BY <1>1, <1>3, <1>4, <1>5, <2>1, SegmentMoves DEF Up, M2
<1>6. CASE p = 0 /\ rules # <<>>
  <2> DEFINE M == MatchingRules(rules, k)
  <2>1. /\ IsMatching(rules, k, M) /\ IsMatching(rules', k, M2)
        /\ InSegment(rules, k) <=> Below(rules, 0) # {} /\ Below(rules, 0) \subseteq M
        /\ InSegment(rules', k) <=> Below(rules', 0) # {} /\ Below(rules', 0) \subseteq M2
    BY <1>1, RulesMatching DEF M2
  <2> HIDE DEF M
  <2>2. \A j \in 1..Len(rules) : IF j \in Up THEN j \in M => j \in M2 ELSE j \in M2 => j \in M
    BY <1>1, <1>2, <1>3, <1>4, <2>1, OneWay
  <2>3. Below(rules, 0) \subseteq Below(rules', 0)
    BY <1>0, <1>1 DEF Below, Tree
  <2>4. Below(rules, 0) # {}
    <3>1. 1 \in 1..Len(rules)
      BY <1>0, <1>6 DEF Tree
    <3>2. rules[1].parent = 0
      BY <3>1, ParentBefore
    <3> QED BY <3>1, <3>2 DEF Below, Tree
  <2>5. \A j \in Below(rules, 0) : j \in 1..Len(rules) /\ j \notin Up
    BY <1>2, <1>6, InvertedLikeParent DEF Below, Tree, Directions
  <2> QED BY <1>6, <2>1, <2>2, <2>3, <2>4, <2>5
<1> QED BY <1>5, <1>6

LEMMA ConditionStepOneWay ==
  ASSUME Tree(rules), NEW i \in DOMAIN rules, NEW c \in Atoms, AddCondition(i, c), NEW k
  PROVE  IF Widens(rules[i]) # Inverted(i)
         THEN InSegment(rules, k) => InSegment(rules', k)
         ELSE InSegment(rules', k) => InSegment(rules, k)
<1> DEFINE widens == Widens(rules[i])
           Up == Upward(i, widens)
<1>0. /\ Len(rules) \in Nat /\ i \in 1..Len(rules) /\ i \in 0..Len(rules)
      /\ rules[i].type \in {"ALL", "ANY", "NONE"}
  <2>1. Len(rules) \in Nat /\ i \in 1..Len(rules) /\ rules[i] \in Rule
    BY DEF Tree
  <2> QED BY <2>1 DEF Rule
<1>1. /\ Tree(rules') /\ Len(rules') = Len(rules) /\ Len(rules) <= Len(rules')
      /\ \A j \in 1..Len(rules) : rules'[j].type = rules[j].type
                                  /\ rules'[j].parent = rules[j].parent
      /\ \A j \in 1..Len(rules) \ {i} : rules'[j] = rules[j]
      /\ rules'[i].conditions = rules[i].conditions \cup {c}
  <2>1. rules' = [rules EXCEPT ![i].conditions = @ \cup {c}]
    BY DEF AddCondition
  <2>2. Len(rules') = Len(rules) => Len(rules) <= Len(rules')
    BY <1>0
  <2> QED BY <2>1, <2>2, NewConditionStep
<1>2. widens \in BOOLEAN
  BY DEF Widens
<1>3. i \in Up <=> widens
  BY <1>0, <1>2, UpwardDirections
<1> HIDE DEF Up, widens
<1>4. MovesConditions(rules, rules', Up, k)
  <2>1. /\ i \in Up => (Passes(rules[i].type, rules[i].conditions, k)
                          => Passes(rules[i].type, rules'[i].conditions, k))
        /\ i \notin Up => (Passes(rules[i].type, rules'[i].conditions, k)
                             => Passes(rules[i].type, rules[i].conditions, k))
    <3>1. CASE rules[i].type = "ALL"
      BY <1>1, <1>3, <3>1 DEF Passes, Widens, widens
    <3>2. CASE rules[i].type = "NONE"
      BY <1>1, <1>3, <3>2 DEF Passes, Widens, widens
    <3>3. CASE rules[i].type = "ANY"
      BY <1>1, <1>3, <3>3 DEF Passes, Widens, widens
    <3> QED BY <1>0, <3>1, <3>2, <3>3
  <2> QED BY <1>1, <2>1 DEF MovesConditions
<1>5. MovesRules(rules, rules', Up, MatchingRules(rules', k))
  BY <1>0, <1>1 DEF MovesRules
<1>6. Below(rules', 0) \subseteq 1..Len(rules)
  BY <1>1 DEF Below, Tree
<1> QED BY <1>0, <1>1, <1>2, <1>4, <1>5, <1>6, SegmentMoves DEF Up, widens

\* A new rule moves contexts across the border of the segment in one direction
\* only, whatever tree it is added to and however deep.
THEOREM RulesOneWay == Spec => RulesMoveOneWay
<1>1. ASSUME Tree(rules), NEW t \in DocumentType
      PROVE  /\ rules # <<>> /\ AddRule(0, t) => Gained = {}
             /\ \A p \in DOMAIN rules :
                  AddRule(p, t) =>
                    IF (rules[p].type = "ANY") # Inverted(p) THEN Lost = {} ELSE Gained = {}
  <2>1. ASSUME rules # <<>>, AddRule(0, t)
        PROVE  Gained = {}
    <3>1. 0 \in 0..Len(rules) /\ FALSE \in BOOLEAN
      BY <1>1 DEF Tree
    <3>2. ASSUME NEW k
          PROVE  InSegment(rules', k) => InSegment(rules, k)
      BY <1>1, <2>1, <3>1, RuleStepOneWay
    <3> QED BY <3>2 DEF Gained
  <2>2. ASSUME NEW p \in DOMAIN rules, AddRule(p, t)
        PROVE  IF (rules[p].type = "ANY") # Inverted(p) THEN Lost = {} ELSE Gained = {}
    <3> DEFINE widens == rules[p].type = "ANY"
    <3>1. p \in 0..Len(rules) /\ p # 0 /\ widens \in BOOLEAN
      BY <1>1 DEF Tree
    <3> HIDE DEF widens
    <3>2. ASSUME NEW k
          PROVE  IF widens # Inverted(p)
                 THEN InSegment(rules, k) => InSegment(rules', k)
                 ELSE InSegment(rules', k) => InSegment(rules, k)
      BY <1>1, <2>2, <3>1, RuleStepOneWay DEF widens
    <3>3. IF widens # Inverted(p) THEN Lost = {} ELSE Gained = {}
      BY <3>2 DEF Gained, Lost
    <3> QED BY <3>3 DEF widens
  <2> QED BY <2>1, <2>2
<1>2. Tree(rules) =>
        [\A t \in DocumentType :
           /\ rules # <<>> /\ AddRule(0, t) => Gained = {}
           /\ \A p \in DOMAIN rules :
                AddRule(p, t) =>
                  IF (rules[p].type = "ANY") # Inverted(p) THEN Lost = {} ELSE Gained = {}]_ruleVars
  BY <1>1
<1> QED BY <1>2, TreeAlways, PTL DEF RulesMoveOneWay

\* So does a new condition, of a rule at any depth of the tree.
THEOREM ConditionsOneWay == Spec => ConditionsMoveOneWay
<1>1. ASSUME Tree(rules), NEW i \in DOMAIN rules, NEW c \in Atoms, AddCondition(i, c)
      PROVE  IF Widens(rules[i]) # Inverted(i) THEN Lost = {} ELSE Gained = {}
  <2>1. ASSUME NEW k
        PROVE  IF Widens(rules[i]) # Inverted(i)
               THEN InSegment(rules, k) => InSegment(rules', k)
               ELSE InSegment(rules', k) => InSegment(rules, k)
    BY <1>1, ConditionStepOneWay
  <2> QED BY <2>1 DEF Gained, Lost
<1>2. Tree(rules) =>
        [\A i \in DOMAIN rules, c \in Atoms :
           AddCondition(i, c) =>
             IF Widens(rules[i]) # Inverted(i) THEN Lost = {} ELSE Gained = {}]_ruleVars
  BY <1>1
<1> QED BY <1>2, TreeAlways, PTL DEF ConditionsMoveOneWay

-------------------------------------------------------------------------------
(* The edits of a condition and of the trait.                               *)

\* What a step may do to each of the parts.
LEMMA NextByPart ==
  ASSUME [Next]_vars
  PROVE  /\ \/ UNCHANGED conditionVars
            \/ \E v \in Values \cup {Unset} : SetTrait(v)
            \/ \E value \in Texts : EditCondition(value)
         /\ \/ UNCHANGED variants
            \/ \E i \in DOMAIN variants :
                 \/ \E w \in Weights : SetWeight(i, w)
                 \/ \E j \in DOMAIN variants : Swap(i, j)
<1>1. CASE UNCHANGED vars
  BY <1>1 DEF vars, conditionVars, contextVars
<1>2. CASE \E i \in DOMAIN variants :
             \/ \E w \in Weights : SetWeight(i, w)
             \/ \E j \in DOMAIN variants : Swap(i, j)
  BY <1>2 DEF SetWeight, Swap
<1>3. CASE \/ \E v \in Values \cup {Unset} : SetTrait(v)
           \/ \E value \in Texts : EditCondition(value)
  BY <1>3 DEF SetTrait, EditCondition
<1>4. CASE \/ \E p \in 0..Len(rules), t \in DocumentType : AddRule(p, t)
           \/ \E i \in DOMAIN rules, c \in Atoms : AddCondition(i, c)
  BY <1>4 DEF AddRule, AddCondition, Grow
<1> QED BY <1>1, <1>2, <1>3, <1>4 DEF Next

ConditionTypes == condition \in Condition /\ trait \in Values \cup {Unset}

LEMMA ConditionTypesInductive == ConditionTypes /\ [Next]_vars => ConditionTypes'
<1> SUFFICES ASSUME ConditionTypes, [Next]_vars
             PROVE  ConditionTypes'
  OBVIOUS
<1> USE DEF ConditionTypes
<1>1. ASSUME NEW value \in Texts, EditCondition(value)
      PROVE  ConditionTypes'
  BY <1>1 DEF EditCondition, Condition, contextVars
<1>2. ASSUME NEW v \in Values \cup {Unset}, SetTrait(v)
      PROVE  ConditionTypes'
  BY <1>2 DEF SetTrait
<1>3. CASE UNCHANGED conditionVars
  BY <1>3 DEF conditionVars, contextVars
<1>4. \/ UNCHANGED conditionVars
      \/ \E v \in Values \cup {Unset} : SetTrait(v)
      \/ \E value \in Texts : EditCondition(value)
  BY NextByPart
<1> QED BY <1>1, <1>2, <1>3, <1>4

LEMMA ConditionTypesAlways == Spec => []ConditionTypes
<1>1. Init => ConditionTypes
  <2>1. NoCondition \in Condition
    BY DEF NoCondition, Condition, Operators, Orders
  <2> QED BY <2>1 DEF Init, ConditionTypes
<1> QED BY <1>1, ConditionTypesInductive, PTL DEF Spec

LEMMA ContextValueTypes ==
  ASSUME ConditionTypes
  PROVE  /\ contextValue \in Values \cup {Unset}
         /\ condition.operator \in Operators
         /\ condition.value \in Texts \cup {Unset}
BY DEF ConditionTypes, Condition, contextValue, GetContextValue

\* Of any condition and any value of the context, of two complementary segments
\* just one holds the context.
THEOREM OperatorsPartitioned == Spec => []OperatorsPartition
<1>1. ConditionTypes => OperatorsPartition
  <2> SUFFICES ASSUME ConditionTypes, Compared, Comparable(Text, condition.value)
               PROVE  Partitions(contextValue, condition.value)
    BY DEF OperatorsPartition
  <2>1. contextValue \in Values /\ condition.value \in Texts /\ condition.value # Unset
    BY ContextValueTypes DEF Compared
  <2> QED BY <2>1, OrdersPartition DEF Text
<1> QED BY <1>1, ConditionTypesAlways, PTL

\* A trait that grows leaves a segment on a lower bound just when it becomes a boolean
\* beside a bound that is a boolean.
THEOREM GrowthIsLostToBooleans == Spec => GrowthLosesToBooleansOnly
<1>1. ASSUME ConditionTypes, ConditionTypes', UNCHANGED condition,
             condition.operator \in LowerBounds, Compared, contextValue' # Unset,
             \A text \in {Text, Text', condition.value} : Numeric(text),
             Grows(Text, Text'), Matching
      PROVE  Matching' <=> ~Both(BoolOf, Text', condition.value)
  <2>1. /\ contextValue \in Values /\ contextValue' \in Values
        /\ condition.value \in Texts /\ condition.value # Unset
        /\ condition.operator \in Orders
    BY <1>1, ContextValueTypes DEF Compared, LowerBounds, Orders, ConditionTypes, contextValue,
       GetContextValue
  <2>2. /\ Matching <=> ParseAndMatch(condition.operator, Text, condition.value)
        /\ Matching' <=> ParseAndMatch(condition.operator, Text', condition.value)
    BY <1>1, <2>1, OrderMatches DEF Matching, Text
  <2>3. Text \in Texts /\ Text' \in Texts
    BY <2>1, MatchAssumption DEF Text
  <2> QED BY <1>1, <2>1, <2>2, <2>3, GrowthKeepsBound
<1>2. ConditionTypes /\ ConditionTypes' =>
        [/\ UNCHANGED condition
         /\ condition.operator \in LowerBounds
         /\ Compared /\ contextValue' # Unset
         /\ \A text \in {Text, Text', condition.value} : Numeric(text)
         /\ Grows(Text, Text')
         /\ Matching
         => (Matching' <=> ~Both(BoolOf, Text', condition.value))]_conditionVars
  BY <1>1
<1> QED BY <1>2, ConditionTypesAlways, PTL DEF GrowthLosesToBooleansOnly

-------------------------------------------------------------------------------
(* Sums of weights.                                                         *)

\* A non-empty set of finite sets has one that holds no other of them.
LEMMA LeastSet ==
  ASSUME NEW S, IsFiniteSet(S), NEW F, F \subseteq SUBSET S, F # {}
  PROVE  \E T \in F : \A U \in F : ~(U \subseteq T /\ U # T)
<1>1. IsWellFoundedOn(StrictSubsetOrdering(S), FiniteSubsetsOf(S))
  BY FS_StrictSubsetOrderingWellFounded
<1>2. F \subseteq FiniteSubsetsOf(S)
  BY FS_FiniteSubsetsOfFinite
<1>3. PICK T \in F : \A U \in F : <<U, T>> \notin StrictSubsetOrdering(S)
  BY <1>1, <1>2, WFMin
<1> QED BY <1>3 DEF StrictSubsetOrdering

\* What holds of the empty set, and of a set with one more element if of the set,
\* holds of every finite set; F is where it holds.
LEMMA SetInduction ==
  ASSUME NEW S, IsFiniteSet(S), NEW F, {} \in F,
         \A T \in SUBSET S : \A x \in S \ T : T \in F => T \cup {x} \in F
  PROVE  SUBSET S \subseteq F
<1> DEFINE Rest == (SUBSET S) \ F
<1> SUFFICES ASSUME Rest # {}
             PROVE  FALSE
  OBVIOUS
<1>1. PICK T \in Rest : \A U \in Rest : ~(U \subseteq T /\ U # T)
  <2>1. Rest \subseteq SUBSET S
    OBVIOUS
  <2> HIDE DEF Rest
  <2> QED BY <2>1, LeastSet
<1>2. PICK x \in T : TRUE
  OBVIOUS
<1>3. T \ {x} \in F
  BY <1>1, <1>2
<1>4. (T \ {x}) \cup {x} = T /\ x \in S \ (T \ {x}) /\ T \ {x} \in SUBSET S
  BY <1>2
<1> QED BY <1>3, <1>4

\* f gives the sum of w over each subset of S.
IsSum(w, S, f) ==
  /\ \A x \in S : w[x] \in Nat
  /\ f \in [SUBSET S -> Nat]
  /\ f[{}] = 0
  /\ \A T \in SUBSET S : \A x \in S \ T : f[T \cup {x}] = f[T] + w[x]

LEMMA SumExists ==
  ASSUME NEW S, IsFiniteSet(S), NEW w, \A x \in S : w[x] \in Nat
  PROVE  \E f : IsSum(w, S, f)
<1> DEFINE F == {T \in SUBSET S : \E f : IsSum(w, T, f)}
<1>1. {} \in F
  <2> DEFINE f == [T \in SUBSET {} |-> 0]
  <2>1. IsSum(w, {}, f)
    BY DEF IsSum
  <2> QED BY <2>1
<1>2. ASSUME NEW T \in SUBSET S, NEW y \in S \ T, T \in F
      PROVE  T \cup {y} \in F
  <2>1. PICK f : IsSum(w, T, f)
    BY <1>2
  <2> DEFINE V == T \cup {y}
             g == [U \in SUBSET V |-> IF y \in U THEN f[U \ {y}] + w[y] ELSE f[U]]
  <2>2. \A U \in SUBSET V : U \ {y} \in SUBSET T /\ (y \notin U => U \in SUBSET T)
    OBVIOUS
  <2>3. /\ \A U \in SUBSET T : f[U] \in Nat
        /\ f[{}] = 0
        /\ \A U \in SUBSET T : \A x \in T \ U : f[U \cup {x}] = f[U] + w[x]
    BY <2>1 DEF IsSum
  <2>4. g \in [SUBSET V -> Nat]
    BY <2>2, <2>3
  <2>5. g[{}] = 0
    BY <2>3
  <2>6. /\ \A U \in SUBSET V : y \in U => g[U] = f[U \ {y}] + w[y]
        /\ \A U \in SUBSET V : y \notin U => g[U] = f[U]
    OBVIOUS
  <2> HIDE DEF g
  <2>7. ASSUME NEW U \in SUBSET V, NEW x \in V \ U
        PROVE  g[U \cup {x}] = g[U] + w[x]
    <3>1. CASE x = y
      <4>1. (U \cup {x}) \ {y} = U /\ y \in U \cup {x} /\ U \cup {x} \in SUBSET V
        BY <3>1
      <4> QED BY <2>6, <3>1, <4>1
    <3>2. CASE x # y /\ y \notin U
      <4>1. y \notin U \cup {x} /\ U \cup {x} \in SUBSET V /\ U \in SUBSET T /\ x \in T \ U
        BY <3>2
      <4>2. g[U \cup {x}] = f[U \cup {x}] /\ g[U] = f[U]
        BY <2>6, <3>2, <4>1
      <4>3. f[U \cup {x}] = f[U] + w[x]
        BY <2>3, <4>1
      <4> QED BY <4>2, <4>3
    <3>3. CASE x # y /\ y \in U
      <4>1. /\ (U \cup {x}) \ {y} = (U \ {y}) \cup {x}
            /\ y \in U \cup {x} /\ U \cup {x} \in SUBSET V
            /\ U \ {y} \in SUBSET T /\ x \in T \ (U \ {y})
        BY <3>3
      <4>2. f[(U \ {y}) \cup {x}] = f[U \ {y}] + w[x]
        BY <2>3, <4>1
      <4>3. g[U \cup {x}] = f[(U \ {y}) \cup {x}] + w[y] /\ g[U] = f[U \ {y}] + w[y]
        BY <2>6, <3>3, <4>1
      <4>4. f[U \ {y}] \in Nat /\ w[x] \in Nat /\ w[y] \in Nat
        BY <2>3, <4>1
      <4> QED BY <4>2, <4>3, <4>4
    <3> QED BY <3>1, <3>2, <3>3
  <2>8. IsSum(w, V, g)
    BY <2>4, <2>5, <2>7 DEF IsSum
  <2> QED BY <2>8
<1>3. SUBSET S \subseteq F
  <2> HIDE DEF F
  <2> QED BY <1>1, <1>2, SetInduction
<1> QED BY <1>3

\* Whichever element is taken first, the sum is the same: so the fold computes it.
IsFold(w, S, f) ==
  f = [T \in SUBSET S |->
         IF T = {} THEN 0 ELSE LET x == CHOOSE x \in T : TRUE IN w[x] + f[T \ {x}]]

LEMMA SumIsFold ==
  ASSUME NEW S, IsFiniteSet(S), NEW w, NEW f, IsSum(w, S, f), NEW T \in SUBSET S
  PROVE  /\ \E g : IsFold(w, T, g)
         /\ \A g : IsFold(w, T, g) => g[T] = f[T]
<1> DEFINE one(U) == CHOOSE x \in U : TRUE
<1>1. ASSUME NEW U \in SUBSET T, U # {}
      PROVE  /\ one(U) \in U /\ U \ {one(U)} \in SUBSET T
             /\ f[U] = w[one(U)] + f[U \ {one(U)}]
  <2>1. one(U) \in U
    BY <1>1
  <2> HIDE DEF one
  <2>2. /\ U \ {one(U)} \in SUBSET T /\ U \ {one(U)} \in SUBSET S
        /\ (U \ {one(U)}) \cup {one(U)} = U
        /\ one(U) \in S \ (U \ {one(U)})
    BY <2>1
  <2>3. f[(U \ {one(U)}) \cup {one(U)}] = f[U \ {one(U)}] + w[one(U)]
    BY <2>2 DEF IsSum
  <2>4. f \in [SUBSET S -> Nat] /\ \A x \in S : w[x] \in Nat
    BY DEF IsSum
  <2>5. f[U \ {one(U)}] \in Nat /\ w[one(U)] \in Nat
    BY <2>2, <2>4
  <2>6. f[U] = f[U \ {one(U)}] + w[one(U)]
    BY <2>2, <2>3, Zenon
  <2>7. f[U] = w[one(U)] + f[U \ {one(U)}]
    BY <2>5, <2>6
  <2> QED BY <2>1, <2>2, <2>7
<1>2. f[{}] = 0
  BY DEF IsSum
<1>3. \E g : IsFold(w, T, g)
  <2> DEFINE g == [U \in SUBSET T |-> f[U]]
  <2>1. g = [U \in SUBSET T |-> g[U]] /\ \A U \in SUBSET T : g[U] = f[U]
    OBVIOUS
  <2> HIDE DEF g, one
  <2>2. \A U \in SUBSET T : g[U] = IF U = {} THEN 0 ELSE w[one(U)] + g[U \ {one(U)}]
    BY <1>1, <1>2, <2>1
  <2>3. IsFold(w, T, g)
    BY <2>1, <2>2, Zenon DEF IsFold, one
  <2> QED BY <2>3
<1>4. ASSUME NEW g, IsFold(w, T, g)
      PROVE  g[T] = f[T]
  <2> DEFINE Wrong == {U \in SUBSET T : g[U] # f[U]}
  <2> SUFFICES ASSUME Wrong # {}
               PROVE  FALSE
    BY Zenon
  <2>1. Wrong \subseteq SUBSET T /\ IsFiniteSet(T)
    BY FS_Subset
  <2>2. \A U \in SUBSET T : g[U] = IF U = {} THEN 0 ELSE w[one(U)] + g[U \ {one(U)}]
    BY <1>4, Zenon DEF IsFold
  <2>3. PICK U \in Wrong : \A V \in Wrong : ~(V \subseteq U /\ V # U)
    <3> HIDE DEF Wrong
    <3> QED BY <2>1, LeastSet
  <2>4. U \in SUBSET T /\ g[U] # f[U]
    BY <2>3
  <2>5. U # {}
    BY <1>2, <2>2, <2>4
  <2>6. one(U) \in U /\ U \ {one(U)} \in SUBSET T /\ f[U] = w[one(U)] + f[U \ {one(U)}]
    BY <1>1, <2>4, <2>5
  <2> HIDE DEF one
  <2>7. g[U \ {one(U)}] = f[U \ {one(U)}]
    BY <2>3, <2>6
  <2>8. g[U] = w[one(U)] + g[U \ {one(U)}]
    BY <2>2, <2>4, <2>5
  <2> QED BY <2>4, <2>6, <2>7, <2>8
<1> QED BY <1>3, <1>4

\* The weight of some of a feature's variants.
Weight(vs, T) == MapThenSumSet(LAMBDA j : vs[j].weight, T)

\* S is finite, and vs gives it weights.
Weighted(vs, S) == IsFiniteSet(S) /\ \A i \in S : vs[i].weight \in Nat

LEMMA WeightsAddUp ==
  ASSUME NEW vs, NEW S, Weighted(vs, S)
  PROVE  /\ \A T \in SUBSET S : Weight(vs, T) \in Nat
         /\ Weight(vs, {}) = 0
         /\ \A T \in SUBSET S : \A i \in S \ T : Weight(vs, T \cup {i}) = Weight(vs, T) + vs[i].weight
<1> DEFINE w == [i \in S |-> vs[i].weight]
<1>1. IsFiniteSet(S) /\ \A i \in S : w[i] = vs[i].weight /\ w[i] \in Nat
  BY DEF Weighted
<1> HIDE DEF w
<1>2. PICK f : IsSum(w, S, f)
  BY <1>1, SumExists
<1>3. ASSUME NEW T \in SUBSET S
      PROVE  Weight(vs, T) = f[T]
  <2> DEFINE fold(g) ==
               g = [U \in SUBSET T |->
                      IF U = {}
                      THEN 0
                      ELSE LET x == CHOOSE x \in U : TRUE IN vs[x].weight + g[U \ {x}]]
             h == CHOOSE g : fold(g)
  <2>1. Weight(vs, T) = h[T]
    BY DEF Weight, MapThenSumSet, MapThenFoldSet
  <2>2. ASSUME NEW g
        PROVE  fold(g) <=> IsFold(w, T, g)
    <3>1. \A U \in SUBSET T : U # {} => (CHOOSE x \in U : TRUE) \in S
      OBVIOUS
    <3>2. \A U \in SUBSET T : U # {} =>
            w[CHOOSE x \in U : TRUE] = vs[CHOOSE x \in U : TRUE].weight
      BY <1>1, <3>1
    <3>3. [U \in SUBSET T |->
             IF U = {} THEN 0 ELSE LET x == CHOOSE x \in U : TRUE IN vs[x].weight + g[U \ {x}]]
          = [U \in SUBSET T |->
               IF U = {} THEN 0 ELSE LET x == CHOOSE x \in U : TRUE IN w[x] + g[U \ {x}]]
      BY <3>2
    <3> QED BY <3>3, Zenon DEF IsFold
  <2> HIDE DEF fold, h
  <2>3. /\ \E g : IsFold(w, T, g)
        /\ \A g : IsFold(w, T, g) => g[T] = f[T]
    BY <1>1, <1>2, SumIsFold
  <2> USE DEF h
  <2>4. fold(h)
    BY <2>2, <2>3
  <2> QED BY <2>1, <2>2, <2>3, <2>4
<1>4. {} \in SUBSET S /\ \A T \in SUBSET S : \A i \in S \ T : T \cup {i} \in SUBSET S
  OBVIOUS
<1> QED BY <1>1, <1>2, <1>3, <1>4 DEF IsSum

\* More variants weigh no less.
LEMMA MoreWeighMore ==
  ASSUME NEW vs, NEW S, Weighted(vs, S), NEW U \in SUBSET S, NEW T \in SUBSET U
  PROVE  Weight(vs, T) <= Weight(vs, U)
<1> DEFINE F == {X \in SUBSET S : Weight(vs, T) <= Weight(vs, T \cup X)}
<1>1. /\ \A X \in SUBSET S : Weight(vs, X) \in Nat
      /\ \A X \in SUBSET S : \A i \in S \ X : Weight(vs, X \cup {i}) = Weight(vs, X) + vs[i].weight
      /\ \A i \in S : vs[i].weight \in Nat
  BY WeightsAddUp DEF Weighted
<1>2. {} \in F
  <2>1. T \cup {} = T /\ T \in SUBSET S
    OBVIOUS
  <2> QED BY <1>1, <2>1
<1>3. ASSUME NEW X \in SUBSET S, NEW x \in S \ X, X \in F
      PROVE  X \cup {x} \in F
  <2>1. T \cup X \in SUBSET S /\ X \cup {x} \in SUBSET S /\ T \in SUBSET S
    OBVIOUS
  <2>2. CASE x \in T
    <3>1. T \cup (X \cup {x}) = T \cup X
      BY <2>2
    <3> QED BY <1>3, <2>1, <3>1
  <2>3. CASE x \notin T
    <3>1. T \cup (X \cup {x}) = (T \cup X) \cup {x} /\ x \in S \ (T \cup X)
      BY <2>3
    <3>2. Weight(vs, (T \cup X) \cup {x}) = Weight(vs, T \cup X) + vs[x].weight
      BY <1>1, <2>1, <3>1
    <3>3. /\ Weight(vs, T) \in Nat /\ Weight(vs, T \cup X) \in Nat /\ vs[x].weight \in Nat
          /\ Weight(vs, T) <= Weight(vs, T \cup X)
      BY <1>1, <1>3, <2>1
    <3>4. Weight(vs, T) <= Weight(vs, (T \cup X) \cup {x})
      BY <3>2, <3>3
    <3> QED BY <2>1, <3>1, <3>4
  <2> QED BY <2>2, <2>3
<1>4. U \in F
  <2> HIDE DEF F
  <2>1. IsFiniteSet(S)
    BY DEF Weighted
  <2> QED BY <1>2, <1>3, <2>1, SetInduction
<1>5. T \cup U = U
  OBVIOUS
<1> QED BY <1>4, <1>5

\* Heavier variants weigh no less.
LEMMA HeavierWeighMore ==
  ASSUME NEW vs, NEW us, NEW S, Weighted(vs, S), Weighted(us, S),
         \A i \in S : vs[i].weight <= us[i].weight
  PROVE  Weight(vs, S) <= Weight(us, S)
<1> DEFINE F == {X \in SUBSET S : Weight(vs, X) <= Weight(us, X)}
<1>1. /\ \A X \in SUBSET S : Weight(vs, X) \in Nat /\ Weight(us, X) \in Nat
      /\ \A X \in SUBSET S : \A i \in S \ X : Weight(vs, X \cup {i}) = Weight(vs, X) + vs[i].weight
      /\ \A X \in SUBSET S : \A i \in S \ X : Weight(us, X \cup {i}) = Weight(us, X) + us[i].weight
      /\ \A i \in S : vs[i].weight \in Nat /\ us[i].weight \in Nat
      /\ Weight(vs, {}) = 0 /\ Weight(us, {}) = 0
  BY WeightsAddUp DEF Weighted
<1>2. {} \in F
  BY <1>1
<1>3. ASSUME NEW X \in SUBSET S, NEW x \in S \ X, X \in F
      PROVE  X \cup {x} \in F
  <2>1. X \cup {x} \in SUBSET S
    OBVIOUS
  <2>2. /\ Weight(vs, X \cup {x}) = Weight(vs, X) + vs[x].weight
        /\ Weight(us, X \cup {x}) = Weight(us, X) + us[x].weight
    BY <1>1
  <2>3. /\ Weight(vs, X) \in Nat /\ Weight(us, X) \in Nat
        /\ vs[x].weight \in Nat /\ us[x].weight \in Nat
        /\ Weight(vs, X) <= Weight(us, X) /\ vs[x].weight <= us[x].weight
    BY <1>1, <1>3
  <2>4. Weight(vs, X \cup {x}) <= Weight(us, X \cup {x})
    BY <2>2, <2>3
  <2> QED BY <2>1, <2>4
<1>4. S \in F
  <2> HIDE DEF F
  <2>1. IsFiniteSet(S)
    BY DEF Weighted
  <2> QED BY <1>2, <1>3, <2>1, SetInduction
<1> QED BY <1>4

\* Nor does it matter what the variants are called.
LEMMA RenamedWeighSame ==
  ASSUME NEW vs, NEW S, Weighted(vs, S), NEW us, NEW R, Weighted(us, R),
         NEW pi \in [S -> R], \A x, y \in S : pi[x] = pi[y] => x = y,
         \A x \in S : us[pi[x]].weight = vs[x].weight,
         NEW T \in SUBSET S
  PROVE  Weight(us, {pi[x] : x \in T}) = Weight(vs, T)
<1> DEFINE F == {X \in SUBSET S : Weight(us, {pi[x] : x \in X}) = Weight(vs, X)}
<1>1. /\ \A X \in SUBSET S : Weight(vs, X) \in Nat
      /\ \A X \in SUBSET S : \A i \in S \ X : Weight(vs, X \cup {i}) = Weight(vs, X) + vs[i].weight
      /\ \A X \in SUBSET R : \A i \in R \ X : Weight(us, X \cup {i}) = Weight(us, X) + us[i].weight
      /\ Weight(vs, {}) = 0 /\ Weight(us, {}) = 0
  BY WeightsAddUp
<1>2. {} \in F
  <2>1. {pi[x] : x \in {}} = {}
    OBVIOUS
  <2> QED BY <1>1, <2>1
<1>3. ASSUME NEW X \in SUBSET S, NEW x \in S \ X, X \in F
      PROVE  X \cup {x} \in F
  <2> DEFINE Y == {pi[y] : y \in X}
  <2>1. X \cup {x} \in SUBSET S /\ Y \in SUBSET R /\ pi[x] \in R \ Y
    OBVIOUS
  <2>2. {pi[y] : y \in X \cup {x}} = Y \cup {pi[x]}
    OBVIOUS
  <2>3. Weight(us, Y) = Weight(vs, X)
    BY <1>3
  <2>4. Weight(us, Y \cup {pi[x]}) = Weight(us, Y) + us[pi[x]].weight
    <3> HIDE DEF Y
    <3> QED BY <1>1, <2>1
  <2>5. Weight(vs, X \cup {x}) = Weight(vs, X) + vs[x].weight
    BY <1>1
  <2>6. Weight(us, {pi[y] : y \in X \cup {x}}) = Weight(vs, X \cup {x})
    BY <2>2, <2>3, <2>4, <2>5, Zenon
  <2> QED BY <2>1, <2>6
<1>4. SUBSET S \subseteq F
  <2> HIDE DEF F
  <2>1. IsFiniteSet(S)
    BY DEF Weighted
  <2> QED BY <1>2, <1>3, <2>1, SetInduction
<1> QED BY <1>4

-------------------------------------------------------------------------------
(* Variants.                                                                *)

LEMMA VariantTypes ==
  ASSUME NEW v \in Variant
  PROVE  v.weight \in Nat /\ Priority(v) \in Nat
<1>1. /\ v.weight \in Weights
      /\ v.id \in Ids \cup {Missing}
      /\ v.uuid \in Uuids \cup {Missing}
  BY DEF Variant
<1>2. v.weight \in Nat
  <2>1. Weights \subseteq 0..100
    BY MultivariateAssumption
  <2>2. v.weight \in 0..100
    BY <1>1, <2>1, Zenon
  <2> QED BY <2>2
<1>3. Priority(v) \in Nat
  BY <1>1, MultivariateAssumption DEF Priority
<1> QED BY <1>2, <1>3

LEMMA AdmittedVariants ==
  ASSUME NEW vs \in Admitted
  PROVE  /\ \E n \in Nat : vs \in [1..n -> Variant]
         /\ DOMAIN vs \subseteq Nat
         /\ \A i \in DOMAIN vs : vs[i] \in Variant
         /\ Weighted(vs, DOMAIN vs)
         /\ Weight(vs, DOMAIN vs) <= 100
<1>1. PICK n \in 0..MaxVariants : vs \in [1..n -> Variant]
  BY DEF Admitted
<1>2. n \in Nat /\ IsFiniteSet(DOMAIN vs)
  <2>1. DOMAIN vs = 1..n /\ n \in Nat
    BY <1>1, EditAssumption
  <2> QED BY <2>1, FS_Interval
<1>3. DOMAIN vs \subseteq Nat /\ \A i \in DOMAIN vs : vs[i] \in Variant
  BY <1>1
<1>4. \A i \in DOMAIN vs : vs[i].weight \in Nat
  BY <1>3, VariantTypes
<1>5. Total(vs) <= 100
  BY DEF Admitted
<1>6. Weight(vs, DOMAIN vs) = Total(vs)
  BY DEF Weight, Total, MapThenSumSet, MapThenFoldSet
<1> QED BY <1>1, <1>2, <1>3, <1>4, <1>5, <1>6 DEF Weighted

LEMMA InitAdmitted == Init => variants \in Admitted
<1> SUFFICES <<>> \in Admitted
  BY DEF Init
<1>1. <<>> \in [1..0 -> Variant] /\ 0 \in 0..MaxVariants /\ DOMAIN <<>> = {}
  BY EditAssumption
<1>2. Total(<<>>) = Weight(<<>>, {})
  BY <1>1 DEF Weight, Total, MapThenSumSet, MapThenFoldSet
<1>3. Weight(<<>>, {}) = 0
  <2>1. Weighted(<<>>, {})
    BY FS_EmptySet DEF Weighted
  <2> QED BY <2>1, WeightsAddUp
<1>4. <<>> \in UNION {[1..n -> Variant] : n \in 0..MaxVariants}
  BY <1>1
<1> QED BY <1>2, <1>3, <1>4 DEF Admitted

\* Variants that change places weigh what they weighed.
LEMMA SwapAdmitted ==
  ASSUME variants \in Admitted, NEW i \in DOMAIN variants, NEW j \in DOMAIN variants, Swap(i, j)
  PROVE  variants' \in Admitted /\ DOMAIN variants' = DOMAIN variants
<1> DEFINE D == DOMAIN variants
           pi == [x \in D |-> IF x = i THEN j ELSE IF x = j THEN i ELSE x]
<1>1. variants' = [variants EXCEPT ![i] = variants[j], ![j] = variants[i]]
  BY DEF Swap
<1>2. PICK n \in 0..MaxVariants : variants \in [1..n -> Variant]
  BY DEF Admitted
<1>3. D = 1..n /\ i \in 1..n /\ j \in 1..n /\ variants' \in [1..n -> Variant]
  BY <1>1, <1>2
<1>4. DOMAIN variants' = D /\ \A x \in D : variants'[pi[x]] = variants[x]
  BY <1>1, <1>2, <1>3
<1>5. /\ pi \in [D -> D]
      /\ \A x \in D : pi[pi[x]] = x
  OBVIOUS
<1>6. \A x, y \in D : pi[x] = pi[y] => x = y
  BY <1>5
<1>7. D = {pi[x] : x \in D}
  BY <1>5
<1> HIDE DEF pi
<1>8. Weighted(variants, D) /\ Weight(variants, D) <= 100
  BY AdmittedVariants
<1>9. Weighted(variants', D)
  <2>1. \A x \in D : variants'[x].weight \in Nat
    BY <1>3, VariantTypes
  <2> QED BY <1>8, <2>1 DEF Weighted
<1>10. Weight(variants', {pi[x] : x \in D}) = Weight(variants, D)
  <2>1. \A x \in D : variants'[pi[x]].weight = variants[x].weight
    BY <1>4
  <2>2. D \in SUBSET D
    OBVIOUS
  <2> HIDE DEF D
  <2> QED BY <1>5, <1>6, <1>8, <1>9, <2>1, <2>2, RenamedWeighSame
<1>11. Weight(variants', DOMAIN variants') <= 100
  BY <1>4, <1>7, <1>8, <1>10, Zenon
<1>12. Total(variants') = Weight(variants', DOMAIN variants')
  BY DEF Weight, Total, MapThenSumSet, MapThenFoldSet
<1> QED BY <1>3, <1>4, <1>11, <1>12 DEF Admitted

LEMMA AdmittedInductive ==
  ASSUME variants \in Admitted, [Next]_vars
  PROVE  variants' \in Admitted /\ DOMAIN variants' = DOMAIN variants
<1>1. CASE UNCHANGED variants
  BY <1>1
<1>2. ASSUME NEW i \in DOMAIN variants, NEW w \in Weights, SetWeight(i, w)
      PROVE  variants' \in Admitted /\ DOMAIN variants' = DOMAIN variants
  BY <1>2 DEF SetWeight
<1>3. ASSUME NEW i \in DOMAIN variants, NEW j \in DOMAIN variants, Swap(i, j)
      PROVE  variants' \in Admitted /\ DOMAIN variants' = DOMAIN variants
  BY <1>3, SwapAdmitted
<1> QED BY <1>1, <1>2, <1>3, NextByPart

LEMMA AdmittedAlways == Spec => [](variants \in Admitted)
<1>1. variants \in Admitted /\ [Next]_vars => (variants \in Admitted)'
  BY AdmittedInductive
<1> QED BY InitAdmitted, <1>1, PTL DEF Spec

\* The variants are in a strict order.
LEMMA BeforeOrders ==
  ASSUME NEW vs \in Admitted, NEW i \in DOMAIN vs, NEW j \in DOMAIN vs, NEW k \in DOMAIN vs
  PROVE  /\ ~(Before(vs, i, j) /\ Before(vs, j, i))
         /\ ~Before(vs, i, i)
         /\ Before(vs, i, j) /\ Before(vs, j, k) => Before(vs, i, k)
         /\ Before(vs, i, j) \/ i = j \/ Before(vs, j, i)
<1>1. i \in Nat /\ j \in Nat /\ k \in Nat
  BY AdmittedVariants
<1>2. Priority(vs[i]) \in Nat /\ Priority(vs[j]) \in Nat /\ Priority(vs[k]) \in Nat
  <2>1. vs[i] \in Variant /\ vs[j] \in Variant /\ vs[k] \in Variant
    BY AdmittedVariants
  <2> QED BY <2>1, VariantTypes
<1> QED BY <1>1, <1>2 DEF Before

FirstOf(vs, T, i) == i \in T /\ \A j \in T : i = j \/ Before(vs, i, j)

LastOf(vs, T, i) == i \in T /\ \A j \in T : i = j \/ Before(vs, j, i)

LEMMA FirstAndLast ==
  ASSUME NEW vs \in Admitted, NEW T \in SUBSET DOMAIN vs, T # {}
  PROVE  (\E i : FirstOf(vs, T, i)) /\ (\E i : LastOf(vs, T, i))
<1> DEFINE D == DOMAIN vs
           F == {X \in SUBSET D : X # {} => (\E i : FirstOf(vs, X, i)) /\ (\E i : LastOf(vs, X, i))}
<1>1. {} \in F
  OBVIOUS
<1>2. ASSUME NEW X \in SUBSET D, NEW x \in D \ X, X \in F
      PROVE  X \cup {x} \in F
  <2>1. CASE X = {}
    <3>1. FirstOf(vs, X \cup {x}, x) /\ LastOf(vs, X \cup {x}, x)
      BY <2>1 DEF FirstOf, LastOf
    <3> QED BY <3>1
  <2>2. CASE X # {}
    <3>1. PICK i : FirstOf(vs, X, i)
      BY <1>2, <2>2
    <3>2. PICK j : LastOf(vs, X, j)
      BY <1>2, <2>2
    <3>3. FirstOf(vs, X \cup {x}, i) \/ FirstOf(vs, X \cup {x}, x)
      <4>1. i \in D /\ \A k \in X : i = k \/ Before(vs, i, k)
        BY <3>1 DEF FirstOf
      <4>2. CASE Before(vs, i, x)
        BY <3>1, <4>2 DEF FirstOf
      <4>3. CASE ~Before(vs, i, x)
        <5>1. Before(vs, x, i)
          BY <3>1, <4>1, <4>3, BeforeOrders DEF FirstOf
        <5>2. \A k \in X : Before(vs, x, k)
          BY <4>1, <5>1, BeforeOrders
        <5> QED BY <5>2 DEF FirstOf
      <4> QED BY <4>2, <4>3
    <3>4. LastOf(vs, X \cup {x}, j) \/ LastOf(vs, X \cup {x}, x)
      <4>1. j \in D /\ \A k \in X : j = k \/ Before(vs, k, j)
        BY <3>2 DEF LastOf
      <4>2. CASE Before(vs, x, j)
        BY <3>2, <4>2 DEF LastOf
      <4>3. CASE ~Before(vs, x, j)
        <5>1. Before(vs, j, x)
          BY <3>2, <4>1, <4>3, BeforeOrders DEF LastOf
        <5>2. \A k \in X : Before(vs, k, x)
          BY <4>1, <5>1, BeforeOrders
        <5> QED BY <5>2 DEF LastOf
      <4> QED BY <4>2, <4>3
    <3> QED BY <3>3, <3>4
  <2> QED BY <2>1, <2>2
<1>3. IsFiniteSet(D)
  BY AdmittedVariants DEF Weighted
<1>4. SUBSET D \subseteq F
  <2> HIDE DEF F, D
  <2> QED BY <1>1, <1>2, <1>3, SetInduction
<1> QED BY <1>4

\* Where variants end on the way from nobody to everybody.
LEMMA CumulativeGrows ==
  ASSUME NEW vs \in Admitted, NEW i \in DOMAIN vs
  PROVE  /\ Cumulative(vs, i) \in Nat
         /\ Cumulative(vs, i) <= 100
         /\ vs[i].weight \in Nat
         /\ UpTo(vs, i) \ {i} = {} => Cumulative(vs, i) = vs[i].weight
         /\ \A p : LastOf(vs, UpTo(vs, i) \ {i}, p) =>
              /\ p \in DOMAIN vs
              /\ Before(vs, p, i)
              /\ Cumulative(vs, i) = Cumulative(vs, p) + vs[i].weight
         /\ \A j \in DOMAIN vs : Before(vs, j, i) => Cumulative(vs, j) <= Cumulative(vs, i)
<1> DEFINE D == DOMAIN vs
           C(j) == Weight(vs, UpTo(vs, j))
           Rest == UpTo(vs, i) \ {i}
<1>1. \A j : Cumulative(vs, j) = C(j)
  BY DEF Cumulative, Weight, MapThenSumSet, MapThenFoldSet
<1>2. \A j \in D : UpTo(vs, j) \in SUBSET D /\ j \in UpTo(vs, j)
  BY DEF UpTo
<1>3. /\ Weighted(vs, D)
      /\ Weight(vs, D) <= 100
      /\ vs[i].weight \in Nat
  BY AdmittedVariants DEF Weighted
<1>4. /\ \A T \in SUBSET D : Weight(vs, T) \in Nat
      /\ Weight(vs, {}) = 0
      /\ \A T \in SUBSET D : \A j \in D \ T : Weight(vs, T \cup {j}) = Weight(vs, T) + vs[j].weight
  BY <1>3, WeightsAddUp
<1>5. C(i) \in Nat /\ C(i) <= 100
  <2>1. D \in SUBSET D /\ UpTo(vs, i) \in SUBSET D
    BY <1>2
  <2>2. Weight(vs, UpTo(vs, i)) <= Weight(vs, D)
    BY <1>3, <2>1, MoreWeighMore
  <2>3. Weight(vs, UpTo(vs, i)) \in Nat /\ Weight(vs, D) \in Nat
    BY <1>4, <2>1
  <2> QED BY <1>3, <2>2, <2>3
<1>6. C(i) = Weight(vs, Rest) + vs[i].weight
  <2>1. Rest \in SUBSET D /\ i \in D \ Rest /\ Rest \cup {i} = UpTo(vs, i)
    BY <1>2
  <2> HIDE DEF Rest
  <2> QED BY <1>4, <2>1
<1>7. ASSUME NEW p, LastOf(vs, Rest, p)
      PROVE  /\ p \in D
             /\ Before(vs, p, i)
             /\ UpTo(vs, p) = Rest
  <2>1. p \in D /\ Before(vs, p, i) /\ \A j \in Rest : p = j \/ Before(vs, j, p)
    BY <1>7 DEF LastOf, UpTo
  <2>2. \A j \in Rest : j \in UpTo(vs, p)
    BY <2>1 DEF UpTo
  <2>3. ASSUME NEW j \in UpTo(vs, p)
        PROVE  j \in Rest
    <3>1. j \in D /\ (j = p \/ Before(vs, j, p))
      BY DEF UpTo
    <3>2. Before(vs, j, i)
      BY <2>1, <3>1, BeforeOrders
    <3>3. j # i
      BY <3>1, <3>2, BeforeOrders
    <3> QED BY <3>1, <3>2, <3>3 DEF UpTo
  <2> QED BY <2>1, <2>2, <2>3
<1>8. ASSUME NEW j \in D, Before(vs, j, i)
      PROVE  C(j) <= C(i)
  <2>1. UpTo(vs, j) \in SUBSET UpTo(vs, i)
    BY <1>8, BeforeOrders DEF UpTo
  <2>2. UpTo(vs, i) \in SUBSET D
    BY <1>2
  <2> QED BY <1>3, <2>1, <2>2, MoreWeighMore
<1>9. Rest = {} => C(i) = vs[i].weight
  <2> HIDE DEF Rest, C
  <2> QED BY <1>3, <1>4, <1>6
<1>10. ASSUME NEW p, LastOf(vs, Rest, p)
       PROVE  p \in D /\ Before(vs, p, i) /\ C(i) = C(p) + vs[i].weight
  BY <1>6, <1>7, <1>10
<1> HIDE DEF C
<1> QED BY <1>1, <1>3, <1>5, <1>8, <1>9, <1>10

\* What each bucket is served.
LEMMA ServedFirst ==
  ASSUME NEW vs \in Admitted, NEW b \in Bucket
  PROVE  /\ Served(vs)[b] \in DOMAIN vs \cup {Missing}
         /\ Missing \notin DOMAIN vs
         /\ Served(vs)[b] = Missing <=> Reached(vs, b) = {}
         /\ \A i \in DOMAIN vs : Served(vs)[b] = i <=> FirstOf(vs, Reached(vs, b), i)
<1> DEFINE R == Reached(vs, b)
           s == Served(vs)[b]
<1>1. Missing \notin DOMAIN vs
  BY AdmittedVariants, MultivariateAssumption
<1>2. R \in SUBSET DOMAIN vs
  BY DEF Reached
<1>3. s = IF R = {} THEN Missing ELSE CHOOSE i \in R : \A j \in R : i = j \/ Before(vs, i, j)
  BY DEF Served
<1> HIDE DEF R, s
<1>4. CASE R = {}
  BY <1>1, <1>3, <1>4 DEF FirstOf, R, s
<1>5. CASE R # {}
  <2>1. \E i : FirstOf(vs, R, i)
    BY <1>2, <1>5, FirstAndLast
  <2>2. FirstOf(vs, R, s)
    BY <1>3, <1>5, <2>1 DEF FirstOf
  <2>3. \A i : FirstOf(vs, R, i) => i = s
    BY <1>2, <2>2, BeforeOrders DEF FirstOf
  <2>4. s \in DOMAIN vs
    BY <1>2, <2>2 DEF FirstOf
  <2> QED BY <1>1, <1>5, <2>2, <2>3, <2>4 DEF R, s
<1> QED BY <1>4, <1>5

\* Buckets whose ends, in hundredths, lie in an interval: as many as its width
\* says, to within one.
Between(p, c) == {b \in Bucket : p < b * 100 /\ b * 100 <= c}

LEMMA BucketBelow ==
  ASSUME NEW x \in Nat
  PROVE  \E q \in Nat : q * 100 <= x /\ x < q * 100 + 100
<1> DEFINE S == {y \in Nat : \E q \in Nat : q * 100 <= y /\ y < q * 100 + 100}
<1>1. 0 \in S
  OBVIOUS
<1>2. ASSUME NEW n \in Nat, n \in S
      PROVE  n + 1 \in S
  <2>1. PICK q \in Nat : q * 100 <= n /\ n < q * 100 + 100
    BY <1>2
  <2>2. \/ q * 100 <= n + 1 /\ n + 1 < q * 100 + 100
        \/ (q + 1) * 100 <= n + 1 /\ n + 1 < (q + 1) * 100 + 100
    BY <2>1
  <2>3. q + 1 \in Nat /\ n + 1 \in Nat
    OBVIOUS
  <2> QED BY <2>2, <2>3
<1>3. Nat \subseteq S
  <2> HIDE DEF S
  <2> QED BY <1>1, <1>2, NatSetInduction
<1> QED BY <1>3

LEMMA BetweenAsWide ==
  ASSUME NEW p \in Int, NEW c \in Nat, p <= c, c <= Buckets * 100,
         NEW width,
         \/ p \in Nat /\ width = c - p
         \/ p = -1 /\ width = c
  PROVE  /\ width - 100 <= Cardinality(Between(p, c)) * 100
         /\ Cardinality(Between(p, c)) * 100 <= width + 100
<1>1. Buckets \in Nat
  BY MultivariateAssumption
<1>2. PICK q \in Nat : q * 100 <= c /\ c < q * 100 + 100
  BY BucketBelow
<1>3. PICK r \in Int : r * 100 <= p /\ p < r * 100 + 100
  <2>1. CASE p \in Nat
    <3>1. PICK n \in Nat : n * 100 <= p /\ p < n * 100 + 100
      BY <2>1, BucketBelow
    <3> QED BY <3>1
  <2>2. CASE p = -1
    <3>1. -1 \in Int /\ (-1) * 100 <= p /\ p < (-1) * 100 + 100
      BY <2>2
    <3> QED BY <3>1
  <2> QED BY <2>1, <2>2
<1>4. r + 1 \in Nat
  BY <1>3
<1> DEFINE top == IF q <= Buckets - 1 THEN q ELSE Buckets - 1
<1>5. Between(p, c) = (r + 1)..top
  <2>1. ASSUME NEW b \in Between(p, c)
        PROVE  b \in (r + 1)..top
    <3>1. b \in Nat /\ b <= Buckets - 1 /\ p < b * 100 /\ b * 100 <= c
      BY <1>1 DEF Between, Bucket
    <3> QED BY <1>1, <1>2, <1>3, <3>1
  <2>2. ASSUME NEW b \in (r + 1)..top
        PROVE  b \in Between(p, c)
    <3>1. b \in Nat /\ b <= Buckets - 1
      BY <1>1, <1>2, <1>4
    <3>2. p < b * 100 /\ b * 100 <= c
      BY <1>1, <1>2, <1>3
    <3> QED BY <1>1, <3>1, <3>2 DEF Between, Bucket
  <2> QED BY <2>1, <2>2
<1>6. top \in Int /\ r + 1 \in Int
  BY <1>1, <1>2, <1>3
<1>7. Cardinality(Between(p, c)) = IF r + 1 > top THEN 0 ELSE top - (r + 1) + 1
  <2> HIDE DEF top
  <2> QED BY <1>5, <1>6, FS_Interval
<1> QED BY <1>1, <1>2, <1>3, <1>4, <1>7

LEMMA Products ==
  ASSUME NEW x \in Nat, NEW y \in Nat, NEW n \in Nat
  PROVE  /\ x * n \in Nat
         /\ x <= y => x * n <= y * n
         /\ (x + y) * n = x * n + y * n
<1>1. x * n \in Nat /\ y * n \in Nat /\ (x + y) * n = x * n + y * n
  OBVIOUS
<1>2. ASSUME x <= y
      PROVE  x * n <= y * n
  <2>1. PICK d \in Nat : y = x + d
    <3>1. y - x \in Nat /\ y = x + (y - x)
      BY <1>2
    <3> QED BY <3>1
  <2>2. y * n = x * n + d * n /\ d * n \in Nat
    BY <2>1
  <2> QED BY <1>1, <2>2
<1> QED BY <1>1, <1>2

\* Each variant is served the buckets that end between where the variants before
\* it end and where it ends itself.
LEMMA ServedBetween ==
  ASSUME NEW vs \in Admitted, NEW i \in DOMAIN vs, NEW p \in Int,
         LET rest == UpTo(vs, i) \ {i} IN
         \/ rest = {} /\ p = -1
         \/ \E j : LastOf(vs, rest, j) /\ p = Cumulative(vs, j) * Buckets
  PROVE  {b \in Bucket : Served(vs)[b] = i} = Between(p, Cumulative(vs, i) * Buckets)
<1> DEFINE rest == UpTo(vs, i) \ {i}
           end == Cumulative(vs, i) * Buckets
<1>1. \A b \in Bucket : b \in Nat /\ b * 100 \in Nat /\ 0 <= b * 100
  BY MultivariateAssumption DEF Bucket
<1>2. Buckets \in Nat
  BY MultivariateAssumption
<1>3. \A j \in DOMAIN vs : Cumulative(vs, j) \in Nat /\ Cumulative(vs, j) * Buckets \in Nat
  BY <1>2, CumulativeGrows, Products
<1>4. ASSUME NEW b \in Bucket, Served(vs)[b] = i
      PROVE  b \in Between(p, end)
  <2>1. FirstOf(vs, Reached(vs, b), i)
    BY <1>4, ServedFirst
  <2>2. b * 100 <= end
    BY <2>1 DEF FirstOf, Reached
  <2>3. CASE rest = {} /\ p = -1
    <3>1. p < b * 100
      BY <1>1, <2>3
    <3> QED BY <2>2, <3>1 DEF Between
  <2>4. ASSUME NEW j, LastOf(vs, rest, j), p = Cumulative(vs, j) * Buckets
        PROVE  b \in Between(p, end)
    <3>1. j \in DOMAIN vs /\ Before(vs, j, i)
      BY <2>4 DEF LastOf, UpTo
    <3>2. j \notin Reached(vs, b)
      BY <2>1, <3>1, BeforeOrders DEF FirstOf
    <3>3. ~(b * 100 <= p)
      BY <2>4, <3>1, <3>2 DEF Reached
    <3>4. p < b * 100
      BY <1>1, <1>3, <2>4, <3>1, <3>3
    <3> QED BY <2>2, <3>4 DEF Between
  <2> QED BY <2>3, <2>4
<1>5. ASSUME NEW b \in Between(p, end)
      PROVE  b \in Bucket /\ Served(vs)[b] = i
  <2>1. b \in Bucket /\ p < b * 100 /\ b * 100 <= end
    BY DEF Between
  <2>2. i \in Reached(vs, b)
    BY <2>1 DEF Reached
  <2>3. ASSUME NEW j \in Reached(vs, b)
        PROVE  i = j \/ Before(vs, i, j)
    <3>1. j \in DOMAIN vs /\ b * 100 <= Cumulative(vs, j) * Buckets
      BY DEF Reached
    <3>2. SUFFICES ASSUME Before(vs, j, i)
                   PROVE  FALSE
      BY <3>1, BeforeOrders
    <3>3. j \in rest
      BY <3>1, <3>2, BeforeOrders DEF UpTo
    <3>4. PICK k : LastOf(vs, rest, k) /\ p = Cumulative(vs, k) * Buckets
      BY <3>3
    <3>5. k \in DOMAIN vs /\ (j = k \/ Before(vs, j, k))
      BY <3>3, <3>4 DEF LastOf, UpTo
    <3>6. Cumulative(vs, j) <= Cumulative(vs, k)
      <4>1. CASE j = k
        BY <1>3, <3>1, <4>1
      <4>2. CASE Before(vs, j, k)
        BY <3>1, <3>5, <4>2, CumulativeGrows
      <4> QED BY <3>5, <4>1, <4>2
    <3>7. Cumulative(vs, j) * Buckets <= Cumulative(vs, k) * Buckets
      BY <1>2, <1>3, <3>1, <3>5, <3>6, Products
    <3> QED BY <1>1, <1>3, <2>1, <3>1, <3>4, <3>5, <3>7
  <2>4. FirstOf(vs, Reached(vs, b), i)
    BY <2>2, <2>3 DEF FirstOf
  <2> QED BY <2>1, <2>4, ServedFirst
<1> QED BY <1>4, <1>5 DEF Between

LEMMA SharesAreFair ==
  ASSUME NEW vs \in Admitted, NEW i \in DOMAIN vs
  PROVE  LET share == Cardinality({b \in Bucket : Served(vs)[b] = i}) * 100
             due   == vs[i].weight * Buckets
         IN  due - 100 <= share /\ share <= due + 100
<1> DEFINE rest == UpTo(vs, i) \ {i}
           end == Cumulative(vs, i) * Buckets
           due == vs[i].weight * Buckets
<1>1. Buckets \in Nat
  BY MultivariateAssumption
<1>2. /\ Cumulative(vs, i) \in Nat
      /\ Cumulative(vs, i) <= 100
      /\ vs[i].weight \in Nat
      /\ rest = {} => Cumulative(vs, i) = vs[i].weight
      /\ \A p : LastOf(vs, rest, p) =>
           p \in DOMAIN vs /\ Cumulative(vs, i) = Cumulative(vs, p) + vs[i].weight
  BY CumulativeGrows
<1>3. end \in Nat /\ end <= Buckets * 100
  <2>1. 100 * Buckets = Buckets * 100
    BY <1>1
  <2>2. end \in Nat /\ end <= 100 * Buckets
    BY <1>1, <1>2, Products
  <2> QED BY <2>1, <2>2
<1>4. CASE rest = {}
  <2>1. end = due
    <3>1. Cumulative(vs, i) = vs[i].weight
      BY <1>2, <1>4
    <3> QED BY ONLY <3>1 DEF end, due
  <2>2. {b \in Bucket : Served(vs)[b] = i} = Between(-1, end)
    <3> DEFINE p == -1
    <3>1. p \in Int /\ p = -1
      OBVIOUS
    <3> HIDE DEF p
    <3>2. {b \in Bucket : Served(vs)[b] = i} = Between(p, end)
      BY <1>4, <3>1, ServedBetween
    <3> QED BY <3>1, <3>2
  <2>3. -1 \in Int /\ -1 <= end
    BY <1>3
  <2> HIDE DEF end, due
  <2>4. /\ due - 100 <= Cardinality(Between(-1, end)) * 100
        /\ Cardinality(Between(-1, end)) * 100 <= due + 100
    BY <1>3, <2>1, <2>3, BetweenAsWide
  <2> QED BY <2>2, <2>4 DEF due
<1>5. CASE rest # {}
  <2>1. PICK j : LastOf(vs, rest, j)
    <3>1. rest \in SUBSET DOMAIN vs
      BY DEF UpTo
    <3> HIDE DEF rest
    <3> QED BY <1>5, <3>1, FirstAndLast
  <2>2. j \in DOMAIN vs /\ Cumulative(vs, i) = Cumulative(vs, j) + vs[i].weight
    BY <1>2, <2>1
  <2>3. Cumulative(vs, j) \in Nat
    BY <2>2, CumulativeGrows
  <2> DEFINE begin == Cumulative(vs, j) * Buckets
  <2>4. begin \in Nat /\ due \in Nat /\ end = begin + due
    <3>1. /\ begin \in Nat /\ due \in Nat
          /\ (Cumulative(vs, j) + vs[i].weight) * Buckets = begin + due
      BY <1>1, <1>2, <2>3, Products
    <3>2. end = (Cumulative(vs, j) + vs[i].weight) * Buckets
      BY ONLY <2>2 DEF end
    <3> QED BY <3>1, <3>2
  <2>5. begin \in Int
    BY <2>4
  <2>6. {b \in Bucket : Served(vs)[b] = i} = Between(begin, end)
    BY <2>1, <2>5, ServedBetween
  <2> HIDE DEF begin, end, due
  <2>7. begin <= end /\ begin \in Nat /\ due = end - begin
    BY <1>3, <2>4
  <2>8. /\ due - 100 <= Cardinality(Between(begin, end)) * 100
        /\ Cardinality(Between(begin, end)) * 100 <= due + 100
    <3>1. \/ begin \in Nat /\ due = end - begin
          \/ begin = -1 /\ due = end
      BY <2>7
    <3>2. begin <= end
      BY <2>7
    <3> QED BY <1>3, <2>5, <3>1, <3>2, BetweenAsWide
  <2> QED BY <2>6, <2>8 DEF due
<1> QED BY <1>4, <1>5

\* Whatever the weights and priorities and however many the buckets, each variant
\* has the share of the buckets that its weight says, to within one bucket.
THEOREM SharesFair == Spec => []FairShares
<1>1. variants \in Admitted => FairShares
  BY SharesAreFair DEF FairShares, Quantify
<1> QED BY <1>1, AdmittedAlways, PTL

\* What a heavier variant moves: only the ends of its own and of later ones.
LEMMA HeavierKeepsServed ==
  ASSUME NEW vs \in Admitted, NEW us \in Admitted, NEW i \in DOMAIN vs, NEW w \in Int,
         us = [vs EXCEPT ![i].weight = w], w > vs[i].weight,
         NEW b \in Bucket, Served(vs)[b] \in UpTo(vs, i)
  PROVE  Served(us)[b] = Served(vs)[b]
<1> DEFINE D == DOMAIN vs
           s == Served(vs)[b]
<1>1. DOMAIN us = D
  OBVIOUS
<1>2. /\ \A j \in D : j # i => us[j] = vs[j]
      /\ us[i] = [vs[i] EXCEPT !.weight = w]
  OBVIOUS
<1>3. /\ Weighted(vs, D) /\ Weighted(us, D)
      /\ \A j \in D : vs[j] \in Variant /\ us[j] \in Variant
      /\ D \subseteq Nat
  BY <1>1, AdmittedVariants
<1>4. us[i].weight = w
  <2>1. vs[i] \in Variant
    BY <1>3
  <2> QED BY <1>2, <2>1 DEF Variant
<1>5. \A j \in D : Priority(us[j]) = Priority(vs[j])
  <2>1. us[i].id = vs[i].id /\ us[i].uuid = vs[i].uuid
    <3>1. vs[i] \in Variant
      BY <1>3
    <3> QED BY <1>2, <3>1 DEF Variant
  <2> QED BY <1>2, <2>1 DEF Priority
<1>6. \A j, k \in D : Before(us, j, k) <=> Before(vs, j, k)
  BY <1>5 DEF Before
<1>7. \A j \in D : UpTo(us, j) = UpTo(vs, j)
  BY <1>1, <1>6 DEF UpTo
<1>8. \A j : Cumulative(vs, j) = Weight(vs, UpTo(vs, j)) /\ Cumulative(us, j) = Weight(us, UpTo(us, j))
  BY DEF Cumulative, Weight, MapThenSumSet, MapThenFoldSet
<1>9. \A j \in D : UpTo(vs, j) \in SUBSET D /\ Weighted(vs, UpTo(vs, j)) /\ Weighted(us, UpTo(vs, j))
  BY <1>3, FS_Subset DEF UpTo, Weighted
<1>10. \A j \in D : vs[j].weight <= us[j].weight
  BY <1>2, <1>3, <1>4, VariantTypes
<1>11. ASSUME NEW j \in D
       PROVE  Cumulative(vs, j) <= Cumulative(us, j)
  <2> DEFINE T == UpTo(vs, j)
  <2>1. Weighted(vs, T) /\ Weighted(us, T) /\ \A k \in T : vs[k].weight <= us[k].weight
    BY <1>9, <1>10
  <2> HIDE DEF T
  <2>2. Weight(vs, T) <= Weight(us, T)
    BY <2>1, HeavierWeighMore
  <2> QED BY <1>7, <1>8, <2>2 DEF T
<1>12. ASSUME NEW j \in D, i \notin UpTo(vs, j)
       PROVE  Cumulative(us, j) <= Cumulative(vs, j)
  <2> DEFINE T == UpTo(vs, j)
  <2>1. \A k \in T : us[k] = vs[k]
    BY <1>2, <1>9, <1>12
  <2>2. Weighted(vs, T) /\ Weighted(us, T) /\ \A k \in T : us[k].weight <= vs[k].weight
    <3>1. Weighted(vs, T) /\ Weighted(us, T)
      BY <1>9
    <3>2. \A k \in T : vs[k].weight \in Nat /\ us[k].weight = vs[k].weight
      BY <2>1, <3>1 DEF Weighted
    <3> QED BY <3>1, <3>2
  <2> HIDE DEF T
  <2>3. Weight(us, T) <= Weight(vs, T)
    BY <2>2, HeavierWeighMore
  <2> QED BY <1>7, <1>8, <2>3 DEF T
<1>13. Buckets \in Nat /\ b * 100 \in Nat
  BY MultivariateAssumption DEF Bucket
<1>14. \A j \in D : Cumulative(vs, j) \in Nat /\ Cumulative(us, j) \in Nat
  BY <1>1, CumulativeGrows
<1>15. ASSUME NEW x \in Nat, NEW y \in Nat, x <= y, b * 100 <= x * Buckets
       PROVE  b * 100 <= y * Buckets
  <2>1. x * Buckets <= y * Buckets /\ x * Buckets \in Nat /\ y * Buckets \in Nat
    BY <1>13, <1>15, Products
  <2> QED BY <1>13, <1>15, <2>1
<1>16. s \in D /\ FirstOf(vs, Reached(vs, b), s)
  <2>1. s \in D
    BY DEF UpTo
  <2> QED BY <2>1, ServedFirst
<1>17. s \in Reached(us, b)
  <2>1. b * 100 <= Cumulative(vs, s) * Buckets
    BY <1>16 DEF FirstOf, Reached
  <2>2. b * 100 <= Cumulative(us, s) * Buckets
    BY <1>11, <1>14, <1>15, <1>16, <2>1
  <2> QED BY <1>1, <1>16, <2>2 DEF Reached
<1>18. ASSUME NEW j \in Reached(us, b)
       PROVE  s = j \/ Before(us, s, j)
  <2>1. j \in D /\ b * 100 <= Cumulative(us, j) * Buckets
    BY <1>1 DEF Reached
  <2>2. SUFFICES ASSUME Before(vs, j, s)
                 PROVE  FALSE
    BY <1>6, <1>16, <2>1, BeforeOrders
  <2>3. s = i \/ Before(vs, s, i)
    BY DEF UpTo
  <2>4. Before(vs, j, i)
    BY <1>16, <2>1, <2>2, <2>3, BeforeOrders
  <2>5. i \notin UpTo(vs, j)
    BY <2>1, <2>4, BeforeOrders DEF UpTo
  <2>6. b * 100 <= Cumulative(vs, j) * Buckets
    BY <1>12, <1>14, <1>15, <2>1, <2>5
  <2>7. j \in Reached(vs, b)
    BY <2>1, <2>6 DEF Reached
  <2> QED BY <1>16, <2>1, <2>2, <2>7, BeforeOrders DEF FirstOf
<1>19. FirstOf(us, Reached(us, b), s)
  BY <1>17, <1>18 DEF FirstOf
<1> QED BY <1>1, <1>16, <1>19, ServedFirst

\* Raising the weight of a variant takes that variant, or one before it, from
\* nobody.
THEOREM RaisingKeeps == Spec => RaisingKeepsWhatIsServed
<1>1. variants \in Admitted /\ [Next]_vars
      => [LET served == Served(variants) IN
          \A i \in DOMAIN variants :
            /\ variants' = [variants EXCEPT ![i].weight = variants'[i].weight]
            /\ variants'[i].weight > variants[i].weight
            => \A b \in Bucket :
                 served[b] \in UpTo(variants, i) => Served(variants')[b] = served[b]]_variants
  <2> SUFFICES ASSUME variants \in Admitted, [Next]_vars,
                      NEW i \in DOMAIN variants,
                      variants' = [variants EXCEPT ![i].weight = variants'[i].weight],
                      variants'[i].weight > variants[i].weight,
                      NEW b \in Bucket, Served(variants)[b] \in UpTo(variants, i)
               PROVE  Served(variants')[b] = Served(variants)[b]
    OBVIOUS
  <2>1. variants' \in Admitted /\ DOMAIN variants' = DOMAIN variants
    BY AdmittedInductive
  <2>2. variants'[i].weight \in Int
    BY <2>1, AdmittedVariants, VariantTypes
  <2> QED BY <2>1, <2>2, HeavierKeepsServed
<1> QED BY <1>1, AdmittedAlways, PTL DEF Spec, RaisingKeepsWhatIsServed

\* The place in us of each variant of vs.
Reorders(vs, us, pi) ==
  /\ pi \in [DOMAIN vs -> DOMAIN us]
  /\ \A x, y \in DOMAIN vs : pi[x] = pi[y] => x = y
  /\ \A y \in DOMAIN us : \E x \in DOMAIN vs : pi[x] = y
  /\ \A x \in DOMAIN vs : us[pi[x]] = vs[x]

LEMMA PlacesExist ==
  ASSUME NEW vs \in Admitted, NEW us \in Admitted,
         DOMAIN us = DOMAIN vs, ToSet(us) = ToSet(vs),
         \A i, j \in DOMAIN vs : i # j => Priority(vs[i]) # Priority(vs[j])
  PROVE  \E pi : Reorders(vs, us, pi)
<1> DEFINE D == DOMAIN vs
           pi == [x \in D |-> CHOOSE y \in D : us[y] = vs[x]]
<1>1. \A x \in D : \E y \in D : us[y] = vs[x]
  BY DEF ToSet
<1>2. pi \in [D -> D] /\ \A x \in D : us[pi[x]] = vs[x]
  BY <1>1
<1> HIDE DEF pi
<1>3. \A x, y \in D : pi[x] = pi[y] => x = y
  <2> SUFFICES ASSUME NEW x \in D, NEW y \in D, pi[x] = pi[y]
               PROVE  x = y
    OBVIOUS
  <2>1. vs[x] = vs[y]
    BY <1>2
  <2> QED BY <2>1
<1>4. pi \in Surjection(D, D)
  <2>1. IsFiniteSet(D)
    BY AdmittedVariants DEF Weighted
  <2>2. pi \in Injection(D, D)
    BY <1>2, <1>3 DEF Injection, IsInjective
  <2> QED BY <2>1, <2>2, FS_Injection
<1>5. \A y \in D : \E x \in D : pi[x] = y
  BY <1>4 DEF Surjection
<1>6. Reorders(vs, us, pi)
  BY <1>2, <1>3, <1>5 DEF Reorders
<1> QED BY <1>6

LEMMA ReorderedServed ==
  ASSUME NEW vs \in Admitted, NEW us \in Admitted,
         \A i, j \in DOMAIN vs : i # j => Priority(vs[i]) # Priority(vs[j]),
         NEW pi, Reorders(vs, us, pi),
         NEW b \in Bucket
  PROVE  /\ Served(vs)[b] = Missing => Served(us)[b] = Missing
         /\ Served(vs)[b] # Missing =>
              /\ Served(us)[b] # Missing
              /\ vs[Served(vs)[b]] = us[Served(us)[b]]
<1> DEFINE D == DOMAIN vs
           s == Served(vs)[b]
<1>1. /\ pi \in [D -> DOMAIN us]
      /\ \A x, y \in D : pi[x] = pi[y] => x = y
      /\ \A y \in DOMAIN us : \E x \in D : pi[x] = y
      /\ \A x \in D : us[pi[x]] = vs[x]
  BY DEF Reorders
<1>2. /\ \A x \in D : Priority(vs[x]) \in Nat
      /\ D \subseteq Nat /\ DOMAIN us \subseteq Nat
      /\ Weighted(vs, D) /\ Weighted(us, DOMAIN us)
  BY AdmittedVariants, VariantTypes
<1>3. \A x, y \in D : Before(us, pi[x], pi[y]) <=> Before(vs, x, y)
  <2> SUFFICES ASSUME NEW x \in D, NEW y \in D
               PROVE  Before(us, pi[x], pi[y]) <=> Before(vs, x, y)
    OBVIOUS
  <2>1. CASE x = y
    BY <1>1, <2>1, BeforeOrders
  <2>2. CASE x # y
    <3>1. Priority(vs[x]) # Priority(vs[y])
      BY <2>2
    <3>2. us[pi[x]] = vs[x] /\ us[pi[y]] = vs[y]
      BY <1>1
    <3> QED BY <3>1, <3>2 DEF Before
  <2> QED BY <2>1, <2>2
<1>4. \A x \in D : UpTo(us, pi[x]) = {pi[y] : y \in UpTo(vs, x)}
  <2> SUFFICES ASSUME NEW x \in D
               PROVE  UpTo(us, pi[x]) = {pi[y] : y \in UpTo(vs, x)}
    OBVIOUS
  <2>1. ASSUME NEW z \in UpTo(us, pi[x])
        PROVE  z \in {pi[y] : y \in UpTo(vs, x)}
    <3>1. z \in DOMAIN us /\ (z = pi[x] \/ Before(us, z, pi[x]))
      BY DEF UpTo
    <3>2. PICK y \in D : pi[y] = z
      BY <1>1, <3>1
    <3>3. y = x \/ Before(vs, y, x)
      BY <1>1, <1>3, <3>1, <3>2
    <3>4. y \in UpTo(vs, x)
      BY <3>3 DEF UpTo
    <3> QED BY <3>2, <3>4
  <2>2. ASSUME NEW y \in UpTo(vs, x)
        PROVE  pi[y] \in UpTo(us, pi[x])
    <3>1. y \in D /\ (y = x \/ Before(vs, y, x))
      BY DEF UpTo
    <3>2. pi[y] \in DOMAIN us /\ (pi[y] = pi[x] \/ Before(us, pi[y], pi[x]))
      BY <1>1, <1>3, <3>1
    <3> QED BY <3>2 DEF UpTo
  <2> QED BY <2>1, <2>2
<1>5. ASSUME NEW x \in D
      PROVE  Cumulative(us, pi[x]) = Cumulative(vs, x)
  <2>1. /\ Cumulative(us, pi[x]) = Weight(us, UpTo(us, pi[x]))
        /\ Cumulative(vs, x) = Weight(vs, UpTo(vs, x))
    BY DEF Cumulative, Weight, MapThenSumSet, MapThenFoldSet
  <2>2. UpTo(vs, x) \in SUBSET D
    BY DEF UpTo
  <2>3. Weight(us, {pi[y] : y \in UpTo(vs, x)}) = Weight(vs, UpTo(vs, x))
    <3>1. \A y \in D : us[pi[y]].weight = vs[y].weight
      BY <1>1
    <3> DEFINE T == UpTo(vs, x)
    <3> DEFINE R == DOMAIN us
    <3>2. /\ Weighted(vs, D) /\ Weighted(us, R)
          /\ pi \in [D -> R]
          /\ \A y, z \in D : pi[y] = pi[z] => y = z
          /\ T \in SUBSET D
      BY <1>1, <1>2, <2>2
    <3> HIDE DEF D, T, R
    <3>3. Weight(us, {pi[y] : y \in T}) = Weight(vs, T)
      BY ONLY <3>1, <3>2, RenamedWeighSame
    <3> QED BY <3>3 DEF T
  <2> QED BY <1>4, <2>1, <2>3
<1>6. \A x \in D : pi[x] \in Reached(us, b) <=> x \in Reached(vs, b)
  BY <1>1, <1>5 DEF Reached
<1>7. CASE s = Missing
  <2>1. Reached(vs, b) = {}
    BY <1>7, ServedFirst
  <2>2. ASSUME NEW z \in Reached(us, b)
        PROVE  FALSE
    <3>1. z \in DOMAIN us
      BY DEF Reached
    <3> QED BY <1>1, <1>6, <2>1, <3>1
  <2>3. Reached(us, b) = {}
    BY <2>2
  <2> QED BY <1>7, <2>3, ServedFirst
<1>8. CASE s # Missing
  <2>1. s \in D /\ FirstOf(vs, Reached(vs, b), s)
    BY <1>8, ServedFirst
  <2>2. pi[s] \in DOMAIN us /\ pi[s] \in Reached(us, b)
    BY <1>1, <1>6, <2>1 DEF FirstOf
  <2>3. ASSUME NEW z \in Reached(us, b)
        PROVE  pi[s] = z \/ Before(us, pi[s], z)
    <3>1. PICK y \in D : pi[y] = z
      BY <1>1 DEF Reached
    <3>2. s = y \/ Before(vs, s, y)
      BY <1>6, <2>1, <3>1 DEF FirstOf
    <3> QED BY <1>3, <2>1, <3>1, <3>2
  <2>4. Served(us)[b] = pi[s]
    <3>1. FirstOf(us, Reached(us, b), pi[s])
      BY <2>2, <2>3 DEF FirstOf
    <3> QED BY <2>2, <3>1, ServedFirst
  <2>5. pi[s] # Missing
    BY <2>2, ServedFirst
  <2>6. us[pi[s]] = vs[s]
    BY <1>1, <2>1
  <2> QED BY <1>8, <2>4, <2>5, <2>6
<1> QED BY <1>7, <1>8

\* An edit that only lists the variants in another order changes nobody's variant,
\* if no two of them have the same priority.
THEOREM OrderImmaterial == Spec => OrderDoesNotMatter
<1>1. variants \in Admitted /\ [Next]_vars
      => [ToSet(variants') = ToSet(variants) /\ Distinct
          => LET before == Served(variants)  after == Served(variants') IN
             \A b \in Bucket :
               \/ before[b] = Missing /\ after[b] = Missing
               \/ /\ before[b] # Missing
                  /\ after[b] # Missing
                  /\ variants[before[b]] = variants'[after[b]]]_variants
  <2> SUFFICES ASSUME variants \in Admitted, [Next]_vars,
                      ToSet(variants') = ToSet(variants), Distinct,
                      NEW b \in Bucket
               PROVE  \/ Served(variants)[b] = Missing /\ Served(variants')[b] = Missing
                      \/ /\ Served(variants)[b] # Missing
                         /\ Served(variants')[b] # Missing
                         /\ variants[Served(variants)[b]] = variants'[Served(variants')[b]]
    OBVIOUS
  <2>1. variants' \in Admitted /\ DOMAIN variants' = DOMAIN variants
    BY AdmittedInductive
  <2>2. \A i, j \in DOMAIN variants : i # j => Priority(variants[i]) # Priority(variants[j])
    BY DEF Distinct
  <2>3. PICK pi : Reorders(variants, variants', pi)
    BY <2>1, <2>2, PlacesExist
  <2> QED BY <2>1, <2>2, <2>3, ReorderedServed
<1> QED BY <1>1, AdmittedAlways, PTL DEF Spec, OrderDoesNotMatter

===============================================================================
