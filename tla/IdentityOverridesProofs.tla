------------------------- MODULE IdentityOverridesProofs -------------------------
(***************************************************************************)
(* Overrides that are grouped into segments come back to the identities    *)
(* they were made for, whatever identities a document lists and however    *)
(* each lists its features, as long as no value holds a semicolon, no      *)
(* identifier a comma and none can begin a JSON array.  IdentityOverrides  *)
(* shows on instances, and KeysCollide in general, that the conditions are *)
(* needed.                                                                 *)
(***************************************************************************)
EXTENDS IdentityOverrides, WellFoundedInduction, FiniteSetTheorems, TLAPS

\* Every identifier is one part, which begins no JSON text.
PlainIdentifiers ==
  \A identifier \in Identifiers :
    identifier = <<identifier[1]>> /\ identifier[1] \notin JSONStarts

-------------------------------------------------------------------------------
(* Joining.                                                                 *)

LEMMA LeastNumber ==
  ASSUME NEW S, S \subseteq Nat, S # {}
  PROVE  \E n \in S : \A m \in S : ~(m < n)
<1>1. PICK n \in S : \A m \in S : <<m, n>> \notin OpToRel(<, Nat)
  BY NatLessThanWellFounded, WFMin
<1> QED BY <1>1 DEF OpToRel

\* The first parts of the sequences up to the i-th.
FirstParts(s, i) == [j \in 1..i |-> s[j][1]]

LEMMA OnePartMore ==
  ASSUME NEW S, NEW s \in Seq(S), NEW i \in 2..Len(s), s[i] = <<s[i][1]>>
  PROVE  FirstParts(s, i) = FirstParts(s, i - 1) \o s[i]
<1> DEFINE Parts == {s[j][1] : j \in 1..Len(s)}
           f == FirstParts(s, i - 1)
           p == s[i][1]
<1>1. i - 1 \in Nat /\ i - 1 + 1 = i
  OBVIOUS
<1>2. f \in Seq(Parts) /\ Len(f) = i - 1 /\ \A j \in 1..(i - 1) : f[j] = s[j][1]
  <2>1. f \in [1..(i - 1) -> Parts]
    BY DEF FirstParts
  <2> QED BY <1>1, <2>1 DEF FirstParts
<1>3. <<p>> \in Seq(Parts) /\ Len(<<p>>) = 1 /\ <<p>>[1] = p
  OBVIOUS
<1> HIDE DEF f
<1>4. /\ f \o <<p>> \in Seq(Parts)
      /\ Len(f \o <<p>>) = i
      /\ \A j \in 1..i : (f \o <<p>>)[j] = s[j][1]
  BY <1>1, <1>2, <1>3
<1>5. f \o <<p>> = [j \in 1..i |-> s[j][1]]
  <2>1. DOMAIN (f \o <<p>>) = 1..i
    BY <1>4
  <2>2. f \o <<p>> = [j \in 1..i |-> (f \o <<p>>)[j]]
    BY <1>4, <2>1
  <2> QED BY <1>4, <2>2
<1> QED BY <1>5 DEF FirstParts, f

IsFlatten(f, s) ==
  f = [i \in 1..Len(s) |-> IF i = 1 THEN s[i] ELSE f[i - 1] \o s[i]]

LEMMA FlattenIsFirstParts ==
  ASSUME NEW S, NEW s \in Seq(S), \A i \in 1..Len(s) : s[i] = <<s[i][1]>>,
         NEW f, IsFlatten(f, s), NEW n \in 1..Len(s)
  PROVE  f[n] = FirstParts(s, n)
<1> DEFINE Wrong == {i \in 1..Len(s) : f[i] # FirstParts(s, i)}
<1> SUFFICES ASSUME Wrong # {}
             PROVE  FALSE
  OBVIOUS
<1> HIDE DEF Wrong
<1>1. PICK i \in Wrong : \A j \in Wrong : ~(j < i)
  <2>1. Wrong \subseteq Nat
    BY DEF Wrong
  <2> QED BY <2>1, LeastNumber
<1>2. i \in 1..Len(s) /\ f[i] # FirstParts(s, i)
  BY DEF Wrong
<1>3. f[i] = IF i = 1 THEN s[i] ELSE f[i - 1] \o s[i]
  BY <1>2 DEF IsFlatten
<1>4. CASE i = 1
  <2>1. s[1] = <<s[1][1]>>
    BY <1>2, <1>4
  <2>2. FirstParts(s, 1) = <<s[1][1]>>
    BY DEF FirstParts
  <2> QED BY <1>2, <1>3, <1>4, <2>1, <2>2
<1>5. CASE i # 1
  <2>1. i \in 2..Len(s) /\ i - 1 \in 1..Len(s) /\ i - 1 < i
    BY <1>2, <1>5
  <2>2. f[i - 1] = FirstParts(s, i - 1)
    BY <1>1, <2>1 DEF Wrong
  <2>3. FirstParts(s, i) = FirstParts(s, i - 1) \o s[i]
    BY <1>2, <2>1, OnePartMore
  <2> QED BY <1>2, <1>3, <1>5, <2>2, <2>3
<1> QED BY <1>4, <1>5

LEMMA FlattenExists ==
  ASSUME NEW S, NEW s \in Seq(S), \A i \in 1..Len(s) : s[i] = <<s[i][1]>>
  PROVE  \E f : IsFlatten(f, s)
<1> DEFINE f == [i \in 1..Len(s) |-> FirstParts(s, i)]
           g == [i \in 1..Len(s) |-> IF i = 1 THEN s[i] ELSE f[i - 1] \o s[i]]
<1>1. ASSUME NEW i \in 1..Len(s)
      PROVE  f[i] = g[i]
  <2>1. CASE i = 1
    <3>1. s[1] = <<s[1][1]>> /\ FirstParts(s, 1) = <<s[1][1]>>
      BY <2>1 DEF FirstParts
    <3> QED BY <2>1, <3>1
  <2>2. CASE i # 1
    <3>1. i \in 2..Len(s) /\ i - 1 \in 1..Len(s)
      BY <2>2
    <3>2. FirstParts(s, i) = FirstParts(s, i - 1) \o s[i]
      BY <3>1, OnePartMore
    <3> QED BY <2>2, <3>1, <3>2
  <2> QED BY <2>1, <2>2
<1>2. f = g
  BY <1>1
<1>3. IsFlatten(f, s)
  BY <1>2 DEF IsFlatten
<1> QED BY <1>3

\* Sequences of one part each are joined into the sequence of their parts.
LEMMA FlattenSingletons ==
  ASSUME NEW S, NEW s \in Seq(S), \A i \in 1..Len(s) : s[i] = <<s[i][1]>>
  PROVE  FlattenSeq(s) = FirstParts(s, Len(s))
<1>1. CASE Len(s) = 0
  <2>1. FlattenSeq(s) = s /\ s = <<>>
    BY <1>1 DEF FlattenSeq
  <2>2. FirstParts(s, 0) = <<>>
    BY DEF FirstParts
  <2> QED BY <1>1, <2>1, <2>2
<1>2. CASE Len(s) # 0
  <2> DEFINE h == CHOOSE f : IsFlatten(f, s)
  <2>1. FlattenSeq(s) = h[Len(s)]
    BY <1>2 DEF FlattenSeq, IsFlatten
  <2>2. IsFlatten(h, s)
    BY FlattenExists
  <2> HIDE DEF h
  <2>3. h[Len(s)] = FirstParts(s, Len(s))
    BY <1>2, <2>2, FlattenIsFirstParts
  <2> QED BY <2>1, <2>3
<1> QED BY <1>1, <1>2

-------------------------------------------------------------------------------
(* Lists of overrides.                                                      *)

\* A list of overrides of different features.
Overrides(O) ==
  /\ \E n \in Nat : O \in [1..n -> {Override(state) : state \in FeatureStates}]
  /\ \A i, j \in DOMAIN O : O[i].featureName = O[j].featureName => i = j

LEMMA OverrideTypes ==
  ASSUME NEW override \in {Override(state) : state \in FeatureStates}
  PROVE  /\ override = [featureName |-> override.featureName, enabled |-> override.enabled,
                        featureValue |-> override.featureValue]
         /\ override.featureName \in Int
         /\ override.featureValue =
              [text |-> override.featureValue.text, rest |-> override.featureValue.rest]
<1>1. PICK state \in FeatureStates : override = Override(state)
  OBVIOUS
<1>2. state \in [feature : Int, enabled : BOOLEAN, value : DOMAIN Sprint]
  BY OverridesAssumption DEF OverridesAssumption
<1>3. Sprint[state.value] = [text |-> Sprint[state.value].text, rest |-> Sprint[state.value].rest]
  BY <1>2, OverridesAssumption DEF OverridesAssumption
<1> QED BY <1>1, <1>2, <1>3 DEF Override

LEMMA FeaturesAreOverrides ==
  ASSUME NEW features \in IdentityFeatures
  PROVE  /\ Overrides(OverridesOf(features))
         /\ DOMAIN OverridesOf(features) = DOMAIN features
         /\ features = <<>> <=> DOMAIN features = {}
<1>1. PICK n \in 0..MaxFeatures : features \in [1..n -> FeatureStates]
  BY DEF IdentityFeatures, SeqOf
<1>2. n \in Nat /\ DOMAIN features = 1..n
  BY <1>1, OverridesAssumption DEF OverridesAssumption
<1>3. OverridesOf(features) \in [1..n -> {Override(state) : state \in FeatureStates}]
  BY <1>1 DEF OverridesOf
<1>4. \A i \in 1..n : OverridesOf(features)[i].featureName = features[i].feature
  BY <1>2 DEF OverridesOf, Override
<1>5. \A i, j \in 1..n : features[i].feature = features[j].feature => i = j
  BY <1>2 DEF IdentityFeatures
<1>6. features = <<>> <=> DOMAIN features = {}
  BY <1>1, <1>2
<1> QED BY <1>2, <1>3, <1>4, <1>5, <1>6, SMTT(30) DEF Overrides

IsSorting(s, D, S) ==
  /\ s \in [D -> S]
  /\ ToSet(s) = S
  /\ \A i, j \in D : i < j => s[i].featureName < s[j].featureName

\* How many overrides come no later than the i-th says where sorting puts it.
LEMMA SortingExists ==
  ASSUME NEW O, Overrides(O)
  PROVE  \E s : IsSorting(s, DOMAIN O, ToSet(O))
<1>1. PICK n \in Nat : O \in [1..n -> {Override(state) : state \in FeatureStates}]
  BY DEF Overrides
<1> DEFINE D == 1..n
           name(i) == O[i].featureName
           upTo(i) == {j \in D : name(j) <= name(i)}
           rank == [i \in D |-> Cardinality(upTo(i))]
<1>2. DOMAIN O = D /\ \A i \in D : name(i) \in Int
  BY <1>1, OverrideTypes
<1>3. \A i, j \in D : name(i) = name(j) => i = j
  BY <1>2 DEF Overrides
<1>4. IsFiniteSet(D) /\ Cardinality(D) = n
  BY FS_Interval
<1>5. ASSUME NEW i \in D
      PROVE  IsFiniteSet(upTo(i)) /\ Cardinality(upTo(i)) \in D
  <2>1. IsFiniteSet(upTo(i)) /\ Cardinality(upTo(i)) <= n
    BY <1>4, FS_Subset
  <2>2. i \in upTo(i)
    BY <1>2
  <2>3. Cardinality(upTo(i)) \in Nat /\ Cardinality(upTo(i)) # 0
    BY <2>1, <2>2, FS_CardinalityType, FS_EmptySet
  <2> QED BY <2>1, <2>3
<1>6. ASSUME NEW i \in D, NEW j \in D, name(i) < name(j)
      PROVE  rank[i] < rank[j]
  <2>1. upTo(i) \subseteq upTo(j) /\ j \in upTo(j) /\ j \notin upTo(i)
    BY <1>2, <1>6
  <2>2. /\ Cardinality(upTo(i)) <= Cardinality(upTo(j))
        /\ Cardinality(upTo(i)) # Cardinality(upTo(j))
    <3>1. IsFiniteSet(upTo(j)) /\ upTo(i) # upTo(j)
      BY <1>5, <2>1
    <3> HIDE DEF upTo
    <3> QED BY <2>1, <3>1, FS_Subset
  <2>3. Cardinality(upTo(i)) \in Nat /\ Cardinality(upTo(j)) \in Nat
    <3> HIDE DEF upTo
    <3>1. Cardinality(upTo(i)) \in D /\ Cardinality(upTo(j)) \in D
      BY <1>5
    <3> QED BY <3>1
  <2> QED BY <2>2, <2>3
<1>7. rank \in [D -> D]
  BY <1>5
<1> HIDE DEF rank, upTo
<1>8. \A r \in D : \E i \in D : rank[i] = r
  <2>1. \A i, j \in D : rank[i] = rank[j] => i = j
    <3> SUFFICES ASSUME NEW i \in D, NEW j \in D, rank[i] = rank[j]
                 PROVE  i = j
      OBVIOUS
    <3>1. ~(name(i) < name(j)) /\ ~(name(j) < name(i))
      BY <1>6, <1>7
    <3> QED BY <1>2, <1>3, <3>1
  <2>2. rank \in Injection(D, D)
    BY <1>7, <2>1 DEF Injection, IsInjective
  <2>3. rank \in Surjection(D, D)
    BY <1>4, <2>2, FS_Injection
  <2> QED BY <2>3 DEF Surjection
<1> DEFINE place == [r \in D |-> CHOOSE i \in D : rank[i] = r]
           s == [r \in D |-> O[place[r]]]
<1>9. \A r \in D : place[r] \in D /\ rank[place[r]] = r
  BY <1>8
<1> HIDE DEF place
<1>10. s \in [D -> ToSet(O)]
  BY <1>2, <1>9 DEF ToSet
<1>11. ToSet(s) = ToSet(O)
  <2>1. ASSUME NEW i \in D
        PROVE  \E r \in D : s[r] = O[i]
    <3>1. rank[i] \in D /\ rank[place[rank[i]]] = rank[i] /\ place[rank[i]] \in D
      BY <1>7, <1>9
    <3>2. ~(name(place[rank[i]]) < name(i)) /\ ~(name(i) < name(place[rank[i]]))
      BY <1>6, <1>7, <3>1
    <3>3. place[rank[i]] = i
      BY <1>2, <1>3, <3>1, <3>2
    <3> QED BY <3>1, <3>3
  <2>2. ToSet(O) \subseteq ToSet(s)
    <3>1. DOMAIN s = D
      OBVIOUS
    <3> HIDE DEF s
    <3> SUFFICES ASSUME NEW i \in D
                 PROVE  O[i] \in ToSet(s)
      BY <1>2 DEF ToSet
    <3>2. PICK r \in D : s[r] = O[i]
      BY <2>1
    <3> QED BY <3>1, <3>2 DEF ToSet
  <2>3. ToSet(s) \subseteq ToSet(O)
    BY <1>2, <1>9 DEF ToSet
  <2> QED BY <2>2, <2>3
<1>12. ASSUME NEW i \in D, NEW j \in D, i < j
       PROVE  s[i].featureName < s[j].featureName
  <2>1. rank[place[i]] < rank[place[j]] /\ place[i] \in D /\ place[j] \in D
    BY <1>9, <1>12
  <2>2. ~(name(place[j]) < name(place[i])) /\ place[i] # place[j]
    <3>1. rank[place[i]] \in Nat /\ rank[place[j]] \in Nat
      BY <1>9
    <3>2. ~(rank[place[j]] < rank[place[i]]) /\ rank[place[i]] # rank[place[j]]
      BY <2>1, <3>1
    <3> QED BY <1>6, <2>1, <3>2
  <2>3. name(place[i]) < name(place[j])
    BY <1>2, <1>3, <2>1, <2>2
  <2> QED BY <2>3
<1> HIDE DEF s
<1>13. IsSorting(s, DOMAIN O, ToSet(O))
  BY <1>2, <1>10, <1>11, <1>12 DEF IsSorting
<1> QED BY <1>13

LEMMA SortedIs ==
  ASSUME NEW O
  PROVE  Sorted(O) = CHOOSE s : IsSorting(s, DOMAIN O, ToSet(O))
BY DEF Sorted, IsSorting

\* Sorting keeps the overrides.
LEMMA SortedKeeps ==
  ASSUME NEW O, Overrides(O)
  PROVE  /\ DOMAIN Sorted(O) = DOMAIN O
         /\ ToSet(Sorted(O)) = ToSet(O)
         /\ Sorted(O) \in [DOMAIN O -> ToSet(O)]
<1>1. IsSorting(Sorted(O), DOMAIN O, ToSet(O))
  BY SortingExists, SortedIs
<1> QED BY <1>1 DEF IsSorting

-------------------------------------------------------------------------------
(* Keys.                                                                    *)

NoSemicolon(O) == \A override \in ToSet(O) : override.featureValue.rest = <<>>

\* An override without a semicolon in its value is written as one part.
Part(override) ==
  [name |-> override.featureName, enabled |-> override.enabled,
   text |-> override.featureValue.text]

LEMMA WrittenAsOnePart ==
  ASSUME NEW n \in Nat, NEW s, DOMAIN s = 1..n, NoSemicolon(s)
  PROVE  HashInput(s) = [i \in 1..n |-> Part(s[i])]
<1> DEFINE w == [i \in DOMAIN s |-> Written(s[i])]
           S == {<<Part(s[i])>> : i \in 1..n}
<1>1. \A i \in 1..n : s[i].featureValue.rest = <<>>
  BY DEF NoSemicolon, ToSet
<1>2. \A i \in 1..n : w[i] = <<Part(s[i])>>
  <2>1. \A p : <<p>> \o <<>> = <<p>>
    OBVIOUS
  <2>2. \A i \in 1..n : w[i] = <<Part(s[i])>> \o <<>>
    BY <1>1 DEF Written, Part
  <2> QED BY <2>1, <2>2
<1>3. w \in [1..n -> S] /\ \A i \in 1..n : w[i][1] = Part(s[i]) /\ w[i] = <<w[i][1]>>
  BY <1>2
<1> HIDE DEF w, S
<1>4. w \in Seq(S) /\ Len(w) = n
  BY <1>3
<1>5. FlattenSeq(w) = FirstParts(w, n)
  BY <1>3, <1>4, FlattenSingletons
<1>6. FirstParts(w, n) = [i \in 1..n |-> Part(s[i])]
  BY <1>3 DEF FirstParts
<1> QED BY <1>5, <1>6 DEF HashInput, w

\* Without semicolons, lists with the same key hold the same overrides.
LEMMA KeysTellApart ==
  ASSUME NEW O, Overrides(O), NoSemicolon(O), NEW P, Overrides(P), NoSemicolon(P),
         HashInput(Sorted(O)) = HashInput(Sorted(P))
  PROVE  ToSet(O) = ToSet(P)
<1> DEFINE S == {Override(state) : state \in FeatureStates}
           s == Sorted(O)
           t == Sorted(P)
<1>1. /\ DOMAIN s = DOMAIN O /\ ToSet(s) = ToSet(O)
      /\ DOMAIN t = DOMAIN P /\ ToSet(t) = ToSet(P)
  BY SortedKeeps
<1> HIDE DEF s, t
<1>2. PICK n \in Nat : O \in [1..n -> S]
  BY DEF Overrides
<1>3. PICK m \in Nat : P \in [1..m -> S]
  BY DEF Overrides
<1>4. NoSemicolon(s) /\ NoSemicolon(t)
  BY <1>1 DEF NoSemicolon
<1>5. ToSet(s) \subseteq S /\ ToSet(t) \subseteq S
  BY <1>1, <1>2, <1>3 DEF ToSet
<1>6. [i \in 1..n |-> Part(s[i])] = [i \in 1..m |-> Part(t[i])]
  BY <1>1, <1>2, <1>3, <1>4, WrittenAsOnePart DEF s, t
<1>7. 1..n = 1..m /\ \A i \in 1..n : Part(s[i]) = Part(t[i])
  BY <1>6, Zenon
<1>8. ASSUME NEW i \in 1..n
      PROVE  s[i] = t[i]
  <2>1. s[i] \in ToSet(s) /\ t[i] \in ToSet(t)
    BY <1>1, <1>2, <1>3, <1>7 DEF ToSet
  <2>2. s[i].featureValue.rest = t[i].featureValue.rest
    BY <1>4, <2>1 DEF NoSemicolon
  <2>3. /\ s[i].featureName = t[i].featureName /\ s[i].enabled = t[i].enabled
        /\ s[i].featureValue.text = t[i].featureValue.text
    BY <1>7 DEF Part
  <2>4. s[i].featureValue = t[i].featureValue
    BY <1>5, <2>1, <2>2, <2>3, OverrideTypes
  <2> QED BY <1>5, <2>1, <2>3, <2>4, OverrideTypes
<1>9. ToSet(s) = ToSet(t)
  BY <1>1, <1>2, <1>3, <1>7, <1>8 DEF ToSet
<1> QED BY <1>1, <1>9

\* The same overrides are sorted into the same list.
LEMMA SortedAlike ==
  ASSUME NEW O, Overrides(O), NEW P, Overrides(P), ToSet(O) = ToSet(P)
  PROVE  Sorted(O) = Sorted(P)
<1>1. ASSUME NEW L, Overrides(L), NEW n \in Nat, DOMAIN L = 1..n
      PROVE  Cardinality(ToSet(L)) = n
  <2>1. L \in [1..n -> ToSet(L)]
    BY <1>1 DEF Overrides, ToSet
  <2>2. \A i, j \in 1..n : L[i] = L[j] => i = j
    BY <1>1 DEF Overrides
  <2>3. L \in Bijection(1..n, ToSet(L))
    BY <1>1, <2>1, <2>2 DEF Bijection, Injection, Surjection, IsInjective, ToSet
  <2>4. IsFiniteSet(1..n) /\ Cardinality(1..n) = n
    BY FS_Interval
  <2>5. Cardinality(ToSet(L)) = Cardinality(1..n)
    BY <2>3, <2>4, FS_Bijection DEF ExistsBijection
  <2> QED BY <2>4, <2>5
<1>2. PICK n \in Nat : DOMAIN O = 1..n
  BY DEF Overrides
<1>3. PICK m \in Nat : DOMAIN P = 1..m
  BY DEF Overrides
<1>4. n = m
  BY <1>1, <1>2, <1>3
<1> QED BY <1>2, <1>3, <1>4, SortedIs

LEMMA TwoJoined ==
  ASSUME NEW p, NEW q
  PROVE  <<p>> \o <<q>> = <<p, q>>
<1>1. <<p>> \in Seq({p, q}) /\ <<q>> \in Seq({p, q})
  OBVIOUS
<1>2. /\ <<p>> \o <<q>> \in Seq({p, q})
      /\ Len(<<p>> \o <<q>>) = 2
      /\ (<<p>> \o <<q>>)[1] = p /\ (<<p>> \o <<q>>)[2] = q
  BY <1>1
<1> DEFINE s == <<p>> \o <<q>>
<1> HIDE DEF s
<1>3. s = [i \in 1..2 |-> s[i]] /\ s[1] = p /\ s[2] = q
  BY <1>2 DEF s
<1>4. s = <<p, q>>
  BY <1>3
<1> QED BY <1>4 DEF s

LEMMA OneWritten ==
  ASSUME NEW override
  PROVE  HashInput(<<override>>) = Written(override)
<1> DEFINE x == Written(override)
           w == [i \in DOMAIN <<override>> |-> Written(<<override>>[i])]
           h == CHOOSE f : IsFlatten(f, w)
           v == [i \in 1..1 |-> x]
<1> HIDE DEF x
<1>1. w = <<x>>
  BY DEF x
<1>2. Len(w) = 1 /\ w[1] = x /\ w # <<>>
  BY <1>1
<1> HIDE DEF w
<1>3. FlattenSeq(w) = h[1]
  BY <1>2 DEF FlattenSeq, IsFlatten
<1>4. IsFlatten(v, w)
  BY <1>2 DEF IsFlatten
<1>5. IsFlatten(h, w)
  BY <1>4
<1> HIDE DEF h
<1>6. h[1] = x
  BY <1>2, <1>5 DEF IsFlatten
<1> QED BY <1>3, <1>6 DEF HashInput, w, x

\* mappers.go:188 does not mark where a value ends: whatever the features, states and
\* texts, an override whose value goes on with a semicolon and what reads as a second
\* override is written like the two overrides.
THEOREM KeysCollide ==
  ASSUME NEW f, NEW g, NEW d, NEW e, NEW a, NEW b
  PROVE  LET Value(text) == [text |-> text, rest |-> <<>>]
             Continued == [text |-> a, rest |-> <<[name |-> g, enabled |-> e, text |-> b]>>]
             one == <<[featureName |-> f, enabled |-> d, featureValue |-> Continued]>>
             two == <<[featureName |-> f, enabled |-> d, featureValue |-> Value(a)],
                      [featureName |-> g, enabled |-> e, featureValue |-> Value(b)]>>
         IN  one # two /\ HashInput(one) = HashInput(two)
<1> DEFINE Value(text) == [text |-> text, rest |-> <<>>]
           first == [name |-> f, enabled |-> d, text |-> a]
           second == [name |-> g, enabled |-> e, text |-> b]
           Continued == [text |-> a, rest |-> <<second>>]
           one == <<[featureName |-> f, enabled |-> d, featureValue |-> Continued]>>
           two == <<[featureName |-> f, enabled |-> d, featureValue |-> Value(a)],
                    [featureName |-> g, enabled |-> e, featureValue |-> Value(b)]>>
<1>1. one # two
  BY Len(one) = 1, Len(two) = 2
<1>2. HashInput(two) = <<first, second>>
  <2>1. NoSemicolon(two)
    BY DEF NoSemicolon, ToSet
  <2>2. HashInput(two) = [i \in 1..2 |-> Part(two[i])]
    <3>1. DOMAIN two = 1..2
      OBVIOUS
    <3> HIDE DEF two
    <3> QED BY <2>1, <3>1, WrittenAsOnePart
  <2> QED BY <2>2 DEF Part
<1>3. HashInput(one) = <<first, second>>
  <2>1. HashInput(one) = Written([featureName |-> f, enabled |-> d, featureValue |-> Continued])
    BY OneWritten
  <2> QED BY <2>1, TwoJoined DEF Written
<1> QED BY <1>1, <1>2, <1>3

-------------------------------------------------------------------------------
(* Grouping.                                                                *)

OverridesAt(i) == OverridesOf(identityOverrides[i].features)

ListOf(i) == Sorted(OverridesAt(i))

KeyOf(i) == HashInput(ListOf(i))

\* A group holds the identifiers of the identities that have its key, all of them and
\* no others, and the overrides of one of them.
Grouped ==
  /\ identityOverrides \in Seq(Identity)
  /\ DOMAIN overridesKeyToList = DOMAIN featuresToIdentifiers
  /\ \A k \in DOMAIN featuresToIdentifiers :
       /\ featuresToIdentifiers[k] \in Seq(Identifiers)
       /\ \A n \in 1..Len(featuresToIdentifiers[k]) :
            \E i \in DOMAIN identityOverrides :
              /\ identityOverrides[i].identifier = featuresToIdentifiers[k][n]
              /\ KeyOf(i) = k
       /\ \E i \in DOMAIN identityOverrides : KeyOf(i) = k /\ overridesKeyToList[k] = ListOf(i)
  /\ \A i \in DOMAIN identityOverrides :
       identityOverrides[i].features # <<>> =>
         /\ KeyOf(i) \in DOMAIN featuresToIdentifiers
         /\ Contains(featuresToIdentifiers[KeyOf(i)], identityOverrides[i].identifier)

LEMMA AppendedElements ==
  ASSUME NEW S, NEW s \in Seq(S), NEW x \in S
  PROVE  /\ Append(s, x) \in Seq(S)
         /\ DOMAIN Append(s, x) = 1..(Len(s) + 1)
         /\ Len(Append(s, x)) = Len(s) + 1
         /\ Append(s, x)[Len(s) + 1] = x
         /\ \A i \in 1..Len(s) : Append(s, x)[i] = s[i]
OBVIOUS

LEMMA AppendContains ==
  ASSUME NEW S, NEW s \in Seq(S), NEW x \in S
  PROVE  \A y : Contains(Append(s, x), y) <=> y = x \/ Contains(s, y)
<1>1. \A i : i \in 1..(Len(s) + 1) <=> i = Len(s) + 1 \/ i \in 1..Len(s)
  OBVIOUS
<1> QED BY <1>1, AppendedElements DEF Contains

LEMMA GroupedInductive == Grouped /\ [Next]_vars => Grouped'
<1> SUFFICES ASSUME Grouped, [Next]_vars
             PROVE  Grouped'
  OBVIOUS
<1>1. CASE UNCHANGED vars
  BY <1>1 DEF vars, groups, Grouped, KeyOf, ListOf, OverridesAt
<1>2. ASSUME NEW identity \in Identity, MapIdentity(identity)
      PROVE  Grouped'
  <2> DEFINE list == Sorted(OverridesOf(identity.features))
             key == HashInput(list)
  <2>0. PICK n \in Nat : n = Len(identityOverrides)
    BY DEF Grouped
  <2>1. /\ identityOverrides' = Append(identityOverrides, identity)
        /\ identityOverrides \in Seq(Identity)
    BY <1>2 DEF MapIdentity, Grouped
  <2>2. /\ identityOverrides' \in Seq(Identity)
        /\ DOMAIN identityOverrides = 1..n
        /\ DOMAIN identityOverrides' = 1..(n + 1)
        /\ identityOverrides'[n + 1] = identity
        /\ \A i \in 1..n : identityOverrides'[i] = identityOverrides[i]
    BY <2>0, <2>1, AppendedElements
  <2>3. /\ \A i \in 1..n : i \in 1..(n + 1)
        /\ n + 1 \in 1..(n + 1)
        /\ \A i \in 1..(n + 1) : i = n + 1 \/ i \in 1..n
    BY <2>1
  <2>4. /\ ListOf(n + 1)' = list /\ KeyOf(n + 1)' = key
        /\ \A i \in 1..n : ListOf(i)' = ListOf(i) /\ KeyOf(i)' = KeyOf(i)
    BY <2>2 DEF KeyOf, ListOf, OverridesAt
  <2>5. identity.identifier \in Identifiers
    BY DEF Identity
  <2>6. CASE identity.features = <<>>
    <3>1. featuresToIdentifiers' = featuresToIdentifiers /\ overridesKeyToList' = overridesKeyToList
      BY <1>2, <2>6 DEF MapIdentity, groups
    <3>2. ASSUME NEW k \in DOMAIN featuresToIdentifiers
          PROVE  /\ \A m \in 1..Len(featuresToIdentifiers[k]) :
                      \E i \in DOMAIN identityOverrides' :
                        /\ identityOverrides'[i].identifier = featuresToIdentifiers[k][m]
                        /\ KeyOf(i)' = k
                 /\ \E i \in DOMAIN identityOverrides' :
                      KeyOf(i)' = k /\ overridesKeyToList[k] = ListOf(i)'
      BY <2>2, <2>3, <2>4, SMTT(30) DEF Grouped
    <3>3. ASSUME NEW i \in DOMAIN identityOverrides', identityOverrides'[i].features # <<>>
          PROVE  /\ KeyOf(i)' \in DOMAIN featuresToIdentifiers
                 /\ Contains(featuresToIdentifiers[KeyOf(i)'], identityOverrides'[i].identifier)
      <4>1. i \in 1..n
        BY <2>2, <2>3, <2>6, <3>3
      <4> QED BY <2>2, <2>4, <3>3, <4>1 DEF Grouped
    <3> QED BY <2>2, <3>1, <3>2, <3>3 DEF Grouped
  <2>7. CASE identity.features # <<>>
    <3>1. Join(key, identity.identifier, list)
      BY <1>2, <2>7 DEF MapIdentity
    <3>2. Group(key) \in Seq(Identifiers)
      BY DEF Group, Grouped
    <3> HIDE DEF key, list
    <3>3. /\ DOMAIN featuresToIdentifiers' = DOMAIN featuresToIdentifiers \cup {key}
          /\ DOMAIN overridesKeyToList' = DOMAIN featuresToIdentifiers'
          /\ featuresToIdentifiers'[key] = Append(Group(key), identity.identifier)
          /\ overridesKeyToList'[key] = list
      BY <3>1 DEF Join, Grouped
    <3>4. \A y : Contains(featuresToIdentifiers'[key], y)
                   <=> y = identity.identifier \/ Contains(Group(key), y)
      BY <2>5, <3>2, <3>3, AppendContains
    <3>5. ASSUME NEW k \in DOMAIN featuresToIdentifiers', k # key
          PROVE  /\ k \in DOMAIN featuresToIdentifiers
                 /\ featuresToIdentifiers'[k] = featuresToIdentifiers[k]
                 /\ overridesKeyToList'[k] = overridesKeyToList[k]
      BY <3>1, <3>5 DEF Join, Group, Grouped
    <3>6. ASSUME NEW k \in DOMAIN featuresToIdentifiers'
          PROVE  /\ featuresToIdentifiers'[k] \in Seq(Identifiers)
                 /\ \A m \in 1..Len(featuresToIdentifiers'[k]) :
                      \E i \in DOMAIN identityOverrides' :
                        /\ identityOverrides'[i].identifier = featuresToIdentifiers'[k][m]
                        /\ KeyOf(i)' = k
                 /\ \E i \in DOMAIN identityOverrides' :
                      KeyOf(i)' = k /\ overridesKeyToList'[k] = ListOf(i)'
      <4>1. CASE k # key
        <5>1. /\ k \in DOMAIN featuresToIdentifiers
              /\ featuresToIdentifiers'[k] = featuresToIdentifiers[k]
              /\ overridesKeyToList'[k] = overridesKeyToList[k]
          BY <3>5, <4>1
        <5>2. ASSUME NEW m \in 1..Len(featuresToIdentifiers[k])
              PROVE  \E i \in DOMAIN identityOverrides' :
                       /\ identityOverrides'[i].identifier = featuresToIdentifiers[k][m]
                       /\ KeyOf(i)' = k
          BY <2>2, <2>3, <2>4, <5>1 DEF Grouped
        <5>3. \E i \in DOMAIN identityOverrides' :
                KeyOf(i)' = k /\ overridesKeyToList[k] = ListOf(i)'
          BY <2>2, <2>3, <2>4, <5>1 DEF Grouped
        <5>4. featuresToIdentifiers[k] \in Seq(Identifiers)
          BY <5>1 DEF Grouped
        <5> QED BY <5>1, <5>2, <5>3, <5>4
      <4>2. CASE k = key
        <5>1. featuresToIdentifiers'[key] \in Seq(Identifiers)
          BY <2>5, <3>2, <3>3, AppendedElements
        <5>2. ASSUME NEW m \in 1..Len(featuresToIdentifiers'[key])
              PROVE  \E i \in DOMAIN identityOverrides' :
                       /\ identityOverrides'[i].identifier = featuresToIdentifiers'[key][m]
                       /\ KeyOf(i)' = key
          <6>1. Contains(featuresToIdentifiers'[key], featuresToIdentifiers'[key][m])
            BY DEF Contains
          <6>2. CASE featuresToIdentifiers'[key][m] = identity.identifier
            BY <2>2, <2>3, <2>4, <6>2
          <6>3. CASE Contains(Group(key), featuresToIdentifiers'[key][m])
            <7>1. key \in DOMAIN featuresToIdentifiers
                  /\ Group(key) = featuresToIdentifiers[key]
              BY <6>3 DEF Group, Contains
            <7>2. PICK l \in 1..Len(featuresToIdentifiers[key]) :
                    featuresToIdentifiers[key][l] = featuresToIdentifiers'[key][m]
              BY <6>3, <7>1 DEF Contains
            <7>3. PICK i \in DOMAIN identityOverrides :
                    /\ identityOverrides[i].identifier = featuresToIdentifiers[key][l]
                    /\ KeyOf(i) = key
              BY <7>1 DEF Grouped
            <7> QED BY <2>2, <2>3, <2>4, <7>2, <7>3
          <6> QED BY <3>4, <6>1, <6>2, <6>3
        <5>3. \E i \in DOMAIN identityOverrides' :
                KeyOf(i)' = key /\ overridesKeyToList'[key] = ListOf(i)'
          BY <2>2, <2>3, <2>4, <3>3
        <5> QED BY <4>2, <5>1, <5>2, <5>3
      <4> QED BY <4>1, <4>2
    <3>7. ASSUME NEW i \in DOMAIN identityOverrides', identityOverrides'[i].features # <<>>
          PROVE  /\ KeyOf(i)' \in DOMAIN featuresToIdentifiers'
                 /\ Contains(featuresToIdentifiers'[KeyOf(i)'], identityOverrides'[i].identifier)
      <4>1. CASE i = n + 1
        BY <2>2, <2>4, <3>3, <3>4, <4>1
      <4>2. CASE i \in 1..n
        <5>1. /\ KeyOf(i)' = KeyOf(i) /\ identityOverrides'[i] = identityOverrides[i]
              /\ KeyOf(i) \in DOMAIN featuresToIdentifiers
              /\ Contains(featuresToIdentifiers[KeyOf(i)], identityOverrides[i].identifier)
          BY <2>2, <2>4, <3>7, <4>2 DEF Grouped
        <5>2. CASE KeyOf(i) = key
          BY <3>3, <3>4, <5>1, <5>2 DEF Group
        <5>3. CASE KeyOf(i) # key
          BY <3>3, <3>5, <5>1, <5>3
        <5> QED BY <5>2, <5>3
      <4> QED BY <2>2, <2>3, <4>1, <4>2
    <3> QED BY <2>2, <3>3, <3>6, <3>7 DEF Grouped
  <2> QED BY <2>6, <2>7
<1> QED BY <1>1, <1>2 DEF Next

LEMMA GroupedAlways == Spec => []Grouped
<1>1. Init => Grouped
  BY DEF Init, Grouped
<1> QED BY <1>1, GroupedInductive, PTL DEF Spec

-------------------------------------------------------------------------------
(* What the segments bring.                                                 *)

\* What an entry says, and what its list says.
LEMMA Entries ==
  ASSUME Grouped, NEW i \in DOMAIN identityOverrides
  PROVE  /\ Overrides(OverridesAt(i))
         /\ Entry(i) = ToSet(OverridesAt(i))
         /\ ToSet(ListOf(i)) = Entry(i)
         /\ identityOverrides[i].features = <<>> => Entry(i) = {}
         /\ ~HasSemicolon(i) => NoSemicolon(OverridesAt(i))
<1>1. identityOverrides[i].features \in IdentityFeatures
  <2>1. identityOverrides[i] \in Identity
    BY DEF Grouped
  <2> QED BY <2>1 DEF Identity
<1>2. /\ Overrides(OverridesAt(i))
      /\ identityOverrides[i].features = <<>> <=> DOMAIN OverridesAt(i) = {}
  BY <1>1, FeaturesAreOverrides DEF OverridesAt
<1>3. Entry(i) = ToSet(OverridesAt(i))
  BY DEF Entry, OverridesAt
<1>4. ToSet(ListOf(i)) = Entry(i)
  BY <1>2, <1>3, SortedKeeps DEF ListOf
<1>5. identityOverrides[i].features = <<>> => Entry(i) = {}
  BY <1>2, <1>3 DEF ToSet
<1>6. ~HasSemicolon(i) => NoSemicolon(OverridesAt(i))
  BY <1>3 DEF HasSemicolon, NoSemicolon
<1> QED BY <1>2, <1>3, <1>4, <1>5, <1>6

\* Entries of one group, if none can be taken for the other, say the same.
LEMMA SameKeySameEntry ==
  ASSUME Grouped, NEW i \in DOMAIN identityOverrides, NEW j \in DOMAIN identityOverrides,
         KeyOf(i) = KeyOf(j), ~Confusable(i, j)
  PROVE  Entry(i) = Entry(j)
<1> SUFFICES ASSUME ~HasSemicolon(i), ~HasSemicolon(j)
             PROVE  Entry(i) = Entry(j)
  BY DEF Confusable
<1>1. /\ Overrides(OverridesAt(i)) /\ NoSemicolon(OverridesAt(i))
      /\ Overrides(OverridesAt(j)) /\ NoSemicolon(OverridesAt(j))
  BY Entries
<1>2. HashInput(Sorted(OverridesAt(i))) = HashInput(Sorted(OverridesAt(j)))
  BY DEF KeyOf, ListOf
<1>3. ToSet(OverridesAt(i)) = ToSet(OverridesAt(j))
  BY <1>1, <1>2, KeysTellApart
<1> QED BY <1>3, Entries

\* The IN condition of a group's segment tells just the identifiers that were joined.
LEMMA MatchesItsGroup ==
  ASSUME PlainIdentifiers, Grouped, NEW k \in DOMAIN featuresToIdentifiers,
         NEW identifier \in Identifiers
  PROVE  MatchIn(identifier, Joined(k)) <=> Contains(featuresToIdentifiers[k], identifier)
<1> DEFINE group == featuresToIdentifiers[k]
<1>1. group \in Seq(Identifiers) /\ \A n \in 1..Len(group) : group[n] \in Identifiers
  BY DEF Grouped
<1>2. \A n \in 1..Len(group) : group[n] = <<group[n][1]>> /\ group[n][1] \notin JSONStarts
  BY <1>1 DEF PlainIdentifiers
<1>3. identifier = <<identifier[1]>> /\ Len(identifier) = 1
  BY DEF PlainIdentifiers
<1> HIDE DEF group
<1>4. Joined(k) = FirstParts(group, Len(group))
  BY <1>1, <1>2, FlattenSingletons DEF Joined, group
<1>5. /\ Len(Joined(k)) = Len(group)
      /\ \A n \in 1..Len(group) : Joined(k)[n] = group[n][1]
      /\ Len(group) = 0 => Joined(k) = <<>>
  BY <1>1, <1>4 DEF FirstParts
<1>6. Joined(k) \notin DOMAIN ArrayOf
  <2>1. Len(group) \in Nat
    BY <1>1
  <2>2. CASE Len(group) = 0
    BY <1>5, <2>2, OverridesAssumption DEF OverridesAssumption
  <2>3. CASE Len(group) # 0
    BY <1>2, <1>5, <2>1, <2>3, OverridesAssumption DEF OverridesAssumption
  <2> QED BY <2>2, <2>3
<1>7. Contains(Joined(k), identifier[1]) <=> Contains(group, identifier)
  <2>1. \A n \in 1..Len(group) : group[n] = identifier <=> group[n][1] = identifier[1]
    BY <1>2, <1>3
  <2> QED BY <1>5, <2>1 DEF Contains
<1> QED BY <1>3, <1>6, <1>7 DEF MatchIn, group

\* Without commas in the identifiers and without any that can begin a JSON array, the
\* segment of a group holds its identities and nobody else.
THEOREM PlainGroupsAreSegments == PlainIdentifiers => (Spec => []GroupsAreSegments)
<1> SUFFICES ASSUME PlainIdentifiers
             PROVE  Spec => []GroupsAreSegments
  OBVIOUS
<1>1. Grouped => GroupsAreSegments
  BY MatchesItsGroup DEF GroupsAreSegments
<1> QED BY <1>1, GroupedAlways, PTL

\* An identity none of whose entries a semicolon lets be taken for another is served
\* the overrides of its own entries and no others, however many identities share a
\* group and in whatever order the document lists them and their features.
THEOREM OwnOverridesServed == PlainIdentifiers => (Spec => []OwnOverridesApply)
<1> SUFFICES ASSUME PlainIdentifiers
             PROVE  Spec => []OwnOverridesApply
  OBVIOUS
<1>1. ASSUME Grouped, NEW identifier \in Identifiers,
             \A i, j \in DOMAIN identityOverrides :
               identityOverrides[i].identifier = identifier => ~Confusable(i, j)
      PROVE  Applied(identifier) = Own(identifier)
  <2>1. ASSUME NEW i \in DOMAIN identityOverrides,
               identityOverrides[i].identifier = identifier,
               KeyOf(i) \in DOMAIN featuresToIdentifiers
        PROVE  ToSet(overridesKeyToList[KeyOf(i)]) = Entry(i)
    <3>1. PICK j \in DOMAIN identityOverrides :
            KeyOf(j) = KeyOf(i) /\ overridesKeyToList[KeyOf(i)] = ListOf(j)
      BY <1>1, <2>1 DEF Grouped
    <3>2. Entry(i) = Entry(j)
      BY <1>1, <2>1, <3>1, SameKeySameEntry
    <3> QED BY <1>1, <3>1, <3>2, Entries
  <2>2. ASSUME NEW k \in DOMAIN featuresToIdentifiers, MatchIn(identifier, Joined(k))
        PROVE  ToSet(overridesKeyToList[k]) \subseteq Own(identifier)
    <3>1. Contains(featuresToIdentifiers[k], identifier)
      BY <1>1, <2>2, MatchesItsGroup
    <3>2. PICK i \in DOMAIN identityOverrides :
            identityOverrides[i].identifier = identifier /\ KeyOf(i) = k
      BY <1>1, <3>1 DEF Grouped, Contains
    <3>3. ToSet(overridesKeyToList[k]) = Entry(i)
      BY <2>1, <3>2
    <3> QED BY <3>2, <3>3 DEF Own
  <2>3. ASSUME NEW i \in DOMAIN identityOverrides,
               identityOverrides[i].identifier = identifier
        PROVE  Entry(i) \subseteq Applied(identifier)
    <3>1. CASE identityOverrides[i].features = <<>>
      BY <1>1, <3>1, Entries
    <3>2. CASE identityOverrides[i].features # <<>>
      <4>1. /\ KeyOf(i) \in DOMAIN featuresToIdentifiers
            /\ Contains(featuresToIdentifiers[KeyOf(i)], identifier)
        BY <1>1, <2>3, <3>2 DEF Grouped
      <4>2. MatchIn(identifier, Joined(KeyOf(i)))
        BY <1>1, <4>1, MatchesItsGroup
      <4>3. ToSet(overridesKeyToList[KeyOf(i)]) = Entry(i)
        BY <2>1, <2>3, <4>1
      <4> QED BY <4>1, <4>2, <4>3 DEF Applied
    <3> QED BY <3>1, <3>2
  <2>4. Applied(identifier) \subseteq Own(identifier)
    BY <2>2, Zenon DEF Applied
  <2>5. Own(identifier) \subseteq Applied(identifier)
    BY <2>3, Zenon DEF Own
  <2> QED BY <2>4, <2>5
<1>2. Grouped => OwnOverridesApply
  BY <1>1 DEF OwnOverridesApply
<1> QED BY <1>2, GroupedAlways, PTL

\* Whatever the identifiers and the values, the same overrides are never spread over
\* two segments, however each identity lists them.
THEOREM SortedIntoOneSegment == Spec => []SameOverridesOneSegment
<1>1. ASSUME Grouped, NEW k \in DOMAIN overridesKeyToList, NEW l \in DOMAIN overridesKeyToList,
             ToSet(overridesKeyToList[k]) = ToSet(overridesKeyToList[l])
      PROVE  k = l
  <2>1. PICK i \in DOMAIN identityOverrides :
          KeyOf(i) = k /\ overridesKeyToList[k] = ListOf(i)
    BY <1>1 DEF Grouped
  <2>2. PICK j \in DOMAIN identityOverrides :
          KeyOf(j) = l /\ overridesKeyToList[l] = ListOf(j)
    BY <1>1 DEF Grouped
  <2>3. /\ Overrides(OverridesAt(i)) /\ Overrides(OverridesAt(j))
        /\ ToSet(OverridesAt(i)) = ToSet(OverridesAt(j))
    BY <1>1, <2>1, <2>2, Entries
  <2>4. ListOf(i) = ListOf(j)
    BY <2>3, SortedAlike DEF ListOf
  <2> QED BY <2>1, <2>2, <2>4 DEF KeyOf
<1>2. Grouped => SameOverridesOneSegment
  BY <1>1 DEF SameOverridesOneSegment
<1> QED BY <1>2, GroupedAlways, PTL

===============================================================================
