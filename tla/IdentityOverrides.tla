--------------------------- MODULE IdentityOverrides ---------------------------
(***************************************************************************)
(* mapIdentityOverridesToSegments: identities with the same overrides      *)
(* become one segment, whose only rule is that the identity's identifier   *)
(* is IN the identifiers of the group, joined with commas; and the IN      *)
(* operator that takes that text apart again.                              *)
(*                                                                         *)
(* Texts are modelled as far as they are joined and taken apart.  An       *)
(* identifier is the sequence of its comma-separated parts.  The text of a *)
(* value is its first semicolon-separated part and the sequence of the     *)
(* others, so that a value may look like one override and the next; names  *)
(* of features have neither colons nor semicolons.  Joining is thus        *)
(* concatenation.  Of the key of a group only the truncated SHA-256 is     *)
(* left out, which is taken to tell texts apart.                           *)
(*                                                                         *)
(* Of several segments that match, GetEvaluationResult lets the one with   *)
(* the greatest hash win, which may be any of them.                        *)
(***************************************************************************)
EXTENDS Integers, Sequences, SequencesExt

CONSTANTS
  Identifiers,   \* identifiers of identities, as sequences of parts
  ArrayOf,       \* json.Unmarshal into []string: ArrayOf[t] is the set of strings in
                 \* text t, a sequence of parts, if that is a JSON array of strings
  JSONStarts,    \* parts that begin with a bracket, blanks aside, or are null
  FeatureStates, \* overrides of features; names are known by their order as texts
  Sprint,        \* fmt.Sprint: Sprint[v] is the text of RawValue v; of nil, the empty text
  MaxFeatures,   \* bound on the overrides of an identity
  MaxIdentities  \* bound on the length of IdentityOverrides

\* A JSON array begins with a bracket; null is read as an empty one.
ASSUME OverridesAssumption ==
  /\ Identifiers \subseteq Seq(UNION {ToSet(identifier) : identifier \in Identifiers})
  /\ FeatureStates \subseteq [feature : Int, enabled : BOOLEAN, value : DOMAIN Sprint]
  /\ \A v \in DOMAIN Sprint :
       /\ Sprint[v] = [text |-> Sprint[v].text, rest |-> Sprint[v].rest]
       /\ Sprint[v].rest \in Seq(ToSet(Sprint[v].rest))
  /\ \A text \in DOMAIN ArrayOf : text # <<>> /\ text[1] \in JSONStarts
  /\ MaxFeatures \in Nat /\ MaxIdentities \in Nat

\* The overrides of an identity, one for each of some features, in any order.
IdentityFeatures ==
  {s \in SeqOf(FeatureStates, MaxFeatures) :
     \A i, j \in DOMAIN s : s[i].feature = s[j].feature => i = j}

\* identities.IdentityModel.
Identity == [identifier : Identifiers, features : IdentityFeatures]

VARIABLES
  identityOverrides,     \* the identities mapped so far
  featuresToIdentifiers, \* for the key of each group, its identifiers
  overridesKeyToList     \* for the key of each group, its overrides

groups == <<featuresToIdentifiers, overridesKeyToList>>
vars == <<identityOverrides, groups>>

-------------------------------------------------------------------------------
(* The overrides of an identity, and the text that stands for them.         *)

Override(state) ==
  [featureName |-> state.feature, enabled |-> state.enabled, featureValue |-> Sprint[state.value]]

OverridesOf(features) == [i \in DOMAIN features |-> Override(features[i])]

\* Mutant: the list is hashed as it comes.
Unsorted(overrides) == overrides

\* sort.Sort of an overridesKeyList.
Sorted(overrides) ==
  CHOOSE s \in [DOMAIN overrides -> ToSet(overrides)] :
    /\ ToSet(s) = ToSet(overrides)
    /\ \A i, j \in DOMAIN s : i < j => s[i].featureName < s[j].featureName

\* "%s:%t:%s;", as its semicolon-separated parts.
Written(override) ==
  <<[name |-> override.featureName, enabled |-> override.enabled,
     text |-> override.featureValue.text]>>
  \o override.featureValue.rest

\* Mutant: the values are left out.
HashInputOfNames(overrides) == [i \in DOMAIN overrides |-> overrides[i].featureName]

\* generateHash, of a sorted list.
HashInput(overrides) == FlattenSeq([i \in DOMAIN overrides |-> Written(overrides[i])])

-------------------------------------------------------------------------------
Init ==
  /\ identityOverrides = <<>>
  /\ featuresToIdentifiers = [k \in {} |-> <<>>]
  /\ overridesKeyToList = [k \in {} |-> <<>>]

Group(k) == IF k \in DOMAIN featuresToIdentifiers THEN featuresToIdentifiers[k] ELSE <<>>

\* The identity joins the group that has its key, whose overrides are from now on
\* those of this identity.
Join(key, identifier, overrides) ==
  /\ featuresToIdentifiers' =
       [k \in DOMAIN featuresToIdentifiers \cup {key} |->
          IF k = key THEN Append(Group(k), identifier) ELSE Group(k)]
  /\ overridesKeyToList' =
       [k \in DOMAIN overridesKeyToList \cup {key} |->
          IF k = key THEN overrides ELSE overridesKeyToList[k]]

\* One iteration of the loop over the identities.
MapIdentity(identity) ==
  LET overrides == Sorted(OverridesOf(identity.features)) IN
  /\ Len(identityOverrides) < MaxIdentities
  /\ identityOverrides' = Append(identityOverrides, identity)
  /\ IF identity.features = <<>>
     THEN UNCHANGED groups
     ELSE Join(HashInput(overrides), identity.identifier, overrides)

Next == \E identity \in Identity : MapIdentity(identity)

Spec == Init /\ [][Next]_vars

-------------------------------------------------------------------------------
(* The segments made of the groups, and what they bring an identity.        *)

\* strings.Join(identifiers, ","), as its comma-separated parts.
Joined(k) == FlattenSeq(featuresToIdentifiers[k])

\* matchInOperator with a string: a JSON array is looked up, other texts are split.
MatchIn(identifier, text) ==
  IF text \in DOMAIN ArrayOf
  THEN identifier \in ArrayOf[text]
  ELSE Len(identifier) = 1 /\ Contains(text, identifier[1])

\* The overrides of the segments that match.
Applied(identifier) ==
  UNION {ToSet(overridesKeyToList[k]) :
           k \in {l \in DOMAIN featuresToIdentifiers : MatchIn(identifier, Joined(l))}}

-------------------------------------------------------------------------------
\* The overrides of the i-th entry, and of an identity's own entries.  A document torn
\* between pages may hold two entries of one identity.
Entry(i) == ToSet(OverridesOf(identityOverrides[i].features))

Own(identifier) ==
  UNION {Entry(i) : i \in {j \in DOMAIN identityOverrides :
                             identityOverrides[j].identifier = identifier}}

HasSemicolon(i) == \E override \in Entry(i) : override.featureValue.rest # <<>>

\* With a semicolon in a value, two lists of overrides may be written alike.
Confusable(i, j) == Entry(i) # Entry(j) /\ (HasSemicolon(i) \/ HasSemicolon(j))

\* An identity is served the overrides of its own entries, whole and no others, in
\* whatever order the document lists the identities and each one's features, and with
\* whomever it shares a group; unless a semicolon lets one of its entries be taken for
\* another.
OwnOverridesApply ==
  \A identifier \in Identifiers :
    (\A i, j \in DOMAIN identityOverrides :
       identityOverrides[i].identifier = identifier => ~Confusable(i, j))
    => Applied(identifier) = Own(identifier)

\* mappers.go:182: "Sort to ensure consistent hash for same set of overrides".  The
\* same overrides are never in two segments, however each identity lists them.
SameOverridesOneSegment ==
  \A k, l \in DOMAIN overridesKeyToList :
    ToSet(overridesKeyToList[k]) = ToSet(overridesKeyToList[l]) => k = l

\* mappers.go:196: "This groups identities by their common feature overrides and
\* creates segments for each group."
GroupsAreSegments ==
  \A k \in DOMAIN featuresToIdentifiers, identifier \in Identifiers :
    MatchIn(identifier, Joined(k)) <=> Contains(featuresToIdentifiers[k], identifier)

===============================================================================
