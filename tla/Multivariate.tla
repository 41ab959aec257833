----------------------------- MODULE Multivariate -----------------------------
(***************************************************************************)
(* getFlagResultFromFeatureContext: which variant of a multivariate        *)
(* feature an identity is served.  The identity is known by the bucket     *)
(* that its key hashes to; the variants are laid side by side over the     *)
(* buckets, in the order of their priorities, each as wide as its weight.  *)
(* Without an identity, or in a feature without a key, the feature's own   *)
(* value is served.  EngineEdits states what edits may change.             *)
(*                                                                         *)
(* Weights are whole percents: the code adds them up in float64.           *)
(***************************************************************************)
EXTENDS Integers, FiniteSetsExt

CONSTANTS
  Buckets,     \* 9998 in the code
  Weights,     \* percentage allocations, in percents
  Ids,         \* IDs of variants
  Uuids,       \* UUIDs of variants, as the numbers that their digits write
  NoPriority,  \* 9223372036854775807 in the code
  Missing      \* no ID, no UUID, or no variant

ASSUME MultivariateAssumption ==
  /\ Buckets \in Nat \ {0}
  /\ Weights \subseteq 0..100
  /\ Ids \cup Uuids \subseteq Nat
  /\ NoPriority \in Nat
  /\ Missing \notin Nat

\* features.MultivariateFeatureStateValueModel; the value stands for itself.
Variant == [id : Ids \cup {Missing}, uuid : Uuids \cup {Missing}, weight : Weights]

\* Below, vs is the sequence of a feature's variants, in the order of the document.

\* getHashedPercentageForObjectIds: a hash modulo 9999, over 9998.  The last
\* residue would be 100 % and is hashed again with the ids repeated.
Bucket == 0..(Buckets - 1)

\* MultivariateFeatureStateValueModel.Priority.
Priority(v) ==
  CASE v.id # Missing -> v.id
    [] v.id = Missing /\ v.uuid # Missing -> v.uuid
    [] OTHER -> NoPriority

\* Mutant: the order of the document.
BeforeInDocument(vs, i, j) == i < j

\* Mutant: the heavier variant first.
BeforeByWeight(vs, i, j) ==
  vs[i].weight > vs[j].weight \/ (vs[i].weight = vs[j].weight /\ i < j)

\* getSortedVariantsByPriority: the sort is stable.
Before(vs, i, j) ==
  \/ Priority(vs[i]) < Priority(vs[j])
  \/ Priority(vs[i]) = Priority(vs[j]) /\ i < j

UpTo(vs, i) == {j \in DOMAIN vs : j = i \/ Before(vs, j, i)}

\* Mutant: a variant ends where it should begin.
CumulativeBefore(vs, i) == MapThenSumSet(LAMBDA j : vs[j].weight, UpTo(vs, i) \ {i})

Cumulative(vs, i) == MapThenSumSet(LAMBDA j : vs[j].weight, UpTo(vs, i))

\* hashPercentage <= cumulativeWeight.
Reached(vs, b) == {i \in DOMAIN vs : b * 100 <= Cumulative(vs, i) * Buckets}

\* For each bucket the first variant in order that is reached, or else Missing:
\* the feature's own value.
Served(vs) ==
  [b \in Bucket |->
    LET reached == Reached(vs, b) IN
    IF reached = {}
    THEN Missing
    ELSE CHOOSE i \in reached : \A j \in reached : i = j \/ Before(vs, i, j)]

===============================================================================
