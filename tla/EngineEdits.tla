------------------------------ MODULE EngineEdits ------------------------------
(***************************************************************************)
(* What an edit of the environment, or of a trait, may change for the      *)
(* identities that are evaluated: of a multivariate feature's variants, of *)
(* a condition and the value it is compared with, or of a segment's rules. *)
(* Evaluation reads the three apart, so a behaviour edits one of them and  *)
(* leaves the others as they are.                                          *)
(***************************************************************************)
EXTENDS Multivariate, MatchCondition, SegmentRules, SequencesExt

CONSTANTS
  Found,       \* what paths may find: Object, Unset or values
  MaxVariants, \* bound on the variants of the feature
  Atoms,       \* conditions of the rules
  MaxSize      \* bound on the rules and conditions of the segment

ASSUME EditAssumption == MaxVariants \in Nat

VARIABLES
  edited,       \* "variants", "condition" or "rules"
  variants,     \* MultivariateFeatureStateValues
  found,        \* what the condition's property finds as a JSONPath
  trait,        \* the trait named like the condition's property
  condition,
  rules,        \* segmentContext.Rules and all the rules below them
  size          \* rules and conditions in them

contextVars == <<found, trait>>
conditionVars == <<contextVars, condition>>
ruleVars == <<rules, size>>
vars == <<edited, variants, conditionVars, ruleVars>>

-------------------------------------------------------------------------------
(* The API admits weights of a feature that sum up to at most 100 %.        *)

Total(vs) == MapThenSumSet(LAMBDA i : vs[i].weight, DOMAIN vs)

Admitted == {vs \in UNION {[1..n -> Variant] : n \in 0..MaxVariants} : Total(vs) <= 100}

NoCondition == [operator |-> "EQUAL", value |-> Unset]

Init ==
  /\ rules = <<>>
  /\ size = 0
  /\ \/ /\ edited = "variants"
        /\ variants \in Admitted
        /\ found = Unset
        /\ trait = Unset
        /\ condition = NoCondition
     \/ /\ edited = "condition"
        /\ variants = <<>>
        /\ found \in Found
        /\ trait \in Values \cup {Unset}
        /\ condition \in Condition
     \/ /\ edited = "rules"
        /\ variants = <<>>
        /\ found = Unset
        /\ trait = Unset
        /\ condition = NoCondition

SetWeight(i, w) ==
  /\ variants' = [variants EXCEPT ![i].weight = w]
  /\ variants' \in Admitted
  /\ UNCHANGED <<edited, conditionVars, ruleVars>>

Swap(i, j) ==
  /\ variants' = [variants EXCEPT ![i] = variants[j], ![j] = variants[i]]
  /\ UNCHANGED <<edited, conditionVars, ruleVars>>

\* The next evaluation is for other traits of the identity.
SetTrait(v) ==
  /\ edited = "condition"
  /\ trait' = v
  /\ UNCHANGED <<edited, variants, found, condition, ruleVars>>

EditCondition(value) ==
  /\ edited = "condition"
  /\ condition' = [condition EXCEPT !.value = value]
  /\ UNCHANGED <<edited, variants, contextVars, ruleVars>>

\* A segment grows from nothing.
Grow ==
  /\ edited = "rules"
  /\ size < MaxSize
  /\ size' = size + 1
  /\ UNCHANGED <<edited, variants, conditionVars>>

\* A rule of the segment, or below rule p.
AddRule(p, t) ==
  /\ Grow
  /\ rules' = Append(rules, NewRule(p, t))

AddCondition(i, c) ==
  /\ c \notin rules[i].conditions
  /\ Grow
  /\ rules' = [rules EXCEPT ![i].conditions = @ \cup {c}]

Next ==
  \/ \E i \in DOMAIN variants :
       \/ \E w \in Weights : SetWeight(i, w)
       \/ \E j \in DOMAIN variants : Swap(i, j)
  \/ \E v \in Values \cup {Unset} : SetTrait(v)
  \/ \E value \in Texts : EditCondition(value)
  \/ \E p \in 0..Len(rules), t \in DocumentType : AddRule(p, t)
  \/ \E i \in DOMAIN rules, c \in Atoms : AddCondition(i, c)

Spec == Init /\ [][Next]_vars

-------------------------------------------------------------------------------
(* Variants.                                                                *)

\* Each variant has the share of the buckets that its weight says, to within
\* one bucket, wherever the document lists it.
FairShares ==
  LET served == Served(variants) IN
  \A i \in DOMAIN variants :
    LET share == Quantify(Bucket, LAMBDA b : served[b] = i) * 100
        due   == variants[i].weight * Buckets
    IN  due - 100 <= share /\ share <= due + 100

\* When the weight of a variant is raised, no identity loses that variant or one
\* that comes before it: a rollout never takes back what it has given.
RaisingKeepsWhatIsServed ==
  [][LET served == Served(variants) IN
     \A i \in DOMAIN variants :
       /\ variants' = [variants EXCEPT ![i].weight = variants'[i].weight]
       /\ variants'[i].weight > variants[i].weight
       => \A b \in Bucket :
            served[b] \in UpTo(variants, i) => Served(variants')[b] = served[b]]_variants

Distinct ==
  \A i, j \in DOMAIN variants : i # j => Priority(variants[i]) # Priority(variants[j])

\* If the priorities differ, the order in which the document lists the variants
\* changes nobody's variant.
OrderDoesNotMatter ==
  [][ToSet(variants') = ToSet(variants) /\ Distinct
     => LET before == Served(variants)  after == Served(variants') IN
        \A b \in Bucket :
          \/ before[b] = Missing /\ after[b] = Missing
          \/ /\ before[b] # Missing
             /\ after[b] # Missing
             /\ variants[before[b]] = variants'[after[b]]]_variants

-------------------------------------------------------------------------------
(* Conditions.                                                              *)

contextValue == GetContextValue(found, trait)

Compared == contextValue # Unset /\ condition.value # Unset

Text == TextOf[contextValue]

\* Of two segments on complementary conditions a context is in exactly one, whichever
\* rung of the ladder compares the two texts.
OperatorsPartition ==
  Compared /\ Comparable(Text, condition.value) => Partitions(contextValue, condition.value)

Matching == Matches(contextValue, condition.operator, condition.value)

\* A number that grows stays in a segment on a lower bound, though on its way it is
\* compared now as an integer and now as a float, with the one exception of
\* generic_evaluator.go:126: it is put out just when it becomes a boolean beside a
\* bound that is one too (0.5 is greater than 0, and 1 is not).
GrowthLosesToBooleansOnly ==
  [][/\ UNCHANGED condition
     /\ condition.operator \in LowerBounds
     /\ Compared /\ contextValue' # Unset
     /\ \A text \in {Text, Text', condition.value} : Numeric(text)
     /\ Grows(Text, Text')
     /\ Matching
     => (Matching' <=> ~Both(BoolOf, Text', condition.value))]_conditionVars

\* generic_evaluator.go:42: "implements the GREATER_THAN operator for ordered
\* types"; integers are ordered, though they may look like booleans.
IntegersAreOrdered ==
  /\ Compared
  /\ Both(IntOf, Text, condition.value)
  /\ condition.operator = "GREATER_THAN"
  => (Matching <=> IntOf[Text] > IntOf[condition.value])

-------------------------------------------------------------------------------
(* Rules.                                                                   *)

Contexts == SUBSET Atoms

\* Contexts that the step takes into the segment, and that it puts out.
Gained == {k \in Contexts : ~InSegment(rules, k) /\ InSegment(rules', k)}
Lost == {k \in Contexts : InSegment(rules, k) /\ ~InSegment(rules', k)}

\* Another alternative in an ANY rule only widens it; another requirement or
\* exclusion in an ALL or a NONE rule only narrows it.  The first condition of a
\* rule always narrows it, of an ANY rule too.
Widens(rule) == rule.type = "ANY" /\ rule.conditions # {}

\* Below a NONE rule it is the other way round, and below two of them not.
Inverted(i) ==
  LET inverted[j \in 0..Len(rules)] ==
        IF j = 0
        THEN FALSE
        ELSE LET p == rules[j].parent IN
             inverted[p] # (p # 0 /\ rules[p].type = "NONE")
  IN inverted[i]

\* So a condition added anywhere in the tree moves contexts across the border of
\* the segment in one direction only, which the rules on the way up to it decide.
ConditionsMoveOneWay ==
  [][\A i \in DOMAIN rules, c \in Atoms :
       AddCondition(i, c) =>
         IF Widens(rules[i]) # Inverted(i) THEN Lost = {} ELSE Gained = {}]_ruleVars

\* The rules of a segment are requirements: after the first, another one only
\* narrows it.  A new rule below a rule, which matches everybody as long as it is
\* empty, widens an ANY rule and narrows the others, and moves contexts as the
\* rules on the way up decide.
RulesMoveOneWay ==
  [][\A t \in DocumentType :
       /\ rules # <<>> /\ AddRule(0, t) => Gained = {}
       /\ \A p \in DOMAIN rules :
            AddRule(p, t) =>
              IF (rules[p].type = "ANY") # Inverted(p) THEN Lost = {} ELSE Gained = {}]_ruleVars

===============================================================================
