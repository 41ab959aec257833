----------------------------- MODULE SegmentRules -----------------------------
(***************************************************************************)
(* IsContextInSegment: trees of rules over conditions.  The rules of a     *)
(* segment are a sequence in which each names the rule that it is below,   *)
(* which comes before it, or 0 for a rule of the segment itself.  A        *)
(* condition is an atom here, and a context the set of the conditions that *)
(* it matches; see MatchCondition.                                         *)
(***************************************************************************)
EXTENDS Naturals, Sequences

\* RuleType in a document: the API's and any other.
DocumentType == {"ALL", "ANY", "NONE", "OTHER"}

\* mapRuleType.
RuleType(t) == IF t \in {"ALL", "ANY"} THEN t ELSE "NONE"

\* A rule as the document first has it, before it has conditions or rules below.
NewRule(parent, t) == [type |-> RuleType(t), conditions |-> {}, parent |-> parent]

-------------------------------------------------------------------------------
(* Evaluation.                                                              *)

\* Mutant: a group without members is not passed over.
MatchesByRuleTypeEmpty(type, results) ==
  CASE type = "ALL" -> FALSE \notin results
    [] type = "NONE" -> TRUE \notin results
    [] type = "ANY" -> TRUE \in results

\* matchesConditionsByRuleType and matchesSubRulesByRuleType, of the results of
\* the conditions or of the rules below; a group without members is passed over.
MatchesByRuleType(type, results) ==
  \/ results = {}
  \/ CASE type = "ALL" -> FALSE \notin results
       [] type = "NONE" -> TRUE \notin results
       [] type = "ANY" -> TRUE \in results

Holds(condition, context) == condition \in context

Below(rules, i) == {j \in DOMAIN rules : rules[j].parent = i}

\* contextMatchesSegmentRule, of every rule.
MatchesRule(rules, context) ==
  LET matches[i \in DOMAIN rules] ==
        /\ MatchesByRuleType(rules[i].type, {Holds(c, context) : c \in rules[i].conditions})
        /\ MatchesByRuleType(rules[i].type, {matches[j] : j \in Below(rules, i)})
  IN matches

\* Mutant: one rule that matches is enough.
InSegmentAny(rules, context) ==
  \E i \in Below(rules, 0) : MatchesRule(rules, context)[i]

\* IsContextInSegment.
InSegment(rules, context) ==
  /\ Below(rules, 0) # {}
  /\ \A i \in Below(rules, 0) : MatchesRule(rules, context)[i]

===============================================================================
