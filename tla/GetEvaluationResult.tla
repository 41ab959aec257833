-------------------------- MODULE GetEvaluationResult --------------------------
(***************************************************************************)
(* flagengine.GetEvaluationResult: which of the overrides that the matched *)
(* segments bring applies to each feature.  Segments are visited in the    *)
(* order of their keys, the overrides of each in their order, and an       *)
(* override replaces the one found before unless its priority is weaker.   *)
(*                                                                         *)
(* Whether a segment matches is an input here; see SegmentRules for the    *)
(* segments of the project and IdentityOverrides for the others.           *)
(***************************************************************************)
EXTENDS Integers, Sequences

CONSTANTS
  Keys,         \* segment keys, as integers in the order of sort.Strings
  Names,        \* feature names that overrides bear
  Features,     \* the names in ec.Features
  MaxPriority,  \* bound on FeatureSegment.Priority
  MaxOverrides, \* bound on the overrides of one segment
  None          \* no override found

ASSUME EvaluationAssumption ==
  /\ Keys \subseteq Int
  /\ Features \subseteq Names
  /\ MaxPriority \in Nat
  /\ MaxOverrides \in Nat
  /\ None \notin Keys \cup (Keys \X Nat)

VARIABLES
  segments,         \* ec.Segments
  todo,             \* keys of the segments not visited yet
  visit,            \* key of the segment in applySegmentOverrides, or None
  index,            \* its next override
  segmentResults,   \* keys of the segments matched so far
  featureOverrides, \* for each name the override that applies, as its segment's
                    \* key and its position there, or None
  flags             \* the result: as featureOverrides, for the features only

vars == <<segments, todo, visit, index, segmentResults, featureOverrides, flags>>

-------------------------------------------------------------------------------
(* Priorities: smaller is stronger.                                         *)

\* getPriorityOrDefault(nil), math.Inf(1): below every priority of a document.
Weakest == MaxPriority + 1

\* Mutant: identity overrides carry no priority.
StrongestNone == Weakest

\* math.Inf(-1), which mapIdentityOverridesToSegments gives to every override.
Strongest == -1

\* mapFeatureStateToFeatureContext: an override of a project's segment has the
\* priority of its FeatureSegment, if there is one.
APIOverride == [name : Names, priority : (0..MaxPriority) \cup {Weakest}]

IdentityOverride == [name : Names, priority : {Strongest}]

UpTo(S) == UNION {[1..n -> S] : n \in 0..MaxOverrides}

Segment ==
  [source : {"api"}, matches : BOOLEAN, overrides : UpTo(APIOverride)]
    \cup [source : {"identity_override"}, matches : BOOLEAN, overrides : UpTo(IdentityOverride)]

Override(p) == segments[p[1]].overrides[p[2]]

-------------------------------------------------------------------------------
Init ==
  /\ \E K \in SUBSET Keys : segments \in [K -> Segment]
  /\ todo = DOMAIN segments
  /\ visit = None
  /\ index = 1
  /\ segmentResults = <<>>
  /\ featureOverrides = [n \in Names |-> None]
  /\ flags = None

\* Mutant: segments are visited as the map yields them.
NextKeyAny(k) == visit = None /\ k \in todo

\* getSortedSegments.
NextKey(k) ==
  /\ visit = None
  /\ k \in todo
  /\ \A other \in todo : k <= other

\* IsContextInSegment is false.
Skip(k) ==
  /\ NextKey(k)
  /\ ~segments[k].matches
  /\ todo' = todo \ {k}
  /\ UNCHANGED <<segments, visit, index, segmentResults, featureOverrides, flags>>

Enter(k) ==
  /\ NextKey(k)
  /\ segments[k].matches
  /\ todo' = todo \ {k}
  /\ visit' = k
  /\ index' = 1
  /\ segmentResults' = Append(segmentResults, k)
  /\ UNCHANGED <<segments, featureOverrides, flags>>

\* Mutant: an override replaces only a weaker one.
StrongerOnly(old, new) == old = None \/ Override(new).priority < Override(old).priority

\* The first override of a name, or one of equal or stronger priority.
Replaces(old, new) == old = None \/ Override(new).priority <= Override(old).priority

\* One iteration of applySegmentOverrides.
Apply ==
  /\ visit # None
  /\ index <= Len(segments[visit].overrides)
  /\ featureOverrides' =
       [featureOverrides EXCEPT ![Override(<<visit, index>>).name] =
          IF Replaces(@, <<visit, index>>) THEN <<visit, index>> ELSE @]
  /\ index' = index + 1
  /\ UNCHANGED <<segments, todo, visit, segmentResults, flags>>

Leave ==
  /\ visit # None
  /\ index > Len(segments[visit].overrides)
  /\ visit' = None
  /\ UNCHANGED <<segments, todo, index, segmentResults, featureOverrides, flags>>

\* Mutant: the loop is over the overrides found.
GetFlagResultsOfOverrides ==
  /\ visit = None
  /\ todo = {}
  /\ flags = None
  /\ flags' = [n \in Names |-> featureOverrides[n]]
  /\ UNCHANGED <<segments, todo, visit, index, segmentResults, featureOverrides>>

\* getFlagResults: overrides of names that are no feature's are dropped.
GetFlagResults ==
  /\ visit = None
  /\ todo = {}
  /\ flags = None
  /\ flags' = [f \in Features |-> featureOverrides[f]]
  /\ UNCHANGED <<segments, todo, visit, index, segmentResults, featureOverrides>>

Next ==
  \/ \E k \in Keys : Skip(k) \/ Enter(k)
  \/ Apply \/ Leave \/ GetFlagResults

Spec == Init /\ [][Next]_vars

-------------------------------------------------------------------------------
Position == Keys \X (1..MaxOverrides)

TypeOK ==
  /\ DOMAIN segments \subseteq Keys
  /\ segments \in [DOMAIN segments -> Segment]
  /\ todo \subseteq DOMAIN segments
  /\ visit \in (DOMAIN segments) \cup {None}
  /\ index \in Nat \ {0}
  /\ segmentResults \in Seq(DOMAIN segments)
  /\ featureOverrides \in [Names -> Position \cup {None}]
  /\ flags \in [Features -> Position \cup {None}] \cup {None}

\* The positions of all overrides of a matching segment seen so far.
Seen(p) ==
  /\ p[1] \in (DOMAIN segments) \ todo
  /\ segments[p[1]].matches
  /\ p[2] \in 1..Len(segments[p[1]].overrides)
  /\ p[1] = visit => p[2] < index

Precedes(p, q) == p[1] < q[1] \/ (p[1] = q[1] /\ p[2] <= q[2])

\* q is what p must give way to.
Beats(q, p) ==
  \/ Override(q).priority < Override(p).priority
  \/ Override(q).priority = Override(p).priority /\ Precedes(p, q)

\* At any time the override kept for a name is, among those seen for it, the one
\* of the strongest priority, and of equal ones the last in the order of keys and
\* positions, in whatever order the map of segments was filled or is read.
LastOfTheStrongest ==
  \A n \in Names :
    IF featureOverrides[n] = None
    THEN ~\E p \in Position : Seen(p) /\ Override(p).name = n
    ELSE /\ Seen(featureOverrides[n])
         /\ Override(featureOverrides[n]).name = n
         /\ \A p \in Position :
              Seen(p) /\ Override(p).name = n => Beats(featureOverrides[n], p)

\* An identity override of a feature wins over every segment of the project,
\* wherever the hash that is its key sorts among the keys.
IdentityOverridesWin ==
  flags # None =>
    \A k \in DOMAIN segments, f \in Features :
      /\ segments[k].source = "identity_override"
      /\ segments[k].matches
      /\ \E i \in 1..Len(segments[k].overrides) : segments[k].overrides[i].name = f
      => /\ flags[f] # None
         /\ segments[flags[f][1]].source = "identity_override"

===============================================================================
