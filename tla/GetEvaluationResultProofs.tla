----------------------- MODULE GetEvaluationResultProofs -----------------------
(* Which override applies, for any segments, keys, priorities and names.    *)
EXTENDS GetEvaluationResult, TLAPS

Visited == (DOMAIN segments) \ todo

\* Segments are visited in the order of their keys.
InOrder ==
  /\ \A k \in Visited, l \in todo : k < l
  /\ visit # None =>
       /\ visit \in Visited
       /\ segments[visit].matches
       /\ index <= Len(segments[visit].overrides) + 1
       /\ \A k \in Visited : k <= visit

\* The result is what was found when the last segment had been left.
Done ==
  flags # None =>
    /\ todo = {} /\ visit = None
    /\ \A f \in Features : flags[f] = featureOverrides[f]

Inv == TypeOK /\ InOrder /\ LastOfTheStrongest /\ Done

-------------------------------------------------------------------------------
LEMMA Elements == ASSUME NEW S, NEW n \in Nat, NEW s \in [1..n -> S]
                  PROVE  Len(s) = n /\ \A i \in 1..Len(s) : s[i] \in S
OBVIOUS

\* What the overrides of a segment can be.
LEMMA SegmentTypes ==
  ASSUME NEW sg \in Segment
  PROVE  /\ sg.source \in {"api", "identity_override"}
         /\ Len(sg.overrides) \in 0..MaxOverrides
         /\ \A i \in 1..Len(sg.overrides) :
              /\ sg.overrides[i].name \in Names
              /\ sg.overrides[i].priority \in Int
              /\ sg.overrides[i].priority >= Strongest
              /\ sg.source = "identity_override" <=> sg.overrides[i].priority = Strongest
<1> USE EvaluationAssumption DEF EvaluationAssumption
<1>1. CASE sg \in [source : {"api"}, matches : BOOLEAN, overrides : UpTo(APIOverride)]
  <2>1. PICK n \in 0..MaxOverrides : sg.overrides \in [1..n -> APIOverride]
    BY <1>1 DEF UpTo
  <2>2. Len(sg.overrides) = n /\ \A i \in 1..n : sg.overrides[i] \in APIOverride
    BY <2>1, Elements
  <2> QED BY <1>1, <2>2 DEF APIOverride, Weakest, Strongest
<1>2. CASE sg \in [source : {"identity_override"}, matches : BOOLEAN,
                   overrides : UpTo(IdentityOverride)]
  <2>1. PICK n \in 0..MaxOverrides : sg.overrides \in [1..n -> IdentityOverride]
    BY <1>2 DEF UpTo
  <2>2. Len(sg.overrides) = n /\ \A i \in 1..n : sg.overrides[i] \in IdentityOverride
    BY <2>1, Elements
  <2> QED BY <1>2, <2>2 DEF IdentityOverride, Strongest
<1> QED BY <1>1, <1>2 DEF Segment

\* Every position seen is one of an override, in a segment visited.
LEMMA SeenTypes ==
  ASSUME TypeOK, NEW p \in Position, Seen(p)
  PROVE  /\ p[1] \in Visited /\ p[1] \in Int
         /\ p[2] \in Nat
         /\ p = <<p[1], p[2]>>
         /\ Override(p).name \in Names
         /\ Override(p).priority \in Int
<1>1. p[1] \in Visited /\ p[1] \in Int /\ p[2] \in 1..Len(segments[p[1]].overrides)
  BY EvaluationAssumption DEF Seen, Visited, Position, EvaluationAssumption
<1>2. segments[p[1]] \in Segment
  BY <1>1 DEF TypeOK, Visited
<1> QED BY <1>1, <1>2, SegmentTypes DEF Override, Position

-------------------------------------------------------------------------------
LEMMA InitInv == Init => Inv
<1> SUFFICES ASSUME Init
             PROVE  Inv
  OBVIOUS
<1>1. TypeOK
  BY EvaluationAssumption DEF Init, TypeOK, EvaluationAssumption
<1>2. InOrder /\ Done
  BY DEF Init, InOrder, Done, Visited
<1>3. LastOfTheStrongest
  BY DEF Init, LastOfTheStrongest, Seen
<1> QED BY <1>1, <1>2, <1>3 DEF Inv

-------------------------------------------------------------------------------
\* A step that finds no override keeps what was found so far.
LEMMA SameSeen ==
  ASSUME Inv, UNCHANGED <<segments, featureOverrides>>,
         \A p \in Position : Seen(p)' <=> Seen(p)
  PROVE  LastOfTheStrongest'
<1>1. \A n \in Names : featureOverrides[n] # None => featureOverrides[n] \in Position
  BY DEF Inv, TypeOK
<1> QED BY <1>1 DEF Inv, LastOfTheStrongest, Override, Beats, Precedes

LEMMA SkipInv == ASSUME Inv, NEW k \in Keys, Skip(k)
                 PROVE  Inv'
<1> USE EvaluationAssumption DEF EvaluationAssumption, Inv, Skip, NextKey
<1>1. TypeOK'
  BY DEF TypeOK
<1>2. InOrder'
  BY DEF TypeOK, InOrder, Visited
<1>3. \A p \in Position : Seen(p)' <=> Seen(p)
  BY DEF Seen, TypeOK
<1>4. LastOfTheStrongest' /\ Done'
  BY <1>3, SameSeen DEF Done
<1> QED BY <1>1, <1>2, <1>4

LEMMA EnterInv == ASSUME Inv, NEW k \in Keys, Enter(k)
                  PROVE  Inv'
<1> USE EvaluationAssumption DEF EvaluationAssumption, Inv, Enter, NextKey
<1>0. k \in DOMAIN segments /\ segments[k] \in Segment /\ k # None
  BY DEF TypeOK
<1>1. TypeOK'
  BY <1>0 DEF TypeOK
<1>2. InOrder'
  <2>1. Len(segments[k].overrides) \in Nat
    BY <1>0, SegmentTypes
  <2>2. \A l \in Visited' : l <= k
    BY DEF TypeOK, InOrder, Visited
  <2> QED BY <1>0, <2>1, <2>2 DEF TypeOK, InOrder, Visited
<1>3. \A p \in Position : Seen(p)' <=> Seen(p)
  BY <1>0 DEF Seen, TypeOK, Position
<1>4. LastOfTheStrongest' /\ Done'
  BY <1>3, SameSeen DEF Done
<1> QED BY <1>1, <1>2, <1>4

LEMMA LeaveInv == Inv /\ Leave => Inv'
<1> SUFFICES ASSUME Inv, Leave
             PROVE  Inv'
  OBVIOUS
<1> USE EvaluationAssumption DEF EvaluationAssumption, Inv, Leave
<1>1. TypeOK'
  BY DEF TypeOK
<1>2. InOrder'
  BY DEF TypeOK, InOrder, Visited
<1>3. \A p \in Position : Seen(p)' <=> Seen(p)
  <2>1. visit \in DOMAIN segments /\ segments[visit] \in Segment /\ index \in Nat
    BY DEF TypeOK
  <2>2. Len(segments[visit].overrides) \in Nat
    BY <2>1, SegmentTypes
  <2> QED BY <2>1, <2>2 DEF Seen, Position
<1>4. LastOfTheStrongest' /\ Done'
  BY <1>3, SameSeen DEF Done
<1> QED BY <1>1, <1>2, <1>4

LEMMA GetFlagResultsInv == Inv /\ GetFlagResults => Inv'
<1> SUFFICES ASSUME Inv, GetFlagResults
             PROVE  Inv'
  OBVIOUS
<1> USE EvaluationAssumption DEF EvaluationAssumption, Inv, GetFlagResults
<1>1. TypeOK' /\ InOrder' /\ Done'
  BY DEF TypeOK, InOrder, Visited, Done
<1>2. \A p \in Position : Seen(p)' <=> Seen(p)
  BY DEF Seen
<1> QED BY <1>1, <1>2, SameSeen

-------------------------------------------------------------------------------
LEMMA ApplyInv == Inv /\ Apply => Inv'
<1> SUFFICES ASSUME Inv, Apply
             PROVE  Inv'
  OBVIOUS
<1> DEFINE new == <<visit, index>>
           name == Override(new).name
           old == featureOverrides[name]
           SeenNow(p) == Seen(p) \/ p = new
<1>1. /\ visit \in Visited /\ visit \in Keys /\ visit \in Int
      /\ segments[visit] \in Segment
      /\ index \in Nat \ {0} /\ index <= Len(segments[visit].overrides)
      /\ Len(segments[visit].overrides) \in 0..MaxOverrides
      /\ segments[visit].matches
  <2>1. visit \in DOMAIN segments /\ segments[visit] \in Segment
    BY DEF Inv, TypeOK, Apply
  <2> QED BY <2>1, SegmentTypes, EvaluationAssumption
      DEF Inv, TypeOK, InOrder, Visited, Apply, EvaluationAssumption
<1>2. new \in Position /\ name \in Names /\ Override(new).priority \in Int
  BY <1>1, SegmentTypes, EvaluationAssumption DEF Position, Override, EvaluationAssumption
<1>3. /\ featureOverrides'[name] = IF Replaces(old, new) THEN new ELSE old
      /\ \A n \in Names : n # name => featureOverrides'[n] = featureOverrides[n]
      /\ featureOverrides' \in [Names -> Position \cup {None}]
      /\ index' = index + 1
      /\ UNCHANGED <<segments, todo, visit, segmentResults, flags>>
  BY <1>2 DEF Inv, TypeOK, Apply
<1>4. TypeOK' /\ InOrder' /\ Done'
  BY <1>1, <1>3 DEF Inv, TypeOK, InOrder, Visited, Done, Apply
<1>5. \A p \in Position : Seen(p)' <=> SeenNow(p)
  <2>1. SUFFICES ASSUME NEW p \in Position
                 PROVE  Seen(p)' <=> Seen(p) \/ p = new
    OBVIOUS
  <2>2. p = <<p[1], p[2]>> /\ p[2] \in Nat
    BY DEF Position
  <2>3. p = new <=> p[1] = visit /\ p[2] = index
    BY <2>2
  <2>4. CASE p[1] = visit
    BY <1>1, <1>3, <2>2, <2>3, <2>4 DEF Seen, Visited
  <2>5. CASE p[1] # visit
    BY <1>3, <2>3, <2>5 DEF Seen
  <2> QED BY <2>4, <2>5
<1>7. \A p \in Position : Override(p)' = Override(p)
  BY <1>3 DEF Override
<1>8. \A p \in Position : Seen(p) => Precedes(p, new)
  <2>1. ASSUME NEW p \in Position, Seen(p)
        PROVE  Precedes(p, new)
    <3>1. p[1] \in Visited /\ p[1] \in Int /\ p[2] \in Nat /\ p[1] <= visit
      BY <1>1, <2>1, SeenTypes DEF Inv, InOrder, Apply
    <3>2. p[1] = visit => p[2] < index
      BY <2>1 DEF Seen
    <3> QED BY <1>1, <3>1, <3>2 DEF Precedes
  <2> QED BY <2>1
<1>9. ASSUME NEW n \in Names
      PROVE  IF featureOverrides'[n] = None
             THEN ~\E p \in Position : SeenNow(p) /\ Override(p).name = n
             ELSE /\ SeenNow(featureOverrides'[n])
                  /\ Override(featureOverrides'[n]).name = n
                  /\ \A p \in Position :
                       SeenNow(p) /\ Override(p).name = n => Beats(featureOverrides'[n], p)
  <2>0. featureOverrides[n] \in Position \cup {None} /\ None \notin Position
    BY EvaluationAssumption DEF Inv, TypeOK, Position, EvaluationAssumption
  <2>1. CASE n # name
    BY <1>2, <1>3, <2>0, <2>1 DEF Inv, LastOfTheStrongest
  <2>2. CASE n = name /\ Replaces(old, new)
    <3>1. featureOverrides'[n] = new /\ new # None
      BY <1>2, <1>3, <2>0, <2>2
    <3>2. ASSUME NEW p \in Position, Seen(p), Override(p).name = n
          PROVE  Beats(new, p)
      <4>1. old # None /\ old \in Position /\ Seen(old) /\ Beats(old, p)
        BY <2>0, <2>2, <3>2 DEF Inv, LastOfTheStrongest
      <4>2. Override(new).priority <= Override(old).priority
        BY <2>2, <4>1 DEF Replaces
      <4>3. Override(p).priority \in Int /\ Override(old).priority \in Int
        BY <3>2, <4>1, SeenTypes DEF Inv
      <4> QED BY <1>2, <1>8, <3>2, <4>1, <4>2, <4>3 DEF Beats
    <3>3. Beats(new, new)
      BY <1>1, <1>2 DEF Beats, Precedes
    <3> QED BY <2>2, <3>1, <3>2, <3>3
  <2>3. CASE n = name /\ ~Replaces(old, new)
    <3>1. /\ featureOverrides'[n] = old /\ old # None /\ old \in Position
          /\ Seen(old) /\ Override(old).name = n
          /\ \A p \in Position : Seen(p) /\ Override(p).name = n => Beats(old, p)
      BY <1>3, <2>0, <2>3 DEF Replaces, Inv, LastOfTheStrongest
    <3>2. Beats(old, new)
      <4>1. Override(old).priority \in Int
        BY <3>1, SeenTypes DEF Inv
      <4> QED BY <1>2, <2>3, <4>1 DEF Replaces, Beats
    <3> QED BY <2>3, <3>1, <3>2
  <2> QED BY <2>1, <2>2, <2>3
<1>10. \A n \in Names : featureOverrides'[n] \in Position \cup {None}
  BY <1>3
<1>11. LastOfTheStrongest'
  BY <1>3, <1>5, <1>7, <1>9, <1>10 DEF LastOfTheStrongest, Beats, Precedes
<1> QED BY <1>4, <1>11 DEF Inv

LEMMA Inductive == Inv /\ [Next]_vars => Inv'
<1> SUFFICES ASSUME Inv, [Next]_vars
             PROVE  Inv'
  OBVIOUS
<1>1. CASE UNCHANGED vars
  <2>1. TypeOK' /\ InOrder' /\ Done'
    BY <1>1 DEF vars, Inv, TypeOK, InOrder, Visited, Done
  <2>2. \A p \in Position : Seen(p)' <=> Seen(p)
    BY <1>1 DEF vars, Seen
  <2> QED BY <1>1, <2>1, <2>2, SameSeen DEF vars, Inv
<1> QED BY <1>1, SkipInv, EnterInv, LeaveInv, GetFlagResultsInv, ApplyInv DEF Next

LEMMA Invariance == Spec => []Inv
BY InitInv, Inductive, PTL DEF Spec

-------------------------------------------------------------------------------
THEOREM TypeCorrect == Spec => []TypeOK
<1>1. Inv => TypeOK
  BY DEF Inv
<1> QED BY <1>1, Invariance, PTL

\* The override kept for a name is the last, in the order of segment keys, of
\* those of the strongest priority among the matching segments' overrides.
THEOREM StrongestIsKept == Spec => []LastOfTheStrongest
<1>1. Inv => LastOfTheStrongest
  BY DEF Inv
<1> QED BY <1>1, Invariance, PTL

\* No segment of the project ever outweighs an identity override.
THEOREM IdentityFirst == Spec => []IdentityOverridesWin
<1>1. Inv => IdentityOverridesWin
  <2> SUFFICES ASSUME Inv, flags # None,
                      NEW k \in DOMAIN segments, NEW f \in Features,
                      segments[k].source = "identity_override", segments[k].matches,
                      NEW i \in 1..Len(segments[k].overrides),
                      segments[k].overrides[i].name = f
               PROVE  /\ flags[f] # None
                      /\ segments[flags[f][1]].source = "identity_override"
    BY DEF IdentityOverridesWin
  <2> DEFINE p == <<k, i>>
             q == featureOverrides[f]
  <2>1. segments[k] \in Segment /\ k \in Keys /\ f \in Names
    BY EvaluationAssumption DEF Inv, TypeOK, EvaluationAssumption
  <2>2. p \in Position /\ Override(p).priority = Strongest
    BY <2>1, SegmentTypes, EvaluationAssumption
    DEF Position, Override, EvaluationAssumption
  <2>3. Seen(p) /\ Override(p).name = f /\ flags[f] = q
    BY <2>1, EvaluationAssumption DEF Inv, Done, Seen, Override, EvaluationAssumption
  <2>4. q # None /\ q \in Position /\ Seen(q) /\ Beats(q, p)
    BY <2>1, <2>2, <2>3 DEF Inv, TypeOK, LastOfTheStrongest
  <2>5. q[1] \in DOMAIN segments /\ segments[q[1]] \in Segment
    BY <2>4 DEF Seen, Inv, TypeOK
  <2>6. /\ Override(q).priority \in Int /\ Override(q).priority >= Strongest
        /\ segments[q[1]].source = "identity_override" <=> Override(q).priority = Strongest
    BY <2>4, <2>5, SegmentTypes DEF Override, Seen
  <2> QED BY <2>2, <2>3, <2>4, <2>6 DEF Beats, Strongest
<1> QED BY <1>1, Invariance, PTL

===============================================================================
