----------------------------- MODULE BackoffProofs -----------------------------
(***************************************************************************)
(* The backoff for every pair of constants, not only for backoff.go's      *)
(* 200 ms and 30 s: how far it overshoots its maximum, and how soon after  *)
(* a failure the next attempt may come.                                    *)
(***************************************************************************)
EXTENDS Backoff, FiniteSetTheorems, TLAPS

-------------------------------------------------------------------------------
(* Powers of two, as the numbers of subsets of 1..n.                        *)

\* A new element may be in a subset or not.
LEMMA SubsetsWithAndWithout ==
  ASSUME NEW S, NEW x, x \notin S
  PROVE  /\ SUBSET (S \cup {x}) = (SUBSET S) \cup {T \cup {x} : T \in SUBSET S}
         /\ (SUBSET S) \cap {T \cup {x} : T \in SUBSET S} = {}
<1> DEFINE A == SUBSET S
           B == {T \cup {x} : T \in A}
<1>1. ASSUME NEW T \in SUBSET (S \cup {x}), x \in T
      PROVE  T \in B
  <2>1. T \ {x} \in A /\ T = (T \ {x}) \cup {x}
    BY <1>1
  <2> QED BY <2>1
<1>2. \A T \in SUBSET (S \cup {x}) : x \notin T => T \in A
  OBVIOUS
<1>3. A \cup B \subseteq SUBSET (S \cup {x})
  OBVIOUS
<1>4. \A T \in A : x \notin T
  OBVIOUS
<1>5. \A T \in B : x \in T
  OBVIOUS
<1> HIDE DEF A, B
<1>6. SUBSET (S \cup {x}) = A \cup B
  BY <1>1, <1>2, <1>3
<1>7. A \cap B = {}
  BY <1>4, <1>5
<1> QED BY <1>6, <1>7 DEF A, B

LEMMA SubsetsWithOneMore ==
  ASSUME NEW S, NEW x, x \notin S
  PROVE  ExistsBijection(SUBSET S, {T \cup {x} : T \in SUBSET S})
<1> DEFINE A == SUBSET S
           B == {T \cup {x} : T \in A}
           f == [T \in A |-> T \cup {x}]
<1>1. f \in [A -> B] /\ \A U \in B : \E T \in A : f[T] = U
  OBVIOUS
<1>2. ASSUME NEW T \in A, NEW U \in A, f[T] = f[U]
      PROVE  T = U
  <2>1. T \cup {x} = U \cup {x} /\ x \notin T /\ x \notin U
    BY <1>2
  <2>2. \A y : y \in T <=> y \in U
    BY <2>1, Zenon
  <2> QED BY <2>2
<1> HIDE DEF A, B, f
<1>3. f \in Bijection(A, B)
  BY <1>1, <1>2 DEF Bijection, Injection, Surjection, IsInjective
<1> QED BY <1>3 DEF ExistsBijection, A, B

LEMMA SubsetsDouble ==
  ASSUME NEW S, IsFiniteSet(S), NEW x, x \notin S
  PROVE  Cardinality(SUBSET (S \cup {x})) = 2 * Cardinality(SUBSET S)
<1> DEFINE A == SUBSET S
           B == {T \cup {x} : T \in A}
<1>1. SUBSET (S \cup {x}) = A \cup B /\ A \cap B = {}
  BY SubsetsWithAndWithout
<1>2. IsFiniteSet(A)
  BY FS_SUBSET
<1>3. ExistsBijection(A, B)
  BY SubsetsWithOneMore
<1> HIDE DEF A, B
<1>4. IsFiniteSet(B) /\ Cardinality(B) = Cardinality(A)
  BY <1>2, <1>3, FS_Bijection
<1>5. Cardinality(A \cup B) = Cardinality(A) + Cardinality(B) - Cardinality(A \cap B)
  BY <1>2, <1>4, FS_Union
<1>6. Cardinality(A) \in Nat /\ Cardinality(A \cap B) = 0
  BY <1>1, <1>2, FS_CardinalityType, FS_EmptySet
<1>7. Cardinality(A \cup B) = 2 * Cardinality(A)
  BY <1>4, <1>5, <1>6
<1> QED BY <1>1, <1>7 DEF A

LEMMA TwicePower ==
  ASSUME NEW n \in Nat
  PROVE  2 ^ n \in Nat /\ 2 ^ (n + 1) = 2 * 2 ^ n
<1>1. IsFiniteSet(1..n) /\ Cardinality(1..n) = n /\ n + 1 \notin 1..n
  BY FS_Interval
<1>2. IsFiniteSet(1..n \cup {n + 1}) /\ Cardinality(1..n \cup {n + 1}) = n + 1
  BY <1>1, FS_AddElement
<1>3. IsFiniteSet(SUBSET (1..n)) /\ Cardinality(SUBSET (1..n)) = 2 ^ n
  BY <1>1, FS_SUBSET
<1>4. Cardinality(SUBSET (1..n \cup {n + 1})) = 2 ^ (n + 1)
  BY <1>2, FS_SUBSET
<1>5. Cardinality(SUBSET (1..n \cup {n + 1})) = 2 * Cardinality(SUBSET (1..n))
  BY <1>1, SubsetsDouble
<1>6. Cardinality(SUBSET (1..n)) \in Nat
  BY <1>3, FS_CardinalityType
<1> QED BY <1>3, <1>4, <1>5, <1>6, Zenon

-------------------------------------------------------------------------------
(* One failed attempt.                                                      *)

\* At whatever value, it leaves the backoff below twice the maximum: the doubling
\* happens only below the maximum.
LEMMA DoubledStaysBounded ==
  ASSUME BackoffAssumption, current \in Nat, BoundedOvershoot
  PROVE  /\ Doubled \in Nat
         /\ Doubled >= InitialBackoff
         /\ Doubled < 2 * MaxBackoff
BY DEF BackoffAssumption, BoundedOvershoot, Doubled

\* What has been doubled after each of n failures, unless the maximum is reached.
OnSchedule(value, n) == value >= MaxBackoff \/ value >= InitialBackoff * 2 ^ n

LEMMA DoubledStaysOnSchedule ==
  ASSUME BackoffAssumption, current \in Nat, NEW n \in Nat, OnSchedule(current, n)
  PROVE  OnSchedule(Doubled, n + 1)
<1>1. PICK power \in Nat : power = 2 ^ n /\ 2 ^ (n + 1) = 2 * power
  BY TwicePower
<1>2. current >= MaxBackoff \/ current >= InitialBackoff * power
  BY <1>1, Zenon DEF OnSchedule
<1>3. PICK due \in Nat : due = InitialBackoff * power
  BY BackoffAssumption DEF BackoffAssumption
<1>4. InitialBackoff * (2 * power) = 2 * due
  BY <1>3, BackoffAssumption DEF BackoffAssumption
<1>5. Doubled >= MaxBackoff \/ Doubled >= InitialBackoff * (2 * power)
  BY <1>2, <1>3, <1>4, BackoffAssumption DEF BackoffAssumption, Doubled
<1> QED BY <1>1, <1>5, Zenon DEF OnSchedule

-------------------------------------------------------------------------------
\* The schedule is kept by what the waits leave behind, not by the waits alone.
Inv ==
  /\ TypeOK
  /\ BoundedOvershoot
  /\ OnSchedule(current, failures)
  /\ delay # 0 => failures > 0 /\ OnSchedule(delay, failures - 1)

LEMMA StartsOnSchedule == BackoffAssumption => OnSchedule(InitialBackoff, 0)
<1> SUFFICES ASSUME BackoffAssumption
             PROVE  OnSchedule(InitialBackoff, 0)
  OBVIOUS
<1>1. 2 ^ 0 = 1
  <2>1. 2 ^ Cardinality({}) = Cardinality(SUBSET {})
    BY FS_EmptySet, FS_SUBSET
  <2>2. SUBSET {} = {{}}
    OBVIOUS
  <2> QED BY <2>1, <2>2, FS_EmptySet, FS_Singleton
<1>2. InitialBackoff >= InitialBackoff * 1
  BY DEF BackoffAssumption
<1> QED BY <1>1, <1>2, Zenon DEF OnSchedule

LEMMA InitInv == BackoffAssumption /\ Init => Inv
BY StartsOnSchedule DEF BackoffAssumption, Init, Inv, TypeOK, BoundedOvershoot

LEMMA InvInductive == BackoffAssumption /\ Inv /\ [Next]_vars => Inv'
<1> SUFFICES ASSUME BackoffAssumption, Inv, [Next]_vars
             PROVE  Inv'
  OBVIOUS
<1> USE DEF Inv, BackoffAssumption
<1>1. CASE Wait
  <2>1. PICK jitter \in Jitters : delay' = current + jitter
    BY <1>1 DEF Wait
  <2>2. current' = Doubled /\ failures' = failures + 1 /\ failures' \in 0..MaxFailures
    BY <1>1 DEF Wait, TypeOK
  <2>3. TypeOK' /\ BoundedOvershoot'
    BY <2>1, <2>2, DoubledStaysBounded DEF TypeOK, BoundedOvershoot
  <2>4. OnSchedule(current', failures')
    BY <2>2, DoubledStaysOnSchedule DEF TypeOK
  <2>5. OnSchedule(delay', failures)
    <3>1. delay' >= current /\ delay' \in Nat /\ current \in Nat /\ failures \in Nat
      BY <2>1 DEF TypeOK
    <3>2. PICK due \in Nat : due = InitialBackoff * 2 ^ failures
      BY <3>1, TwicePower
    <3>3. current >= MaxBackoff \/ current >= due
      BY <3>2, Zenon DEF OnSchedule
    <3>4. delay' >= MaxBackoff \/ delay' >= due
      BY <3>1, <3>3
    <3> QED BY <3>2, <3>4, Zenon DEF OnSchedule
  <2>6. failures' > 0 /\ failures' - 1 = failures
    BY <2>2 DEF TypeOK
  <2> QED BY <2>3, <2>4, <2>5, <2>6 DEF OnSchedule
<1>2. CASE Wake
  BY <1>2 DEF Wake, TypeOK, BoundedOvershoot, OnSchedule
<1>3. CASE Reset
  <2>1. TypeOK' /\ BoundedOvershoot'
    BY <1>3 DEF Reset, TypeOK, BoundedOvershoot
  <2>2. OnSchedule(current', failures')
    BY <1>3, StartsOnSchedule DEF Reset
  <2>3. delay' = 0
    BY <1>3 DEF Reset
  <2> QED BY <2>1, <2>2, <2>3 DEF OnSchedule
<1>4. CASE UNCHANGED vars
  BY <1>4 DEF vars, TypeOK, BoundedOvershoot, OnSchedule
<1> QED BY <1>1, <1>2, <1>3, <1>4 DEF Next

\* However many attempts fail in a row, and wherever resets come, current is
\* never below the initial backoff nor as much as twice the maximum.
THEOREM OvershootBounded == BackoffAssumption => (Spec => [](TypeOK /\ BoundedOvershoot))
<1> SUFFICES ASSUME BackoffAssumption
             PROVE  Spec => [](TypeOK /\ BoundedOvershoot)
  OBVIOUS
<1>1. Inv => TypeOK /\ BoundedOvershoot
  BY DEF Inv
<1>2. Init => Inv
  BY BackoffAssumption, InitInv
<1>3. Inv /\ [Next]_vars => Inv'
  BY BackoffAssumption, InvInductive
<1> QED BY <1>1, <1>2, <1>3, PTL DEF Spec

\* The delays keep to the doubling schedule, whatever the jitters: no failure is
\* retried sooner than InitialBackoff doubled for each failure before it, or than
\* the maximum.
THEOREM ScheduleKept == BackoffAssumption => (Spec => []NeverSoonerThanSchedule)
<1> SUFFICES ASSUME BackoffAssumption
             PROVE  Spec => []NeverSoonerThanSchedule
  OBVIOUS
<1>1. Inv => NeverSoonerThanSchedule
  BY DEF Inv, OnSchedule, NeverSoonerThanSchedule
<1>2. Init => Inv
  BY BackoffAssumption, InitInv
<1>3. Inv /\ [Next]_vars => Inv'
  BY BackoffAssumption, InvInductive
<1> QED BY <1>1, <1>2, <1>3, PTL DEF Spec

===============================================================================
