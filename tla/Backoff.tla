-------------------------------- MODULE Backoff --------------------------------
(***************************************************************************)
(* The retry delay of the realtime worker (backoff.go), in milliseconds.   *)
(* One goroutine owns each backoff; it waits after a failed attempt and    *)
(* resets once the stream answers.                                         *)
(***************************************************************************)
EXTENDS Naturals

CONSTANTS
  InitialBackoff,
  MaxBackoff,
  Jitters,    \* the values time.Now().UnixNano()%1e9 may add
  MaxFailures \* bound on the attempts failing in a row

BackoffAssumption ==
  /\ InitialBackoff \in Nat \ {0}
  /\ MaxBackoff \in Nat
  /\ InitialBackoff <= MaxBackoff
  /\ Jitters \subseteq Nat
  /\ MaxFailures \in Nat

VARIABLES
  current, \* backoff.current
  delay,   \* the duration being waited; 0: not waiting
  failures \* history: waits since the last reset

vars == <<current, delay, failures>>

Init ==
  /\ current = InitialBackoff
  /\ delay = 0
  /\ failures = 0

\* Mutants: no cap; linear growth.
DoubledForever == current * 2

Incremented == IF current < MaxBackoff THEN current + InitialBackoff ELSE current

\* The value next() leaves behind: doubled, but only from below the maximum.
Doubled == IF current < MaxBackoff THEN current * 2 ELSE current

\* wait calls next() while it builds its select, so current moves on even if
\* the context is already done.
Wait ==
  /\ delay = 0
  /\ failures < MaxFailures
  /\ \E jitter \in Jitters : delay' = current + jitter
  /\ current' = Doubled
  /\ failures' = failures + 1

\* The timer fires, or the context is done.
Wake ==
  /\ delay # 0
  /\ delay' = 0
  /\ UNCHANGED <<current, failures>>

Reset ==
  /\ delay = 0
  /\ current' = InitialBackoff
  /\ failures' = 0
  /\ UNCHANGED delay

Next == Wait \/ Wake \/ Reset

Spec == Init /\ [][Next]_vars

-------------------------------------------------------------------------------
TypeOK ==
  /\ current \in Nat
  /\ delay \in Nat
  /\ failures \in 0..MaxFailures

\* current overshoots the maximum by less than a factor of two, however many
\* attempts fail: the doubling stops at the first value not below it.
BoundedOvershoot == current >= InitialBackoff /\ current < 2 * MaxBackoff

\* The n-th wait in a row is at least the initial backoff doubled n-1 times, or
\* the maximum if that is less: no failure is retried sooner than the schedule
\* says, and a reset starts the schedule again from its first value.
NeverSoonerThanSchedule ==
  delay # 0 =>
    delay >= MaxBackoff \/ delay >= InitialBackoff * 2 ^ (failures - 1)

\* backoff.go:30 and TestBackoff ("Backoff should not exceed max").
CappedAtMax == current <= MaxBackoff

===============================================================================
