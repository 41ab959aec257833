------------------------- MODULE PublishedEnvironment -------------------------
(***************************************************************************)
(* What Client.UpdateEnvironment promises to flag evaluation: the context  *)
(* evaluations read changes only when a call succeeds, in one step, to     *)
(* content the API held no earlier than the beginning of that call, with   *)
(* overrides no older than its features, and with all the pages there are. *)
(***************************************************************************)
EXTENDS Naturals, Sequences

CONSTANTS Callers, MaxVersion, PageCount, None

VARIABLES
  published, \* version of the environment the API holds
  served,    \* what evaluations read
  asked      \* version held when each pending call began; 0: no call pending

vars == <<published, served, asked>>

Init ==
  /\ published = 1
  /\ served = None
  /\ asked = [c \in Callers |-> 0]

Publish ==
  /\ published < MaxVersion
  /\ published' = published + 1
  /\ UNCHANGED <<served, asked>>

Ask(c) ==
  /\ asked[c] = 0
  /\ asked' = [asked EXCEPT ![c] = published]
  /\ UNCHANGED <<published, served>>

\* The last page was also the last page of the version it was answered from.
Whole(overrides) == Len(overrides) >= PageCount[overrides[Len(overrides)]]

\* s was read from the API, overrides after features, not before version oldest, and
\* up to its last page.
ReadSince(s, oldest) ==
  /\ s # None
  /\ s.features \in oldest..published
  /\ s.overrides # <<>>
  /\ \A i \in 1..Len(s.overrides) : s.overrides[i] \in s.features..published
  /\ Whole(s.overrides)

Install(c) ==
  /\ asked[c] # 0
  /\ asked' = [asked EXCEPT ![c] = 0]
  /\ ReadSince(served', asked[c])
  /\ UNCHANGED published

GiveUp(c) ==
  /\ asked[c] # 0
  /\ asked' = [asked EXCEPT ![c] = 0]
  /\ UNCHANGED <<published, served>>

Next == Publish \/ \E c \in Callers : Ask(c) \/ Install(c) \/ GiveUp(c)

Spec == Init /\ [][Next]_vars

===============================================================================
