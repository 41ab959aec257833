------------------------------- MODULE Analytics -------------------------------
(***************************************************************************)
(* AnalyticsProcessor (analytics.go): goroutines that look flags up count  *)
(* them in a shared map, and flushes post the map to the API and clear it. *)
(* One mutex guards the map; a flush holds it across the whole request.    *)
(*                                                                         *)
(* The API is external.  It may count a batch whose answer is lost or is   *)
(* an error, and the HTTP client may then send the same batch again        *)
(* (WithRetries) or the next flush will.                                   *)
(***************************************************************************)
EXTENDS Naturals

CONSTANTS
  Features,
  Trackers,   \* goroutines that look flags up
  Flushers,   \* goroutines that call Flush with a context of their own
  Worker,     \* the goroutine NewAnalyticsProcessor starts
  Nobody,
  MaxTracked, \* bound on the lookups of one feature
  MaxLost     \* bound on the counted batches whose answer does not arrive

ASSUME AnalyticsAssumption ==
  /\ Worker \notin Flushers
  /\ (Flushers \cup {Worker}) \cap Trackers = {}
  /\ Nobody \notin Flushers \cup {Worker}
  /\ MaxTracked \in Nat
  /\ MaxLost \in Nat

Posters == Flushers \cup {Worker}

VARIABLES
  data,     \* store.data; 0 for an absent key
  mu,       \* who holds store.mu across a blocking call
  looking,  \* the feature a tracker is about to count, or Nobody
  pc,       \* where each poster is in Flush
  ctxDone,  \* the context given to NewAnalyticsProcessor is done
  tracked,  \* history: lookups counted, by feature
  received, \* what the API has counted
  acked,    \* history: what flushes have cleared as acknowledged
  lost      \* history: counted batches whose answer did not arrive

store == <<data, mu, tracked>>
api == <<received, acked, lost>>
vars == <<data, mu, looking, pc, ctxDone, tracked, received, acked, lost>>

Zero == [f \in Features |-> 0]

Plus(a, b) == [f \in Features |-> a[f] + b[f]]

-------------------------------------------------------------------------------
Init ==
  /\ data = Zero
  /\ mu = Nobody
  /\ looking = [t \in Trackers |-> Nobody]
  /\ pc = [p \in Posters |-> "idle"]
  /\ ctxDone = FALSE
  /\ tracked = Zero
  /\ received = Zero
  /\ acked = Zero
  /\ lost = 0

CancelContext ==
  /\ ~ctxDone
  /\ ctxDone' = TRUE
  /\ UNCHANGED <<store, looking, pc, api>>

\* Flags.GetFlag finds the feature.
Look(t, f) ==
  /\ looking[t] = Nobody
  /\ tracked[f] < MaxTracked
  /\ looking' = [looking EXCEPT ![t] = f]
  /\ UNCHANGED <<store, pc, ctxDone, api>>

\* TrackFeature: it blocks on nothing while it holds the mutex, so its locked
\* section is one step.
TrackFeature(t, f) ==
  /\ looking[t] = f
  /\ mu = Nobody
  /\ data' = [data EXCEPT ![f] = @ + 1]
  /\ tracked' = [tracked EXCEPT ![f] = @ + 1]
  /\ looking' = [looking EXCEPT ![t] = Nobody]
  /\ UNCHANGED <<mu, pc, ctxDone, api>>

-------------------------------------------------------------------------------
\* The worker's ticker, or a call of Flush.
Flush(p) ==
  /\ pc[p] = "idle"
  /\ pc' = [pc EXCEPT ![p] = "locking"]
  /\ UNCHANGED <<store, looking, ctxDone, api>>

Cancelled(p) == p = Worker /\ ctxDone

\* Nothing to send, or a request that its context refuses to send.
ReturnUnsent(p) ==
  /\ pc[p] = "locking"
  /\ mu = Nobody
  /\ data = Zero \/ Cancelled(p)
  /\ pc' = [pc EXCEPT ![p] = "idle"]
  /\ UNCHANGED <<store, looking, ctxDone, api>>

\* Mutant: the mutex is released before the request.
PostUnlocked(p) ==
  /\ pc[p] = "locking"
  /\ mu = Nobody
  /\ data # Zero
  /\ ~Cancelled(p)
  /\ pc' = [pc EXCEPT ![p] = "posting"]
  /\ UNCHANGED <<store, looking, ctxDone, api>>

Post(p) ==
  /\ pc[p] = "locking"
  /\ mu = Nobody
  /\ data # Zero
  /\ ~Cancelled(p)
  /\ mu' = p
  /\ pc' = [pc EXCEPT ![p] = "posting"]
  /\ UNCHANGED <<data, tracked, looking, ctxDone, api>>

\* The API counts the batch.
Count(p) ==
  /\ pc[p] = "posting"
  /\ ~Cancelled(p)
  /\ received' = Plus(received, data)
  /\ pc' = [pc EXCEPT ![p] = "counted"]
  /\ UNCHANGED <<store, looking, ctxDone, acked, lost>>

\* The answer is lost, an error, or too late for ctx; the HTTP client may retry.
LoseAnswer(p) ==
  /\ pc[p] = "counted"
  /\ lost < MaxLost \/ Cancelled(p)
  /\ lost' = lost + 1
  /\ pc' = [pc EXCEPT ![p] = "posting"]
  /\ UNCHANGED <<store, looking, ctxDone, received, acked>>

\* Mutants: the error return leaves the mutex locked; the map is cleared anyway.
FailLocked(p) ==
  /\ pc[p] = "posting"
  /\ pc' = [pc EXCEPT ![p] = "idle"]
  /\ UNCHANGED <<store, looking, ctxDone, api>>

FailClearing(p) ==
  /\ pc[p] = "posting"
  /\ data' = Zero
  /\ mu' = Nobody
  /\ pc' = [pc EXCEPT ![p] = "idle"]
  /\ UNCHANGED <<tracked, looking, ctxDone, api>>

\* The batch never reaches the API, the retries are used up, or ctx is done:
\* Flush returns the error and the data stays.
Fail(p) ==
  /\ pc[p] = "posting"
  /\ mu' = Nobody
  /\ pc' = [pc EXCEPT ![p] = "idle"]
  /\ UNCHANGED <<data, tracked, looking, ctxDone, api>>

\* Mutants: the map is not cleared; it is replaced by nil.
SucceedKeeping(p) ==
  /\ pc[p] = "counted"
  /\ ~Cancelled(p)
  /\ mu' = Nobody
  /\ pc' = [pc EXCEPT ![p] = "idle"]
  /\ UNCHANGED <<data, tracked, looking, ctxDone, api>>

SucceedNil(p) ==
  /\ pc[p] = "counted"
  /\ ~Cancelled(p)
  /\ data' = [f \in {} |-> 0]
  /\ acked' = Plus(acked, data)
  /\ mu' = Nobody
  /\ pc' = [pc EXCEPT ![p] = "idle"]
  /\ UNCHANGED <<tracked, looking, ctxDone, received, lost>>

Succeed(p) ==
  /\ pc[p] = "counted"
  /\ ~Cancelled(p)
  /\ data' = Zero
  /\ acked' = Plus(acked, data)
  /\ mu' = Nobody
  /\ pc' = [pc EXCEPT ![p] = "idle"]
  /\ UNCHANGED <<tracked, looking, ctxDone, received, lost>>

\* start returns; what is left in the map is not flushed.
Stop ==
  /\ pc[Worker] = "idle"
  /\ ctxDone
  /\ pc' = [pc EXCEPT ![Worker] = "stopped"]
  /\ UNCHANGED <<store, looking, ctxDone, api>>

Exchange(p) == Count(p) \/ LoseAnswer(p) \/ Fail(p) \/ Succeed(p)

Next ==
  \/ CancelContext
  \/ \E t \in Trackers, f \in Features : Look(t, f) \/ TrackFeature(t, f)
  \/ \E p \in Posters : Flush(p) \/ ReturnUnsent(p) \/ Post(p) \/ Exchange(p)
  \/ Stop

\* The mutex starves no waiter and select no ready case (strong fairness); a
\* request ends, since the HTTP client has a timeout and finitely many retries.
Fairness ==
  /\ \A t \in Trackers : \A f \in Features : SF_vars(TrackFeature(t, f))
  /\ \A p \in Posters : SF_vars(ReturnUnsent(p) \/ Post(p)) /\ WF_vars(Exchange(p))
  /\ WF_vars(Flush(Worker))
  /\ SF_vars(Stop)

Spec == Init /\ [][Next]_vars

FairSpec == Spec /\ Fairness

\* The network lets a batch and its answer through now and then.
FairNetworkSpec == FairSpec /\ SF_vars(Count(Worker)) /\ SF_vars(Succeed(Worker))

-------------------------------------------------------------------------------
Counts == [Features -> Nat]

TypeOK ==
  /\ data \in Counts
  /\ mu \in Posters \cup {Nobody}
  /\ looking \in [Trackers -> Features \cup {Nobody}]
  /\ pc \in [Posters -> {"idle", "locking", "posting", "counted", "stopped"}]
  /\ ctxDone \in BOOLEAN
  /\ tracked \in Counts
  /\ received \in Counts
  /\ acked \in Counts
  /\ lost \in Nat

\* Every lookup counted so far has been counted by the API or is still in the
\* map, whatever flushes fail, overlap lookups or are cancelled: a flush clears
\* exactly what the API acknowledged, never what was counted while it waited.
NothingLost == \A f \in Features : received[f] + data[f] >= tracked[f]

\* The API overcounts only when the answer to a batch it counted is lost.
CountedOnceUnlessLost ==
  lost = 0 => \A f \in Features : received[f] <= tracked[f]

\* A lookup that finds a flush in flight waits, but not for good.
LookupsReturn == \A t \in Trackers : looking[t] # Nobody ~> looking[t] = Nobody

\* options.go:83, of the goroutine given ctx: "if it expires the background
\* process will exit".
WorkerStops == ctxDone ~> pc[Worker] = "stopped"

\* Every lookup is acknowledged by the API in the end, unless ctx is done first.
EventuallyReported ==
  \A f \in Features : \A n \in 1..MaxTracked :
    tracked[f] = n ~> ctxDone \/ acked[f] >= n

===============================================================================
