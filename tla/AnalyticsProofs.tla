---------------------------- MODULE AnalyticsProofs ----------------------------
(* The accounting of AnalyticsProcessor, for any number of goroutines and   *)
(* features, any interleaving of lookups with flushes, and any failures.    *)
EXTENDS Analytics, TLAPS

\* A flush with a request in flight.
Sending(p) == pc[p] \in {"posting", "counted"}

\* At most one flush is sending, and it holds the mutex: nobody changes the map
\* between the request and the clearing.
MutexHeld == \A p \in Posters : Sending(p) => mu = p

\* The map holds the lookups that no flush has cleared.
Conserved == \A f \in Features : tracked[f] = acked[f] + data[f]

\* The API has counted all that was cleared, and the batch in flight too once
\* it has answered.
Acknowledged ==
  /\ \A f \in Features : received[f] >= acked[f]
  /\ \A p \in Posters : pc[p] = "counted" =>
       \A f \in Features : received[f] >= acked[f] + data[f]

\* Without a lost answer it has counted nothing else.
Exact ==
  lost = 0 =>
    /\ \A p \in Posters : pc[p] = "counted" =>
         \A f \in Features : received[f] = acked[f] + data[f]
    /\ (\A p \in Posters : pc[p] # "counted") =>
         \A f \in Features : received[f] = acked[f]

Inv == TypeOK /\ MutexHeld /\ Conserved /\ Acknowledged /\ Exact

LEMMA NobodyIsNoPoster == Nobody \notin Posters
BY AnalyticsAssumption DEF AnalyticsAssumption, Posters

LEMMA InitInv == Init => Inv
<1> SUFFICES ASSUME Init
             PROVE  Inv
  OBVIOUS
<1>1. \A f \in Features : Zero[f] = 0 /\ Zero \in Counts
  BY DEF Zero, Counts
<1>2. \A p \in Posters : pc[p] = "idle"
  BY DEF Init
<1>3. TypeOK
  BY AnalyticsAssumption DEF AnalyticsAssumption, Init, TypeOK, Counts, Zero, Posters
<1>4. MutexHeld /\ Conserved /\ Acknowledged /\ Exact
  BY <1>1, <1>2 DEF Init, MutexHeld, Sending, Conserved, Acknowledged, Exact
<1> QED BY <1>3, <1>4 DEF Inv

LEMMA TypeInductive == TypeOK /\ [Next]_vars => TypeOK'
<1> SUFFICES ASSUME TypeOK, [Next]_vars
             PROVE  TypeOK'
  OBVIOUS
<1> USE AnalyticsAssumption DEF AnalyticsAssumption, TypeOK, Counts, Posters, store, api
<1>1. CASE CancelContext
  BY <1>1 DEF CancelContext
<1>2. ASSUME NEW t \in Trackers, NEW f \in Features, Look(t, f)
      PROVE  TypeOK'
  BY <1>2 DEF Look
<1>3. ASSUME NEW t \in Trackers, NEW f \in Features, TrackFeature(t, f)
      PROVE  TypeOK'
  BY <1>3 DEF TrackFeature
<1>4. ASSUME NEW p \in Posters, Flush(p) \/ ReturnUnsent(p)
      PROVE  TypeOK'
  BY <1>4 DEF Flush, ReturnUnsent
<1>5. ASSUME NEW p \in Posters, Post(p)
      PROVE  TypeOK'
  BY <1>5 DEF Post
<1>6. ASSUME NEW p \in Posters, Count(p)
      PROVE  TypeOK'
  BY <1>6 DEF Count, Plus
<1>7. ASSUME NEW p \in Posters, LoseAnswer(p) \/ Fail(p)
      PROVE  TypeOK'
  BY <1>7 DEF LoseAnswer, Fail
<1>8. ASSUME NEW p \in Posters, Succeed(p)
      PROVE  TypeOK'
  BY <1>8 DEF Succeed, Plus, Zero
<1>9. CASE Stop
  BY <1>9 DEF Stop
<1>10. CASE UNCHANGED vars
  BY <1>10 DEF vars
<1> QED
  BY <1>1, <1>2, <1>3, <1>4, <1>5, <1>6, <1>7, <1>8, <1>9, <1>10 DEF Next, Exchange

-------------------------------------------------------------------------------
\* Only the holder of the mutex is sending, so a step taken with the mutex free
\* finds no batch in flight, and a step of one sender finds no other.
LEMMA FreeMeansQuiet ==
  ASSUME TypeOK, MutexHeld, mu = Nobody
  PROVE  \A p \in Posters : ~Sending(p)
BY NobodyIsNoPoster DEF MutexHeld

LEMMA OneSender ==
  ASSUME MutexHeld, NEW p \in Posters, Sending(p)
  PROVE  mu = p /\ \A q \in Posters \ {p} : ~Sending(q)
BY DEF MutexHeld

LEMMA Inductive == Inv /\ [Next]_vars => Inv'
<1> SUFFICES ASSUME Inv, [Next]_vars
             PROVE  Inv'
  OBVIOUS
<1> USE DEF Inv
<1>0. TypeOK'
  BY TypeInductive
<1>1. CASE CancelContext \/ Stop \/ UNCHANGED vars
  <2>1. \A p \in Posters : Sending(p)' => Sending(p)
    BY <1>1 DEF CancelContext, Stop, vars, store, Sending, TypeOK
  <2>2. \A p \in Posters : (pc[p] = "counted")' <=> pc[p] = "counted"
    BY <1>1 DEF CancelContext, Stop, vars, store, TypeOK
  <2>3. UNCHANGED <<data, mu, tracked, received, acked, lost>>
    BY <1>1 DEF CancelContext, Stop, vars, store, api
  <2> QED
    BY <1>0, <2>1, <2>2, <2>3 DEF MutexHeld, Conserved, Acknowledged, Exact
<1>2. ASSUME NEW t \in Trackers, NEW f \in Features, Look(t, f)
      PROVE  Inv'
  BY <1>0, <1>2 DEF Look, store, api, Sending, MutexHeld, Conserved, Acknowledged, Exact
<1>3. ASSUME NEW t \in Trackers, NEW f \in Features, TrackFeature(t, f)
      PROVE  Inv'
  <2> USE <1>3 DEF TrackFeature, api
  <2>1. \A p \in Posters : ~Sending(p)
    BY FreeMeansQuiet
  <2>2. MutexHeld' /\ Acknowledged' /\ Exact'
    BY <2>1 DEF Sending, MutexHeld, Acknowledged, Exact
  <2>3. Conserved'
    BY DEF Conserved, TypeOK, Counts
  <2> QED BY <1>0, <2>2, <2>3
<1>4. ASSUME NEW p \in Posters, Flush(p) \/ ReturnUnsent(p)
      PROVE  Inv'
  <2>1. \A q \in Posters : Sending(q)' => Sending(q)
    BY <1>4 DEF Flush, ReturnUnsent, Sending, TypeOK
  <2>2. \A q \in Posters : (pc[q] = "counted")' <=> pc[q] = "counted"
    BY <1>4 DEF Flush, ReturnUnsent, TypeOK
  <2>3. UNCHANGED <<data, mu, tracked, received, acked, lost>>
    BY <1>4 DEF Flush, ReturnUnsent, store, api
  <2> QED
    BY <1>0, <2>1, <2>2, <2>3 DEF MutexHeld, Conserved, Acknowledged, Exact
<1>5. ASSUME NEW p \in Posters, Post(p)
      PROVE  Inv'
  <2> USE <1>5 DEF Post, api
  <2>1. \A q \in Posters : ~Sending(q)
    BY FreeMeansQuiet
  <2>2. MutexHeld'
    BY <2>1 DEF Sending, MutexHeld, TypeOK
  <2>3. \A q \in Posters : (pc[q] = "counted")' <=> pc[q] = "counted"
    BY DEF TypeOK
  <2> QED BY <1>0, <2>2, <2>3 DEF Conserved, Acknowledged, Exact
<1>6. ASSUME NEW p \in Posters, Count(p)
      PROVE  Inv'
  <2> USE <1>6 DEF Count, store
  <2>1. mu = p /\ \A q \in Posters \ {p} : ~Sending(q)
    BY OneSender DEF Sending
  <2>2. MutexHeld'
    BY <2>1 DEF Sending, MutexHeld, TypeOK
  <2>3. Conserved'
    BY DEF Conserved
  <2>4. \A f \in Features : received'[f] = received[f] + data[f]
    BY DEF Plus
  <2>5. pc'[p] = "counted" /\ \A q \in Posters : pc'[q] = "counted" => q = p
    BY <2>1 DEF Sending, TypeOK
  <2>6. \A q \in Posters : pc[q] # "counted"
    BY <2>1 DEF Sending
  <2>7. Acknowledged'
    BY <2>4, <2>5 DEF Acknowledged, TypeOK, Counts
  <2>8. Exact'
    BY <2>4, <2>5, <2>6 DEF Exact, TypeOK, Counts
  <2> QED BY <1>0, <2>2, <2>3, <2>7, <2>8
<1>7. ASSUME NEW p \in Posters, LoseAnswer(p)
      PROVE  Inv'
  <2> USE <1>7 DEF LoseAnswer, store
  <2>1. MutexHeld'
    BY DEF Sending, MutexHeld, TypeOK
  <2>2. \A q \in Posters : (pc[q] = "counted")' => pc[q] = "counted"
    BY DEF TypeOK
  <2>3. Exact'
    BY DEF Exact, TypeOK
  <2> QED BY <1>0, <2>1, <2>2, <2>3 DEF Conserved, Acknowledged
<1>8. ASSUME NEW p \in Posters, Fail(p)
      PROVE  Inv'
  <2> USE <1>8 DEF Fail, api
  <2>1. \A q \in Posters \ {p} : ~Sending(q)
    BY OneSender DEF Sending
  <2>2. MutexHeld'
    BY <2>1 DEF Sending, MutexHeld, TypeOK
  <2>3. \A q \in Posters : (pc[q] = "counted")' <=> pc[q] = "counted"
    BY DEF TypeOK
  <2> QED BY <1>0, <2>2, <2>3 DEF Conserved, Acknowledged, Exact
<1>9. ASSUME NEW p \in Posters, Succeed(p)
      PROVE  Inv'
  <2> USE <1>9 DEF Succeed
  <2>1. \A q \in Posters \ {p} : ~Sending(q)
    BY OneSender DEF Sending
  <2>2. MutexHeld'
    BY <2>1 DEF Sending, MutexHeld, TypeOK
  <2>3. \A f \in Features : data'[f] = 0 /\ acked'[f] = acked[f] + data[f]
    BY DEF Zero, Plus
  <2>4. Conserved'
    BY <2>3 DEF Conserved, TypeOK, Counts
  <2>5. \A q \in Posters : pc'[q] # "counted"
    BY <2>1 DEF Sending, TypeOK
  <2>6. Acknowledged'
    BY <2>3, <2>5 DEF Acknowledged
  <2>7. Exact'
    BY <2>3, <2>5 DEF Exact
  <2> QED BY <1>0, <2>2, <2>4, <2>6, <2>7
<1> QED
  BY <1>1, <1>2, <1>3, <1>4, <1>5, <1>6, <1>7, <1>8, <1>9 DEF Next, Exchange

-------------------------------------------------------------------------------
LEMMA Invariance == Spec => []Inv
BY InitInv, Inductive, PTL DEF Spec

\* Every variable of AnalyticsProcessor keeps its type.
THEOREM TypeCorrect == Spec => []TypeOK
<1>1. Inv => TypeOK
  BY DEF Inv
<1> QED BY <1>1, Invariance, PTL

\* No lookup is lost to a flush: lookups come from any number of goroutines, and
\* flushes fail, are retried and are cancelled in any order.
THEOREM NothingIsLost == Spec => []NothingLost
<1>1. Inv => NothingLost
  <2> SUFFICES ASSUME Inv, NEW f \in Features
               PROVE  received[f] + data[f] >= tracked[f]
    BY DEF NothingLost
  <2>1. {received[f], data[f], tracked[f], acked[f]} \subseteq Nat
    BY DEF Inv, TypeOK, Counts
  <2>2. tracked[f] = acked[f] + data[f] /\ received[f] >= acked[f]
    BY DEF Inv, Conserved, Acknowledged
  <2> QED BY <2>1, <2>2
<1> QED BY <1>1, Invariance, PTL

\* The API counts a lookup twice only if it counted a batch whose answer was
\* lost.
THEOREM OvercountsOnlyByLoss == Spec => []CountedOnceUnlessLost
<1>1. Inv => CountedOnceUnlessLost
  <2> SUFFICES ASSUME Inv, lost = 0, NEW f \in Features
               PROVE  received[f] <= tracked[f]
    BY DEF CountedOnceUnlessLost
  <2>1. {received[f], data[f], tracked[f], acked[f]} \subseteq Nat
    BY DEF Inv, TypeOK, Counts
  <2>2. tracked[f] = acked[f] + data[f]
    BY DEF Inv, Conserved
  <2>3. received[f] \in {acked[f], acked[f] + data[f]}
    BY DEF Inv, Exact
  <2> QED BY <2>1, <2>2, <2>3
<1> QED BY <1>1, Invariance, PTL

===============================================================================
