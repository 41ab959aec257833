------------------------- MODULE LocalEvaluationProofs -------------------------
(***************************************************************************)
(* The workers of a Client use its shared state only through               *)
(* UpdateEnvironment, whichever of them NewClient starts, and the realtime *)
(* worker its backoff only as Backoff says, so that what is proved of      *)
(* these holds of the whole.  On them rest the types of all the workers    *)
(* and what a realtime worker promises, alone and beside other callers.    *)
(***************************************************************************)
EXTENDS LocalEvaluation, TLAPS

\* A worker that is not started never runs.
OnlyWorkersRun ==
  /\ "poll" \notin Workers => poll = "off"
  /\ "realtime" \notin Workers => rt = "off"

LEMMA OnlyWorkersRunInductive == OnlyWorkersRun /\ [Next]_vars => OnlyWorkersRun'
<1> SUFFICES ASSUME OnlyWorkersRun, [Next]_vars
             PROVE  OnlyWorkersRun'
  OBVIOUS
<1> USE DEF OnlyWorkersRun, realtime, server
<1>1. CASE Publish \/ CancelContext \/ UNCHANGED vars \/ Server
  BY <1>1
  DEF Publish, CancelContext, vars, Server, Connect, Refuse, Announce, KeepAlive, Drop
<1>2. CASE (\E w \in Workers : Advance(w)) \/ (\E a \in Application : Apply(a))
  BY <1>2 DEF Advance, Apply
<1>3. CASE PollWorker
  BY <1>3 DEF PollWorker, PollBegin, PollReturn, PollStop
<1>4. CASE StarterWorker
  BY <1>4 DEF StarterWorker, StarterBegin, StarterReturn, StartRealtime, RealtimeStop
<1>5. CASE RealtimeWorker
  BY <1>5
  DEF RealtimeWorker, Dial, Retry, ScanEnd, ScanDone, ScanIgnored, ScanNewer, HandleFail,
      HandleStore, LoadStamp
<1> QED BY <1>1, <1>2, <1>3, <1>4, <1>5 DEF Next

LEMMA OnlyWorkersRunAlways == Spec => []OnlyWorkersRun
<1>1. Init => OnlyWorkersRun
  BY DEF Init, OnlyWorkersRun
<1> QED BY <1>1, OnlyWorkersRunInductive, PTL DEF Spec

-------------------------------------------------------------------------------
LEMMA StepIsUpdateStep ==
  OnlyWorkersRun /\ [Next]_vars => [Update!Next]_(Update!vars)
<1> SUFFICES ASSUME OnlyWorkersRun, [Next]_vars
             PROVE  Update!Next \/ UNCHANGED Update!vars
  OBVIOUS
<1> DEFINE Step(c) == c \in Workers \cup Application /\ Update!Call(c)
<1>0. \A c : Step(c) => Update!Next
  BY DEF Update!Next
<1> USE DEF updating, Update!vars, Update!client, OnlyWorkersRun
<1>1. CASE Publish
  BY <1>1 DEF Publish, Update!Next
<1>2. CASE CancelContext \/ UNCHANGED vars
  BY <1>2 DEF CancelContext, vars
<1>3. ASSUME NEW w \in Workers, Advance(w)
      PROVE  Update!Next
  BY <1>0, <1>3 DEF Advance, FetchPage, Update!Call
<1>4. ASSUME NEW a \in Application, Apply(a)
      PROVE  Update!Next
  BY <1>0, <1>4 DEF Apply
<1>5. CASE PollWorker
  <2>1. CASE PollStop
    BY <2>1 DEF PollStop
  <2>2. CASE PollBegin \/ PollReturn
    <3>1. poll # "off"
      BY <2>2 DEF PollBegin, PollReturn
    <3>2. Step("poll")
      BY <2>2, <3>1 DEF PollBegin, PollReturn, Update!Call
    <3> QED BY <1>0, <3>2
  <2> QED BY <1>5, <2>1, <2>2 DEF PollWorker
<1>6. CASE StarterWorker
  <2>1. CASE StartRealtime \/ RealtimeStop
    BY <2>1 DEF StartRealtime, RealtimeStop
  <2>2. CASE StarterBegin \/ StarterReturn
    <3>1. rt # "off"
      BY <2>2 DEF StarterBegin, StarterReturn
    <3>2. Step("realtime")
      BY <2>2, <3>1 DEF StarterBegin, StarterReturn, Update!Call
    <3> QED BY <1>0, <3>2
  <2> QED BY <1>6, <2>1, <2>2 DEF StarterWorker
<1>7. CASE RealtimeWorker
  <2>1. CASE Dial \/ Retry \/ ScanEnd \/ ScanDone \/ ScanIgnored \/ LoadStamp
    BY <2>1 DEF Dial, Retry, ScanEnd, ScanDone, ScanIgnored, LoadStamp
  <2>2. CASE ScanNewer \/ HandleFail \/ HandleStore
    <3>1. rt # "off"
      BY <2>2 DEF ScanNewer, HandleFail, HandleStore
    <3>2. Step("realtime")
      BY <2>2, <3>1 DEF ScanNewer, HandleFail, HandleStore, Update!Call
    <3> QED BY <1>0, <3>2
  <2> QED BY <1>7, <2>1, <2>2 DEF RealtimeWorker
<1>8. CASE Server
  BY <1>8 DEF Server, Connect, Refuse, Announce, KeepAlive, Drop
<1> QED BY <1>1, <1>2, <1>3, <1>4, <1>5, <1>6, <1>7, <1>8 DEF Next

\* Whatever the workers and the application do, seen through the variables of
\* UpdateEnvironment it is concurrent calls of it and nothing else.
THEOREM ComposesUpdates == Spec => Update!Spec
<1>1. Init => Update!Init
  BY DEF Init
<1> QED BY <1>1, StepIsUpdateStep, OnlyWorkersRunAlways, PTL DEF Spec, Update!Spec

-------------------------------------------------------------------------------
(* What is proved of UpdateEnvironment, carried over to its callers here.   *)

Proved == INSTANCE UpdateEnvironmentProofs WITH Callers <- Workers \cup Application

LEMMA ProvedOfUpdates == Update!Spec => []Proved!Inv
<1>1. Proved!UpdateAssumption
  BY LocalEvaluationAssumption DEF Update!UpdateAssumption, Update!Versions, Update!Document, Update!Context,
         Proved!UpdateAssumption, Proved!Versions, Proved!Document, Proved!Context
<1>2. Update!Init => Proved!Init
  BY DEF Update!Init, Proved!Init
<1>3. [Update!Next]_(Update!vars) => [Proved!Next]_(Proved!vars)
  BY DEF Update!Next, Update!vars, Update!client, Update!Call, Update!Publish, Update!Begin,
         Update!FetchPage, Update!WithPage, Update!HasNextPage, Update!Fail,
         Update!StoreEnvironment, Update!StoreContext, Update!Storing, Update!ContextOf,
         Proved!Next, Proved!vars, Proved!client, Proved!Call, Proved!Publish, Proved!Begin,
         Proved!FetchPage, Proved!WithPage, Proved!HasNextPage, Proved!Fail,
         Proved!StoreEnvironment, Proved!StoreContext, Proved!Storing, Proved!ContextOf
<1>4. Proved!Spec => []Proved!Inv
  BY <1>1, Proved!Invariance
<1> QED BY <1>2, <1>3, <1>4, PTL DEF Update!Spec, Proved!Spec

LEMMA UpdatesProved == Spec => []Proved!Inv
BY ComposesUpdates, ProvedOfUpdates, PTL

-------------------------------------------------------------------------------
(* The backoff, in the same way.                                            *)

BackoffProved == INSTANCE BackoffProofs WITH MaxFailures <- MaxBreaks + 1

LEMMA StepIsBackoffStep == [Next]_vars => [Reconnect!Next]_(Reconnect!vars)
<1> SUFFICES ASSUME [Next]_vars
             PROVE  Reconnect!Next \/ UNCHANGED Reconnect!vars
  OBVIOUS
<1> USE DEF realtime, retry, Reconnect!Next, Reconnect!vars
<1>1. CASE Publish \/ CancelContext \/ UNCHANGED vars
  BY <1>1 DEF Publish, CancelContext, vars
<1>2. CASE (\E w \in Workers : Advance(w)) \/ (\E a \in Application : Apply(a))
  BY <1>2 DEF Advance, Apply
<1>3. CASE PollWorker
  BY <1>3 DEF PollWorker, PollBegin, PollReturn, PollStop
<1>4. CASE StarterWorker
  BY <1>4 DEF StarterWorker, StarterBegin, StarterReturn, StartRealtime, RealtimeStop
<1>5. CASE RealtimeWorker
  BY <1>5
  DEF RealtimeWorker, Dial, Retry, ScanEnd, ScanDone, ScanIgnored, ScanNewer, HandleFail,
      HandleStore, LoadStamp
<1>6. CASE Server
  BY <1>6 DEF Server, Connect, Refuse, Announce, KeepAlive, Drop
<1> QED BY <1>1, <1>2, <1>3, <1>4, <1>5, <1>6 DEF Next

\* Seen through its own variables, realtime.backoff is waited on and reset as
\* Backoff says, whatever the server, the stream and ctx do.
THEOREM ComposesBackoff == Spec => Reconnect!Spec
<1>1. Init => Reconnect!Init
  BY DEF Init
<1> QED BY <1>1, StepIsBackoffStep, PTL DEF Spec, Reconnect!Spec

LEMMA BackoffInvariants ==
  Spec => [](/\ Reconnect!TypeOK
             /\ Reconnect!BoundedOvershoot
             /\ Reconnect!NeverSoonerThanSchedule)
<1>1. BackoffProved!BackoffAssumption
  BY LocalEvaluationAssumption
  DEF LocalEvaluationAssumption, Reconnect!BackoffAssumption, BackoffProved!BackoffAssumption
<1>2. Reconnect!Init => BackoffProved!Init
  BY DEF Reconnect!Init, BackoffProved!Init
<1>3. [Reconnect!Next]_(Reconnect!vars) => [BackoffProved!Next]_(BackoffProved!vars)
  BY DEF Reconnect!Next, Reconnect!vars, Reconnect!Wait, Reconnect!Wake, Reconnect!Reset,
         Reconnect!Doubled, BackoffProved!Next, BackoffProved!vars, BackoffProved!Wait,
         BackoffProved!Wake, BackoffProved!Reset, BackoffProved!Doubled
<1>4. /\ BackoffProved!Spec => [](BackoffProved!TypeOK /\ BackoffProved!BoundedOvershoot)
      /\ BackoffProved!Spec => []BackoffProved!NeverSoonerThanSchedule
  BY <1>1, BackoffProved!OvershootBounded, BackoffProved!ScheduleKept
<1>5. BackoffProved!TypeOK /\ BackoffProved!BoundedOvershoot
        => Reconnect!TypeOK /\ Reconnect!BoundedOvershoot
  BY DEF Reconnect!TypeOK, Reconnect!BoundedOvershoot,
         BackoffProved!TypeOK, BackoffProved!BoundedOvershoot
<1>6. BackoffProved!NeverSoonerThanSchedule => Reconnect!NeverSoonerThanSchedule
  BY Zenon DEF Reconnect!NeverSoonerThanSchedule, BackoffProved!NeverSoonerThanSchedule
<1> QED BY <1>2, <1>3, <1>4, <1>5, <1>6, ComposesBackoff, PTL
    DEF Reconnect!Spec, BackoffProved!Spec

\* However the stream breaks, is refused and is opened again, the backoff of the
\* realtime worker overshoots its maximum by less than a factor of two.
THEOREM ReconnectsWithinBounds == Spec => []BoundedOvershoot
BY BackoffInvariants, PTL DEF BoundedOvershoot

\* Nor does it ever try again sooner than the doubling schedule says: only an
\* answer of the server starts the schedule again.
THEOREM ReconnectsOnSchedule == Spec => []NeverSoonerThanSchedule
BY BackoffInvariants, PTL DEF NeverSoonerThanSchedule

-------------------------------------------------------------------------------
\* The variables that are neither UpdateEnvironment's nor Backoff's.
WorkerTypes ==
  /\ ctxDone \in BOOLEAN
  /\ poll \in {"off", "start", "updating", "waiting", "stopped"}
  /\ rt \in {"off", "start", "updating", "checking", "connecting", "dialing", "backoff",
             "scanning", "handling", "loading", "stopped"}
  /\ {envUpdatedAt, event, handled} \subseteq Versions \cup {0}
  /\ stream \in Seq(Versions \cup {0})
  /\ open \in BOOLEAN
  /\ announced \in Versions
  /\ breaks \in 0..MaxBreaks

\* realtime.start runs only once an environment is stored.
Started ==
  rt \in {"connecting", "dialing", "backoff", "scanning", "handling", "loading"}
    => environment # None

LEMMA SharedTypes ==
  ASSUME Proved!Inv
  PROVE  /\ Update!TypeOK
         /\ published \in Versions
         /\ environment # None => environment.updatedAt \in Versions
BY DEF Proved!Inv, Proved!TypeOK, Proved!Document, Proved!Context, Proved!Versions,
       Update!TypeOK, Update!Document, Update!Context, Update!Versions, Versions

\* No call ever empties Client.environment.
LEMMA StaysStored ==
  ASSUME Proved!Inv, [Update!Next]_(Update!vars), environment # None
  PROVE  environment' # None
<1>1. ASSUME NEW c \in Workers \cup Application, Update!Call(c)
      PROVE  environment' # None
  BY <1>1 DEF Proved!Inv, Proved!HasDocument, Update!Call, Update!Begin, Update!FetchPage,
     Update!Fail, Update!StoreEnvironment, Update!StoreContext, Update!client
<1> QED BY <1>1 DEF Update!Next, Update!Publish, Update!vars, Update!client

LEMMA WorkerTypesInductive ==
  ASSUME WorkerTypes, Started, Proved!Inv, [Next]_vars, [Update!Next]_(Update!vars)
  PROVE  WorkerTypes' /\ Started'
<1> USE LocalEvaluationAssumption DEF LocalEvaluationAssumption, WorkerTypes, Started,
        realtime, server, updating
<1>0. environment # None => environment' # None
  BY StaysStored
<1>7. <<>> \in Seq(Versions \cup {0}) /\ <<0>> \in Seq(Versions \cup {0})
  OBVIOUS
<1>1. CASE Publish \/ CancelContext \/ UNCHANGED vars
  <2>1. UNCHANGED <<poll, realtime, server>> /\ (ctxDone' = ctxDone \/ ctxDone' = TRUE)
    BY <1>1 DEF Publish, CancelContext, vars
  <2> QED BY <1>0, <2>1
<1>2. CASE (\E w \in Workers : Advance(w)) \/ (\E a \in Application : Apply(a))
  BY <1>0, <1>2 DEF Advance, Apply
<1>3. CASE PollWorker
  BY <1>0, <1>3 DEF PollWorker, PollBegin, PollReturn, PollStop
<1>4. CASE StarterWorker
  BY <1>0, <1>4, SharedTypes
  DEF StarterWorker, StarterBegin, StarterReturn, StartRealtime, RealtimeStop
<1>5. CASE RealtimeWorker
  <2>1. CASE Dial \/ Retry \/ ScanEnd
    BY <1>0, <2>1 DEF Dial, Retry, ScanEnd
  <2>5. CASE ScanDone
    BY <1>0, <1>7, <2>5 DEF ScanDone
  <2>4. CASE HandleFail \/ HandleStore
    BY <1>0, <2>4 DEF HandleFail, HandleStore
  <2>2. CASE ScanIgnored \/ ScanNewer
    <3>1. Head(stream) \in Versions \cup {0} /\ Tail(stream) \in Seq(Versions \cup {0})
      BY <2>2 DEF ScanIgnored, ScanNewer
    <3>2. CASE ScanIgnored
      BY <1>0, <3>1, <3>2 DEF ScanIgnored, Later
    <3>3. CASE ScanNewer
      BY <1>0, <3>1, <3>3 DEF ScanNewer
    <3> QED BY <2>2, <3>2, <3>3
  <2>3. CASE LoadStamp
    BY <1>0, <2>3, SharedTypes DEF LoadStamp, Later
  <2> QED BY <1>5, <2>1, <2>2, <2>3, <2>4, <2>5 DEF RealtimeWorker
<1>6. CASE Server
  <2>1. CASE Connect \/ KeepAlive
    BY <1>0, <1>7, <2>1 DEF Connect, KeepAlive
  <2>3. CASE Refuse
    BY <1>0, <2>3 DEF Refuse
  <2>4. CASE Drop
    <3>1. stream' \in Seq(Versions \cup {0})
      BY <1>7, <2>4 DEF Drop
    <3>2. breaks' \in 0..MaxBreaks
      BY <2>4 DEF Drop
    <3>4. open' \in BOOLEAN
      BY <2>4, Zenon DEF Drop
    <3>3. UNCHANGED <<ctxDone, poll, rt, envUpdatedAt, event, handled, announced>>
      BY <2>4 DEF Drop
    <3> QED BY <1>0, <3>1, <3>2, <3>3, <3>4
  <2>2. CASE Announce
    <3>1. announced' \in Versions
      BY <2>2, SharedTypes DEF Announce, Versions, Update!UpdateAssumption
    <3>2. Append(stream, announced') \in Seq(Versions \cup {0})
      BY <3>1
    <3> QED BY <1>0, <2>2, <3>1, <3>2 DEF Announce
  <2> QED BY <1>6, <2>1, <2>2, <2>3, <2>4 DEF Server
<1> QED BY <1>1, <1>2, <1>3, <1>4, <1>5, <1>6 DEF Next

LEMMA WorkerTypesAlways == Spec => [](WorkerTypes /\ Started)
<1>0. 1 \in Versions /\ 0 \in 0..MaxBreaks /\ <<>> \in Seq(Versions \cup {0})
  BY LocalEvaluationAssumption
  DEF LocalEvaluationAssumption, Update!UpdateAssumption, Versions
<1>1. Init => WorkerTypes /\ Started
  BY <1>0 DEF Init, WorkerTypes, Started
<1>2. WorkerTypes /\ Started /\ Proved!Inv /\ [Next]_vars /\ [Update!Next]_(Update!vars)
        => (WorkerTypes /\ Started)'
  BY WorkerTypesInductive
<1> QED BY <1>1, <1>2, UpdatesProved, StepIsUpdateStep, OnlyWorkersRunAlways, PTL DEF Spec

\* Every variable keeps its type, whichever workers run: realtime loads the stamp
\* of a document that is there.
THEOREM TypeCorrect == Spec => []TypeOK
<1>1. Proved!Inv /\ WorkerTypes /\ Reconnect!TypeOK => TypeOK
  BY SharedTypes DEF WorkerTypes, TypeOK
<1> QED BY <1>1, UpdatesProved, WorkerTypesAlways, BackoffInvariants, PTL

-------------------------------------------------------------------------------
(* The realtime worker when it is the only caller of UpdateEnvironment: no  *)
(* event it has handled is ever undone by what it stores later.             *)

Alone == Workers = {"realtime"} /\ Application = {}

\* Stamps come from the past, and from before the call that is under way.
Past ==
  /\ announced <= published
  /\ \A i \in 1..Len(stream) : stream[i] <= announced
  /\ envUpdatedAt <= published /\ event <= published /\ handled <= published
  /\ pc["realtime"] # "idle" =>
       /\ envUpdatedAt <= began["realtime"]
       /\ event <= began["realtime"]
       /\ handled <= began["realtime"]

\* The worker is in UpdateEnvironment, or has left both stores in agreement.
Calling ==
  /\ poll = "off"
  /\ pc["realtime"] # "idle" <=> rt \in {"updating", "handling"}
  /\ mixed = FALSE

Served ==
  /\ envUpdatedAt > 0 => Covers(envUpdatedAt)
  /\ handled > 0 => Covers(handled)
  /\ rt \in {"handling", "loading"} => event > 0
  /\ rt = "loading" => Covers(event)

AloneInv == Alone /\ Calling /\ Past /\ Served

Known == TypeOK /\ Started /\ Proved!Inv

-------------------------------------------------------------------------------
LEMMA KnownTypes ==
  ASSUME Known
  PROVE  /\ published \in Nat /\ announced \in Nat
         /\ envUpdatedAt \in Nat /\ event \in Nat /\ handled \in Nat
         /\ stream \in Seq(Versions \cup {0})
         /\ pc \in [Workers \cup Application ->
                      {"idle", "fetch", "storeEnvironment", "storeContext"}]
         /\ began \in [Workers \cup Application -> Versions]
         /\ \A c \in Workers \cup Application : began[c] \in Nat
<1>1. Versions \subseteq Nat /\ Update!Versions = Versions
  BY DEF Versions, Update!Versions
<1>2. Update!TypeOK /\ TypeOK
  BY DEF Known, TypeOK
<1>3. /\ published \in Nat
      /\ pc \in [Workers \cup Application ->
                   {"idle", "fetch", "storeEnvironment", "storeContext"}]
      /\ began \in [Workers \cup Application -> Versions]
  BY <1>1, <1>2 DEF Update!TypeOK
<1>4. /\ announced \in Versions
      /\ {envUpdatedAt, event, handled} \subseteq Versions \cup {0}
      /\ stream \in Seq(Versions \cup {0})
  BY <1>2 DEF TypeOK
<1>6. Versions \cup {0} \subseteq Nat
  BY <1>1
<1>5. announced \in Nat /\ envUpdatedAt \in Nat /\ event \in Nat /\ handled \in Nat
  BY ONLY <1>4, <1>6, Zenon
<1> QED BY <1>1, <1>3, <1>4, <1>5

LEMMA Elements == ASSUME NEW S, NEW s \in Seq(S)
                  PROVE  \A i \in 1..Len(s) : s[i] \in S
OBVIOUS

LEMMA CoversEarlier ==
  ASSUME Known, NEW m \in Nat, NEW n \in Nat, m <= n, Covers(n)
  PROVE  Covers(m)
<1>1. context \in Update!Context
  BY DEF Known, TypeOK, Update!TypeOK, Covers
<1>2. context.features \in 1..MaxVersion /\ context.overrides \in Seq(1..MaxVersion)
  BY <1>1 DEF Update!Context, Update!Versions
<1>3. \A i \in 1..Len(context.overrides) : context.overrides[i] \in 1..MaxVersion
  BY <1>2, Elements
<1> QED BY <1>2, <1>3 DEF Covers

\* A call installs a context no older than its beginning.
LEMMA StoreCovers ==
  ASSUME Known, NEW c \in Workers \cup Application, Update!StoreContext(c),
         NEW n \in Nat, n <= began[c]
  PROVE  Covers(n)'
<1>1. /\ doc[c] # None
      /\ Proved!ConservativeStamp(doc[c])
      /\ began[c] <= doc[c].updatedAt
  BY DEF Known, Proved!Inv, Proved!HasDocument, Proved!Fresh, Proved!StampIsConservative,
         Update!StoreContext, Update!Storing
<1>2. /\ doc[c] \in Update!Document
      /\ context' = [features |-> doc[c].features, overrides |-> doc[c].overrides]
      /\ context' # None
  BY <1>1, LocalEvaluationAssumption
  DEF Known, TypeOK, Update!TypeOK, Update!StoreContext, Update!ContextOf, Update!Document,
      Update!Context, LocalEvaluationAssumption, Update!UpdateAssumption
<1>3. began[c] \in Nat
  BY KnownTypes
<1> QED BY <1>1, <1>2, <1>3 DEF Covers, Proved!ConservativeStamp, Update!Document, Update!Versions

\* Between calls, evaluations read the very document realtime takes its stamp from.
LEMMA StampCovered ==
  ASSUME Known, Alone, Calling, pc["realtime"] = "idle", environment # None
  PROVE  /\ Covers(environment.updatedAt)
         /\ environment.updatedAt <= published
<1>1. /\ environment \in Update!Document
      /\ Proved!ConservativeStamp(environment)
  BY DEF Known, TypeOK, Update!TypeOK, Proved!Inv, Proved!StampIsConservative
<1>2. context = [features |-> environment.features, overrides |-> environment.overrides]
  BY DEF Known, Alone, Calling, Proved!Inv, Proved!AgreeUnlessMixed, Proved!Storing,
         Proved!ContextOf
<1>3. context # None
  BY <1>1, <1>2, LocalEvaluationAssumption
  DEF Update!Document, Update!Context, LocalEvaluationAssumption, Update!UpdateAssumption
<1> QED BY <1>1, <1>2, <1>3, KnownTypes, SMTT(30)
    DEF Covers, Proved!ConservativeStamp, Update!Document, Update!Versions

-------------------------------------------------------------------------------
\* A step of the worker, or of its surroundings, that changes neither the shared
\* stores nor the stamps.
LEMMA QuietStep ==
  ASSUME Known, AloneInv, UNCHANGED <<updating, poll, envUpdatedAt, event, handled>>,
         rt' \notin {"handling", "loading"},
         rt' = "updating" <=> rt \in {"updating", "handling"},
         announced' <= published,
         \A i \in 1..Len(stream') : stream'[i] <= announced'
  PROVE  AloneInv'
BY DEF AloneInv, Alone, Calling, Past, Served, Covers, updating

\* UpdateEnvironment is entered, with stamps from before.
LEMMA EnterStep ==
  ASSUME Known, AloneInv, Update!Begin("realtime"), rt' \in {"updating", "handling"},
         rt' = "handling" => event' > 0,
         UNCHANGED <<poll, envUpdatedAt, handled, announced>>, event' <= published,
         \A i \in 1..Len(stream') : stream'[i] <= announced'
  PROVE  AloneInv'
<1>1. /\ pc'["realtime"] # "idle"
      /\ began'["realtime"] = published
      /\ UNCHANGED <<published, environment, context, mixed>>
  BY KnownTypes DEF AloneInv, Alone, Update!Begin, Update!client
<1> QED BY <1>1 DEF AloneInv, Alone, Calling, Past, Served, Covers

\* UpdateEnvironment is left with an error.
LEMMA FailStep ==
  ASSUME Known, AloneInv, Update!Fail("realtime"), rt' \notin {"updating", "handling", "loading"},
         UNCHANGED <<poll, envUpdatedAt, handled, announced, stream>>, event' \in {event, 0}
  PROVE  AloneInv'
<1>1. /\ pc'["realtime"] = "idle"
      /\ UNCHANGED <<published, environment, context, mixed>>
  BY KnownTypes DEF AloneInv, Alone, Update!Fail, Update!client
<1> QED BY <1>1, KnownTypes DEF AloneInv, Alone, Calling, Past, Served, Covers

\* UpdateEnvironment is left with both stores made.
LEMMA StoreStep ==
  ASSUME Known, AloneInv, Update!StoreContext("realtime"), rt' \notin {"updating", "handling"},
         rt' = "loading" => event > 0,
         UNCHANGED <<poll, envUpdatedAt, event, handled, announced, stream>>
  PROVE  AloneInv'
<1>1. /\ pc["realtime"] # "idle"
      /\ pc'["realtime"] = "idle"
      /\ UNCHANGED <<published, mixed>>
  BY KnownTypes DEF AloneInv, Alone, Update!StoreContext, Update!Storing
<1>2. Covers(envUpdatedAt)' /\ Covers(event)' /\ Covers(handled)'
  <2>1. \A n \in Nat : n <= began["realtime"] => (Covers(n))'
    BY StoreCovers DEF AloneInv, Alone
  <2> QED BY <1>1, <2>1, KnownTypes DEF AloneInv, Past, Covers
<1> QED BY <1>1, <1>2, KnownTypes DEF AloneInv, Alone, Calling, Past, Served

-------------------------------------------------------------------------------
LEMMA PublishInv == Known /\ AloneInv /\ Publish => AloneInv'
<1> SUFFICES ASSUME Known, AloneInv, Publish
             PROVE  AloneInv'
  OBVIOUS
<1>1. /\ published' = published + 1
      /\ UNCHANGED <<environment, context, pc, doc, began, mixed, poll, rt, envUpdatedAt,
                     event, handled, stream, announced>>
  BY DEF Publish, Update!Publish, Update!client, realtime, server
<1>2. Past'
  BY <1>1, KnownTypes DEF AloneInv, Past
<1>3. Calling' /\ Served'
  BY <1>1 DEF AloneInv, Calling, Served, Covers
<1> QED BY <1>2, <1>3 DEF AloneInv, Alone

LEMMA AdvanceInv == ASSUME Known, AloneInv, NEW w \in Workers, Advance(w)
                    PROVE  AloneInv'
<1>1. w = "realtime"
  BY DEF AloneInv, Alone
<1>2. /\ UNCHANGED <<published, context, began, poll, rt, envUpdatedAt, event, handled,
                     stream, announced>>
      /\ pc["realtime"] # "idle" /\ pc'["realtime"] # "idle"
      /\ mixed' = FALSE
  <2>1. CASE Update!FetchPage(w)
    BY <1>1, <2>1, KnownTypes DEF Advance, Update!FetchPage, Update!client, realtime, server,
       AloneInv, Calling
  <2>2. CASE Update!StoreEnvironment(w)
    BY <1>1, <2>2, KnownTypes
    DEF Advance, Update!StoreEnvironment, Update!Storing, realtime, server, AloneInv, Alone
  <2> QED BY <2>1, <2>2 DEF Advance, FetchPage
<1> QED BY <1>2 DEF AloneInv, Alone, Calling, Past, Served, Covers

LEMMA StarterInv == Known /\ AloneInv /\ StarterWorker => AloneInv'
<1> SUFFICES ASSUME Known, AloneInv, StarterWorker
             PROVE  AloneInv'
  OBVIOUS
<1>1. CASE StarterBegin
  BY <1>1, EnterStep DEF StarterBegin, server, AloneInv, Past
<1>2. CASE StarterReturn
  BY <1>2, FailStep, StoreStep DEF StarterReturn, server
<1>3. CASE RealtimeStop
  BY <1>3, QuietStep DEF RealtimeStop, server, AloneInv, Past
<1>4. CASE StartRealtime
  <2>1. pc["realtime"] = "idle" /\ environment # None
    BY <1>4 DEF StartRealtime, AloneInv, Calling
  <2>2. Covers(environment.updatedAt) /\ environment.updatedAt <= published
    BY <2>1, StampCovered DEF AloneInv
  <2> QED BY <1>4, <2>1, <2>2
      DEF StartRealtime, AloneInv, Alone, Calling, Past, Served, Covers, updating, server
<1> QED BY <1>1, <1>2, <1>3, <1>4 DEF StarterWorker

LEMMA RealtimeInv == Known /\ AloneInv /\ RealtimeWorker => AloneInv'
<1> SUFFICES ASSUME Known, AloneInv, RealtimeWorker
             PROVE  AloneInv'
  OBVIOUS
<1>1. CASE Dial \/ Retry \/ ScanEnd
  BY <1>1, QuietStep DEF Dial, Retry, ScanEnd, server, AloneInv, Past
<1>2. CASE ScanDone
  BY <1>2, QuietStep DEF ScanDone, server, AloneInv, Past
<1>3. ASSUME stream # <<>>, stream' = Tail(stream)
      PROVE  /\ Head(stream) \in Nat /\ Head(stream) <= announced
             /\ \A i \in 1..Len(stream') : stream'[i] <= announced
  BY <1>3, KnownTypes DEF AloneInv, Past, Versions
<1>4. CASE ScanIgnored
  <2>1. /\ handled' = Later(Head(stream), handled)
        /\ Head(stream) <= envUpdatedAt
        /\ rt = "scanning"
        /\ UNCHANGED <<updating, poll, rt, envUpdatedAt, event, announced>>
    BY <1>4 DEF ScanIgnored
  <2>2. /\ Head(stream) \in Nat
        /\ \A i \in 1..Len(stream') : stream'[i] <= announced
    BY <1>3, <1>4 DEF ScanIgnored
  <2>3. handled' > 0 => Covers(handled')
    <3>1. Head(stream) > 0 => Covers(Head(stream))
      BY <2>1, <2>2, KnownTypes, CoversEarlier DEF AloneInv, Served
    <3> QED BY <2>1, <2>2, <3>1, KnownTypes DEF AloneInv, Served, Later
  <2>4. handled' <= published
    BY <2>1, <2>2, KnownTypes DEF AloneInv, Past, Later
  <2> QED BY <2>1, <2>2, <2>3, <2>4
      DEF AloneInv, Alone, Calling, Past, Served, Covers, updating
<1>5. CASE ScanNewer
  <2>1. event' > 0 /\ event' <= published /\ \A i \in 1..Len(stream') : stream'[i] <= announced
    BY <1>3, <1>5, KnownTypes DEF ScanNewer, AloneInv, Past
  <2> QED BY <1>5, <2>1, EnterStep DEF ScanNewer
<1>6. CASE HandleFail
  BY <1>6, FailStep DEF HandleFail, server
<1>7. CASE HandleStore
  BY <1>7, StoreStep DEF HandleStore, server, AloneInv, Served
<1>8. CASE LoadStamp
  <2>1. pc["realtime"] = "idle" /\ environment # None /\ event > 0 /\ Covers(event)
    BY <1>8 DEF LoadStamp, AloneInv, Calling, Served, Known, Started
  <2>2. Covers(environment.updatedAt) /\ environment.updatedAt <= published
    BY <2>1, StampCovered DEF AloneInv
  <2> QED BY <1>8, <2>1, <2>2, KnownTypes
      DEF LoadStamp, Later, AloneInv, Alone, Calling, Past, Served, Covers, updating, server
<1> QED BY <1>1, <1>2, <1>4, <1>5, <1>6, <1>7, <1>8 DEF RealtimeWorker

LEMMA ServerInv == Known /\ AloneInv /\ Server => AloneInv'
<1> SUFFICES ASSUME Known, AloneInv, Server
             PROVE  AloneInv'
  OBVIOUS
<1>5. ASSUME UNCHANGED <<updating, poll, realtime, announced>>,
             \A i \in 1..Len(stream') : stream'[i] <= announced
      PROVE  AloneInv'
  BY <1>5 DEF updating, realtime, AloneInv, Alone, Calling, Past, Served, Covers
<1>1. CASE Connect
  <2>1. \A i \in 1..Len(stream') : stream'[i] <= announced
    BY <1>1 DEF Connect
  <2> QED BY <1>1, <2>1, QuietStep DEF Connect, AloneInv, Past
<1>6. CASE KeepAlive
  <2>1. \A i \in 1..Len(stream') : stream'[i] <= announced
    BY <1>6, KnownTypes DEF KeepAlive
  <2> QED BY <1>5, <1>6, <2>1 DEF KeepAlive
<1>2. CASE Refuse
  BY <1>2, QuietStep DEF Refuse, AloneInv, Past, Served
<1>3. CASE Drop
  <2>1. \A i \in 1..Len(stream') : stream'[i] <= announced
    <3>1. stream' = stream \/ stream' = <<>>
      BY <1>3 DEF Drop
    <3> QED BY <3>1 DEF AloneInv, Past
  <2> QED BY <1>3, <1>5, <2>1 DEF Drop
<1>4. CASE Announce
  <2>1. /\ announced' = announced + 1 /\ announced' <= published
        /\ stream' = Append(stream, announced') \/ stream' = stream
        /\ UNCHANGED <<updating, poll, realtime>>
    BY <1>4, KnownTypes DEF Announce
  <2>2. \A i \in 1..Len(stream) : stream[i] <= announced'
    <3>1. \A i \in 1..Len(stream) : stream[i] \in Versions \cup {0}
      BY KnownTypes, Elements
    <3> QED BY <2>1, <3>1, KnownTypes DEF Versions, AloneInv, Past
  <2>3. \A i \in 1..Len(stream') : stream'[i] <= announced'
    <3>1. CASE stream' = stream
      BY <2>2, <3>1
    <3>2. CASE stream' = Append(stream, announced')
      <4>1. stream \in Seq(Versions \cup {0}) /\ announced' \in Nat
        BY <2>1, KnownTypes
      <4>2. /\ Len(stream') = Len(stream) + 1
            /\ \A i \in 1..Len(stream) : stream'[i] = stream[i]
            /\ stream'[Len(stream) + 1] = announced'
        BY <3>2, <4>1
      <4> QED BY <2>2, <4>1, <4>2
    <3> QED BY <2>1, <3>1, <3>2
  <2> QED BY <2>1, <2>3 DEF updating, realtime, AloneInv, Alone, Calling, Past, Served, Covers
<1> QED BY <1>1, <1>2, <1>3, <1>4, <1>6 DEF Server

LEMMA AloneInductive == Known /\ AloneInv /\ [Next]_vars => AloneInv'
<1> SUFFICES ASSUME Known, AloneInv, [Next]_vars
             PROVE  AloneInv'
  OBVIOUS
<1>1. CASE CancelContext \/ UNCHANGED vars
  BY <1>1 DEF CancelContext, vars, updating, realtime, server, AloneInv, Alone, Calling, Past,
     Served, Covers
<1>2. ASSUME NEW a \in Application
      PROVE  FALSE
  BY <1>2 DEF AloneInv, Alone
<1>3. ~PollWorker
  BY DEF PollWorker, PollBegin, PollReturn, PollStop, AloneInv, Calling
<1> QED BY <1>1, <1>2, <1>3, PublishInv, AdvanceInv, StarterInv, RealtimeInv, ServerInv DEF Next

LEMMA InitAlone == Init /\ Alone => AloneInv
BY DEF Init, Update!Init, AloneInv, Alone, Calling, Past, Served

\* The realtime worker alone: once handleEvent has returned nil for an event,
\* evaluations never again read an environment older than the one it announced,
\* in any part of it.
THEOREM EventsServed == Alone => (Spec => []HandledEventsServed)
<1>1. AloneInv => HandledEventsServed
  BY DEF AloneInv, Served, Covers, HandledEventsServed
<1>2. Spec => []Known
  BY TypeCorrect, WorkerTypesAlways, UpdatesProved, PTL DEF Known
<1> QED BY <1>1, <1>2, InitAlone, AloneInductive, PTL DEF Spec

-------------------------------------------------------------------------------
(* The realtime worker beside the polling worker and the application: what  *)
(* it stores for an event is enough, and only an older call of another can  *)
(* take that away.                                                          *)

\* Events and what was handled come from the past, and from before the call of the
\* realtime worker that is under way.
Announced ==
  /\ announced <= published
  /\ \A i \in 1..Len(stream) : stream[i] <= announced
  /\ event <= published /\ handled <= published
  /\ "realtime" \in Workers =>
       /\ pc["realtime"] # "idle" <=> rt \in {"updating", "handling"}
       /\ pc["realtime"] # "idle" => event <= began["realtime"] /\ handled <= began["realtime"]

LEMMA InitAnnounced == Init => Announced
BY LocalEvaluationAssumption DEF Init, Update!Init, Announced, LocalEvaluationAssumption,
   Update!UpdateAssumption

\* A step of UpdateEnvironment, and whose it is.
LEMMA OthersLeaveRealtime ==
  ASSUME Known, NEW c \in Workers \cup Application, c # "realtime", Update!Call(c),
         "realtime" \in Workers
  PROVE  UNCHANGED <<published, pc["realtime"], began["realtime"]>>
BY KnownTypes
DEF Update!Call, Update!Begin, Update!FetchPage, Update!Fail, Update!StoreEnvironment,
    Update!StoreContext, Update!client

LEMMA QuietAnnounced ==
  ASSUME Announced,
         UNCHANGED <<published, pc["realtime"], began["realtime"], event, handled>>,
         rt' \in {"updating", "handling"} <=> rt \in {"updating", "handling"},
         announced' <= published, \A i \in 1..Len(stream') : stream'[i] <= announced'
  PROVE  Announced'
BY DEF Announced

LEMMA AnnouncedInductive ==
  ASSUME Known, OnlyWorkersRun, Announced, [Next]_vars
  PROVE  Announced'
<1> USE DEF realtime, server
<1>0. /\ announced <= published
      /\ \A i \in 1..Len(stream) : stream[i] <= announced
      /\ event <= published /\ handled <= published
      /\ "realtime" \notin Application
  BY LocalEvaluationAssumption DEF Announced, LocalEvaluationAssumption
<1>1. CASE CancelContext \/ UNCHANGED vars
  BY <1>1 DEF CancelContext, vars, updating, Announced
<1>2. CASE Publish
  <2>1. /\ published' = published + 1
        /\ UNCHANGED <<pc, began, rt, event, handled, announced, stream>>
    BY <1>2 DEF Publish, Update!Publish, Update!client
  <2> QED BY <2>1, KnownTypes DEF Announced
<1>3. ASSUME NEW c \in Workers \cup Application, c # "realtime", Update!Call(c),
             UNCHANGED <<realtime, server>>
      PROVE  Announced'
  <2>1. CASE "realtime" \in Workers
    <3>1. UNCHANGED <<published, pc["realtime"], began["realtime"]>>
      BY <1>3, <2>1, OthersLeaveRealtime
    <3> QED BY <1>0, <1>3, <3>1, QuietAnnounced
  <2>2. CASE "realtime" \notin Workers
    <3>1. UNCHANGED published
      BY <1>3 DEF Update!Call, Update!Begin, Update!FetchPage, Update!Fail,
         Update!StoreEnvironment, Update!StoreContext, Update!client
    <3> QED BY <1>3, <2>2, <3>1 DEF Announced
  <2> QED BY <2>1, <2>2
<1>4. ASSUME NEW w \in Workers, Advance(w)
      PROVE  Announced'
  <2>1. UNCHANGED <<realtime, server>> /\ (Update!FetchPage(w) \/ Update!StoreEnvironment(w))
    BY <1>4 DEF Advance, FetchPage
  <2>2. CASE w # "realtime"
    BY <1>3, <2>1, <2>2 DEF Update!Call
  <2>3. CASE w = "realtime"
    <3>1. /\ pc["realtime"] # "idle" /\ pc'["realtime"] # "idle"
          /\ UNCHANGED <<published, began>>
      BY <1>4, <2>1, <2>3, KnownTypes
      DEF Update!FetchPage, Update!StoreEnvironment, Update!Storing, Update!client
    <3> QED BY <2>1, <3>1 DEF Announced
  <2> QED BY <2>2, <2>3
<1>5. ASSUME NEW a \in Application, Apply(a)
      PROVE  Announced'
  BY <1>0, <1>3, <1>5 DEF Apply
<1>6. CASE PollWorker
  <2>1. CASE PollStop
    BY <1>0, <2>1, QuietAnnounced DEF PollStop, updating
  <2>2. CASE PollBegin \/ PollReturn
    <3>1. "poll" \in Workers
      BY <2>2 DEF OnlyWorkersRun, PollBegin, PollReturn
    <3> QED BY <1>3, <2>2, <3>1 DEF PollBegin, PollReturn, Update!Call
  <2> QED BY <1>6, <2>1, <2>2 DEF PollWorker
<1>7. ASSUME stream # <<>>, stream' = Tail(stream)
      PROVE  /\ Head(stream) \in Nat /\ Head(stream) <= announced
             /\ \A i \in 1..Len(stream') : stream'[i] <= announced
  BY <1>0, <1>7, KnownTypes DEF Versions
<1>8. ASSUME "realtime" \in Workers, Update!Begin("realtime"), rt' \in {"updating", "handling"},
             event' <= published, UNCHANGED <<handled, announced>>,
             \A i \in 1..Len(stream') : stream'[i] <= announced
      PROVE  Announced'
  <2>1. /\ pc'["realtime"] # "idle" /\ began'["realtime"] = published
        /\ UNCHANGED published
    BY <1>8, KnownTypes DEF Update!Begin, Update!client
  <2> QED BY <1>0, <1>8, <2>1 DEF Announced
<1>9. ASSUME "realtime" \in Workers, Update!Fail("realtime") \/ Update!StoreContext("realtime"),
             rt' \notin {"updating", "handling"}, event' \in {event, 0},
             UNCHANGED <<handled, announced, stream>>
      PROVE  Announced'
  <2>1. pc'["realtime"] = "idle" /\ UNCHANGED published
    BY <1>9, KnownTypes DEF Update!Fail, Update!StoreContext, Update!Storing, Update!client
  <2> QED BY <1>0, <1>9, <2>1, KnownTypes DEF Announced
<1>10. CASE StarterWorker
  <2>1. "realtime" \in Workers
    BY <1>10
    DEF OnlyWorkersRun, StarterWorker, StarterBegin, StarterReturn, StartRealtime, RealtimeStop
  <2>2. CASE StarterBegin
    BY <1>0, <1>8, <2>1, <2>2 DEF StarterBegin
  <2>3. CASE StarterReturn
    BY <1>9, <2>1, <2>3 DEF StarterReturn
  <2>4. CASE StartRealtime \/ RealtimeStop
    BY <1>0, <2>4, QuietAnnounced DEF StartRealtime, RealtimeStop, updating
  <2> QED BY <1>10, <2>2, <2>3, <2>4 DEF StarterWorker
<1>11. CASE RealtimeWorker
  <2>1. "realtime" \in Workers
    BY <1>11
    DEF OnlyWorkersRun, RealtimeWorker, Dial, Retry, ScanEnd, ScanDone, ScanIgnored, ScanNewer,
        HandleFail, HandleStore, LoadStamp
  <2>2. CASE Dial \/ Retry \/ ScanEnd
    BY <1>0, <2>2, QuietAnnounced DEF Dial, Retry, ScanEnd, updating
  <2>3. CASE ScanDone
    BY <1>0, <2>3, QuietAnnounced DEF ScanDone, updating
  <2>4. CASE ScanIgnored
    <3>1. /\ Head(stream) \in Nat /\ Head(stream) <= announced
          /\ \A i \in 1..Len(stream') : stream'[i] <= announced
      BY <1>7, <2>4 DEF ScanIgnored
    <3>2. handled' <= published
      BY <1>0, <2>4, <3>1, KnownTypes DEF ScanIgnored, Later
    <3>3. /\ UNCHANGED <<published, pc, began, rt, event, announced>>
          /\ rt = "scanning"
      BY <2>4 DEF ScanIgnored, updating
    <3> QED BY <1>0, <3>1, <3>2, <3>3 DEF Announced
  <2>5. CASE ScanNewer
    <3>1. event' <= published /\ \A i \in 1..Len(stream') : stream'[i] <= announced
      BY <1>0, <1>7, <2>5, KnownTypes DEF ScanNewer
    <3> QED BY <1>8, <2>1, <2>5, <3>1 DEF ScanNewer
  <2>6. CASE HandleFail \/ HandleStore
    BY <1>9, <2>1, <2>6 DEF HandleFail, HandleStore
  <2>7. CASE LoadStamp
    <3>1. handled' <= published /\ event' = 0
      BY <1>0, <2>7, KnownTypes DEF LoadStamp, Later
    <3>2. /\ UNCHANGED <<published, pc, began, announced, stream>>
          /\ rt = "loading" /\ rt' = "scanning"
      BY <2>7 DEF LoadStamp, updating
    <3> QED BY <1>0, <3>1, <3>2, KnownTypes DEF Announced
  <2> QED BY <1>11, <2>2, <2>3, <2>4, <2>5, <2>6, <2>7 DEF RealtimeWorker
<1>12. CASE Server
  <2>1. CASE Connect
    BY <1>0, <2>1, QuietAnnounced DEF Connect, updating
  <2>2. CASE Refuse
    BY <1>0, <2>2, QuietAnnounced DEF Refuse, updating
  <2>3. CASE KeepAlive
    <3>1. \A i \in 1..Len(stream') : stream'[i] <= announced
      BY <2>3, KnownTypes DEF KeepAlive
    <3> QED BY <1>0, <2>3, <3>1, QuietAnnounced DEF KeepAlive, updating
  <2>4. CASE Drop
    <3>1. stream' = stream \/ stream' = <<>>
      BY <2>4 DEF Drop
    <3>2. \A i \in 1..Len(stream') : stream'[i] <= announced
      BY <1>0, <3>1
    <3> QED BY <1>0, <2>4, <3>2, QuietAnnounced DEF Drop, updating
  <2>5. CASE Announce
    <3>1. /\ announced' \in Nat /\ announced <= announced' /\ announced' <= published
          /\ stream' = Append(stream, announced') \/ stream' = stream
          /\ UNCHANGED <<updating, realtime>>
      BY <2>5, KnownTypes DEF Announce
    <3>2. \A i \in 1..Len(stream) : stream[i] <= announced'
      <4>1. \A i \in 1..Len(stream) : stream[i] \in Versions \cup {0}
        BY KnownTypes, Elements
      <4> QED BY <1>0, <3>1, <4>1, KnownTypes DEF Versions
    <3>3. \A i \in 1..Len(stream') : stream'[i] <= announced'
      <4>1. CASE stream' = stream
        BY <3>2, <4>1
      <4>2. CASE stream' = Append(stream, announced')
        <5>1. stream \in Seq(Versions \cup {0})
          BY KnownTypes
        <5>2. /\ Len(stream') = Len(stream) + 1
              /\ \A i \in 1..Len(stream) : stream'[i] = stream[i]
              /\ stream'[Len(stream) + 1] = announced'
          BY <4>2, <5>1
        <5> QED BY <3>1, <3>2, <5>1, <5>2
      <4> QED BY <3>1, <4>1, <4>2
    <3> QED BY <3>1, <3>3, QuietAnnounced DEF updating
  <2> QED BY <1>12, <2>1, <2>2, <2>3, <2>4, <2>5 DEF Server
<1> QED BY <1>1, <1>2, <1>4, <1>5, <1>6, <1>10, <1>11, <1>12 DEF Next

\* Whose store it is that changes what evaluations read.
LEMMA ContextChanges ==
  ASSUME OnlyWorkersRun, [Next]_vars, context' # context
  PROVE  \E c \in Workers \cup Application : Update!StoreContext(c)
<1>1. Update!Next
  BY StepIsUpdateStep DEF Update!vars, Update!client
<1> QED BY <1>1
    DEF Update!Next, Update!Publish, Update!Call, Update!Begin, Update!FetchPage, Update!Fail,
        Update!StoreEnvironment, Update!client

LEMMA UndoingStep ==
  ASSUME Known, OnlyWorkersRun, Announced, [Next]_vars
  PROVE  /\ HandleStore => Covers(event)'
         /\ UNCHANGED handled /\ Covers(handled) /\ ~Covers(handled)' =>
              \E c \in (Workers \cup Application) \ {"realtime"} :
                Update!StoreContext(c) /\ began[c] < handled
<1>1. ASSUME HandleStore
      PROVE  Covers(event)'
  <2>1. /\ "realtime" \in Workers
        /\ Update!StoreContext("realtime") /\ pc["realtime"] # "idle"
        /\ event' = event
    BY <1>1 DEF HandleStore, OnlyWorkersRun, Update!StoreContext, Update!Storing
  <2>2. event \in Nat /\ event <= began["realtime"]
    BY <2>1, KnownTypes DEF Announced
  <2>3. \A n \in Nat : n <= began["realtime"] => (Covers(n))'
    BY <2>1, StoreCovers
  <2> QED BY <2>1, <2>2, <2>3 DEF Covers
<1>2. ASSUME UNCHANGED handled, Covers(handled), ~Covers(handled)'
      PROVE  \E c \in (Workers \cup Application) \ {"realtime"} :
               Update!StoreContext(c) /\ began[c] < handled
  <2>1. context' # context
    BY <1>2 DEF Covers
  <2>2. PICK c \in Workers \cup Application : Update!StoreContext(c)
    BY <2>1, ContextChanges
  <2>3. handled \in Nat /\ began[c] \in Nat
    BY KnownTypes
  <2>4. ~(handled <= began[c])
    <3>1. \A n \in Nat : n <= began[c] => (Covers(n))'
      BY <2>2, StoreCovers
    <3> QED BY <1>2, <2>3, <3>1 DEF Covers
  <2>5. c # "realtime"
    <3> SUFFICES ASSUME c = "realtime"
                 PROVE  FALSE
      OBVIOUS
    <3>1. "realtime" \in Workers
      BY LocalEvaluationAssumption DEF LocalEvaluationAssumption
    <3>2. pc["realtime"] # "idle"
      BY <2>2 DEF Update!StoreContext, Update!Storing
    <3> QED BY <2>4, <3>1, <3>2 DEF Announced
  <2> QED BY <2>2, <2>3, <2>4, <2>5
<1> QED BY <1>1, <1>2

\* Whichever workers run and whatever the application calls: what the update for an
\* event stores covers the event, and that is undone by nothing but a call of
\* another that began before the event's version was there.
THEOREM UndoneByOthersOnly == Spec => UndoneOnlyByOlderCalls
<1>1. Spec => []Known
  BY TypeCorrect, WorkerTypesAlways, UpdatesProved, PTL DEF Known
<1>2. Known /\ OnlyWorkersRun /\ Announced /\ [Next]_vars => Announced'
  BY AnnouncedInductive
<1>3. Known /\ OnlyWorkersRun /\ Announced /\ [Next]_vars
      => [/\ HandleStore => Covers(event)'
          /\ UNCHANGED handled /\ Covers(handled) /\ ~Covers(handled)' =>
               \E c \in (Workers \cup Application) \ {"realtime"} :
                 Update!StoreContext(c) /\ began[c] < handled]_vars
  BY UndoingStep
<1> QED BY <1>1, <1>2, <1>3, InitAnnounced, OnlyWorkersRunAlways, PTL
    DEF Spec, UndoneOnlyByOlderCalls

===============================================================================
