---------------------------- MODULE LocalEvaluation ----------------------------
(***************************************************************************)
(* The background workers of a Client made WithLocalEvaluation(ctx), and   *)
(* an application that calls UpdateEnvironment itself:                     *)
(*                                                                         *)
(*   - pollEnvironment, which updates at every tick until ctx is done;     *)
(*   - pollThenStartRealtime, which updates until an environment is        *)
(*     stored and hands over to realtime.start, which keeps an SSE stream  *)
(*     open and updates when an event announces a newer environment.       *)
(*     The first ends by starting the second: one worker here.             *)
(*                                                                         *)
(* They share Client.environment and Client.engineEvaluationContext        *)
(* through UpdateEnvironment.  The API and the SSE server are external: a  *)
(* version is announced some time after the API holds it, in order, and    *)
(* only to a stream open at that time.                                     *)
(***************************************************************************)
EXTENDS Naturals, Sequences

CONSTANTS
  MaxVersion, PageCount, None, \* see UpdateEnvironment
  WithPolling, \* config.polling
  UseRealtime, \* config.useRealtime
  Application, \* the application's goroutines that call UpdateEnvironment
  MaxBreaks,   \* bound on the connections the server refuses or breaks off
  InitialBackoff, MaxBackoff, Jitters \* see Backoff

VARIABLES
  published, environment, context, pc, doc, began, mixed, \* UpdateEnvironment's
  ctxDone,      \* the context given to WithLocalEvaluation is done
  poll,         \* where pollEnvironment is
  rt,           \* where pollThenStartRealtime, then realtime.start, is
  envUpdatedAt, \* realtime.envUpdatedAt; 0 before newRealtime
  event,        \* stamp of the event in handleEvent; 0: none
  stream,       \* lines sent on the open stream and not yet scanned: the stamp
                \* of an event, 0 for a line that carries no usable one
  open,         \* the server still holds the stream open
  announced,    \* latest version the SSE server has announced
  handled,      \* history: latest stamp handleEvent returned nil for
  breaks,       \* connections refused or broken off so far
  current, delay, failures \* Backoff's: realtime.backoff

updating == <<published, environment, context, pc, doc, began, mixed>>
server == <<stream, open, announced, breaks>>
retry == <<current, delay, failures>>
realtime == <<rt, envUpdatedAt, event, handled, retry>>
vars == <<updating, ctxDone, poll, realtime, server>>

\* The workers that NewClient starts.
Workers ==
  (IF WithPolling \/ ~UseRealtime THEN {"poll"} ELSE {})
    \cup (IF UseRealtime THEN {"realtime"} ELSE {})

Update == INSTANCE UpdateEnvironment WITH Callers <- Workers \cup Application

\* Every failure but the last breaks a connection, so that this bound is none.
Reconnect == INSTANCE Backoff WITH MaxFailures <- MaxBreaks + 1

ASSUME LocalEvaluationAssumption ==
  /\ Update!UpdateAssumption
  /\ Reconnect!BackoffAssumption
  /\ WithPolling \in BOOLEAN
  /\ UseRealtime \in BOOLEAN
  /\ Application \cap {"poll", "realtime"} = {}
  /\ MaxBreaks \in Nat

Versions == 1..MaxVersion

-------------------------------------------------------------------------------
Init ==
  /\ Update!Init
  /\ Reconnect!Init
  /\ ctxDone = FALSE
  /\ poll = IF "poll" \in Workers THEN "start" ELSE "off"
  /\ rt = IF "realtime" \in Workers THEN "start" ELSE "off"
  /\ envUpdatedAt = 0
  /\ event = 0
  /\ stream = <<>>
  /\ open = FALSE
  /\ announced = 1
  /\ handled = 0
  /\ breaks = 0

Publish ==
  /\ Update!Publish
  /\ UNCHANGED <<ctxDone, poll, realtime, server>>

CancelContext ==
  /\ ~ctxDone
  /\ ctxDone' = TRUE
  /\ UNCHANGED <<updating, poll, realtime, server>>

-------------------------------------------------------------------------------
(* A worker inside UpdateEnvironment.  Its request carries ctx, or a child  *)
(* of it with a timeout: once ctx is done no response is read to its end.   *)

FetchPage(w) == ~ctxDone /\ Update!FetchPage(w)

Advance(w) ==
  /\ w \in Workers
  /\ FetchPage(w) \/ Update!StoreEnvironment(w)
  /\ UNCHANGED <<ctxDone, poll, realtime, server>>

(* The application's own calls, with a context of their own.                *)
Apply(a) ==
  /\ a \in Application
  /\ Update!Call(a)
  /\ UNCHANGED <<ctxDone, poll, realtime, server>>

-------------------------------------------------------------------------------
(* pollEnvironment, always called with pollForever set.                     *)

\* The update before the loop, or the one at a tick.  When ctx is done as well,
\* select picks either case.
PollBegin ==
  /\ poll \in {"start", "waiting"}
  /\ Update!Begin("poll")
  /\ poll' = "updating"
  /\ UNCHANGED <<ctxDone, realtime, server>>

\* Mutants: pollEnvironment returns on an error; it retries at once on one.
PollReturnQuitting ==
  /\ poll = "updating"
  /\ \/ Update!Fail("poll") /\ poll' = "stopped"
     \/ Update!StoreContext("poll") /\ poll' = "waiting"
  /\ UNCHANGED <<ctxDone, realtime, server>>

PollReturnRetrying ==
  /\ poll = "updating"
  /\ \/ Update!Fail("poll") /\ poll' = "start"
     \/ Update!StoreContext("poll") /\ poll' = "waiting"
  /\ UNCHANGED <<ctxDone, realtime, server>>

PollReturn ==
  /\ poll = "updating"
  /\ Update!Fail("poll") \/ Update!StoreContext("poll")
  /\ poll' = "waiting"
  /\ UNCHANGED <<ctxDone, realtime, server>>

PollStop ==
  /\ poll = "waiting"
  /\ ctxDone
  /\ poll' = "stopped"
  /\ UNCHANGED <<updating, ctxDone, realtime, server>>

-------------------------------------------------------------------------------
(* pollThenStartRealtime.                                                   *)

\* The update before the loop, or the one of an iteration that finds no
\* environment stored.
StarterBegin ==
  /\ \/ rt = "start"
     \/ rt = "checking" /\ ~ctxDone /\ environment = None
  /\ Update!Begin("realtime")
  /\ rt' = "updating"
  /\ UNCHANGED <<ctxDone, poll, envUpdatedAt, event, handled, retry, server>>

\* A failed update is followed by a wait, on the update's own context.
StarterReturn ==
  /\ rt = "updating"
  /\ Update!Fail("realtime") \/ Update!StoreContext("realtime")
  /\ rt' = "checking"
  /\ UNCHANGED <<ctxDone, poll, envUpdatedAt, event, handled, retry, server>>

\* newRealtime, with the stamp of whichever call's document is stored.
StartRealtime ==
  /\ rt = "checking"
  /\ ~ctxDone
  /\ environment # None
  /\ envUpdatedAt' = environment.updatedAt
  /\ rt' = "connecting"
  /\ UNCHANGED <<updating, ctxDone, poll, event, handled, retry, server>>

\* Both loops look at ctx at the top of an iteration.
RealtimeStop ==
  /\ rt \in {"checking", "connecting"}
  /\ ctxDone
  /\ rt' = "stopped"
  /\ UNCHANGED <<updating, ctxDone, poll, envUpdatedAt, event, handled, retry, server>>

-------------------------------------------------------------------------------
(* realtime.start and connect.                                              *)

\* The request of http.Get is bound neither to ctx nor to a timeout.
Dial ==
  /\ rt = "connecting"
  /\ ~ctxDone
  /\ rt' = "dialing"
  /\ UNCHANGED <<updating, ctxDone, poll, envUpdatedAt, event, handled, retry, server>>

\* A 200 response: the backoff is reset, and lines are scanned.
Connect ==
  /\ rt = "dialing"
  /\ Reconnect!Reset
  /\ rt' = "scanning"
  /\ open' = TRUE
  /\ stream' = <<>>
  /\ UNCHANGED <<updating, ctxDone, poll, envUpdatedAt, event, handled, announced, breaks>>

\* An error or another status.
Refuse ==
  /\ rt = "dialing"
  /\ breaks < MaxBreaks
  /\ breaks' = breaks + 1
  /\ Reconnect!Wait
  /\ rt' = "backoff"
  /\ UNCHANGED <<updating, ctxDone, poll, envUpdatedAt, event, handled, stream, open, announced>>

\* The wait ends with its timer, or at once if ctx is done.
Retry ==
  /\ rt = "backoff"
  /\ Reconnect!Wake
  /\ rt' = "connecting"
  /\ UNCHANGED <<updating, ctxDone, poll, envUpdatedAt, event, handled, server>>

\* Mutant: start returns when connect returns nil.
ScanEndQuitting ==
  /\ rt = "scanning"
  /\ stream = <<>>
  /\ ~open
  /\ \/ Reconnect!Wait /\ rt' = "backoff"
     \/ rt' = "stopped" /\ UNCHANGED retry
  /\ UNCHANGED <<updating, ctxDone, poll, envUpdatedAt, event, handled, server>>

\* The end of the stream: an error is retried after a backoff, a clean end of
\* file at once.
ScanEnd ==
  /\ rt = "scanning"
  /\ stream = <<>>
  /\ ~open
  /\ \/ Reconnect!Wait /\ rt' = "backoff"
     \/ rt' = "connecting" /\ UNCHANGED retry
  /\ UNCHANGED <<updating, ctxDone, poll, envUpdatedAt, event, handled, server>>

\* Mutant: break, which leaves the select but not the loop over the lines.
ScanDoneBreak ==
  /\ rt = "scanning"
  /\ stream # <<>>
  /\ ctxDone
  /\ stream' = Tail(stream)
  /\ UNCHANGED <<updating, ctxDone, poll, realtime, open, announced, breaks>>

\* ctx is looked at only when a line has come; connect then returns ctx.Err()
\* and closes the response's body.
ScanDone ==
  /\ rt = "scanning"
  /\ stream # <<>>
  /\ ctxDone
  /\ Reconnect!Wait
  /\ rt' = "backoff"
  /\ stream' = <<>>
  /\ open' = FALSE
  /\ UNCHANGED <<updating, ctxDone, poll, envUpdatedAt, event, handled, announced, breaks>>

-------------------------------------------------------------------------------
(* realtime.handleEvent.                                                    *)

Later(v, w) == IF v > w THEN v ELSE w

\* A line without a usable stamp, or an event no newer than envUpdatedAt.
ScanIgnored ==
  /\ rt = "scanning"
  /\ stream # <<>>
  /\ ~ctxDone
  /\ Head(stream) <= envUpdatedAt
  /\ stream' = Tail(stream)
  /\ handled' = Later(Head(stream), handled)
  /\ UNCHANGED <<updating, ctxDone, poll, rt, envUpdatedAt, event, retry, open, announced, breaks>>

ScanNewer ==
  /\ rt = "scanning"
  /\ stream # <<>>
  /\ ~ctxDone
  /\ Head(stream) > envUpdatedAt
  /\ stream' = Tail(stream)
  /\ event' = Head(stream)
  /\ Update!Begin("realtime")
  /\ rt' = "handling"
  /\ UNCHANGED <<ctxDone, poll, envUpdatedAt, handled, retry, open, announced, breaks>>

\* UpdateEnvironment fails: the event is logged and forgotten.
HandleFail ==
  /\ rt = "handling"
  /\ Update!Fail("realtime")
  /\ rt' = "scanning"
  /\ event' = 0
  /\ UNCHANGED <<ctxDone, poll, envUpdatedAt, handled, retry, server>>

HandleStore ==
  /\ rt = "handling"
  /\ Update!StoreContext("realtime")
  /\ rt' = "loading"
  /\ UNCHANGED <<ctxDone, poll, envUpdatedAt, event, handled, retry, server>>

\* envUpdatedAt comes from whichever document is stored by now.
LoadStamp ==
  /\ rt = "loading"
  /\ envUpdatedAt' = environment.updatedAt
  /\ handled' = Later(event, handled)
  /\ event' = 0
  /\ rt' = "scanning"
  /\ UNCHANGED <<updating, ctxDone, poll, retry, server>>

-------------------------------------------------------------------------------
(* The SSE server, external.                                                *)

Announce ==
  /\ announced < published
  /\ announced' = announced + 1
  /\ stream' = IF open THEN Append(stream, announced') ELSE stream
  /\ UNCHANGED <<updating, ctxDone, poll, realtime, open, breaks>>

\* A comment, a blank line or an event without a usable stamp.  Bound: it is
\* sent only when nothing is left to scan.
KeepAlive ==
  /\ open
  /\ stream = <<>>
  /\ stream' = <<0>>
  /\ UNCHANGED <<updating, ctxDone, poll, realtime, open, announced, breaks>>

\* The stream is closed or breaks off; lines on their way may be lost with it.
Drop ==
  /\ open
  /\ breaks < MaxBreaks
  /\ breaks' = breaks + 1
  /\ open' = FALSE
  /\ stream' \in {stream, <<>>}
  /\ UNCHANGED <<updating, ctxDone, poll, realtime, announced>>

-------------------------------------------------------------------------------
PollWorker == PollBegin \/ PollReturn \/ PollStop

StarterWorker == StarterBegin \/ StarterReturn \/ StartRealtime \/ RealtimeStop

RealtimeWorker ==
  \/ Dial \/ Retry
  \/ ScanEnd \/ ScanDone \/ ScanIgnored \/ ScanNewer
  \/ HandleFail \/ HandleStore \/ LoadStamp

Server == Connect \/ Refuse \/ Announce \/ KeepAlive \/ Drop

Next ==
  \/ Publish
  \/ CancelContext
  \/ \E w \in Workers : Advance(w)
  \/ \E a \in Application : Apply(a)
  \/ PollWorker
  \/ StarterWorker
  \/ RealtimeWorker
  \/ Server

-------------------------------------------------------------------------------
(* Go runs every goroutine that can run; a request ends, since the HTTP     *)
(* client has a timeout; select picks at random among the cases that are    *)
(* ready, hence the strong fairness of PollStop.  Nothing is assumed of the *)
(* application, the editors, the network or the SSE server.                 *)
WorkerFairness ==
  /\ \A w \in Workers : WF_vars(Advance(w))
  /\ WF_vars(PollBegin) /\ WF_vars(PollReturn) /\ SF_vars(PollStop)
  /\ WF_vars(StarterWorker \/ RealtimeWorker)

Spec == Init /\ [][Next]_vars /\ WorkerFairness

\* The network lets a request through now and then, whichever page it asks for.
AnsweredPage(w, n) ==
  /\ pc[w] = "fetch"
  /\ n = IF doc[w] = None THEN 0 ELSE Len(doc[w].overrides)
  /\ Advance(w)

NetworkFairness ==
  \A w \in Workers : \A n \in UNION {0..(PageCount[v] - 1) : v \in Versions} :
    SF_vars(AnsweredPage(w, n))

\* The SSE server accepts connections in the end, MaxBreaks refusals apart.
FairNetworkSpec == Spec /\ NetworkFairness /\ WF_vars(Connect)

-------------------------------------------------------------------------------
TypeOK ==
  /\ Update!TypeOK
  /\ ctxDone \in BOOLEAN
  /\ poll \in {"off", "start", "updating", "waiting", "stopped"}
  /\ rt \in {"off", "start", "updating", "checking", "connecting", "dialing", "backoff",
             "scanning", "handling", "loading", "stopped"}
  /\ {envUpdatedAt, event, handled} \subseteq Versions \cup {0}
  /\ stream \in Seq(Versions \cup {0})
  /\ open \in BOOLEAN
  /\ announced \in Versions
  /\ breaks \in 0..MaxBreaks
  /\ Reconnect!TypeOK

\* What evaluations read is no older than version n, in any part.
Covers(n) ==
  /\ context # None
  /\ context.features >= n
  /\ \A i \in 1..Len(context.overrides) : context.overrides[i] >= n

\* Once handleEvent has returned nil for an event, evaluations never read an
\* environment older than the one it announced, in any part, torn documents
\* included.  It holds of the realtime worker alone: any other caller of
\* UpdateEnvironment may store, later, a document it fetched earlier.
HandledEventsServed == handled > 0 => Covers(handled)

\* Beside other callers, what the realtime worker's update stores for an event is still
\* no older than the event, in any part; and as long as no other event is handled,
\* evaluations stop reading the like of it only when another caller stores what it began
\* to fetch before that version was published.
UndoneOnlyByOlderCalls ==
  [][/\ HandleStore => Covers(event)'
     /\ UNCHANGED handled /\ Covers(handled) /\ ~Covers(handled)' =>
          \E c \in (Workers \cup Application) \ {"realtime"} :
            Update!StoreContext(c) /\ began[c] < handled]_vars

CurrentContext ==
  /\ context # None
  /\ context.features = published
  /\ \A i \in 1..Len(context.overrides) : context.overrides[i] = published

\* realtime.backoff: how far its delays overshoot the maximum, and how soon after a
\* failure the next attempt may come.
BoundedOvershoot == Reconnect!BoundedOvershoot
NeverSoonerThanSchedule == Reconnect!NeverSoonerThanSchedule

\* Under polling, once edits cease evaluations end up reading the latest
\* environment for good, whatever requests fail and whatever other callers
\* store meanwhile, unless ctx is done.
EventuallyCurrent == <>[](ctxDone \/ CurrentContext)

\* The realtime worker is listening again and again: failed updates, refused
\* connections and broken streams never end it or leave it waiting for good.
StreamRecovers == []<>(ctxDone \/ rt \in {"scanning", "handling", "loading"})

\* options.go:48, of the goroutines given ctx: "if it expires the background
\* process will exit".
PollStops == ctxDone ~> poll \in {"off", "stopped"}
RealtimeStops == ctxDone ~> rt \in {"off", "stopped"}

\* The SSE server answers, and every open stream sees another line or its end.
SpeakingServer == WF_vars(Connect \/ Refuse) /\ WF_vars(KeepAlive \/ Drop)

\* With such a server nothing else keeps the realtime worker from ending: not the
\* backoff, an update in flight, or a stream that is never empty.
StopsIfServerSpeaks == SpeakingServer => RealtimeStops

===============================================================================
