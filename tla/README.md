# Verification of flagsmith-go-client

TLA+ models of the Flagsmith Go client, the TLC runs that check them on small
instances, and TLAPS proofs of their main properties for every instance. Paths
and line numbers below are those of the repository.

- [1. The system](#1-the-system)
- [2. The modules](#2-the-modules)
- [3. The runs](#3-the-runs)
- [4. Fairness](#4-fairness)
- [5. What is proved](#5-what-is-proved)
- [6. What is only model-checked](#6-what-is-only-model-checked)
- [7. Where the code and its documentation differ](#7-where-the-code-and-its-documentation-differ)
- [8. What is not modelled](#8-what-is-not-modelled)
- [9. Plan](#9-plan)
- [10. Running it](#10-running-it)

## 1. The system

The client tells an application which flags are on, and with which values, for
an environment or for an identity in it. It either asks the Flagsmith API each
time (*remote* evaluation) or keeps a copy of the environment and evaluates it
itself (*local* evaluation), in which case goroutines keep the copy up to date.
A counter of flag lookups is posted to the API from time to time.

### Components

| Component | State it keeps | Operations | Hard part |
|---|---|---|---|
| `Client.UpdateEnvironment` (`client.go` 436-527) | `Client.environment`, `Client.engineEvaluationContext`, each an atomic pointer; the pages of each call under way | fetch a page, store the document, store the context | any number of callers at once; edits between two pages; failure on any page; two stores without a lock |
| Polling worker (`pollEnvironment`, `client.go` 365-402) | its place in the loop | update now and at each tick until `ctx` is done | a tick and the end of `ctx` together; failed updates |
| Realtime worker (`pollThenStartRealtime`, `client.go` 404-434; `realtime.go`) | the SSE stream, `envUpdatedAt` | update until something is stored; connect, scan lines, handle an event | broken streams, lost and stale events, failed updates, a stamp read after the store it belongs to |
| Backoff (`backoff.go`) | `current` | `next`, `wait`, `reset` | the cap; resets between failures |
| Analytics (`analytics.go`) | the map of counts, under a mutex | `TrackFeature`, `Flush`, the worker's ticker | a flush holds the mutex across a request; answers are lost; requests are retried |
| Evaluation engine (`flagengine/engine.go`) | none across calls | collect the overrides of the segments that match, choose a variant, make the result | ties of priorities, the order of a Go map, where shares begin and end |
| Segment rules and operators (`engine_eval/evaluator.go`, `generic_evaluator.go`) | none | whether a context is in a segment | empty rules, nested rules, the ladder of types on which two texts are compared |
| Mappers (`engine_eval/mappers.go`) | none | document to evaluation context; identities to segments | grouping by a hash of a text, in which values are not delimited; identifiers joined with commas and read back as JSON or by commas |
| Flags API (`client.go` 184-363, `models.go` 81-153) | none of its own; it reads the context that updates store | remote, local, offline and default-handler flags | which fallback applies when; the environment key of one call beside those of others |
| Construction (`client.go` 67-175, `options.go`, `config.go`) | the configuration, the HTTP client with its timeout and headers | two passes over the options, panics, storing the offline environment, starting the workers | order of options; an HTTP client that others use too |
| Models, hashing, time, traits, logging, offline handler, errors | none | decoding and formatting | - |

### How they interact

`NewClient` starts the workers. Both workers, and the application, call
`UpdateEnvironment`; what they share are the two atomic pointers it stores.
Evaluations read the context, the realtime worker reads the stamp of the
document. The realtime worker waits with a backoff of its own. Updates, requests
for flags and analytics go through one HTTP client, which the application may
have made and may give to another `Client`. `Flags.GetFlag`
calls `AnalyticsProcessor.TrackFeature`, which needs the mutex that a flush may
be holding. Evaluation is sequential: the context is loaded once, mapped for the
identity, matched against segments, and turned into flags.

### What makes each component correct

- *UpdateEnvironment*: evaluations see either nothing or the result of one whole
  fetch up to its last page, no older than the call that stored it; an error, on
  whichever page, changes nothing; a
  document that mixes two versions carries the older stamp; the two stores agree
  again after any undisturbed update.
- *Workers*: under polling evaluations become current; a handled event is
  served; the stream is always re-established; the workers end with their
  context.
- *Backoff*: retries are never sooner than the schedule, and the delay stays
  near its maximum.
- *Analytics*: nothing counted is lost, nothing is reported twice unless an
  answer was lost, lookups do not hang, counts are reported in the end.
- *Engine*: the strongest override applies, identities first, whatever the order
  of the map; variants have the shares they were given; edits that only raise a
  share take nothing back; rules and operators move contexts in the direction
  that their meaning says.
- *Mappers*: an identity gets back its own overrides as texts, with the same overrides
  in one group; but not if values hold semicolons or identifiers hold commas or read
  as JSON (section 7).
- *Construction and flags*: exactly the contradictory lists of options panic, in
  whatever order; every request ends; a request carries the key it was given, or
  else the client's; with a handler no call fails; what was once evaluated locally
  stays so; local evaluation always gets an environment.

`PROJECT.json` lists the hazards of this code line by line, with the properties
that would catch each.

## 2. The modules

```
PublishedEnvironment        what UpdateEnvironment promises to evaluations
      ^ implements
UpdateEnvironment  <--INSTANCE--  LocalEvaluation  --INSTANCE-->  Backoff
      ^                               ^      ^                      ^
UpdateEnvironmentProofs <--- LocalEvaluationProofs ---------> BackoffProofs

Client        Analytics        GetEvaluationResult        IdentityOverrides
   ^              ^                     ^                         ^
ClientProofs  AnalyticsProofs  GetEvaluationResultProofs  IdentityOverridesProofs

Multivariate      MatchCondition      SegmentRules
     ^                  ^                  ^
     +------------- EngineEdits -----------+
                        ^
                 EngineEditsProofs
```

`MC*` modules only give constants their values. Definitions marked `Mutant:` are
faulty variants of the definition that follows them, of the kind a change to the
code could introduce; each property is known to reject one. `PROJECT.json` maps
every definition to the lines it translates.

**UpdateEnvironment.** One program counter per caller: `idle`, `fetch`,
`storeEnvironment`, `storeContext`. A step is a page response, a failure, or one
of the two stores. The API holds one version at a time, and a page is known by
the version it was read from, so that the model sees a document torn between two
edits. `PageCount[v]` is how many pages version `v` has; a fetch goes on as long
as the page it gets links another. The API could thus keep a fetch going by
growing, as it could the code. `mixed` and `began` are history variables.

**PublishedEnvironment.** The abstract refresh: a call asks, and later either
installs in one step something the API held since, with all of its pages, or gives
up. What is installed need not be newer than what it replaces: the code does not see
to that. UpdateEnvironment implements it with the evaluation context as what is served.

**LocalEvaluation.** The workers over an instance of UpdateEnvironment, whose
callers are the workers and the application's goroutines. `pollThenStartRealtime`
ends by calling `realtime.start`, so the two are one worker. Actions are the
points at which a goroutine touches shared state or waits: an update's start, its
pages and stores, `select`, `http.Get`, `scanner.Scan`, and in `handleEvent` the
comparison, the update and the load of the new stamp, each apart from the others.
The SSE server announces each version after the API holds it, in order, to a
stream that is open at that time; it may refuse, send lines without a stamp, or
drop the stream with what is on it. `MaxBreaks` bounds refusals and drops. An
instance of Backoff is `realtime.backoff`: the steps that refuse or break a
connection with an error are joined with its `Wait`, the next attempt with its
`Wake`, an accepted connection with its `Reset`.

**Client.** `NewClient` goes over its options twice, an option a step: first for
the HTTP client, then for the rest; then it checks, and starts. A client's
configuration is the record `c`; an HTTP client is known by its timeout, a handler
by whether it is nil. Afterwards goroutines ask for flags, each request from
`Send` to `Receive`, while updates are stored and the resty client may be given to
another `NewClient`. An update is one step here, which `RefreshesAtomically`
justifies. `serverKey` is whether the key has the prefix of local evaluation;
`rekeyed` is a history variable.

**Backoff.** `wait` calls `next` while it builds its `select`, so `current` moves
also when the context is done. Time is in milliseconds, jitter a set of values.

**Analytics.** `TrackFeature` waits only for the mutex, so its locked section is
a step; a flush takes the mutex in `Post` and gives it up when the exchange ends.
The API may count a batch and its answer be lost, after which the HTTP client may
send it again. `received`, `acked`, `tracked` and `lost` are what the properties
compare.

**GetEvaluationResult.** A visit of the segments in the order of their keys and
of the overrides of each, one override a step. Whether a segment matches is an
input. Minus and plus infinity are a priority below and above those of a
document.

**IdentityOverrides.** The loop that groups identities, one a step, and the `IN`
operator that reads what the loop has written. An identifier is the sequence of
its comma-separated parts, and the text of a value its first semicolon-separated part
and the others, so that joining is concatenation, of the identifiers of a group as of
the overrides that are hashed: a value may look like one override and the next. Names
of features are numbers, which stand for texts without colons and semicolons, in their
order. `ArrayOf` says which texts are JSON arrays of strings, and of which. Each group
has the overrides of the identity that joined it last, as in the code.

**Multivariate, MatchCondition, SegmentRules.** Operators without state: which
variant a bucket is served, whether a value matches a condition, whether a context
is in a segment. The tree of a segment's rules is a sequence in which each rule
names the one it is below, so that the recursion over it is a recursive function
and the depth of the tree has no bound. What `strconv`, `regexp` and `semver` accept is given by tables,
and so is what a JSONPath finds: `GetContextValue` chooses between that and the
trait of the same name.

**EngineEdits** turns them into a system: an environment that is edited, or a
trait that is set, one edit a step, with properties of whom an edit may move.

## 3. The runs

| Run | Module, cfg | Shows |
|---|---|---|
| `update_environment` | MCUpdateEnvironment | three concurrent callers, two edits, documents of one and two pages: stamps are conservative (`StampIsConservative`), the stores agree unless pairs of them overlapped (`AgreeUnlessMixed`), and evaluations see atomic refreshes (`RefreshesAtomically`) |
| `client` | MCClient | every list of up to three of eighteen options, then two goroutines that ask for flags: `OnlyConflictsPanic`, `RequestsAreBounded`, `OwnKey`, `FallbackNeverFails`, `ReadyForGood`, `EventuallyReady` |
| `polling` | MCLocalEvaluation, Polling | both workers and an application that updates as well: evaluations become current for good once edits cease (`EventuallyCurrent`), the polling worker ends with its context (`PollStops`), what the realtime worker stored for an event is undone only by calls that began before it (`UndoneOnlyByOlderCalls`) |
| `realtime` | MCLocalEvaluation, Realtime | the realtime worker alone, three refusals or broken streams: a handled event is served whole (`HandledEventsServed`), its backoff keeps to the schedule (`NeverSoonerThanSchedule`) and near its maximum (`BoundedOvershoot`), the stream comes back (`StreamRecovers`), the worker ends if the server goes on speaking (`StopsIfServerSpeaks`) |
| `realtime_hangs` | MCLocalEvaluation, RealtimeHangs | a silent server keeps the worker alive after its context (violation, section 7) |
| `backoff_cap` | MCBackoff, MCBackoffCap | the maximum is exceeded (violation, section 7) |
| `analytics` | Analytics | two goroutines look up, two flush, answers are lost, `ctx` ends: `NothingLost`, `CountedOnceUnlessLost`, `LookupsReturn`, `WorkerStops`, `EventuallyReported` |
| `evaluation_result` | MCGetEvaluationResult | every set of up to three segments with up to two overrides each: `LastOfTheStrongest`, `IdentityOverridesWin` |
| `identity_overrides` | MCIdentityOverrides | every list of up to three identities, each with its features in either order: each is served the overrides of its own entries, unless a semicolon lets one of them be taken for another (`OwnOverridesApply`), and the same overrides make one segment (`SameOverridesOneSegment`) |
| `identity_overrides_comma` | MCIdentityOverrides, IdentityOverridesComma | an identifier with a comma (violation, section 7) |
| `engine_edits` | MCEngineEdits | variants, conditions and rules under edits: `FairShares`, `RaisingKeepsWhatIsServed`, `OrderDoesNotMatter`, `OperatorsPartition`, `GrowthLosesToBooleansOnly`, `ConditionsMoveOneWay`, `RulesMoveOneWay` |
| `match_integers` | MCEngineEdits, MatchIntegers | 1 is not greater than 0 (violation, section 7) |

Bounds, and why they are enough to meet the interesting cases:

- *Versions 3, pages 1, 2, 2.* A document can grow between its pages, be torn
  once or by two edits, and be replaced by an older one. Three callers allow two
  interleaved pairs of stores and a third that repairs them; with two callers
  there is no bystander. Callers are symmetric in the safety run.
- *MaxBreaks 3* for the realtime worker alone. A connection can be refused, then
  accepted and dropped with events on it; and three failures in a row reach the
  maximum of its backoff, 7 from 2, and overshoot it (`backoff_cap` has the real
  constants). *MaxBreaks 1 and versions 2* where polling, realtime and application
  run together: a missed event and an older document stored over a newer one need
  no more. `KeepAlive` is sent only on an empty stream, which loses nothing,
  since a line without a stamp changes no other variable.
- *Client*: three options, so that two that contradict each other meet a third that
  takes one back, overrides it or stands between them, in every order. Options
  alike in what they set are one; nil arguments, clients with and without a
  timeout, a timeout of none and a header that names a key are told apart. Two
  goroutines are enough for a request that another's key might reach.
- *Analytics*: one feature, since every action but the test for an empty map acts
  on features apart (the proofs are for any set), three lookups, two lost answers:
  enough for a lookup before, during and after a batch that is sent three times.
- *Evaluation*: three segments distinguish "last", "strongest" and "first"; a
  document's priority, none, and that of identities; a feature and a name that is
  no feature's.
- *Identities*: three entries cover a group of two beside a group of one, a list
  in any order, and two entries of one identity, as a torn document can have. Of two
  features, the values are two that are written alike, an empty one, and the text
  `7;2:true:7`, which makes one override read like two.
- *EngineEdits*: three variants of weights 0, 30 and 50 over 8 buckets, such that
  some ends fall on a bucket and some between two, with an ID, two UUIDs on either
  side of the priority of none, and none; seventeen texts, at least two for each
  rung of the ladder of types, and 0.5 between two booleans, so that a number can
  grow out of every rung; trees of five rules and conditions, in any shape,
  over three interchangeable conditions (a run of six passed as well, in four
  minutes). The theorems hold for trees of any size.

Runs without a deadlock check (`CHECK_DEADLOCK FALSE`) are of systems that do
stop: a worker that ended, an evaluation that is done, a bounded list.

## 4. Fairness

Safety properties are checked of `Init /\ [][Next]_vars`, or of a specification
whose fairness they do not need. Liveness assumes, and says so by name:

- `WF_vars(WorkerUpdate)` (Client). A worker that was started gets an update
  through in the end, which is what `EventuallyCurrent` of LocalEvaluation shows
  from the fairness below; it is used for `EventuallyReady` alone.
- `WorkerFairness` (LocalEvaluation), `Fairness` (Analytics). Go runs every
  goroutine that can run: weak fairness of the workers' steps. A request of the
  client's HTTP client ends, since that has a timeout: weak fairness of what ends
  it. `select` picks at random among ready cases, so a case that is ready again
  and again is taken: strong fairness of `PollStop` and `Stop`. `sync.Mutex`
  starves no waiter: strong fairness of the steps that take it.
- `NetworkFairness` and the rest of `FairNetworkSpec`. The network lets each page,
  and each batch and its answer, through now and then. This is an assumption on
  the surroundings and not on the code, used only for `EventuallyCurrent`,
  `StreamRecovers` and `EventuallyReported`; the strong form leaves any finite
  number of failures between two successes.
- `SpeakingServer`. The SSE server answers and sends another line or ends the
  stream. It is the antecedent of `StopsIfServerSpeaks`; `realtime_hangs` shows
  that without it the property fails.

Nothing is assumed of the application, of those who edit the environment, or of
anyone who calls `Flush`. `CancelContext` may happen at any time or never.

## 5. What is proved

Proved by TLAPS for every value of the constants, under the named assumptions of
each module (`UpdateAssumption`: a positive number of versions and of pages;
`LocalEvaluationAssumption`: the same, and an application that is not a worker;
`BackoffAssumption`: a positive initial backoff not above the maximum;
`ClientAssumption`: options have the arguments of their types, and the environment
keys differ; `MatchAssumption` and `RoundingAssumption`: the tables have numbers,
what parses as an integer parses as a float, and rounding keeps the order of
integers; `MultivariateAssumption`: a positive number of buckets and weights of
0 to 100 %; `EditAssumption`: a bound on the number of variants;
`AnalyticsAssumption`: posters and trackers are different goroutines;
`EvaluationAssumption`: keys are ordered as integers; `OverridesAssumption`: values
have texts of the form above, and a JSON array begins with one of `JSONStarts`).

| Theorem | Says |
|---|---|
| `UpdateEnvironmentProofs!TypeCorrect`, `StampsAreConservative`, `StoresAgree` | the three invariants of UpdateEnvironment |
| `UpdateEnvironmentProofs!ImplementsAtomicRefresh` | UpdateEnvironment implements PublishedEnvironment: what is installed is whole, and no older than the call |
| `LocalEvaluationProofs!ComposesUpdates` | seen through the shared variables, the workers and the application are concurrent calls of UpdateEnvironment |
| `LocalEvaluationProofs!TypeCorrect` | the types of the whole |
| `LocalEvaluationProofs!EventsServed` | `HandledEventsServed`, for the realtime worker alone |
| `LocalEvaluationProofs!UndoneByOthersOnly` | beside other callers: what the realtime worker stores for an event is as new as the event, and only another call that began before the event's version was published undoes that |
| `BackoffProofs!OvershootBounded`, `ScheduleKept` | the delays stay below twice the maximum, and keep to the doubling schedule |
| `LocalEvaluationProofs!ComposesBackoff`, `ReconnectsWithinBounds`, `ReconnectsOnSchedule` | the realtime worker takes only steps of Backoff, hence `BoundedOvershoot` and `NeverSoonerThanSchedule` of the whole |
| `ClientProofs!TypeCorrect`, `PanicsOnConflictsOnly`, `RequestsEnd`, `KeysStayApart`, `HandlersAnswer` | the safety of Client, for any list of options and any goroutines |
| `ClientProofs!StaysReady` | the action property `ReadyForGood` |
| `IdentityOverridesProofs!OwnOverridesServed`, `PlainGroupsAreSegments` | `OwnOverridesApply`, and that a group's segment is the group, for identifiers without a comma that begin no JSON array |
| `IdentityOverridesProofs!SortedIntoOneSegment` | `SameOverridesOneSegment`, for any identifiers and values |
| `IdentityOverridesProofs!KeysCollide` | whatever the features and texts, an override whose value goes on like a second one has the key of the two |
| `EngineEditsProofs!OperatorsPartitioned`, `GrowthIsLostToBooleans` | the two properties of conditions, for any texts and tables; `OrdersPartition` and `GrowthKeepsBound` are what they rest on |
| `EngineEditsProofs!ConditionsOneWay`, `RulesOneWay` | the two properties of rules, for trees of any size and depth |
| `EngineEditsProofs!SharesFair`, `RaisingKeeps`, `OrderImmaterial` | the three properties of variants, for any number of variants and buckets, any weights and priorities |
| `AnalyticsProofs!TypeCorrect`, `NothingIsLost`, `OvercountsOnlyByLoss` | the safety of Analytics |
| `GetEvaluationResultProofs!TypeCorrect`, `StrongestIsKept`, `IdentityFirst` | the safety of GetEvaluationResult |

How the arguments go:

- *UpdateEnvironment.* That the stores agree is not inductive: it says nothing
  while a call is between its two stores. `Inv` adds what such a call relies on:
  unless `mixed` is set it is the only one there, and `Client.environment` is the
  very document it maps to the context (`OneStorer`); a call that stores has a
  document up to its last page (`HasDocument`), fetched no earlier than it began (`Fresh`). The
  refinement then needs only that `StoreContext` installs something `ReadSince`
  the call began; every other step is a stutter or one of the abstract steps.
- *LocalEvaluation.* Every action is shown to be a step of the instance or to
  leave its variables alone (`StepIsUpdateStep`), and callers that never run stay
  idle. `ComposesUpdates` follows, and carries the theorems on UpdateEnvironment
  over to the whole without another proof. `WorkerTypes` adds the workers' own
  variables.
- *The realtime worker alone.* `HandledEventsServed` is proved of configurations in which
  the realtime worker is the only caller (`Alone`). The invariant says that it is
  inside an update just while it waits for one, so that stores never mix
  (`Calling`); that stamps, events and announcements are of versions published
  already, and before the call under way began (`Past`); and that evaluations
  read something no older than what was handled and than `envUpdatedAt`
  (`Served`), which is what makes ignoring an older event right. With another
  caller the property is false, and the model has the behaviour: a slow call
  stores an older document later. Polling repairs that (`EventuallyCurrent`).
- *The realtime worker beside others.* What remains true is the action property
  `UndoneOnlyByOlderCalls`: the worker's own stores always have what it handles, and
  what was handled is undone by nothing but another's `StoreContext`, of a call that
  began before that version was published. That an update stores nothing older
  than its beginning is `StampsAreConservative` carried over from UpdateEnvironment;
  to it the invariant `Announced` adds that announcements, events and what was
  handled come from the past, and from before the call of the worker under way.
- *Analytics.* A flush that is sending holds the mutex, so there is one at most
  and nobody changes the map meanwhile (`MutexHeld`); lookups are those cleared
  plus those in the map (`Conserved`); the API has counted at least what was
  cleared, and the map besides once a flush is `counted` (`Acknowledged`), and
  nothing else as long as no answer was lost (`Exact`).
- *Backoff.* From `current < 2 * MaxBackoff` a doubling below the maximum stays
  below twice the maximum. That every step of LocalEvaluation is one of Backoff's or
  leaves its variables alone carries this over to the realtime worker. The schedule
  is a power of two, and the invariant that `current` is at least the initial
  backoff times two to the failures, or the maximum, needs that a power doubles
  with its exponent (`TwicePower`): `2^n` is counted as the subsets of a set of n
  elements, which the provers can reason about, unlike the power.
- *Client.* `OnlyConflictsPanic` compares a panic with the whole list, while a loop
  has seen a part of it. The invariant `LoopInv` therefore says what the fields of
  `c` are in terms of the options passed so far: in the first loop the number of
  client options and whether one was not nil; in the second also, for each field,
  which option decided it last. Once both loops are through, the passed options are
  all of them (`AllPassed`), and what the checks test is what `Contradictory` says.
  `CallInv` is about a running client: an offline handler means that something is
  stored, what is stored is never taken away, and a waiting request has the key it
  was given or the one the client had, which is the client's own unless `rekeyed`.
- *Induction over data.* The library's induction rules take a predicate as a
  parameter, which the provers cannot instantiate. The proofs use sets in its
  place: a non-empty set of numbers has a least one (`LeastNumber`), a non-empty set
  of finite sets one that holds no other (`LeastSet`), both from the library's
  well-founded orders; and the set of the values for which a fact holds, if it has
  the first and with each the next, has all of them (`NatSetInduction`,
  `SetInduction`).
- *IdentityOverrides.* The invariant `Grouped` says of the loop, halfway, which
  identities each group holds, those mapped so far with its key, and that its
  overrides are those of one of them. That the joined identifiers are taken apart
  into the same identifiers rests on `FlattenSingletons`, and there on
  `PlainIdentifiers`: no identifier holds a comma or can begin a JSON array. It is a
  hypothesis, not an assumption of the module, since the model has such identifiers
  and the run `identity_overrides_comma` shows what becomes of some of them. That
  entries with one key say the same (`KeysTellApart`) rests on the same lemma: an
  override without a semicolon is written as one part, from which its name, its state
  and its text can be read. `OwnOverridesApply` therefore exempts the entries that
  differ and of which one has a semicolon, and `KeysCollide` shows that these may
  indeed share a key. That sorting makes one list of one set takes that it can be
  done (`SortingExists`, from the number of overrides that come no later) and that
  lists of one set are of one length (`SortedAlike`).
- *Conditions.* Two texts that an order can be told of are compared as two
  integers on whatever rung of the ladder (`SomeRung`), so that the orders
  partition. A growing number may change its rung, from integer to float or back;
  monotone rounding is what keeps a bound that it has passed. The rung of booleans is
  the exception, which the property states: 0.5 is above 0, and 1 is not, since both
  are booleans and these have no order. The property says that it is the only one.
- *Rules.* `Tree` is the invariant: a rule is below one that comes before it, so
  that what a rule matches and whether it is inverted are defined by recursion
  (`MatchExists`, `InvertedLikeParent`). A new rule or condition leaves alone
  whatever is not above it (`NewRuleStep`, `NewConditionStep`); from there the
  direction in which contexts move is carried up, rule by rule, and turned at each
  NONE (`Upward`, `SegmentMoves`).
- *Variants.* The invariant is that the variants are those the API admits. A sum
  over a set is a fold in an order that nobody knows; `SumIsFold` shows that any
  order gives the one sum, from which follow that more or heavier variants weigh no
  less (`MoreWeighMore`, `HeavierWeighMore`) and that names do not matter
  (`RenamedWeighSame`). A variant is served the buckets between where the variants
  before it end and where it ends (`ServedBetween`), and there are as many of those
  as the interval is wide, to within one (`BetweenAsWide`). A heavier variant leaves
  alone the ends of the variants before it and moves the others on, hence
  `RaisingKeeps`. Listing the variants in another order gives a bijection of their
  places (`PlacesExist`), with which the order, the sums and so what is served
  commute (`ReorderedServed`).
- *GetEvaluationResult.* `LastOfTheStrongest` is inductive together with the
  order of the visits (`InOrder`): every key still to come is above those seen,
  and the current segment is above all others seen. `IdentityOverridesWin` follows at the
  end, when every override of a matching segment has been seen.

## 6. What is only model-checked

- Every liveness property: the prover does not do fairness and `ENABLED`.
- The realtime worker's `HandledEventsServed` beside another caller of
  UpdateEnvironment is false, as said above, and the theorem has `Alone` as a
  hypothesis. What holds of the whole is `UndoneOnlyByOlderCalls`, which is proved,
  and that the older document is replaced in the end, `EventuallyCurrent`, which is
  liveness.
- Which texts the parsers accept: the run's tables are theirs, the theorems assume
  of the tables only what is named above.

## 7. Where the code and its documentation differ

Each is a run that TLC ends with a violation.

- `realtime_hangs`: `connect` looks at `ctx` only after a line (`realtime.go:76`)
  and `http.Get` (`realtime.go:63`) takes no context, so the realtime goroutine
  outlives the context of `WithLocalEvaluation` on a silent stream, against
  `options.go:50-52`.
- `backoff_cap`: `next` doubles whenever `current` is below the maximum
  (`backoff.go:31`), so the delay goes from 25.6 s to 51.2 s, above the 30 s it is
  capped at according to `backoff.go:30` and `backoff_test.go:19`.
- `identity_overrides_comma`: identifiers are joined with commas (`mappers.go:254`)
  and taken apart again by `IN` (`evaluator.go:176`), so an identity whose
  identifier holds a comma is not in the segment of its group. The same comes of an
  identifier such as `[]` or `["ann"]`, which is read as a JSON array
  (`evaluator.go:169-173`).
- `match_integers`: `0` and `1` parse as booleans first
  (`generic_evaluator.go:126`), which have no order, so `1 GREATER_THAN 0` is
  false, against `generic_evaluator.go:42`.

Others are listed as hazards without a run, because they lie in what the models
abstract: stamps that go through a float64 (`realtime.go:133`), the priority of a
variant without ID and UUID, less than most UUIDs (`features/models.go:89`, against
`engine.go:167`), and overrides served as texts whatever the type of their values
(`mappers.go:213`).

The grouping of overrides has a limit that is in the model and not in a run of its
own: `generateHash` does not mark where a value ends (`mappers.go:188`), so that a
value such as `a;g:true:b` makes one override read like two. Identities of the one
list and of the other then share a segment, which brings all of them the overrides of
whichever was mapped last (`mappers.go:231`), against `mappers.go:196`. `KeysCollide`
proves it of any features and texts; `OwnOverridesApply` exempts such entries.

## 8. What is not modelled

- *`GetIdentitySegments` and `BulkIdentify`*: each is one load or one request, whose
  answer is passed on, without a fallback or a state of its own.
- *Options that only set a field* nothing else in the models reads: URLs, the
  refresh interval, loggers, the error handler, `WithAnalytics`. The interval
  matters to durations only, which are not modelled.
- *The data race on shared headers*: `NewClient` writes to the header map of a resty
  client that another `Client` may be reading. The model has its effect on the key
  (`ShareClient`) and not the race within the map.
- *JSONPath*: what a path finds in a context is an input of `GetContextValue`.
- *The size of documents and the form of Link headers*: nothing in the code bounds
  the number of pages, and a malformed header ends the document silently. The API
  is taken to send finite documents and proper headers.
- *Durations*: intervals, timeouts and the length of a wait. A wait ends; a
  timeout is a failure that may happen at any time.
- *Floats*: weights are whole percents, floats of the ladder are tenths, stamps
  are versions.
- *The share of a percentage split*: `MatchPercentageSplit` is part of the model of
  conditions; no property is about the one comparison that it makes.
- *Hashes*: the truncated SHA-256 that names a group of identities is taken to tell
  texts apart, and MD5 to give any bucket. The text that is hashed is modelled.
- *Names of features with colons or semicolons*: as texts in the hash they could be
  taken for a state or a value; the names that Flagsmith admits have none.
- *Reasons, metadata and formatting* of results, logging, errors, version
  headers, decoding of JSON.
- *Retries of the HTTP client* for updates: an attempt that is repeated within a
  request is part of it. For analytics the repeated batch matters and is modelled.
- *The file of the offline handler*: reading and decoding it. That its environment is
  stored before the first call is part of Client.

## 9. Plan

Done: UpdateEnvironment, PublishedEnvironment, LocalEvaluation with Backoff composed
into it, Client, Analytics, GetEvaluationResult, IdentityOverrides, Multivariate,
MatchCondition, SegmentRules and EngineEdits, with the proofs above.

Every invariant and every action property of the passing runs is a theorem. Left:
`Flags.GetFlag` of flags that the API sent, with the default handler for one flag
beside the others, and that a lookup is counted only of a flag that was found.

## 10. Running it

In this directory, with the TLA+ tools, the community modules and TLAPS:

```
tlc -workers 2 -config MCUpdateEnvironment.cfg MCUpdateEnvironment
tlapm UpdateEnvironmentProofs.tla
```

The longest run, `polling`, takes about two minutes on two cores.
