--------------------------------- MODULE Client ---------------------------------
(***************************************************************************)
(* A Client from NewClient on: how its options are applied, when it panics *)
(* instead, which workers it starts, and where flags come from afterwards: *)
(* the API, the environment that is stored, or the default handler.        *)
(*                                                                         *)
(* NewClient goes over the options twice, first for the HTTP client alone. *)
(* Once it is built, any number of goroutines ask for flags while updates  *)
(* are stored.  An update is a single step here: UpdateEnvironment and     *)
(* LocalEvaluation have what is inside.  Options that set a field which    *)
(* nothing below reads (URLs, intervals, loggers, handlers of errors,      *)
(* analytics) are left out.                                                *)
(***************************************************************************)
EXTENDS Naturals, Sequences

CONSTANTS
  Options,        \* what may be given to NewClient: records [name, arg]
  MaxOptions,     \* bound on how many are given
  DefaultTimeout,
  ApiKey,         \* the environment key given to NewClient
  OtherKeys,      \* keys of other environments
  Callers,        \* the application's goroutines
  None

ClientOptions == {"WithHTTPClient", "WithRestyClient"}

ModifyingOptions == {"WithRequestTimeout", "WithRetries", "WithCustomHeaders", "WithProxy"}

HandlerOptions == {"WithOfflineHandler", "WithDefaultHandler"}

Keys == {ApiKey} \cup OtherKeys

\* A client's argument is its timeout, 0 for none; that of WithCustomHeaders the
\* environment key among the headers; None is nil, and no such key.
OptionOK(o) ==
  /\ o.name \in ClientOptions => o.arg \in Nat \cup {None}
  /\ o.name = "WithRequestTimeout" => o.arg \in Nat
  /\ o.name = "WithCustomHeaders" => o.arg \in Keys \cup {None}
  /\ o.name \in HandlerOptions => o.arg \in {"handler", None}

ASSUME ClientAssumption ==
  /\ \A o \in Options : OptionOK(o)
  /\ MaxOptions \in Nat
  /\ DefaultTimeout \in Nat \ {0}
  /\ ApiKey \notin OtherKeys
  /\ None \notin Nat \cup Keys
  /\ None \notin {"file", "environment", "error"}

VARIABLES
  serverKey, \* apiKey has the prefix "ser."
  options,   \* those given to NewClient, until it returns
  next,      \* the option its loop is at
  stage,     \* "clients" and "rest": the two loops; then "checks" and "running"
  customs,   \* customClientCount
  c,         \* the Client; its HTTP clients are known by their timeouts
  header,    \* the environment key among the headers of c.client
  rekeyed,   \* history: something else than c's NewClient has set header
  stored,    \* key of the environment in engineEvaluationContext
  ctxDone,   \* the context given to WithLocalEvaluation is done
  calls      \* each goroutine's call for flags

building == <<serverKey, options, next, customs, c>>
vars == <<building, stage, header, rekeyed, stored, ctxDone, calls>>

-------------------------------------------------------------------------------
(* NewClient.                                                               *)

\* A call that is over; from None: none so far.
Answered(from) == [waiting |-> FALSE, key |-> None, sent |-> None, from |-> from]

Init ==
  /\ serverKey \in BOOLEAN
  /\ \E n \in 0..MaxOptions : options \in [1..n -> Options]
  /\ next = 1
  /\ stage = "clients"
  /\ customs = 0
  /\ c = [httpClient |-> None, client |-> None, userProvidedClient |-> FALSE,
          localEvaluation |-> FALSE, offlineMode |-> FALSE,
          useRealtime |-> FALSE, polling |-> FALSE,
          offlineHandler |-> None, defaultFlagHandler |-> None]
  /\ header = None
  /\ rekeyed = FALSE
  /\ stored = None
  /\ ctxDone = FALSE
  /\ calls = [a \in Callers |-> Answered(None)]

\* The first loop: options for the HTTP client, of which there may be one.
ApplyClientOption ==
  /\ stage = "clients"
  /\ next <= Len(options)
  /\ options[next].name \in ClientOptions
  /\ customs' = customs + 1
  /\ IF customs' > 1
     THEN stage' = "panicked" /\ UNCHANGED <<next, c>>
     ELSE /\ next' = next + 1
          /\ c' = IF options[next].arg = None THEN c
                  ELSE IF options[next].name = "WithHTTPClient"
                  THEN [c EXCEPT !.httpClient = options[next].arg]
                  ELSE [c EXCEPT !.client = options[next].arg]
          /\ UNCHANGED stage
  /\ UNCHANGED <<serverKey, options, header, rekeyed, stored, ctxDone, calls>>

\* Each loop passes over the options of the other.
SkipOption ==
  /\ next <= Len(options)
  /\ \/ stage = "clients" /\ options[next].name \notin ClientOptions
     \/ stage = "rest" /\ options[next].name \in ClientOptions
  /\ next' = next + 1
  /\ UNCHANGED <<serverKey, options, customs, c, stage, header, rekeyed, stored, ctxDone, calls>>

GivenTimeout ==
  IF c.client # None THEN c.client ELSE IF c.httpClient # None THEN c.httpClient ELSE 0

\* Mutants: a given http.Client is no custom client; a custom client keeps the
\* timeout it has, if any.
CustomClientResty == c.client # None

BoundedOwn(timeout) == IF c.client = None /\ c.httpClient = None THEN DefaultTimeout ELSE timeout

CustomClient == c.client # None \/ c.httpClient # None

Bounded(timeout) == IF timeout = 0 THEN DefaultTimeout ELSE timeout

\* The resty client that is used, with the environment key among its headers and
\* a timeout.
UseClient ==
  /\ stage = "clients"
  /\ next > Len(options)
  /\ c' = [c EXCEPT !.userProvidedClient = CustomClient, !.client = Bounded(GivenTimeout)]
  /\ header' = ApiKey
  /\ next' = 1
  /\ stage' = "rest"
  /\ UNCHANGED <<serverKey, options, customs, rekeyed, stored, ctxDone, calls>>

\* The second loop.  An option that modifies the client panics on a custom one.
ModifyClient ==
  /\ stage = "rest"
  /\ next <= Len(options)
  /\ options[next].name \in ModifyingOptions
  /\ IF c.userProvidedClient
     THEN stage' = "panicked" /\ UNCHANGED <<next, c, header, rekeyed>>
     ELSE /\ next' = next + 1
          /\ c' = IF options[next].name = "WithRequestTimeout"
                  THEN [c EXCEPT !.client = options[next].arg] ELSE c
          /\ IF options[next].name = "WithCustomHeaders" /\ options[next].arg # None
             THEN header' = options[next].arg /\ rekeyed' = TRUE
             ELSE UNCHANGED <<header, rekeyed>>
          /\ UNCHANGED stage
  /\ UNCHANGED <<serverKey, options, customs, stored, ctxDone, calls>>

\* The options that set a field of the Client.
SetField(o) ==
  \/ o.name = "WithLocalEvaluation" /\ c' = [c EXCEPT !.localEvaluation = TRUE]
  \/ o.name = "WithRemoteEvaluation" /\ c' = [c EXCEPT !.localEvaluation = FALSE]
  \/ o.name = "WithOfflineMode" /\ c' = [c EXCEPT !.offlineMode = TRUE]
  \/ o.name = "WithRealtime" /\ c' = [c EXCEPT !.useRealtime = TRUE]
  \/ o.name = "WithPolling" /\ c' = [c EXCEPT !.polling = TRUE]
  \/ o.name = "WithOfflineHandler" /\ c' = [c EXCEPT !.offlineHandler = o.arg]
  \/ o.name = "WithDefaultHandler" /\ c' = [c EXCEPT !.defaultFlagHandler = o.arg]

ApplyOption ==
  /\ stage = "rest"
  /\ next <= Len(options)
  /\ SetField(options[next])
  /\ next' = next + 1
  /\ UNCHANGED <<serverKey, options, customs, stage, header, rekeyed, stored, ctxDone, calls>>

Check ==
  /\ stage = "rest"
  /\ next > Len(options)
  /\ stage' = "checks"
  /\ UNCHANGED <<building, header, rekeyed, stored, ctxDone, calls>>

\* The combinations that the end of NewClient panics on.
Refused ==
  \/ c.offlineMode /\ c.offlineHandler = None
  \/ c.defaultFlagHandler # None /\ c.offlineHandler # None
  \/ c.localEvaluation /\ c.offlineHandler # None
  \/ c.localEvaluation /\ ~serverKey

Refuse ==
  /\ stage = "checks"
  /\ Refused
  /\ stage' = "panicked"
  /\ UNCHANGED <<building, header, rekeyed, stored, ctxDone, calls>>

\* Mutant: the offline handler is asked in offline mode only.
OfflineEnvironmentInMode ==
  IF c.offlineHandler # None /\ c.offlineMode THEN "file" ELSE None

OfflineEnvironment == IF c.offlineHandler # None THEN "file" ELSE None

\* The offline handler's environment is stored, and NewClient returns.
Start ==
  /\ stage = "checks"
  /\ ~Refused
  /\ stage' = "running"
  /\ stored' = OfflineEnvironment
  /\ options' = <<>>
  /\ next' = 1
  /\ UNCHANGED <<serverKey, customs, c, header, rekeyed, ctxDone, calls>>

-------------------------------------------------------------------------------
(* Updates.  One that fails changes nothing; one that succeeds stores the   *)
(* environment whose key its requests carried.                              *)

\* Mutant: polling must be asked for.
WorkersOnRequest ==
  (IF c.localEvaluation /\ c.polling THEN {"poll"} ELSE {})
    \cup (IF c.localEvaluation /\ c.useRealtime THEN {"realtime"} ELSE {})

\* The workers that NewClient has started.
Workers ==
  (IF c.localEvaluation /\ (c.polling \/ ~c.useRealtime) THEN {"poll"} ELSE {})
    \cup (IF c.localEvaluation /\ c.useRealtime THEN {"realtime"} ELSE {})

Update ==
  /\ stage = "running"
  /\ stored' = header
  /\ UNCHANGED <<building, stage, header, rekeyed, ctxDone, calls>>

WorkerUpdate == Workers # {} /\ ~ctxDone /\ Update

CancelContext ==
  /\ stage = "running"
  /\ ~ctxDone
  /\ ctxDone' = TRUE
  /\ UNCHANGED <<building, stage, header, rekeyed, stored, calls>>

\* Another NewClient is given the same resty client, and sets its headers.
ShareClient ==
  /\ stage = "running"
  /\ c.userProvidedClient /\ c.httpClient = None
  /\ header' \in OtherKeys
  /\ rekeyed' = TRUE
  /\ UNCHANGED <<building, stage, stored, ctxDone, calls>>

-------------------------------------------------------------------------------
(* GetFlags, GetEnvironmentFlags and GetIdentityFlags.                      *)

FromEnvironment == c.localEvaluation \/ c.offlineMode

\* One load of the context, evaluated or found missing.
FromStored == IF stored # None THEN "environment" ELSE "error"

\* Where the flags come from when the first source has failed.
Fallback ==
  IF c.offlineHandler # None THEN FromStored
  ELSE IF c.defaultFlagHandler # None THEN "default" ELSE "error"

\* Mutant: what was stored is no longer evaluated once updates have stopped.
FlagsWhileUpdated == IF stored # None /\ ~ctxDone THEN "environment" ELSE Fallback

Flags == IF stored # None THEN "environment" ELSE Fallback

Evaluate(a) ==
  /\ stage = "running"
  /\ FromEnvironment
  /\ calls' = [calls EXCEPT ![a] = Answered(Flags)]
  /\ UNCHANGED <<building, stage, header, rekeyed, stored, ctxDone>>

\* Mutant: the context's key is set on the client and not on the request.
SendRekeying(a) ==
  /\ stage = "running"
  /\ ~FromEnvironment
  /\ ~calls[a].waiting
  /\ \E key \in Keys \cup {None} :
       /\ header' = IF key # None THEN key ELSE header
       /\ calls' = [calls EXCEPT ![a] =
            [waiting |-> TRUE, key |-> key, sent |-> header', from |-> None]]
  /\ UNCHANGED <<building, stage, rekeyed, stored, ctxDone>>

\* The request carries the key of the evaluation context in ctx, if it has one,
\* or else the header of the client.
Send(a) ==
  /\ stage = "running"
  /\ ~FromEnvironment
  /\ ~calls[a].waiting
  /\ \E key \in Keys \cup {None} :
       calls' = [calls EXCEPT ![a] =
         [waiting |-> TRUE, key |-> key,
          sent |-> IF key # None THEN key ELSE header, from |-> None]]
  /\ UNCHANGED <<building, stage, header, rekeyed, stored, ctxDone>>

\* The API answers, or the request fails: an error, another status, or a body
\* that does not decode.
Receive(a) ==
  /\ calls[a].waiting
  /\ \E from \in {"api", Fallback} :
       calls' = [calls EXCEPT ![a] = Answered(from)]
  /\ UNCHANGED <<building, stage, header, rekeyed, stored, ctxDone>>

-------------------------------------------------------------------------------
NewClient ==
  \/ ApplyClientOption \/ SkipOption \/ UseClient
  \/ ModifyClient \/ ApplyOption
  \/ Check \/ Refuse \/ Start

GetFlags(a) == Evaluate(a) \/ Send(a) \/ Receive(a)

Next ==
  \/ NewClient
  \/ Update \/ WorkerUpdate \/ CancelContext \/ ShareClient
  \/ \E a \in Callers : GetFlags(a)

\* The network lets an update of the workers through in the end.
Spec == Init /\ [][Next]_vars /\ WF_vars(WorkerUpdate)

-------------------------------------------------------------------------------
ClientType ==
  [httpClient : Nat \cup {None}, client : Nat \cup {None},
   userProvidedClient : BOOLEAN, localEvaluation : BOOLEAN, offlineMode : BOOLEAN,
   useRealtime : BOOLEAN, polling : BOOLEAN,
   offlineHandler : {"handler", None}, defaultFlagHandler : {"handler", None}]

CallType ==
  [waiting : BOOLEAN, key : Keys \cup {None}, sent : Keys \cup {None},
   from : {None, "environment", "api", "default", "error"}]

TypeOK ==
  /\ serverKey \in BOOLEAN
  /\ options \in Seq(Options)
  /\ next \in 1..(Len(options) + 1)
  /\ stage \in {"clients", "rest", "checks", "running", "panicked"}
  /\ customs \in Nat
  /\ c \in ClientType
  /\ header \in Keys \cup {None}
  /\ rekeyed \in BOOLEAN
  /\ stored \in Keys \cup {None, "file"}
  /\ ctxDone \in BOOLEAN
  /\ calls \in [Callers -> CallType]

Position == 1..Len(options)

\* The i-th option has the last word among those of these names.
Decides(i, names) ==
  /\ options[i].name \in names
  /\ \A j \in Position : j > i => options[j].name \notin names

HandlerGiven(name) == \E i \in Position : Decides(i, {name}) /\ options[i].arg # None

LocalChosen ==
  \E i \in Position :
    /\ Decides(i, {"WithLocalEvaluation", "WithRemoteEvaluation"})
    /\ options[i].name = "WithLocalEvaluation"

\* The options contradict each other or the key, whatever their order.
Contradictory ==
  \/ \E i, j \in Position : i # j /\ {options[i].name, options[j].name} \subseteq ClientOptions
  \/ \E i, j \in Position :
       /\ options[i].name \in ClientOptions /\ options[i].arg # None
       /\ options[j].name \in ModifyingOptions
  \/ (\E i \in Position : options[i].name = "WithOfflineMode") /\ ~HandlerGiven("WithOfflineHandler")
  \/ HandlerGiven("WithOfflineHandler") /\ HandlerGiven("WithDefaultHandler")
  \/ LocalChosen /\ (HandlerGiven("WithOfflineHandler") \/ ~serverKey)

\* NewClient panics just when its options contradict each other: none that
\* fits is turned down, and none that does not gets past both loops and the
\* checks, in whatever order they are given.
OnlyConflictsPanic ==
  /\ stage = "panicked" => Contradictory
  /\ stage = "checks" /\ ~Refused => ~Contradictory

\* Every request ends, whoever made the HTTP client, unless it was asked for that
\* none shall: the liveness of the workers and of analytics, whose flush holds the
\* mutex of every lookup, relies on it.
RequestsAreBounded ==
  stage = "checks" =>
    \/ c.client > 0
    \/ \E i \in Position : options[i].name = "WithRequestTimeout" /\ options[i].arg = 0

\* Requests of other goroutines and updates never carry the environment key that
\* one call was given: each goes out with its own or the client's, as long as
\* nothing but this NewClient has set the header.
OwnKey ==
  /\ \A a \in Callers : calls[a].waiting =>
       \/ calls[a].key # None /\ calls[a].sent = calls[a].key
       \/ calls[a].key = None /\ (rekeyed \/ calls[a].sent = ApiKey)
  /\ rekeyed \/ stored \in {None, "file", ApiKey}

\* With a handler of either kind no call for flags returns an error, whatever
\* fails: the offline handler's environment is there before the first call.
FallbackNeverFails ==
  \A a \in Callers : calls[a].from = "error" =>
    c.offlineHandler = None /\ c.defaultFlagHandler = None

\* Once a goroutine has been served from the stored environment, local evaluation
\* and offline mode never again give it an error or default flags, not after
\* failed updates or the end of the workers' context either.
ReadyForGood ==
  [][\A a \in Callers :
       FromEnvironment /\ calls[a].from = "environment" => calls'[a].from = "environment"]_vars

\* Whatever the options, local evaluation gets an environment: a worker that
\* fetches one is always started.
EventuallyReady ==
  stage = "running" /\ c.localEvaluation ~> stored # None \/ ctxDone

===============================================================================
