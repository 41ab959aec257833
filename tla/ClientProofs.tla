------------------------------ MODULE ClientProofs ------------------------------
(***************************************************************************)
(* NewClient, for options of any number and in any order, and the calls of *)
(* the client it returns.                                                  *)
(***************************************************************************)
EXTENDS Client, TLAPS

-------------------------------------------------------------------------------
(* Types.                                                                   *)

LEMMA InitTypes == ASSUME Init PROVE TypeOK
  <1>1. PICK n \in 0..MaxOptions : options \in [1..n -> Options]
    BY SMT DEF Init
  <1>2. options \in Seq(Options) /\ next \in 1..(Len(options) + 1)
    BY <1>1, ClientAssumption, SMT DEF Init
  <1>3. c \in ClientType
    BY SMT DEF Init, ClientType
  <1>4. Answered(None) \in CallType
    BY SMT DEF Answered, CallType
  <1>5. calls \in [Callers -> CallType]
    BY <1>4, SMT DEF Init
  <1>6. serverKey \in BOOLEAN /\ customs \in Nat /\ header = None /\ rekeyed = FALSE
    BY SMT DEF Init
  <1>7. stage = "clients" /\ stored = None /\ ctxDone = FALSE
    BY DEF Init
  <1>8. QED
    BY <1>2, <1>3, <1>5, <1>6, <1>7, Zenon DEF TypeOK

LEMMA CurrentOption ==
  ASSUME TypeOK, next <= Len(options)
  PROVE  /\ next \in Position
         /\ options[next] \in Options
         /\ OptionOK(options[next])
  BY ClientAssumption, SMT DEF TypeOK, Position

LEMMA SetFieldTypes ==
  ASSUME TypeOK, NEW o, SetField(o), o.name \in HandlerOptions => o.arg \in {"handler", None}
  PROVE  c' \in ClientType
  <1>1. CASE o.name = "WithLocalEvaluation" /\ c' = [c EXCEPT !.localEvaluation = TRUE]
    BY <1>1, Zenon DEF TypeOK, ClientType
  <1>2. CASE o.name = "WithRemoteEvaluation" /\ c' = [c EXCEPT !.localEvaluation = FALSE]
    BY <1>2, Zenon DEF TypeOK, ClientType
  <1>3. CASE o.name = "WithOfflineMode" /\ c' = [c EXCEPT !.offlineMode = TRUE]
    BY <1>3, Zenon DEF TypeOK, ClientType
  <1>4. CASE o.name = "WithRealtime" /\ c' = [c EXCEPT !.useRealtime = TRUE]
    BY <1>4, Zenon DEF TypeOK, ClientType
  <1>5. CASE o.name = "WithPolling" /\ c' = [c EXCEPT !.polling = TRUE]
    BY <1>5, Zenon DEF TypeOK, ClientType
  <1>6. CASE o.name = "WithOfflineHandler" /\ c' = [c EXCEPT !.offlineHandler = o.arg]
    BY <1>6, SMT DEF TypeOK, ClientType, HandlerOptions
  <1>7. CASE o.name = "WithDefaultHandler" /\ c' = [c EXCEPT !.defaultFlagHandler = o.arg]
    BY <1>7, SMT DEF TypeOK, ClientType, HandlerOptions
  <1>8. QED
    BY <1>1, <1>2, <1>3, <1>4, <1>5, <1>6, <1>7 DEF SetField

LEMMA NewClientTypes == ASSUME TypeOK, NewClient PROVE TypeOK'
  <1>1. CASE ApplyClientOption
    <2>1. options[next].arg \in Nat \cup {None}
      BY <1>1, CurrentOption, SMT DEF ApplyClientOption, OptionOK
    <2>2. c' \in ClientType
      <3>1. PICK given \in Nat \cup {None} : given = options[next].arg
        BY <2>1
      <3>2. \/ c' = c
            \/ c' = [c EXCEPT !.httpClient = given]
            \/ c' = [c EXCEPT !.client = given]
        BY <1>1, <3>1, Zenon DEF ApplyClientOption
      <3>3. c \in ClientType
        BY DEF TypeOK
      <3>4. QED
        BY <3>1, <3>2, <3>3, Zenon DEF ClientType
    <2>3. QED
      BY <1>1, <2>2, SMT DEF ApplyClientOption, TypeOK
  <1>2. CASE SkipOption
    BY <1>2, SMT DEF SkipOption, TypeOK
  <1>3. CASE UseClient
    <2>1. GivenTimeout \in Nat
      BY SMT DEF GivenTimeout, TypeOK, ClientType
    <2>2. Bounded(GivenTimeout) \in Nat
      BY <2>1, ClientAssumption, SMT DEF Bounded
    <2>3. CustomClient \in BOOLEAN
      BY SMT DEF CustomClient
    <2>4. c' = [c EXCEPT !.userProvidedClient = CustomClient, !.client = Bounded(GivenTimeout)]
      BY <1>3 DEF UseClient
    <2>5. c' \in ClientType
      <3> DEFINE user == CustomClient
                 timeout == Bounded(GivenTimeout)
      <3>1. user \in BOOLEAN /\ timeout \in Nat
        BY <2>2, <2>3
      <3>2. c' = [c EXCEPT !.userProvidedClient = user, !.client = timeout]
        BY <2>4
      <3> HIDE DEF user, timeout
      <3>3. QED
        BY <3>1, <3>2, Zenon DEF TypeOK, ClientType
    <2>6. QED
      BY <1>3, <2>5, SMT DEF UseClient, TypeOK, Keys
  <1>4. CASE ModifyClient
    <2>1. /\ options[next].name = "WithRequestTimeout" => options[next].arg \in Nat
          /\ options[next].name = "WithCustomHeaders" => options[next].arg \in Keys \cup {None}
      BY <1>4, CurrentOption, SMT DEF ModifyClient, OptionOK
    <2>2. \/ UNCHANGED c
          \/ c' = [c EXCEPT !.client = options[next].arg] /\ options[next].arg \in Nat
      BY <1>4, <2>1 DEF ModifyClient
    <2>3. c' \in ClientType
      BY <2>2, SMT DEF TypeOK, ClientType
    <2>4. header' \in Keys \cup {None} /\ rekeyed' \in BOOLEAN
      BY <1>4, <2>1 DEF ModifyClient, TypeOK
    <2>5. next' \in 1..(Len(options) + 1) /\ stage' \in {"rest", "panicked"}
      BY <1>4, SMT DEF ModifyClient, TypeOK
    <2>6. QED
      BY <1>4, <2>3, <2>4, <2>5 DEF ModifyClient, TypeOK
  <1>5. CASE ApplyOption
    <2>1. options[next].name \in HandlerOptions => options[next].arg \in {"handler", None}
      BY <1>5, CurrentOption, SMT DEF ApplyOption, OptionOK
    <2>2. c' \in ClientType
      BY <1>5, <2>1, SetFieldTypes DEF ApplyOption
    <2>3. QED
      BY <1>5, <2>2, SMT DEF ApplyOption, TypeOK
  <1>6. CASE Check
    BY <1>6, SMT DEF Check, TypeOK, building
  <1>7. CASE Refuse
    BY <1>7, SMT DEF Refuse, TypeOK, building
  <1>8. CASE Start
    BY <1>8, SMT DEF Start, TypeOK, OfflineEnvironment
  <1>9. QED
    BY <1>1, <1>2, <1>3, <1>4, <1>5, <1>6, <1>7, <1>8 DEF NewClient

\* A call that is over, and one that waits, are calls.
LEMMA AnswerIsCall ==
  ASSUME NEW from \in {None, "environment", "api", "default", "error"}
  PROVE  Answered(from) \in CallType
  BY SMT DEF Answered, CallType

LEMMA SourcesOfFlags ==
  /\ FromStored \in {"environment", "error"}
  /\ Fallback \in {"environment", "default", "error"}
  /\ Flags \in {"environment", "default", "error"}
  BY SMT DEF FromStored, Fallback, Flags

LEMMA RunningTypes ==
  ASSUME TypeOK,
         \/ Update \/ WorkerUpdate \/ CancelContext \/ ShareClient
         \/ \E a \in Callers : GetFlags(a)
  PROVE  TypeOK'
  <1>1. CASE Update \/ WorkerUpdate
    BY <1>1, SMT DEF Update, WorkerUpdate, building, TypeOK
  <1>2. CASE CancelContext
    BY <1>2, SMT DEF CancelContext, building, TypeOK
  <1>3. CASE ShareClient
    BY <1>3, SMT DEF ShareClient, building, TypeOK, Keys
  <1>4. ASSUME NEW a \in Callers, GetFlags(a) PROVE TypeOK'
    <2>1. CASE Evaluate(a)
      <3>1. calls' \in [Callers -> CallType]
        BY <2>1, AnswerIsCall, SourcesOfFlags, SMT DEF Evaluate, TypeOK
      <3>2. QED
        BY <2>1, <3>1, SMT DEF Evaluate, building, TypeOK
    <2>2. CASE Send(a)
      <3>1. PICK key \in Keys \cup {None} :
              calls' = [calls EXCEPT ![a] =
                [waiting |-> TRUE, key |-> key,
                 sent |-> IF key # None THEN key ELSE header, from |-> None]]
        BY <2>2 DEF Send
      <3>2. [waiting |-> TRUE, key |-> key,
             sent |-> IF key # None THEN key ELSE header, from |-> None] \in CallType
        BY SMT DEF CallType, TypeOK
      <3>3. calls' \in [Callers -> CallType]
        BY <3>1, <3>2, SMT DEF TypeOK
      <3>4. QED
        BY <2>2, <3>3, SMT DEF Send, building, TypeOK
    <2>3. CASE Receive(a)
      <3>1. calls' \in [Callers -> CallType]
        BY <2>3, AnswerIsCall, SourcesOfFlags, SMT DEF Receive, TypeOK
      <3>2. QED
        BY <2>3, <3>1, SMT DEF Receive, building, TypeOK
    <2>4. QED
      BY <1>4, <2>1, <2>2, <2>3 DEF GetFlags
  <1>5. QED
    BY <1>1, <1>2, <1>3, <1>4

LEMMA StepTypes == ASSUME TypeOK, [Next]_vars PROVE TypeOK'
  <1>1. CASE UNCHANGED vars
    BY <1>1, SMT DEF vars, building, TypeOK
  <1>2. QED
    BY <1>1, NewClientTypes, RunningTypes DEF Next

\* The types are right, for any options in any number.
THEOREM TypeCorrect == Spec => []TypeOK
  BY InitTypes, StepTypes, PTL DEF Spec

-------------------------------------------------------------------------------
(* The two loops, as far as they have come: what holds of the options before *)
(* next.                                                                     *)

\* The i-th option has the last word among those before the n-th.
DecidesBefore(i, names, n) ==
  /\ i < n
  /\ options[i].name \in names
  /\ \A j \in Position : j > i /\ j < n => options[j].name \notin names

HandlerBefore(name, n) ==
  \E i \in Position : DecidesBefore(i, {name}, n) /\ options[i].arg # None

LocalBefore(n) ==
  \E i \in Position :
    /\ DecidesBefore(i, {"WithLocalEvaluation", "WithRemoteEvaluation"}, n)
    /\ options[i].name = "WithLocalEvaluation"

NamedBefore(name, n) == \E i \in Position : i < n /\ options[i].name = name

ClientGivenBefore(n) ==
  \E i \in Position : i < n /\ options[i].name \in ClientOptions /\ options[i].arg # None

OneClientBefore(n) ==
  \A i, j \in Position :
    i < n /\ j < n /\ {options[i].name, options[j].name} \subseteq ClientOptions => i = j

LEMMA PassedOption ==
  ASSUME TypeOK, next <= Len(options), NEW name
  PROVE  /\ HandlerBefore(name, next + 1)
              <=> IF options[next].name = name THEN options[next].arg # None
                  ELSE HandlerBefore(name, next)
         /\ LocalBefore(next + 1)
              <=> \/ options[next].name = "WithLocalEvaluation"
                  \/ options[next].name # "WithRemoteEvaluation" /\ LocalBefore(next)
         /\ NamedBefore(name, next + 1)
              <=> options[next].name = name \/ NamedBefore(name, next)
         /\ ClientGivenBefore(next + 1)
              <=> \/ options[next].name \in ClientOptions /\ options[next].arg # None
                  \/ ClientGivenBefore(next)
  <1>1. next \in Position /\ next \in Nat /\ \A i \in Position : i \in Nat /\ (i < next + 1 <=> i = next \/ i < next)
    BY SMT DEF TypeOK, Position
  <1>2. ASSUME NEW names, NEW i \in Position
        PROVE  DecidesBefore(i, names, next + 1)
                 <=> IF options[next].name \in names THEN i = next
                     ELSE DecidesBefore(i, names, next)
    BY <1>1, SMT DEF DecidesBefore
  <1>3. HandlerBefore(name, next + 1)
          <=> IF options[next].name = name THEN options[next].arg # None
              ELSE HandlerBefore(name, next)
    BY <1>1, <1>2 DEF HandlerBefore
  <1>4. LocalBefore(next + 1)
          <=> \/ options[next].name = "WithLocalEvaluation"
              \/ options[next].name # "WithRemoteEvaluation" /\ LocalBefore(next)
    BY <1>1, <1>2 DEF LocalBefore
  <1>5. QED
    BY <1>1, <1>3, <1>4, SMT DEF NamedBefore, ClientGivenBefore

\* The first loop: how many clients there were, and which.
FirstLoop ==
  stage = "clients" =>
    /\ customs \in {0, 1}
    /\ customs = 0 => \A i \in Position : i < next => options[i].name \notin ClientOptions
    /\ customs = 1 => \E i \in Position : i < next /\ options[i].name \in ClientOptions
    /\ OneClientBefore(next)
    /\ CustomClient <=> ClientGivenBefore(next)
    /\ ~c.localEvaluation /\ ~c.offlineMode
    /\ c.offlineHandler = None /\ c.defaultFlagHandler = None

\* The second: the fields, each by the option that has the last word so far, and no
\* option passed that modifies a custom client.
SecondLoop ==
  stage \in {"rest", "checks"} =>
    /\ OneClientBefore(Len(options) + 1)
    /\ c.userProvidedClient <=> ClientGivenBefore(Len(options) + 1)
    /\ c.userProvidedClient =>
         \A i \in Position : i < next => options[i].name \notin ModifyingOptions
    /\ c.localEvaluation <=> LocalBefore(next)
    /\ c.offlineMode <=> NamedBefore("WithOfflineMode", next)
    /\ c.offlineHandler # None <=> HandlerBefore("WithOfflineHandler", next)
    /\ c.defaultFlagHandler # None <=> HandlerBefore("WithDefaultHandler", next)
    /\ c.client \in Nat
    /\ c.client = 0 => \E i \in Position : options[i].name = "WithRequestTimeout" /\ options[i].arg = 0
    /\ stage = "checks" => next = Len(options) + 1

Panicked == stage = "panicked" => Contradictory

LoopInv == TypeOK /\ FirstLoop /\ SecondLoop /\ Panicked

\* With every option passed, the prefix is the list.
LEMMA AllPassed ==
  ASSUME TypeOK, NEW name
  PROVE  /\ HandlerBefore(name, Len(options) + 1) <=> HandlerGiven(name)
         /\ LocalBefore(Len(options) + 1) <=> LocalChosen
         /\ NamedBefore(name, Len(options) + 1)
              <=> \E i \in Position : options[i].name = name
  <1>1. \A i \in Position : i < Len(options) + 1
    BY SMT DEF TypeOK, Position
  <1>2. ASSUME NEW names, NEW i \in Position
        PROVE  DecidesBefore(i, names, Len(options) + 1) <=> Decides(i, names)
    BY <1>1 DEF DecidesBefore, Decides
  <1>3. QED
    BY <1>1, <1>2 DEF HandlerBefore, HandlerGiven, LocalBefore, LocalChosen, NamedBefore

LEMMA ChecksDecide ==
  ASSUME LoopInv, stage = "checks"
  PROVE  Refused <=> Contradictory
  <1>1. /\ OneClientBefore(Len(options) + 1)
        /\ c.userProvidedClient <=> ClientGivenBefore(Len(options) + 1)
        /\ c.userProvidedClient =>
             \A i \in Position : i < next => options[i].name \notin ModifyingOptions
        /\ \A i \in Position : i < Len(options) + 1
        /\ next = Len(options) + 1
    BY SMT DEF LoopInv, SecondLoop, TypeOK, Position
  <1>2. ~\E i, j \in Position :
          i # j /\ {options[i].name, options[j].name} \subseteq ClientOptions
    BY <1>1 DEF OneClientBefore
  <1>3. ~\E i, j \in Position :
          /\ options[i].name \in ClientOptions /\ options[i].arg # None
          /\ options[j].name \in ModifyingOptions
    BY <1>1 DEF ClientGivenBefore
  <1>4. /\ c.localEvaluation <=> LocalChosen
        /\ c.offlineMode <=> \E i \in Position : options[i].name = "WithOfflineMode"
        /\ c.offlineHandler # None <=> HandlerGiven("WithOfflineHandler")
        /\ c.defaultFlagHandler # None <=> HandlerGiven("WithDefaultHandler")
    BY <1>1, AllPassed, Zenon DEF LoopInv, SecondLoop
  <1>5. QED
    BY <1>2, <1>3, <1>4 DEF Refused, Contradictory

LEMMA InitLoops == ASSUME Init PROVE LoopInv
  <1>1. TypeOK
    BY InitTypes
  <1>2. next = 1 /\ \A i \in Position : ~(i < next)
    BY SMT DEF Init, Position
  <1>3. /\ stage = "clients" /\ customs = 0
        /\ c.httpClient = None /\ c.client = None
        /\ ~c.localEvaluation /\ ~c.offlineMode
        /\ c.offlineHandler = None /\ c.defaultFlagHandler = None
    BY DEF Init
  <1>4. FirstLoop
    BY <1>2, <1>3 DEF FirstLoop, OneClientBefore, ClientGivenBefore, CustomClient
  <1>5. QED
    BY <1>1, <1>3, <1>4 DEF LoopInv, SecondLoop, Panicked

\* What the list says does not change before NewClient returns.
LEMMA SameList ==
  ASSUME UNCHANGED <<serverKey, options>>
  PROVE  /\ Position' = Position
         /\ Contradictory' <=> Contradictory
         /\ ClientGivenBefore(Len(options) + 1)' <=> ClientGivenBefore(Len(options) + 1)
         /\ OneClientBefore(Len(options) + 1)' <=> OneClientBefore(Len(options) + 1)
  <1>1. serverKey' = serverKey /\ options' = options
    OBVIOUS
  <1>2. Position' = Position
    BY <1>1 DEF Position
  <1>3. Contradictory' <=> Contradictory
    BY <1>1, <1>2 DEF Contradictory, Decides, HandlerGiven, LocalChosen
  <1>4. QED
    BY <1>1, <1>2, <1>3 DEF ClientGivenBefore, OneClientBefore

\* A loop goes on to the next option, or stays where it is.
LEMMA NextPrefix ==
  ASSUME UNCHANGED <<serverKey, options>>, NEW CONSTANT name
  PROVE  \A n : n = next' =>
           /\ HandlerBefore(name, next)' <=> HandlerBefore(name, n)
           /\ LocalBefore(next)' <=> LocalBefore(n)
           /\ NamedBefore(name, next)' <=> NamedBefore(name, n)
           /\ ClientGivenBefore(next)' <=> ClientGivenBefore(n)
           /\ OneClientBefore(next)' <=> OneClientBefore(n)
  <1>1. options' = options /\ Position' = Position
    BY SameList
  <1>2. TAKE n
  <1>3. HAVE n = next'
  <1>4. HandlerBefore(name, next)' <=> HandlerBefore(name, n)
    BY <1>1, <1>3 DEF HandlerBefore, DecidesBefore
  <1>5. LocalBefore(next)' <=> LocalBefore(n)
    BY <1>1, <1>3 DEF LocalBefore, DecidesBefore
  <1>6. NamedBefore(name, next)' <=> NamedBefore(name, n)
    BY <1>1, <1>3 DEF NamedBefore
  <1>7. ClientGivenBefore(next)' <=> ClientGivenBefore(n)
    BY <1>1, <1>3 DEF ClientGivenBefore
  <1>8. OneClientBefore(next)' <=> OneClientBefore(n)
    BY <1>1, <1>3 DEF OneClientBefore
  <1>9. QED
    BY <1>4, <1>5, <1>6, <1>7, <1>8

LEMMA ClientLoopStep ==
  ASSUME LoopInv, ApplyClientOption
  PROVE  FirstLoop' /\ SecondLoop' /\ Panicked'
  <1>1. /\ TypeOK /\ stage = "clients" /\ next <= Len(options)
        /\ UNCHANGED <<serverKey, options>> /\ options[next].name \in ClientOptions
        /\ customs' = customs + 1
    BY DEF LoopInv, ApplyClientOption
  <1>2. /\ customs \in {0, 1}
        /\ customs = 0 => \A i \in Position : i < next => options[i].name \notin ClientOptions
        /\ customs = 1 => \E i \in Position : i < next /\ options[i].name \in ClientOptions
        /\ OneClientBefore(next)
        /\ CustomClient <=> ClientGivenBefore(next)
        /\ ~c.localEvaluation /\ ~c.offlineMode
        /\ c.offlineHandler = None /\ c.defaultFlagHandler = None
    BY <1>1, Zenon DEF LoopInv, FirstLoop
  <1>3. next \in Position /\ \A i \in Position : i < next + 1 <=> i = next \/ i < next
    BY <1>1, SMT DEF TypeOK, Position
  <1>4. CASE customs = 1
    <2>1. stage' = "panicked"
      BY <1>1, <1>4, SMT DEF ApplyClientOption
    <2>2. PICK i \in Position : i < next /\ options[i].name \in ClientOptions
      BY <1>2, <1>4
    <2>3. i # next
      BY <2>2, <1>1, SMT DEF TypeOK, Position
    <2>4. Contradictory
      BY <1>1, <1>3, <2>2, <2>3 DEF Contradictory
    <2>5. QED
      BY <1>1, <2>1, <2>4, SameList DEF FirstLoop, SecondLoop, Panicked
  <1>5. CASE customs = 0
    <2>1. /\ stage' = "clients" /\ next' = next + 1 /\ customs' = 1
          /\ c' = IF options[next].arg = None THEN c
                  ELSE IF options[next].name = "WithHTTPClient"
                  THEN [c EXCEPT !.httpClient = options[next].arg]
                  ELSE [c EXCEPT !.client = options[next].arg]
      BY <1>1, <1>5, SMT DEF ApplyClientOption
    <2>2. ~CustomClient
      BY <1>2, <1>5 DEF ClientGivenBefore
    <2>3. CustomClient' <=> options[next].arg # None
      BY <1>1, <2>1, <2>2, SMT DEF CustomClient, TypeOK, ClientType
    <2>4. ClientGivenBefore(next)' <=> options[next].arg # None
      BY <1>1, <1>2, <2>1, <2>2, NextPrefix, PassedOption
    <2>5. OneClientBefore(next)'
      BY <1>1, <1>2, <1>3, <1>5, <2>1, NextPrefix DEF OneClientBefore
    <2>6. customs' = 1 /\ \E i \in Position' : i < next' /\ options'[i].name \in ClientOptions
      BY <1>1, <1>3, <2>1, SameList
    <2>7. /\ c'.localEvaluation = c.localEvaluation /\ c'.offlineMode = c.offlineMode
          /\ c'.offlineHandler = c.offlineHandler
          /\ c'.defaultFlagHandler = c.defaultFlagHandler
      BY <1>1, <2>1, Zenon DEF TypeOK, ClientType
    <2>8. QED
      BY <1>2, <2>1, <2>3, <2>4, <2>5, <2>6, <2>7 DEF FirstLoop, SecondLoop, Panicked
  <1>6. QED
    BY <1>2, <1>4, <1>5

LEMMA SkipStep ==
  ASSUME LoopInv, SkipOption
  PROVE  FirstLoop' /\ SecondLoop' /\ Panicked'
  <1>1. /\ TypeOK /\ next <= Len(options) /\ next' = next + 1
        /\ UNCHANGED <<serverKey, options, customs, c, stage>>
        /\ \/ stage = "clients" /\ options[next].name \notin ClientOptions
           \/ stage = "rest" /\ options[next].name \in ClientOptions
    BY DEF LoopInv, SkipOption
  <1>2. /\ next \in Position
        /\ \A i \in Position : i < next + 1 <=> i = next \/ i < next
        /\ Position' = Position
    BY <1>1, SameList, SMT DEF TypeOK, Position
  <1>3. CASE stage = "clients"
    <2>1. OneClientBefore(next)' <=> OneClientBefore(next)
      BY <1>1, <1>2, <1>3, NextPrefix DEF OneClientBefore
    <2>2. ClientGivenBefore(next)' <=> ClientGivenBefore(next)
      BY <1>1, <1>3, NextPrefix, PassedOption
    <2>3. CustomClient' <=> CustomClient
      BY <1>1 DEF CustomClient
    <2>4. FirstLoop'
      BY <1>1, <1>2, <1>3, <2>1, <2>2, <2>3 DEF LoopInv, FirstLoop
    <2>5. QED
      BY <1>1, <1>3, <2>4 DEF SecondLoop, Panicked
  <1>4. CASE stage = "rest"
    <2>1. options[next].name \notin ModifyingOptions \cup
            {"WithLocalEvaluation", "WithRemoteEvaluation", "WithOfflineMode",
             "WithOfflineHandler", "WithDefaultHandler"}
      BY <1>1, <1>4 DEF ClientOptions, ModifyingOptions
    <2>2. /\ LocalBefore(next)' <=> LocalBefore(next)
          /\ NamedBefore("WithOfflineMode", next)' <=> NamedBefore("WithOfflineMode", next)
          /\ HandlerBefore("WithOfflineHandler", next)' <=> HandlerBefore("WithOfflineHandler", next)
          /\ HandlerBefore("WithDefaultHandler", next)' <=> HandlerBefore("WithDefaultHandler", next)
      BY <1>1, <2>1, NextPrefix, PassedOption
    <2>3. SecondLoop'
      BY <1>1, <1>2, <1>4, <2>1, <2>2, SameList DEF LoopInv, SecondLoop
    <2>4. QED
      BY <1>1, <1>4, <2>3 DEF FirstLoop, Panicked
  <1>5. QED
    BY <1>1, <1>3, <1>4

LEMMA UseClientStep ==
  ASSUME LoopInv, UseClient
  PROVE  FirstLoop' /\ SecondLoop' /\ Panicked'
  <1>1. /\ TypeOK /\ stage = "clients" /\ stage' = "rest" /\ next > Len(options) /\ next' = 1
        /\ UNCHANGED <<serverKey, options>>
        /\ c' = [c EXCEPT !.userProvidedClient = CustomClient, !.client = Bounded(GivenTimeout)]
    BY DEF LoopInv, UseClient
  <1>2. next = Len(options) + 1 /\ Position' = Position /\ \A i \in Position : ~(i < 1)
    BY <1>1, SameList, SMT DEF TypeOK, Position
  <1>3. /\ OneClientBefore(next)
        /\ CustomClient <=> ClientGivenBefore(next)
        /\ ~c.localEvaluation /\ ~c.offlineMode
        /\ c.offlineHandler = None /\ c.defaultFlagHandler = None
    BY <1>1, Zenon DEF LoopInv, FirstLoop
  <1>4. /\ c'.userProvidedClient = CustomClient
        /\ c'.localEvaluation = c.localEvaluation /\ c'.offlineMode = c.offlineMode
        /\ c'.offlineHandler = c.offlineHandler
        /\ c'.defaultFlagHandler = c.defaultFlagHandler
    BY <1>1, Zenon DEF TypeOK, ClientType
  <1>5. GivenTimeout \in Nat
    BY <1>1, SMT DEF GivenTimeout, TypeOK, ClientType
  <1>6. Bounded(GivenTimeout) \in Nat \ {0}
    BY <1>5, ClientAssumption, SMT DEF Bounded
  <1>7. c'.client = Bounded(GivenTimeout)
    BY <1>1, Zenon DEF TypeOK, ClientType
  <1>8. /\ ~LocalBefore(next)' /\ ~NamedBefore("WithOfflineMode", next)'
        /\ ~HandlerBefore("WithOfflineHandler", next)'
        /\ ~HandlerBefore("WithDefaultHandler", next)'
    BY <1>1, <1>2 DEF LocalBefore, NamedBefore, HandlerBefore, DecidesBefore
  <1>9. SecondLoop'
    BY <1>1, <1>2, <1>3, <1>4, <1>6, <1>7, <1>8, SameList DEF SecondLoop
  <1>10. QED
    BY <1>1, <1>9 DEF FirstLoop, Panicked

LEMMA ModifyStep ==
  ASSUME LoopInv, ModifyClient
  PROVE  FirstLoop' /\ SecondLoop' /\ Panicked'
  <1>1. /\ TypeOK /\ stage = "rest" /\ next <= Len(options)
        /\ options[next].name \in ModifyingOptions /\ UNCHANGED <<serverKey, options>>
    BY DEF LoopInv, ModifyClient
  <1>2. /\ next \in Position /\ Position' = Position
        /\ \A i \in Position : i < next + 1 <=> i = next \/ i < next
    BY <1>1, SameList, SMT DEF TypeOK, Position
  <1>3. CASE c.userProvidedClient
    <2>1. stage' = "panicked"
      BY <1>3 DEF ModifyClient
    <2>2. ClientGivenBefore(Len(options) + 1)
      BY <1>1, <1>3 DEF LoopInv, SecondLoop
    <2>3. Contradictory
      BY <1>1, <1>2, <2>2 DEF ClientGivenBefore, Contradictory
    <2>4. QED
      BY <1>1, <2>1, <2>3, SameList DEF FirstLoop, SecondLoop, Panicked
  <1>4. CASE ~c.userProvidedClient
    <2>1. /\ stage' = "rest" /\ next' = next + 1
          /\ c' = IF options[next].name = "WithRequestTimeout"
                  THEN [c EXCEPT !.client = options[next].arg] ELSE c
      BY <1>1, <1>4 DEF ModifyClient
    <2>2. options[next].name \notin
            {"WithLocalEvaluation", "WithRemoteEvaluation", "WithOfflineMode",
             "WithOfflineHandler", "WithDefaultHandler"}
      BY <1>1 DEF ModifyingOptions
    <2>3. /\ LocalBefore(next)' <=> LocalBefore(next)
          /\ NamedBefore("WithOfflineMode", next)' <=> NamedBefore("WithOfflineMode", next)
          /\ HandlerBefore("WithOfflineHandler", next)' <=> HandlerBefore("WithOfflineHandler", next)
          /\ HandlerBefore("WithDefaultHandler", next)' <=> HandlerBefore("WithDefaultHandler", next)
      BY <1>1, <2>1, <2>2, NextPrefix, PassedOption
    <2>4. /\ c'.userProvidedClient = c.userProvidedClient
          /\ c'.localEvaluation = c.localEvaluation /\ c'.offlineMode = c.offlineMode
          /\ c'.offlineHandler = c.offlineHandler
          /\ c'.defaultFlagHandler = c.defaultFlagHandler
      BY <1>1, <2>1, Zenon DEF TypeOK, ClientType
    <2>5. /\ c'.client \in Nat
          /\ c'.client = 0 => \E i \in Position : options[i].name = "WithRequestTimeout" /\ options[i].arg = 0
      <3>1. CASE options[next].name = "WithRequestTimeout"
        <4>1. options[next].arg \in Nat
          BY <1>1, <3>1, CurrentOption DEF OptionOK
        <4>2. c'.client = options[next].arg
          BY <1>1, <2>1, <3>1, Zenon DEF TypeOK, ClientType
        <4>3. QED
          BY <1>2, <3>1, <4>1, <4>2
      <3>2. CASE options[next].name # "WithRequestTimeout"
        BY <1>1, <2>1, <3>2 DEF LoopInv, SecondLoop
      <3>3. QED
        BY <3>1, <3>2
    <2>6. SecondLoop'
      BY <1>1, <1>2, <1>4, <2>1, <2>3, <2>4, <2>5, SameList DEF LoopInv, SecondLoop
    <2>7. QED
      BY <2>1, <2>6 DEF FirstLoop, Panicked
  <1>5. QED
    BY <1>3, <1>4

LEMMA ApplyStep ==
  ASSUME LoopInv, ApplyOption
  PROVE  FirstLoop' /\ SecondLoop' /\ Panicked'
  <1> DEFINE o == options[next]
  <1>1. /\ TypeOK /\ stage = "rest" /\ stage' = "rest" /\ next <= Len(options) /\ next' = next + 1
        /\ SetField(o) /\ UNCHANGED <<serverKey, options>>
    BY DEF LoopInv, ApplyOption
  <1>2. /\ next \in Position /\ Position' = Position
        /\ \A i \in Position : i < next + 1 <=> i = next \/ i < next
    BY <1>1, SameList, SMT DEF TypeOK, Position
  <1>3. o.name \notin ModifyingOptions
    BY <1>1 DEF SetField, ModifyingOptions
  <1>4. /\ LocalBefore(next)' <=> \/ o.name = "WithLocalEvaluation"
                                  \/ o.name # "WithRemoteEvaluation" /\ LocalBefore(next)
        /\ NamedBefore("WithOfflineMode", next)'
             <=> o.name = "WithOfflineMode" \/ NamedBefore("WithOfflineMode", next)
        /\ HandlerBefore("WithOfflineHandler", next)'
             <=> IF o.name = "WithOfflineHandler" THEN o.arg # None
                 ELSE HandlerBefore("WithOfflineHandler", next)
        /\ HandlerBefore("WithDefaultHandler", next)'
             <=> IF o.name = "WithDefaultHandler" THEN o.arg # None
                 ELSE HandlerBefore("WithDefaultHandler", next)
    BY <1>1, NextPrefix, PassedOption
  <1>5. /\ c'.userProvidedClient = c.userProvidedClient
        /\ c'.client = c.client
    BY <1>1, Zenon DEF SetField, TypeOK, ClientType
  <1>6. c'.localEvaluation <=> \/ o.name = "WithLocalEvaluation"
                               \/ o.name # "WithRemoteEvaluation" /\ c.localEvaluation
    BY <1>1, Zenon DEF SetField, TypeOK, ClientType
  <1>7. c'.offlineMode <=> o.name = "WithOfflineMode" \/ c.offlineMode
    BY <1>1, Zenon DEF SetField, TypeOK, ClientType
  <1>8. c'.offlineHandler = IF o.name = "WithOfflineHandler" THEN o.arg ELSE c.offlineHandler
    BY <1>1, Zenon DEF SetField, TypeOK, ClientType
  <1>9. c'.defaultFlagHandler = IF o.name = "WithDefaultHandler" THEN o.arg ELSE c.defaultFlagHandler
    BY <1>1, Zenon DEF SetField, TypeOK, ClientType
  <1> HIDE DEF o
  <1>10. \A i \in Position : i < next + 1 /\ i # next => i < next
    BY <1>2
  <1>11. c'.userProvidedClient =>
           \A i \in Position : i < next' => options'[i].name \notin ModifyingOptions
    BY <1>1, <1>2, <1>3, <1>5 DEF LoopInv, SecondLoop, o
  <1>12. SecondLoop'
    BY <1>1, <1>2, <1>4, <1>5, <1>6, <1>7, <1>8, <1>9, <1>11, SameList DEF LoopInv, SecondLoop
  <1>13. QED
    BY <1>1, <1>12 DEF FirstLoop, Panicked

LEMMA CheckStep ==
  ASSUME LoopInv, Check
  PROVE  FirstLoop' /\ SecondLoop' /\ Panicked'
  <1>1. /\ TypeOK /\ stage = "rest" /\ stage' = "checks" /\ next > Len(options)
        /\ UNCHANGED <<serverKey, options, next, c>>
    BY DEF LoopInv, Check, building
  <1>2. next = Len(options) + 1
    BY <1>1, SMT DEF TypeOK
  <1>3. /\ LocalBefore(next)' <=> LocalBefore(next)
        /\ NamedBefore("WithOfflineMode", next)' <=> NamedBefore("WithOfflineMode", next)
        /\ HandlerBefore("WithOfflineHandler", next)' <=> HandlerBefore("WithOfflineHandler", next)
        /\ HandlerBefore("WithDefaultHandler", next)' <=> HandlerBefore("WithDefaultHandler", next)
    BY <1>1, NextPrefix
  <1>4. SecondLoop'
    BY <1>1, <1>2, <1>3, SameList DEF LoopInv, SecondLoop
  <1>5. QED
    BY <1>1, <1>4 DEF FirstLoop, Panicked

LEMMA RefuseStep ==
  ASSUME LoopInv, Refuse
  PROVE  FirstLoop' /\ SecondLoop' /\ Panicked'
  <1>1. stage = "checks" /\ stage' = "panicked" /\ Refused /\ UNCHANGED <<serverKey, options>>
    BY DEF Refuse, building
  <1>2. QED
    BY <1>1, ChecksDecide, SameList DEF FirstLoop, SecondLoop, Panicked

\* Nothing that happens to a client that runs is about its options.
LEMMA RunStep ==
  ASSUME LoopInv, UNCHANGED <<building, stage>>
  PROVE  FirstLoop' /\ SecondLoop' /\ Panicked'
  <1>1. UNCHANGED <<serverKey, options, next, customs, c, stage>>
    BY DEF building
  <1>2. /\ LocalBefore(next)' <=> LocalBefore(next)
        /\ NamedBefore("WithOfflineMode", next)' <=> NamedBefore("WithOfflineMode", next)
        /\ HandlerBefore("WithOfflineHandler", next)' <=> HandlerBefore("WithOfflineHandler", next)
        /\ HandlerBefore("WithDefaultHandler", next)' <=> HandlerBefore("WithDefaultHandler", next)
        /\ ClientGivenBefore(next)' <=> ClientGivenBefore(next)
        /\ OneClientBefore(next)' <=> OneClientBefore(next)
    BY <1>1, NextPrefix
  <1>3. FirstLoop'
    BY <1>1, <1>2, SameList DEF LoopInv, FirstLoop, CustomClient
  <1>4. SecondLoop'
    BY <1>1, <1>2, SameList DEF LoopInv, SecondLoop
  <1>5. QED
    BY <1>1, <1>3, <1>4, SameList DEF LoopInv, Panicked

LEMMA StepLoops == ASSUME LoopInv, [Next]_vars PROVE LoopInv'
  <1>1. TypeOK'
    BY StepTypes DEF LoopInv
  <1>2. CASE Start
    BY <1>1, <1>2 DEF Start, LoopInv, FirstLoop, SecondLoop, Panicked
  <1>3. CASE UNCHANGED <<building, stage>>
    BY <1>1, <1>3, RunStep DEF LoopInv
  <1>4. CASE NewClient
    BY <1>1, <1>2, <1>4, ClientLoopStep, SkipStep, UseClientStep, ModifyStep, ApplyStep,
       CheckStep, RefuseStep DEF NewClient, LoopInv
  <1>5. QED
    <2>1. CASE Update \/ WorkerUpdate \/ CancelContext \/ ShareClient
      BY <2>1, <1>3 DEF Update, WorkerUpdate, CancelContext, ShareClient
    <2>2. CASE \E a \in Callers : GetFlags(a)
      BY <2>2, <1>3 DEF GetFlags, Evaluate, Send, Receive
    <2>3. CASE UNCHANGED vars
      BY <2>3, <1>3 DEF vars
    <2>4. QED
      BY <1>4, <2>1, <2>2, <2>3 DEF Next

\* For options in any number and order: NewClient panics just when they contradict
\* each other, as a set with a last word for each field.
THEOREM PanicsOnConflictsOnly == Spec => []OnlyConflictsPanic
  <1>1. LoopInv => OnlyConflictsPanic
    BY ChecksDecide DEF LoopInv, Panicked, OnlyConflictsPanic
  <1>2. QED
    BY <1>1, InitLoops, StepLoops, PTL DEF Spec

\* A client that has been built has a timeout, unless its options say none.
THEOREM RequestsEnd == Spec => []RequestsAreBounded
  <1>1. LoopInv => RequestsAreBounded
    <2>1. SUFFICES ASSUME LoopInv, stage = "checks" PROVE RequestsAreBounded
      BY DEF RequestsAreBounded
    <2>2. /\ c.client \in Nat
          /\ c.client = 0 => \E i \in Position : options[i].name = "WithRequestTimeout" /\ options[i].arg = 0
      BY <2>1 DEF LoopInv, SecondLoop
    <2>3. QED
      BY <2>2, SMT DEF RequestsAreBounded
  <1>2. QED
    BY <1>1, InitLoops, StepLoops, PTL DEF Spec

-------------------------------------------------------------------------------
(* The calls of a client that runs.                                         *)

\* The environment key in the header is the client's own unless something else has set it.
HeaderSet ==
  /\ stage \in {"rest", "checks", "running"} => header \in Keys /\ (header = ApiKey \/ rekeyed)
  /\ stage = "clients" => ~rekeyed

NotRunning == stage # "running" => stored = None /\ \A a \in Callers : calls[a] = Answered(None)

\* What is stored stays, and the offline handler's is there from the start.
StoredFirst ==
  /\ stage = "running" /\ c.offlineHandler # None => stored # None
  /\ \A a \in Callers : calls[a].from = "environment" => stored # None

\* Clients that evaluate by themselves send nothing.
NothingSent == \A a \in Callers : calls[a].waiting => stage = "running" /\ ~FromEnvironment

CallParts == HeaderSet /\ NotRunning /\ StoredFirst /\ NothingSent /\ OwnKey /\ FallbackNeverFails

CallInv == TypeOK /\ CallParts

LEMMA InitCalls == ASSUME Init PROVE CallInv
  <1>1. TypeOK
    BY InitTypes
  <1>2. stage = "clients" /\ rekeyed = FALSE /\ stored = None
    BY DEF Init
  <1>3. \A a \in Callers : calls[a] = Answered(None)
    BY DEF Init
  <1>4. \A a \in Callers : ~calls[a].waiting /\ calls[a].from = None
    BY <1>3 DEF Answered
  <1>5. None # "environment" /\ None # "error"
    BY ClientAssumption
  <1>6. QED
    BY <1>1, <1>2, <1>3, <1>4, <1>5
    DEF CallInv, CallParts, HeaderSet, NotRunning, StoredFirst, NothingSent, OwnKey, FallbackNeverFails

LEMMA NewClientCalls == ASSUME CallInv, NewClient PROVE CallParts'
  <1>1. stage # "running" /\ calls' = calls
    BY DEF NewClient, ApplyClientOption, SkipOption, UseClient, ModifyClient, ApplyOption, Check,
           Refuse, Start
  <1>2. /\ stored = None /\ \A a \in Callers : calls[a] = Answered(None)
    BY <1>1 DEF CallInv, CallParts, NotRunning
  <1>3. \A a \in Callers : /\ calls'[a] = Answered(None)
                           /\ ~calls'[a].waiting /\ calls'[a].from = None
    <2>1. ~Answered(None).waiting /\ Answered(None).from = None
      BY DEF Answered
    <2>2. QED
      BY <1>1, <1>2, <2>1
  <1>4. None # "environment" /\ None # "error"
    BY ClientAssumption
  <1>5. NothingSent' /\ FallbackNeverFails'
    BY <1>3, <1>4 DEF NothingSent, FallbackNeverFails
  <1>6. stage' = "running" => stored' = OfflineEnvironment /\ UNCHANGED <<c, header, rekeyed>>
    BY <1>1 DEF NewClient, ApplyClientOption, SkipOption, UseClient, ModifyClient, ApplyOption,
                Check, Refuse, Start
  <1>7. stage' # "running" => stored' = None
    BY <1>2 DEF NewClient, ApplyClientOption, SkipOption, UseClient, ModifyClient, ApplyOption,
                Check, Refuse, Start
  <1>8. StoredFirst'
    BY <1>3, <1>4, <1>6, ClientAssumption DEF StoredFirst, OfflineEnvironment
  <1>9. NotRunning'
    BY <1>3, <1>7 DEF NotRunning
  <1>10. HeaderSet'
    <2>1. CASE ApplyClientOption
      BY <2>1 DEF ApplyClientOption, CallInv, CallParts, HeaderSet
    <2>2. CASE SkipOption \/ ApplyOption \/ Check \/ Refuse \/ Start
      BY <2>2 DEF SkipOption, ApplyOption, Check, Refuse, Start, CallInv, CallParts, HeaderSet
    <2>3. CASE UseClient
      BY <2>3 DEF UseClient, HeaderSet, Keys
    <2>4. CASE ModifyClient
      <3>1. options[next].name = "WithCustomHeaders" => options[next].arg \in Keys \cup {None}
        BY <2>4, CurrentOption DEF ModifyClient, OptionOK, CallInv
      <3>2. QED
        BY <2>4, <3>1 DEF ModifyClient, CallInv, CallParts, HeaderSet
    <2>5. QED
      BY <2>1, <2>2, <2>3, <2>4 DEF NewClient
  <1>11. OwnKey'
    BY <1>3, <1>6, <1>7 DEF OwnKey, OfflineEnvironment
  <1>12. QED
    BY <1>5, <1>8, <1>9, <1>10, <1>11 DEF CallParts

LEMMA UpdateCalls == ASSUME CallInv, Update PROVE CallParts'
  <1>1. /\ stage = "running" /\ stored' = header
        /\ UNCHANGED <<c, stage, header, rekeyed, calls>>
    BY DEF Update, building
  <1>2. header \in Keys /\ (header = ApiKey \/ rekeyed) /\ header # None
    BY <1>1, ClientAssumption DEF CallInv, CallParts, HeaderSet
  <1>3. QED
    BY <1>1, <1>2 DEF CallInv, CallParts, HeaderSet, NotRunning, StoredFirst, NothingSent,
                      FromEnvironment, OwnKey, FallbackNeverFails

LEMMA ShareCalls == ASSUME CallInv, ShareClient PROVE CallParts'
  BY DEF ShareClient, building, CallInv, CallParts, HeaderSet, Keys, NotRunning, StoredFirst,
         NothingSent, FromEnvironment, OwnKey, FallbackNeverFails

\* A goroutine's call is answered.
LEMMA AnsweredCalls ==
  ASSUME CallInv, stage = "running", NEW a \in Callers, NEW from \in {"api", Flags, Fallback},
         calls' = [calls EXCEPT ![a] = Answered(from)],
         UNCHANGED <<building, stage, header, rekeyed, stored, ctxDone>>
  PROVE  /\ CallParts'
         /\ \A b \in Callers : calls'[b] = IF b = a THEN Answered(from) ELSE calls[b]
  <1>1. UNCHANGED <<c, stage, header, rekeyed, stored>>
    BY DEF building
  <1>2. \A b \in Callers : calls'[b] = IF b = a THEN Answered(from) ELSE calls[b]
    BY DEF CallInv, TypeOK
  <1>3. Answered(from).from = from /\ ~Answered(from).waiting
    BY DEF Answered
  <1>4. from = "environment" => stored # None
    BY ClientAssumption DEF Flags, Fallback, FromStored
  <1>5. from = "error" => c.offlineHandler = None /\ c.defaultFlagHandler = None
    <2>1. c.offlineHandler # None => stored # None
      BY DEF CallInv, CallParts, StoredFirst
    <2>2. QED
      BY <2>1 DEF Flags, Fallback, FromStored
  <1>6. HeaderSet' /\ NotRunning'
    BY <1>1 DEF CallInv, CallParts, HeaderSet, NotRunning
  <1>7. StoredFirst' /\ NothingSent'
    BY <1>1, <1>2, <1>3, <1>4 DEF CallInv, CallParts, StoredFirst, NothingSent, FromEnvironment
  <1>8. OwnKey' /\ FallbackNeverFails'
    BY <1>1, <1>2, <1>3, <1>5 DEF CallInv, CallParts, OwnKey, FallbackNeverFails
  <1>9. QED
    BY <1>2, <1>6, <1>7, <1>8 DEF CallParts

LEMMA SendCalls == ASSUME CallInv, NEW a \in Callers, Send(a) PROVE CallParts'
  <1>1. /\ stage = "running" /\ ~FromEnvironment /\ UNCHANGED <<c, stage, header, rekeyed, stored>>
    BY DEF Send, building
  <1>2. PICK key \in Keys \cup {None} :
          calls' = [calls EXCEPT ![a] =
            [waiting |-> TRUE, key |-> key,
             sent |-> IF key # None THEN key ELSE header, from |-> None]]
    BY DEF Send
  <1> DEFINE sent == IF key # None THEN key ELSE header
             call == [waiting |-> TRUE, key |-> key, sent |-> sent, from |-> None]
  <1>3. call.waiting /\ call.key = key /\ call.sent = sent /\ call.from = None
    OBVIOUS
  <1>4. \A b \in Callers : calls'[b] = IF b = a THEN call ELSE calls[b]
    BY <1>2 DEF CallInv, TypeOK
  <1>5. key # None => sent = key
    OBVIOUS
  <1>6. key = None => rekeyed \/ sent = ApiKey
    BY <1>1 DEF CallInv, CallParts, HeaderSet
  <1> HIDE DEF call, sent
  <1>7. None # "environment" /\ None # "error"
    BY ClientAssumption
  <1>8. HeaderSet' /\ NotRunning'
    BY <1>1 DEF CallInv, CallParts, HeaderSet, NotRunning
  <1>9. StoredFirst' /\ NothingSent' /\ FallbackNeverFails'
    BY <1>1, <1>3, <1>4, <1>7 DEF CallInv, CallParts, StoredFirst, NothingSent, FromEnvironment,
                                  FallbackNeverFails
  <1>10. OwnKey'
    BY <1>1, <1>3, <1>4, <1>5, <1>6 DEF CallInv, CallParts, OwnKey
  <1>11. QED
    BY <1>8, <1>9, <1>10 DEF CallParts

LEMMA GetFlagsCalls == ASSUME CallInv, NEW a \in Callers, GetFlags(a) PROVE CallParts'
  <1>1. CASE Evaluate(a)
    BY <1>1, AnsweredCalls DEF Evaluate
  <1>2. CASE Receive(a)
    BY <1>2, AnsweredCalls DEF Receive, CallInv, CallParts, NothingSent
  <1>3. QED
    BY <1>1, <1>2, SendCalls DEF GetFlags

LEMMA StepCalls == ASSUME CallInv, [Next]_vars PROVE CallInv'
  <1>1. TypeOK'
    BY StepTypes DEF CallInv
  <1>2. ASSUME UNCHANGED <<building, stage, header, rekeyed, stored, calls>> PROVE CallParts'
    <2>1. UNCHANGED <<c, stage, header, rekeyed, stored, calls>>
      BY <1>2 DEF building
    <2>2. HeaderSet' /\ NotRunning' /\ StoredFirst'
      BY <2>1 DEF CallInv, CallParts, HeaderSet, NotRunning, StoredFirst
    <2>3. NothingSent' /\ OwnKey' /\ FallbackNeverFails'
      BY <2>1 DEF CallInv, CallParts, NothingSent, FromEnvironment, OwnKey, FallbackNeverFails
    <2>4. QED
      BY <2>2, <2>3 DEF CallParts
  <1>3. CallParts'
    <2>1. CASE Update \/ WorkerUpdate
      BY <2>1, UpdateCalls DEF WorkerUpdate
    <2>2. CASE CancelContext \/ UNCHANGED vars
      BY <2>2, <1>2 DEF CancelContext, vars
    <2>3. QED
      BY <2>1, <2>2, NewClientCalls, ShareCalls, GetFlagsCalls DEF Next
  <1>4. QED
    BY <1>1, <1>3 DEF CallInv

\* Whatever other goroutines send, a request carries its own key or the client's.
THEOREM KeysStayApart == Spec => []OwnKey
  BY InitCalls, StepCalls, PTL DEF Spec, CallInv, CallParts

\* With a handler no call for flags fails.
THEOREM HandlersAnswer == Spec => []FallbackNeverFails
  BY InitCalls, StepCalls, PTL DEF Spec, CallInv, CallParts

\* Once served from the stored environment, always.
THEOREM StaysReady == Spec => ReadyForGood
  <1>1. ASSUME CallInv, [Next]_vars, NEW a \in Callers,
               FromEnvironment, calls[a].from = "environment"
        PROVE  calls'[a].from = "environment"
    <2>1. stored # None
      BY <1>1 DEF CallInv, CallParts, StoredFirst
    <2>2. stage = "running"
      BY <2>1, <1>1 DEF CallInv, CallParts, NotRunning
    <2>3. Flags = "environment"
      BY <2>1 DEF Flags
    <2>4. CASE UNCHANGED calls
      BY <1>1, <2>4
    <2>5. ASSUME NEW b \in Callers, GetFlags(b) PROVE calls'[a].from = "environment"
      <3>1. Evaluate(b)
        BY <1>1, <2>5 DEF GetFlags, Send, Receive, CallInv, CallParts, NothingSent
      <3>2. calls'[a] = IF a = b THEN Answered(Flags) ELSE calls[a]
        BY <1>1, <2>2, <3>1, AnsweredCalls DEF Evaluate
      <3>3. Answered(Flags).from = Flags
        BY DEF Answered
      <3>4. QED
        BY <1>1, <2>3, <3>2, <3>3
    <2>6. CASE NewClient
      BY <2>2, <2>6 DEF NewClient, ApplyClientOption, SkipOption, UseClient, ModifyClient,
                        ApplyOption, Check, Refuse, Start
    <2>7. QED
      BY <1>1, <2>4, <2>5, <2>6
      DEF Next, Update, WorkerUpdate, CancelContext, ShareClient, vars
  <1>2. CallInv /\ [Next]_vars =>
          [\A a \in Callers :
             FromEnvironment /\ calls[a].from = "environment" => calls'[a].from = "environment"]_vars
    BY <1>1
  <1>3. QED
    BY <1>2, InitCalls, StepCalls, PTL DEF Spec, ReadyForGood

===============================================================================
