-------------------------------- MODULE MCClient --------------------------------
(* Options of every kind, of those that differ in no more than their field one: *)
(* clients without and with a timeout, nil clients and handlers, a request      *)
(* timeout of none, and headers that name an environment key.                   *)
EXTENDS Client

FlagOptions == {"WithLocalEvaluation", "WithRemoteEvaluation", "WithOfflineMode",
                "WithRealtime", "WithPolling"}

Opt(name, args) == [name : {name}, arg : args]

SomeOptions ==
  Opt("WithHTTPClient", {None, 0}) \cup Opt("WithRestyClient", {None, 0, 3})
    \cup Opt("WithRequestTimeout", {0, 5}) \cup Opt("WithCustomHeaders", {None, "another"})
    \cup Opt("WithOfflineHandler", {None, "handler"}) \cup Opt("WithDefaultHandler", {None, "handler"})
    \cup [name : FlagOptions, arg : {None}]

===============================================================================
