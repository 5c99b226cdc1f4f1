------------------------------ MODULE Startup ------------------------------
(***************************************************************************)
(* The start of the extension (main.go up to the event loop, and noopLoop):*)
(* the configuration read from the environment (config/config.go),         *)
(* registration, the license key (credentials/credentials.go), the Logs    *)
(* API server and its subscription, the agent's pipe, and what a failure   *)
(* of each leads to.  MainLoop and APMLoop begin at pc = "eventLoop".      *)
(*                                                                         *)
(* The outcome of a call is chosen when it returns; every call made with   *)
(* the context of main fails once SIGTERM has cancelled it.  A license key *)
(* is the source it came from; NoKey is the empty string.  An environment  *)
(* variable is "unset", "empty" or "set" to something.                     *)
(***************************************************************************)
EXTENDS Naturals

VARIABLES pc,           \* where main is
          env,          \* the environment
          key,          \* conf.LicenseKey, once main has it
          listening,    \* the Logs API server is up
          subscribed,   \* the platform has been asked to send it logs
          ctxDone       \* SIGTERM has cancelled the context

vars == <<pc, env, key, listening, subscribed, ctxDone>>

Values == {"unset", "empty", "set"}
Switches == {"NEW_RELIC_ENABLED", "NEW_RELIC_AGENT_ENABLED",
             "NEW_RELIC_LAMBDA_EXTENSION_ENABLED"}
Environments == [off : SUBSET Switches,   \* the switches that say false
                 licenseKey : Values, secret : Values, parameter : Values]

NoKey == "none"
DefaultKeys == {"default secret", "default parameter"}
Keys == {"environment", "secret", "parameter"} \cup DefaultKeys

Init ==
  /\ pc = "register" /\ env \in Environments /\ key = NoKey
  /\ listening = FALSE /\ subscribed = FALSE /\ ctxDone = FALSE

-----------------------------------------------------------------------------
(* The configuration and the license key *)

ExtensionEnabled == env.off = {}

\* Which of the three the configuration has; a variable hides those after it.
Configuration ==
  [licenseKey    |-> env.licenseKey = "set",
   secretId      |-> env.licenseKey = "unset" /\ env.secret = "set",
   parameterName |-> env.licenseKey = "unset" /\ env.secret = "unset"
                     /\ env.parameter = "set"]

(* The possible results of the lookup.  Secrets Manager and the Parameter Store *)
(* answer with a value, an error, or not before SIGTERM: a secret must have a   *)
(* key in it, a parameter is taken as it is.                                    *)
Error == [err |-> TRUE, key |-> NoKey]
Found(k) == [err |-> FALSE, key |-> k]
Fetched(keys) == {Error} \cup {Found(k) : k \in IF ctxDone THEN {} ELSE keys}
FromSecret(k) == Fetched({k})
FromParameter(k) == Fetched({k, NoKey})

\* Mutant: what cannot be fetched is looked for under the default name.
GetNewRelicLicenseKeyForgiving ==
  LET conf == Configuration
  IN  IF conf.licenseKey               THEN {Found("environment")}
      ELSE IF conf.secretId            THEN FromSecret("secret") \cup FromSecret("default secret")
      ELSE IF conf.parameterName       THEN FromParameter("parameter")
      ELSE IF env.licenseKey # "unset" THEN {Found(NoKey)}
      ELSE FromSecret("default secret") \cup FromParameter("default parameter")

\* os.LookupEnv finds the variable here only when it is set to nothing.
GetNewRelicLicenseKey ==
  LET conf == Configuration
  IN  IF conf.licenseKey               THEN {Found("environment")}
      ELSE IF conf.secretId            THEN FromSecret("secret")
      ELSE IF conf.parameterName       THEN FromParameter("parameter")
      ELSE IF env.licenseKey # "unset" THEN {Found(NoKey)}
      ELSE FromSecret("default secret") \cup FromParameter("default parameter")

-----------------------------------------------------------------------------
(* main *)

Step(from, to) == pc = from /\ pc' \in to /\ UNCHANGED <<env, ctxDone>>
\* A call made with the context of main that succeeds, or fails.
Call(from, success) ==
  pc = from /\ ~ctxDone /\ pc' = success /\ UNCHANGED <<env, ctxDone>>

\* Status 500 panics in the client; on another failure main reads a response
\* that is not there.
Register ==
  /\ Call("register", "registered") \/ Step("register", {"panicked"})
  /\ UNCHANGED <<key, listening, subscribed>>

CheckEnabled ==
  /\ Step("registered", {IF ExtensionEnabled THEN "fetchKey" ELSE "noop"})
  /\ UNCHANGED <<key, listening, subscribed>>

\* Mutant: the subscription comes before the server.
FetchKeyThenSubscribe ==
  /\ \E found \in GetNewRelicLicenseKey :
       /\ Step("fetchKey", {IF found.err THEN "noop" ELSE "subscribe"})
       /\ key' = found.key
  /\ UNCHANGED <<listening, subscribed>>

\* "We fail open; telemetry will go to CloudWatch instead"
FetchKey ==
  /\ \E found \in GetNewRelicLicenseKey :
       /\ Step("fetchKey", {IF found.err THEN "noop" ELSE "startServer"})
       /\ key' = found.key
  /\ UNCHANGED <<listening, subscribed>>

\* A secret in binary form has no SecretString, which is dereferenced.
AsksForSecret == env.licenseKey = "unset" /\ ~Configuration.parameterName
SecretWithoutString ==
  /\ AsksForSecret
  /\ Call("fetchKey", "panicked")
  /\ UNCHANGED <<key, listening, subscribed>>

StartServer ==
  /\ \/ Step("startServer", {"subscribe"}) /\ listening' = TRUE
     \/ Step("startServer", {"initError"}) /\ UNCHANGED listening
  /\ UNCHANGED <<key, subscribed>>

\* Status 500 panics in the client.
Subscribe ==
  /\ \/ Call("subscribe", "initPipe") /\ subscribed' = TRUE
     \/ Step("subscribe", {"initError"}) /\ UNCHANGED subscribed
     \/ Call("subscribe", "panicked") /\ UNCHANGED subscribed
  /\ UNCHANGED <<key, listening>>

\* The fifo cannot be made, or never shows up in the file system (log.Panic).
InitPipe ==
  /\ Step("initPipe", {"eventLoop", "initError", "panicked"})
  /\ UNCHANGED <<key, listening, subscribed>>

\* However InitError ends, main panics.
InitError == Step("initError", {"panicked"}) /\ UNCHANGED <<key, listening, subscribed>>

-----------------------------------------------------------------------------
(* noopLoop *)

\* Mutant: the loop does not look at the context.
NoopTopBlind ==
  /\ Step("noop", {"noopNext"})
  /\ UNCHANGED <<key, listening, subscribed>>

NoopTop ==
  /\ Step("noop", {IF ctxDone THEN "returned" ELSE "noopNext"})
  /\ UNCHANGED <<key, listening, subscribed>>

\* An Invoke event, a Shutdown event, or status 500.
NoopEvent ==
  /\ \E to \in {"noop", "returned", "panicked"} : Call("noopNext", to)
  /\ UNCHANGED <<key, listening, subscribed>>

\* NextEvent fails; so may ExitError, with status 500 or otherwise.
NoopNextEventFails ==
  /\ Step("noopNext", {"noop"}) \/ Call("noopNext", "panicked")
  /\ UNCHANGED <<key, listening, subscribed>>

-----------------------------------------------------------------------------
Sigterm ==
  /\ ~ctxDone /\ ctxDone' = TRUE
  /\ UNCHANGED <<pc, env, key, listening, subscribed>>

Calls == Register \/ Subscribe \/ FetchKey \/ NoopNextEventFails \/ InitError
Main ==
  Calls \/ CheckEnabled \/ SecretWithoutString \/ StartServer \/ InitPipe
        \/ NoopTop \/ NoopEvent

Next == Main \/ Sigterm

\* main runs.  The platform and AWS owe it no answer, but a call fails once its
\* context is done.
Fairness ==
  /\ WF_vars(CheckEnabled \/ StartServer \/ InitPipe \/ NoopTop)
  /\ WF_vars(ctxDone /\ Calls)

Spec == Init /\ [][Next]_vars /\ Fairness

-----------------------------------------------------------------------------
(* Properties *)

\* The type invariant; the platform is never given the address of a server that
\* does not listen, and in no-op mode none is left that nobody drains.
TypeOK ==
  /\ pc \in {"register", "registered", "fetchKey", "startServer", "subscribe",
             "initPipe", "initError", "eventLoop", "noop", "noopNext", "returned",
             "panicked"}
  /\ env \in Environments /\ key \in Keys \cup {NoKey}
  /\ listening \in BOOLEAN /\ subscribed \in BOOLEAN /\ ctxDone \in BOOLEAN
  /\ pc = "subscribe" \/ subscribed => listening
  /\ pc \in {"noop", "noopNext", "returned"} => ~listening

\* The key the extension sends with comes from the first source the user has
\* named, the environment variable before the two stores (README.md:109-110); a
\* source that fails is not made up for by another, and the default names count
\* only when nothing is named.  The
\* key is empty only if the user made it so.
KeyFromFirstSource ==
  pc = "eventLoop" =>
    /\ key = "environment" <=> env.licenseKey = "set"
    /\ key = "secret" => env.licenseKey = "unset"
    /\ key = "parameter" => env.licenseKey = "unset" /\ env.secret = "unset"
    /\ key \in DefaultKeys =>
         /\ env.licenseKey = "unset" /\ env.secret # "set"
         /\ env.secret = "unset" => env.parameter # "set"
    /\ key = NoKey => env.licenseKey = "empty" \/ env.secret # "set"

\* After SIGTERM the start ends, in the event loop, which looks at the context
\* itself, or with the process; so does noopLoop.
StopsWhenTold == ctxDone ~> pc \in {"eventLoop", "returned", "panicked"}
=============================================================================
