--------------------------- MODULE StartupProofs ---------------------------
(***************************************************************************)
(* Theorems about the start of the extension: its types, with what they    *)
(* say of the server and the subscription, and the origin of the license   *)
(* key.  The model has no constants: every environment is an initial       *)
(* state, and the proofs, unlike the run, do not enumerate them.           *)
(***************************************************************************)
EXTENDS Startup, TLAPS

\* What KeyFromFirstSource says of a key k, without the place where it counts.
Fits(k) ==
  /\ k = "environment" <=> env.licenseKey = "set"
  /\ k = "secret" => env.licenseKey = "unset"
  /\ k = "parameter" => env.licenseKey = "unset" /\ env.secret = "unset"
  /\ k \in DefaultKeys =>
       /\ env.licenseKey = "unset" /\ env.secret # "set"
       /\ env.secret = "unset" => env.parameter # "set"
  /\ k = NoKey => env.licenseKey = "empty" \/ env.secret # "set"

\* The places main reaches only with a key it has accepted.
Accepted == {"startServer", "subscribe", "initPipe", "initError", "eventLoop"}
KeyKept == pc \in Accepted => Fits(key)

\* TypeOK in three parts: a server that listens is listening from the
\* subscription on, and main is then past every way into noopLoop.
Typed ==
  /\ pc \in {"register", "registered", "fetchKey", "startServer", "subscribe",
             "initPipe", "initError", "eventLoop", "noop", "noopNext", "returned",
             "panicked"}
  /\ env \in Environments /\ key \in Keys \cup {NoKey}
  /\ listening \in BOOLEAN /\ subscribed \in BOOLEAN /\ ctxDone \in BOOLEAN
Served == pc \in {"subscribe", "initPipe"} \/ subscribed => listening
Unserved ==
  pc \in {"register", "registered", "fetchKey", "startServer", "noop", "noopNext",
          "returned"} => ~listening

Inv == Typed /\ Served /\ Unserved /\ KeyKept

-----------------------------------------------------------------------------
\* What a store answers: an error, or one of the keys asked for.
LEMMA StoreAnswers ==
  ASSUME NEW keys, NEW found \in Fetched(keys)
  PROVE  found = Error \/ \E k \in keys : found = Found(k)
  BY DEF Fetched

\* Keys that fit where they come from are found as they are.
LEMMA ErrorsAreTyped == Error.err /\ Error.key \in Keys \cup {NoKey}
  BY DEF Error
LEMMA FoundIsTyped ==
  ASSUME NEW k \in Keys \cup {NoKey}, Fits(k)
  PROVE  Found(k).key \in Keys \cup {NoKey} /\ Fits(Found(k).key)
  BY DEF Found

\* GetNewRelicLicenseKey returns an error or a key of the model that fits the
\* environment.
LEMMA LookupFits ==
  ASSUME env \in Environments, NEW found \in GetNewRelicLicenseKey
  PROVE  found.key \in Keys \cup {NoKey} /\ (found.err \/ Fits(found.key))
  <1>1. CASE env.licenseKey = "set"
    <2>1. found = Found("environment")
      BY <1>1 DEF GetNewRelicLicenseKey, Configuration
    <2> QED
      BY <1>1, <2>1 DEF Found, Fits, Keys, DefaultKeys, NoKey
  <1>2. CASE env.licenseKey = "empty"
    <2>1. found = Found(NoKey)
      BY <1>2 DEF GetNewRelicLicenseKey, Configuration
    <2> QED
      BY <1>2, <2>1 DEF Found, Fits, Keys, DefaultKeys, NoKey
  <1>3. CASE env.licenseKey = "unset" /\ env.secret = "set"
    <2>1. found \in Fetched({"secret"})
      BY <1>3 DEF GetNewRelicLicenseKey, Configuration, FromSecret
    <2>2. found = Error \/ found = Found("secret")
      BY <2>1, StoreAnswers
    <2>3. "secret" \in Keys /\ Fits("secret")
      BY <1>3 DEF Fits, Keys, DefaultKeys, NoKey
    <2> QED
      BY <2>2, <2>3, ErrorsAreTyped, FoundIsTyped
  <1>4. CASE env.licenseKey = "unset" /\ env.secret = "unset" /\ env.parameter = "set"
    <2>1. found \in Fetched({"parameter", NoKey})
      BY <1>4 DEF GetNewRelicLicenseKey, Configuration, FromParameter
    <2>2. found = Error \/ found = Found("parameter") \/ found = Found(NoKey)
      BY <2>1, StoreAnswers
    <2>3. "parameter" \in Keys /\ Fits("parameter") /\ Fits(NoKey)
      BY <1>4 DEF Fits, Keys, DefaultKeys, NoKey
    <2> QED
      BY <2>2, <2>3, ErrorsAreTyped, FoundIsTyped
  <1>5. CASE /\ env.licenseKey = "unset" /\ env.secret # "set"
             /\ env.secret = "unset" => env.parameter # "set"
    <2>1. found \in Fetched({"default secret"}) \cup Fetched({"default parameter", NoKey})
      BY <1>5 DEF GetNewRelicLicenseKey, Configuration, FromSecret, FromParameter
    <2>2. \/ found = Error \/ found = Found("default secret")
          \/ found = Found("default parameter") \/ found = Found(NoKey)
      BY <2>1 DEF Fetched
    <2>3. /\ {"default secret", "default parameter"} \subseteq Keys
          /\ Fits("default secret") /\ Fits("default parameter") /\ Fits(NoKey)
      BY <1>5 DEF Fits, Keys, DefaultKeys, NoKey
    <2> QED
      BY <2>2, <2>3, ErrorsAreTyped, FoundIsTyped
  <1> QED
    BY <1>1, <1>2, <1>3, <1>4, <1>5 DEF Environments, Values

-----------------------------------------------------------------------------
LEMMA InitInv == Init => Inv
  BY DEF Init, Inv, Typed, Served, Unserved, KeyKept, Accepted

\* The lookup is the one step that sets the key.
LEMMA FetchKeyPreserves == Inv /\ FetchKey => Inv'
  <1> SUFFICES ASSUME Inv, FetchKey PROVE Inv'
    OBVIOUS
  <1>1. PICK found \in GetNewRelicLicenseKey :
          /\ Step("fetchKey", {IF found.err THEN "noop" ELSE "startServer"})
          /\ key' = found.key
    BY DEF FetchKey
  <1>2. found.key \in Keys \cup {NoKey} /\ (found.err \/ Fits(found.key))
    BY LookupFits DEF Inv, Typed
  <1>3. Typed' /\ Served' /\ Unserved'
    BY <1>1, <1>2 DEF Inv, Typed, Served, Unserved, FetchKey, Step
  <1>4. KeyKept'
    <2>1. CASE found.err
      BY <1>1, <2>1 DEF Step, KeyKept, Accepted
    <2>2. CASE Fits(found.key)
      BY <1>1, <2>2 DEF Step, KeyKept, Fits
    <2> QED
      BY <1>2, <2>1, <2>2
  <1> QED
    BY <1>3, <1>4 DEF Inv

\* Every other step of main leaves key and environment alone, and reaches Accepted
\* only from within.
LEMMA MainPreserves == Inv /\ Main => Inv'
  <1> SUFFICES ASSUME Inv, Main PROVE Inv'
    OBVIOUS
  <1> USE DEF Inv, Typed, Served, Unserved, KeyKept, Accepted, Fits, Step, Call
  <1>1. CASE Register
    BY <1>1 DEF Register
  <1>2. CASE CheckEnabled
    BY <1>2 DEF CheckEnabled
  <1>3. CASE FetchKey
    BY <1>3, FetchKeyPreserves
  <1>4. CASE SecretWithoutString
    BY <1>4 DEF SecretWithoutString
  <1>5. CASE StartServer
    BY <1>5 DEF StartServer
  <1>6. CASE Subscribe
    BY <1>6 DEF Subscribe
  <1>7. CASE InitPipe
    BY <1>7 DEF InitPipe
  <1>8. CASE InitError
    BY <1>8 DEF InitError
  <1>9. CASE NoopTop
    BY <1>9 DEF NoopTop
  <1>10. CASE NoopEvent
    BY <1>10 DEF NoopEvent
  <1>11. CASE NoopNextEventFails
    BY <1>11 DEF NoopNextEventFails
  <1> QED
    BY <1>1, <1>2, <1>3, <1>4, <1>5, <1>6, <1>7, <1>8, <1>9, <1>10, <1>11
       DEF Main, Calls

LEMMA Preserved == Inv /\ [Next]_vars => Inv'
  <1> SUFFICES ASSUME Inv, [Next]_vars PROVE Inv'
    OBVIOUS
  <1>1. CASE Main
    BY <1>1, MainPreserves
  <1>2. CASE Sigterm
    BY <1>2 DEF Inv, Typed, Served, Unserved, KeyKept, Accepted, Fits, Sigterm
  <1>3. CASE UNCHANGED vars
    BY <1>3 DEF Inv, Typed, Served, Unserved, KeyKept, Accepted, Fits, vars
  <1> QED
    BY <1>1, <1>2, <1>3 DEF Next

LEMMA Invariance == Spec => []Inv
  BY InitInv, Preserved, PTL DEF Spec

\* The type invariant of the start: the platform is asked to send logs only to a
\* server that listens, and noopLoop never has one nobody drains.
THEOREM TypeCorrect == Spec => []TypeOK
  <1>1. Inv => TypeOK
    BY DEF Inv, Typed, Served, Unserved, TypeOK
  <1> QED
    BY <1>1, Invariance, PTL

\* The key the event loop sends with comes from the first source the environment
\* names (ConfigurationFromEnvironment and GetNewRelicLicenseKey together).
THEOREM KeyOfFirstSource == Spec => []KeyFromFirstSource
  <1>1. Inv => KeyFromFirstSource
    BY DEF Inv, KeyKept, Accepted, Fits, KeyFromFirstSource
  <1> QED
    BY <1>1, Invariance, PTL
=============================================================================
