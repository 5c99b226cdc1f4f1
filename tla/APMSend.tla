------------------------------- MODULE APMSend -------------------------------
(***************************************************************************)
(* One call of SendAPMTelemetry (apm/connect.go): the payload is decoded   *)
(* and split into kinds of data, each of which has a goroutine that makes  *)
(* one request to the collector (apm/collector.go).  The caller waits for  *)
(* all of them, or for the end of its context; then it gathers the errors. *)
(* APMApp.tla has the goroutine doHarvest that makes the call, and what    *)
(* becomes of its result.                                                  *)
(*                                                                         *)
(* A goroutine is counted twice in the WaitGroup while it is in            *)
(* sendAPMTelemetryInternal, once by sendSingleTelemetry and once by that  *)
(* function itself; its error goes into errChan between the two Dones.     *)
(* When SIGTERM cancels the context the caller leaves, and the requests go *)
(* on without it, until the timeout of the HTTP client, 20s.               *)
(*                                                                         *)
(* Kinds are the seven for which there is a task: log_event_data and       *)
(* update_loaded_modules are decoded but have none, so that they are never *)
(* sent.  A panic in sendAPMTelemetryInternal, which its recover would     *)
(* turn into an empty response (connect.go:305), that is, into a success,  *)
(* is left out: nothing the function does panics on data that is there.    *)
(***************************************************************************)
EXTENDS Naturals, FiniteSets

CONSTANTS NumKinds      \* kinds of data in a payload, 7

ASSUME KindAssumption == NumKinds \in Nat

Kinds == 1..NumKinds    \* in the order of telemetryTasks

VARIABLES caller,       \* where the caller is
          next,         \* the next of the telemetryTasks
          data,         \* the kinds for which the payload has data
          sender,       \* sender[k]: where the goroutine of kind k is
          wg,           \* the WaitGroup
          errChan,      \* the kinds whose error is in the channel
          errChanClosed,
          done,         \* the channel done: not there yet, open or closed
          ctxDone,      \* SIGTERM has cancelled the context
          accepted,     \* the kinds whose request the collector has accepted
          result        \* what the call has returned

callerVars == <<caller, next, data, result, errChanClosed>>
vars == <<callerVars, sender, wg, errChan, done, ctxDone, accepted>>

Init ==
  /\ caller = "decode" /\ next = 1 /\ data = {} /\ result = "none"
  /\ sender = [k \in Kinds |-> "none"] /\ wg = 0
  /\ errChan = {} /\ errChanClosed = FALSE /\ done = "none"
  /\ ctxDone = FALSE /\ accepted = {}

-----------------------------------------------------------------------------
(* The caller *)

CallerGoes(to) ==
  /\ caller' = to
  /\ UNCHANGED <<ctxDone, accepted>>

\* GetServerlessData fails on a payload that has too few components, cannot be
\* decoded, or has another protocol version; nothing is sent then.
DecodeFails ==
  /\ caller = "decode" /\ CallerGoes("returned") /\ result' = "error"
  /\ UNCHANGED <<next, data, errChanClosed, sender, wg, errChan, done>>

\* A payload that is no list at all, or has data for no task, is not an error.
Decode ==
  /\ caller = "decode" /\ CallerGoes("tasks")
  /\ data' \in SUBSET Kinds
  /\ UNCHANGED <<next, result, errChanClosed, sender, wg, errChan, done>>

SendSingleTelemetry ==
  /\ caller = "tasks" /\ next <= NumKinds /\ CallerGoes("tasks")
  /\ next' = next + 1
  /\ IF next \in data
     THEN wg' = wg + 1 /\ sender' = [sender EXCEPT ![next] = "started"]
     ELSE UNCHANGED <<wg, sender>>
  /\ UNCHANGED <<data, result, errChanClosed, errChan, done>>

SpawnWaiter ==
  /\ caller = "tasks" /\ next > NumKinds /\ CallerGoes("select")
  /\ done' = "open"
  /\ UNCHANGED <<next, data, result, errChanClosed, sender, wg, errChan>>

\* Mutant: done is closed without waiting for the goroutines.
WaitReturnsAtOnce ==
  /\ done = "open" /\ done' = "closed"
  /\ UNCHANGED <<callerVars, sender, wg, errChan, ctxDone, accepted>>

\* The goroutine that waits for the WaitGroup.
WaitReturns ==
  /\ done = "open" /\ wg = 0 /\ done' = "closed"
  /\ UNCHANGED <<callerVars, sender, wg, errChan, ctxDone, accepted>>

\* The select: when both channels are ready, either case may be taken.
Cancelled ==
  /\ caller = "select" /\ ctxDone /\ CallerGoes("returned") /\ result' = "error"
  /\ UNCHANGED <<next, data, errChanClosed, sender, wg, errChan, done>>

AllDone ==
  /\ caller = "select" /\ done = "closed" /\ CallerGoes("aggregate")
  /\ errChanClosed' = TRUE
  /\ UNCHANGED <<next, data, result, sender, wg, errChan, done>>

AggregateErrors ==
  /\ caller = "aggregate" /\ CallerGoes("returned")
  /\ result' = IF errChan = {} THEN "success" ELSE "error"
  /\ UNCHANGED <<next, data, errChanClosed, sender, wg, errChan, done>>

Caller ==
  \/ DecodeFails \/ Decode \/ SendSingleTelemetry \/ SpawnWaiter
  \/ Cancelled \/ AllDone \/ AggregateErrors

-----------------------------------------------------------------------------
(* The goroutine of kind k: sendSingleTelemetry around sendAPMTelemetryInternal *)

SenderGoes(k, from, to) ==
  /\ sender[k] = from /\ sender' = [sender EXCEPT ![k] = to]
  /\ UNCHANGED <<callerVars, done, ctxDone>>

\* Mutant: sendAPMTelemetryInternal has its Done without its Add.
BeginUncounted(k) ==
  SenderGoes(k, "started", "requesting") /\ UNCHANGED <<wg, errChan, accepted>>

Begin(k) ==
  SenderGoes(k, "started", "requesting") /\ wg' = wg + 1 /\ UNCHANGED <<errChan, accepted>>

\* Status 200 or 202 with a body that could be read.
Confirmed(k) ==
  k \in accepted /\ SenderGoes(k, "requesting", "confirmed")
  /\ UNCHANGED <<wg, errChan, accepted>>

\* Mutant: an error of the request is only logged.
FailsUnnoticed(k) ==
  SenderGoes(k, "requesting", "confirmed") /\ UNCHANGED <<wg, errChan, accepted>>

\* Any other status, no connection, a body that could not be read, the timeout of
\* the HTTP client, or data that cannot be encoded.
Fails(k) ==
  SenderGoes(k, "requesting", "failed") /\ UNCHANGED <<wg, errChan, accepted>>

\* The deferred wg.Done of sendAPMTelemetryInternal.
InternalReturns(k) ==
  /\ \/ SenderGoes(k, "confirmed", "leaving")
     \/ SenderGoes(k, "failed", "reporting")
  /\ wg' = wg - 1 /\ UNCHANGED <<errChan, accepted>>

\* Mutant: the channel has no buffer.
ReportUnbuffered(k) ==
  /\ caller = "aggregate"
  /\ SenderGoes(k, "reporting", "leaving")
  /\ errChan' = errChan \cup {k} /\ UNCHANGED <<wg, accepted>>

\* The channel has room for an error of each kind.
Report(k) ==
  /\ Cardinality(errChan) < NumKinds
  /\ SenderGoes(k, "reporting", "leaving")
  /\ errChan' = errChan \cup {k} /\ UNCHANGED <<wg, accepted>>

\* The deferred wg.Done of sendSingleTelemetry.
Leave(k) ==
  SenderGoes(k, "leaving", "ended") /\ wg' = wg - 1 /\ UNCHANGED <<errChan, accepted>>

Sender(k) ==
  Begin(k) \/ Confirmed(k) \/ Fails(k) \/ InternalReturns(k) \/ Report(k) \/ Leave(k)

-----------------------------------------------------------------------------
\* The collector accepts a request; its answer may still be lost.
Accept(k) ==
  /\ sender[k] = "requesting" /\ k \notin accepted
  /\ accepted' = accepted \cup {k}
  /\ UNCHANGED <<callerVars, sender, wg, errChan, done, ctxDone>>

Sigterm ==
  /\ ~ctxDone /\ ctxDone' = TRUE
  /\ UNCHANGED <<callerVars, sender, wg, errChan, done, accepted>>

Next ==
  \/ Caller \/ WaitReturns \/ Sigterm
  \/ \E k \in Kinds : Sender(k) \/ Accept(k)

\* Goroutines run, and a request ends, at the latest with the timeout of its
\* client.  The collector owes no answer.
Fairness ==
  /\ WF_vars(Caller) /\ WF_vars(WaitReturns)
  /\ \A k \in Kinds : WF_vars(Sender(k))

Spec == Init /\ [][Next]_vars /\ Fairness

-----------------------------------------------------------------------------
InternalStates == {"requesting", "confirmed", "failed"}
ActiveStates == InternalStates \cup {"started", "reporting", "leaving"}

\* The type invariant: the WaitGroup never goes negative, which would panic.
TypeOK ==
  /\ caller \in {"decode", "tasks", "select", "aggregate", "returned"}
  /\ next \in 1..(NumKinds + 1)
  /\ data \subseteq Kinds
  /\ sender \in [Kinds -> ActiveStates \cup {"none", "ended"}]
  /\ wg \in Nat
  /\ errChan \subseteq Kinds /\ errChanClosed \in BOOLEAN
  /\ done \in {"none", "open", "closed"}
  /\ ctxDone \in BOOLEAN
  /\ accepted \subseteq Kinds
  /\ result \in {"none", "error", "success"}

\* No goroutine is on its way to errChan once the caller has closed it: the send
\* would panic, and the recover of sendSingleTelemetry would hide the error.
NoSendOnClosedErrChan ==
  errChanClosed => \A k \in Kinds : sender[k] \notin ActiveStates

\* The call reports success only when the collector has accepted all the data of
\* the payload for which there is a task: no error is overtaken by the end of the wait, none is dropped, and
\* a cancelled call is never a success (connect.go:508).
SuccessMeansAllAccepted == result = "success" => data \subseteq accepted

\* The call returns and all its goroutines end, also those it has left behind.
CallCompletes ==
  (caller = "tasks") ~> (caller = "returned"
                         /\ \A k \in Kinds : sender[k] \in {"none", "ended"})
=============================================================================
