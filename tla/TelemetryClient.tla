--------------------------- MODULE TelemetryClient ---------------------------
(***************************************************************************)
(* One call of sendPayloads (telemetry/client.go), the common end of       *)
(* SendTelemetry and SendFunctionLogs: each compressed payload is given to *)
(* a goroutine of its own, attemptSend, which retries after HTTP timeouts, *)
(* while the caller waits for its answer or for Client.timeout.  A         *)
(* goroutine that the caller has given up on goes on beside the next one.  *)
(* New Relic answers each request or not, accepts it or not, and may       *)
(* accept one whose answer never arrives.  SIGTERM cancels the context     *)
(* that all requests are built with; the context of the wait is another.   *)
(*                                                                         *)
(* Concurrent calls share nothing but the connections of the HTTP client,  *)
(* so one call stands for all of them.  Goroutines that can run do so      *)
(* before the clock advances: durations are those of the waits.  The       *)
(* random part of a retry's delay is below 200 ns, no instant.             *)
(***************************************************************************)
EXTENDS Naturals, FiniteSets

CONSTANTS NumPayloads,            \* what CompressedPayloadsForLogEvents returned
          Timeout,                \* Client.timeout
          HttpTimeout,            \* httpClientTimeout
          SendTimeoutRetryBase,
          SendTimeoutMaxRetries,
          SendTimeoutMaxBackOff,
          MayCancel               \* may SIGTERM arrive?

ASSUME ClientAssumption ==
  /\ NumPayloads \in Nat \ {0}
  /\ Timeout \in Nat /\ HttpTimeout \in Nat \ {0}
  /\ SendTimeoutRetryBase \in Nat \ {0} /\ SendTimeoutMaxRetries \in Nat \ {0}
  /\ SendTimeoutMaxBackOff \in Nat /\ SendTimeoutRetryBase <= SendTimeoutMaxBackOff
  /\ MayCancel \in BOOLEAN

Payloads == 1..NumPayloads

VARIABLES now,          \* the clock; the call begins at 0
          cancelled,    \* SIGTERM has cancelled the context of the requests
          caller,       \* where sendPayloads is
          current,      \* the payload it is at
          deadline,     \* when the context of a payload's wait expires
          successCount,
          data,         \* the channel of each payload: empty, or its answer
          pc,           \* where each payload's attemptSend is
          attempts,     \* its loop counter
          baseSleepTime,
          timer,        \* when its request times out, or its sleep ends
          request,      \* what New Relic did with the request in flight
          accepted,     \* payloads New Relic has accepted
          sent,         \* history: requests sent
          timeouts      \* history: requests that timed out

callerVars == <<caller, current, deadline, successCount>>
attemptVars == <<pc, attempts, baseSleepTime, timer, request>>
history == <<sent, timeouts>>
vars == <<now, cancelled, callerVars, data, attemptVars, accepted, history>>

Init ==
  /\ now = 0 /\ cancelled = FALSE
  /\ caller = "next" /\ current = 0 /\ successCount = 0
  /\ deadline = [p \in Payloads |-> 0]
  /\ data = [p \in Payloads |-> "empty"]
  /\ pc = [p \in Payloads |-> "idle"]
  /\ attempts = [p \in Payloads |-> 0]
  /\ baseSleepTime = [p \in Payloads |-> SendTimeoutRetryBase]
  /\ timer = [p \in Payloads |-> 0]
  /\ request = [p \in Payloads |-> "none"]
  /\ accepted = {}
  /\ sent = [p \in Payloads |-> 0] /\ timeouts = [p \in Payloads |-> 0]

-----------------------------------------------------------------------------
(* sendPayloads *)

NextPayload ==
  /\ caller = "next" /\ current < NumPayloads
  /\ current' = current + 1
  /\ deadline' = [deadline EXCEPT ![current + 1] = now + Timeout]
  /\ pc' = [pc EXCEPT ![current + 1] = "loop"]
  /\ caller' = "waiting"
  /\ UNCHANGED <<now, cancelled, successCount, data, attempts, baseSleepTime,
                 timer, request, accepted, history>>

\* The two cases of the select; when both are ready either may be taken.
WaitTimesOut ==
  /\ caller = "waiting" /\ now >= deadline[current]
  /\ caller' = "next"
  /\ UNCHANGED <<now, cancelled, current, deadline, successCount, data, attemptVars,
                 accepted, history>>

\* Mutant: the first failure ends the call.
TakeAnswerStops ==
  /\ caller = "waiting" /\ data[current] # "empty"
  /\ successCount' = IF data[current] = "success" THEN successCount + 1 ELSE successCount
  /\ data' = [data EXCEPT ![current] = "empty"]
  /\ caller' = IF data[current] = "error" THEN "returned" ELSE "next"
  /\ UNCHANGED <<now, cancelled, current, deadline, attemptVars, accepted, history>>

\* Mutant: any answer is a success, whatever its status.
TakeAnswerIgnoresStatus ==
  /\ caller = "waiting" /\ data[current] # "empty"
  /\ successCount' = IF data[current] # "error" THEN successCount + 1 ELSE successCount
  /\ data' = [data EXCEPT ![current] = "empty"]
  /\ caller' = "next"
  /\ UNCHANGED <<now, cancelled, current, deadline, attemptVars, accepted, history>>

TakeAnswer ==
  /\ caller = "waiting" /\ data[current] # "empty"
  /\ successCount' = IF data[current] = "success" THEN successCount + 1 ELSE successCount
  /\ data' = [data EXCEPT ![current] = "empty"]
  /\ caller' = "next"
  /\ UNCHANGED <<now, cancelled, current, deadline, attemptVars, accepted, history>>

Return ==
  /\ caller = "next" /\ current = NumPayloads
  /\ caller' = "returned"
  /\ UNCHANGED <<now, cancelled, current, deadline, successCount, data, attemptVars,
                 accepted, history>>

-----------------------------------------------------------------------------
(* attemptSend *)

\* The goroutine ends with an answer in the channel, which has room for it
\* whether or not the caller is still there.
\* Mutant: the channel is not buffered, the send waits for the caller.
AnswerUnbuffered(p, what) ==
  IF caller = "waiting" /\ current = p
  THEN data' = [data EXCEPT ![p] = what] /\ pc' = [pc EXCEPT ![p] = "done"]
  ELSE data' = data /\ pc' = [pc EXCEPT ![p] = "blocked"]

Answer(p, what) ==
  /\ data' = [data EXCEPT ![p] = what]
  /\ pc' = [pc EXCEPT ![p] = "done"]

\* Mutant: the context is not looked at before a retry.
GaveUpAfterRetries(p) == attempts[p] = SendTimeoutMaxRetries

\* The loop ends without an answer: no retry is left, or the context is done.
GaveUp(p) == attempts[p] = SendTimeoutMaxRetries \/ now >= deadline[p]

Quit(p) ==
  /\ pc[p] = "loop" /\ GaveUp(p)
  /\ pc' = [pc EXCEPT ![p] = "done"]
  /\ UNCHANGED <<now, cancelled, callerVars, data, attempts, baseSleepTime, timer,
                 request, accepted, history>>

\* Mutant: every request has a context of its own, made when it is sent.
SendRequestRenewed(p) ==
  /\ pc[p] = "loop" /\ ~GaveUp(p) /\ ~cancelled
  /\ pc' = [pc EXCEPT ![p] = "inFlight"]
  /\ request' = [request EXCEPT ![p] = "sent"]
  /\ timer' = [timer EXCEPT ![p] = now + HttpTimeout]
  /\ sent' = [sent EXCEPT ![p] = @ + 1]
  /\ deadline' = [deadline EXCEPT ![p] = now + Timeout]
  /\ UNCHANGED <<now, cancelled, caller, current, successCount, data, attempts,
                 baseSleepTime, accepted, timeouts>>

SendRequest(p) ==
  /\ pc[p] = "loop" /\ ~GaveUp(p) /\ ~cancelled
  /\ pc' = [pc EXCEPT ![p] = "inFlight"]
  /\ request' = [request EXCEPT ![p] = "sent"]
  /\ timer' = [timer EXCEPT ![p] = now + HttpTimeout]
  /\ sent' = [sent EXCEPT ![p] = @ + 1]
  /\ UNCHANGED <<now, cancelled, callerVars, data, attempts, baseSleepTime,
                 accepted, timeouts>>

\* The request cannot be built: its endpoint is no URL.  (That depends on the endpoint
\* alone; here each attempt may meet it.)
BuildFails(p) ==
  /\ pc[p] = "loop" /\ ~GaveUp(p)
  /\ data' = [data EXCEPT ![p] = "error"]
  /\ pc' = [pc EXCEPT ![p] = "notBuilt"]
  /\ UNCHANGED <<now, cancelled, callerVars, attempts, baseSleepTime, timer, request,
                 accepted, history>>

\* A request under a cancelled context fails at once, unsent or in flight; that
\* is no timeout.
RequestCancelled(p) ==
  /\ cancelled
  /\ \/ pc[p] = "loop" /\ ~GaveUp(p)
     \/ pc[p] = "inFlight"
  /\ Answer(p, "error")
  /\ request' = [request EXCEPT ![p] = "none"]
  /\ UNCHANGED <<now, cancelled, callerVars, attempts, baseSleepTime, timer,
                 accepted, history>>

ReceiveResponse(p) ==
  /\ pc[p] = "inFlight" /\ request[p] \in {"accepted", "rejected"}
  /\ Answer(p, IF request[p] = "accepted" THEN "success" ELSE "rejected")
  /\ request' = [request EXCEPT ![p] = "none"]
  /\ UNCHANGED <<now, cancelled, callerVars, attempts, baseSleepTime, timer,
                 accepted, history>>

\* Mutant: every failure is followed by another try.
RequestFailsRetried(p) ==
  /\ pc[p] = "inFlight"
  /\ attempts' = [attempts EXCEPT ![p] = @ + 1]
  /\ pc' = [pc EXCEPT ![p] = "loop"]
  /\ request' = [request EXCEPT ![p] = "none"]
  /\ UNCHANGED <<now, cancelled, callerVars, data, baseSleepTime, timer, accepted, history>>

\* Any other error is fatal: the connection is lost, with the request processed
\* or not, or the body of the response cannot be read (be it for a timeout).
RequestFails(p) ==
  /\ pc[p] = "inFlight"
  /\ Answer(p, "error")
  /\ request' = [request EXCEPT ![p] = "none"]
  /\ UNCHANGED <<now, cancelled, callerVars, attempts, baseSleepTime, timer,
                 accepted, history>>

Smaller(a, b) == IF a < b THEN a ELSE b
\* Mutant: the delay is doubled each time, without a limit.
BackOffUnlimited(base, n) == 2 * base

\* "double wait time after 3 time out attempts"
BackOff(base, n) ==
  Smaller(IF (n + 1) % 3 = 0 THEN 2 * base ELSE base, SendTimeoutMaxBackOff)

RequestTimesOut(p) ==
  /\ pc[p] = "inFlight" /\ now >= timer[p]
  /\ pc' = [pc EXCEPT ![p] = "sleep"]
  /\ timer' = [timer EXCEPT ![p] = now + baseSleepTime[p]]
  /\ baseSleepTime' = [baseSleepTime EXCEPT ![p] = BackOff(@, attempts[p])]
  /\ attempts' = [attempts EXCEPT ![p] = @ + 1]
  /\ request' = [request EXCEPT ![p] = "none"]
  /\ timeouts' = [timeouts EXCEPT ![p] = @ + 1]
  /\ UNCHANGED <<now, cancelled, callerVars, data, accepted, sent>>

Wake(p) ==
  /\ pc[p] = "sleep" /\ now >= timer[p]
  /\ pc' = [pc EXCEPT ![p] = "loop"]
  /\ UNCHANGED <<now, cancelled, callerVars, data, attempts, baseSleepTime, timer,
                 request, accepted, history>>

-----------------------------------------------------------------------------
(* New Relic, SIGTERM, the clock *)

Accept(p) ==
  /\ request[p] = "sent"
  /\ request' = [request EXCEPT ![p] = "accepted"]
  /\ accepted' = accepted \cup {p}
  /\ UNCHANGED <<now, cancelled, callerVars, data, pc, attempts, baseSleepTime,
                 timer, history>>

Reject(p) ==
  /\ request[p] = "sent"
  /\ request' = [request EXCEPT ![p] = "rejected"]
  /\ UNCHANGED <<now, cancelled, callerVars, data, pc, attempts, baseSleepTime,
                 timer, accepted, history>>

\* A request that the client no longer waits for is accepted all the same.
AcceptLate(p) ==
  /\ sent[p] > 0 /\ request[p] = "none" /\ p \notin accepted
  /\ accepted' = accepted \cup {p}
  /\ UNCHANGED <<now, cancelled, callerVars, data, attemptVars, history>>

Sigterm ==
  /\ MayCancel /\ ~cancelled
  /\ cancelled' = TRUE
  /\ UNCHANGED <<now, callerVars, data, attemptVars, accepted, history>>

\* Bound: by this instant everything has ended (LingersBriefly, ReturnsInTime).
LastInstant == NumPayloads * Timeout + HttpTimeout + SendTimeoutMaxBackOff
CallerIdle ==
  \/ caller = "returned"
  \/ caller = "waiting" /\ now < deadline[current] /\ data[current] = "empty"
Ended(p) == pc[p] \in {"done", "notBuilt"}
AttemptIdle(p) ==
  \/ pc[p] = "idle" \/ Ended(p)
  \/ pc[p] \in {"inFlight", "sleep"} /\ now < timer[p]
Tick ==
  /\ CallerIdle /\ \A p \in Payloads : AttemptIdle(p)
  /\ now <= LastInstant
  /\ now' = now + 1
  /\ UNCHANGED <<cancelled, callerVars, data, attemptVars, accepted, history>>

SendPayloads == NextPayload \/ WaitTimesOut \/ TakeAnswer \/ Return
AttemptSend(p) ==
  \/ Quit(p) \/ SendRequest(p) \/ BuildFails(p) \/ RequestCancelled(p)
  \/ ReceiveResponse(p) \/ RequestFails(p) \/ RequestTimesOut(p) \/ Wake(p)

Next ==
  \/ SendPayloads
  \/ \E p \in Payloads : AttemptSend(p)
  \/ \E p \in Payloads : Accept(p) \/ Reject(p) \/ AcceptLate(p)
  \/ Sigterm \/ Tick

\* Goroutines that can run do run, and time passes; New Relic owes nothing.
Fairness ==
  /\ WF_vars(SendPayloads) /\ WF_vars(Tick)
  /\ \A p \in Payloads : WF_vars(Quit(p) \/ SendRequest(p) \/ BuildFails(p) \/ RequestCancelled(p)
                                 \/ RequestTimesOut(p) \/ Wake(p))

Spec == Init /\ [][Next]_vars /\ Fairness

-----------------------------------------------------------------------------
(* Properties *)

\* Types of the state of Client.sendPayloads and attemptSend; the sleep between
\* tries is never longer than SendTimeoutMaxBackOff.
TypeOK ==
  /\ now \in Nat /\ cancelled \in BOOLEAN
  /\ caller \in {"next", "waiting", "returned"}
  /\ current \in 0..NumPayloads /\ (caller = "waiting" => current # 0)
  /\ deadline \in [Payloads -> Nat]
  /\ successCount \in 0..current
  /\ data \in [Payloads -> {"empty", "success", "rejected", "error"}]
  /\ pc \in [Payloads -> {"idle", "loop", "inFlight", "sleep", "done", "notBuilt"}]
  /\ attempts \in [Payloads -> 0..SendTimeoutMaxRetries]
  /\ baseSleepTime \in [Payloads -> 1..SendTimeoutMaxBackOff]
  /\ timer \in [Payloads -> Nat]
  /\ request \in [Payloads -> {"none", "sent", "accepted", "rejected"}]
  /\ accepted \subseteq Payloads
  /\ sent \in [Payloads -> Nat] /\ timeouts \in [Payloads -> Nat]

\* "Sent %d/%d payload batches successfully with certainty": what sendPayloads
\* counts as a success New Relic has accepted, whichever answers came late.
SuccessIsCertain == successCount <= Cardinality(accepted)

\* A payload is sent a second time only after a request for it timed out: an
\* answer, an error or a slow caller never cause a duplicate.
RepeatedOnlyAfterTimeout == \A p \in Payloads : sent[p] <= 1 + timeouts[p]

\* One payload failing does not keep sendPayloads from trying the others: each is
\* sent, if its request can be built.
EveryPayloadTried ==
  caller = "returned" /\ Timeout > 0 /\ ~cancelled
    => \A p \in Payloads : sent[p] > 0 \/ pc[p] = "notBuilt"

\* The call of sendPayloads holds up the event loop for at most Client.timeout
\* per payload, whatever New Relic does.
ReturnsInTime == caller # "returned" => now <= NumPayloads * Timeout

\* A goroutine the caller has given up on ends soon: after the request in
\* flight and one more sleep.
LingersBriefly ==
  \A p \in Payloads :
    pc[p] # "idle" /\ ~Ended(p)
      => now < deadline[p] + HttpTimeout + SendTimeoutMaxBackOff

\* sendPayloads returns, and no goroutine of attemptSend stays behind, blocked on
\* its channel or retrying.
CallCompletes == <>[](caller = "returned" /\ \A p \in Payloads : Ended(p))
=============================================================================
