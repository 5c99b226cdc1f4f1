---------------------------- MODULE LogShipping ----------------------------
(***************************************************************************)
(* The log server of LogServer.tla composed with the telemetry batch of    *)
(* BatchOps.tla through the two goroutines that use both: the event loop   *)
(* (main.go: mainLoop, pollLogServer and the end of main), which writes    *)
(* the batch, and the goroutine that ships function logs (logShipLoop,     *)
(* telemetry/client.go: buildLogPayloads), which asks the batch for the    *)
(* trace id of each line.  The two are not synchronised: RetrieveTraceID   *)
(* takes the lock of the batch once per line.                              *)
(*                                                                         *)
(* Events name the invocation that really produced them (of).  Lambda      *)
(* retries a failed asynchronous invocation under the request id of the    *)
(* first attempt, so an invocation and its request id are told apart:      *)
(* RequestOf.  A trace id is named after its invocation.                   *)
(*                                                                         *)
(* A payload of an agent does not name its request: the loop adds what it  *)
(* reads from the pipe to the last request begun, and so that of another   *)
(* invocation when a poll after a suspected timeout has lost a race.       *)
(* MainLoop.tla says how; here the loop may take the payload of any        *)
(* invocation that has run since the last one taken, or of none.  It also  *)
(* has the messages made up at shutdown, which carry no trace id.  Which   *)
(* harvest is due is a matter of the clock, which this module leaves open. *)
(***************************************************************************)
EXTENDS LogServer

CONSTANTS Invocations,      \* the invocations of a behaviour, in their order
          RequestOf,        \* RequestOf[i]: the request id of invocation i
          RipeDuration, VeryOldDuration

ASSUME InvocationAssumption ==
  /\ Invocations \in Seq(Ids) /\ RequestOf \in [Ids -> Ids]

NoTrace == NoId
B == INSTANCE BatchOps WITH CollectTraceIDs <- TRUE

VARIABLES batch,        \* the Batch structure
          stage,        \* where mainLoop is, while it does not poll
          invoked,      \* how many events Invoke it has handled
          taken,        \* the last invocation whose agent's payload it has taken
          accepted,     \* history: the trace ids the batch got, with their requests
          unstamped,    \* the lines being sent whose trace id is still to be read
          shipped       \* history: the lines sent, with their trace ids

pipeVars == <<taken, accepted>>
loopVars == <<batch, stage, invoked, pipeVars>>
shipVars == <<unstamped, shipped>>
shippingVars == <<vars, loopVars, shipVars>>

Current == Invocations[invoked]
BetweenEvents == stage \in {"next", "late"}

ShippingInit ==
  /\ Init
  /\ batch = B!NewBatch /\ stage = "next" /\ invoked = 0
  /\ taken = 0 /\ accepted = {}
  /\ unstamped = << >> /\ shipped = << >>

-----------------------------------------------------------------------------
(* mainLoop and the end of main *)

\* The instant of every event, and what a payload is besides its trace id: no
\* property here depends on them.
Start == 1
Payload(trace) == [id |-> NoId, trace |-> trace]

NextInvoke ==
  /\ main = "looping" /\ BetweenEvents /\ invoked < Len(Invocations)
  /\ invoked' = invoked + 1
  /\ batch' = B!AddInvocation(batch, RequestOf[Invocations[invoked']], Start)
  /\ stage' = "begun"
  /\ UNCHANGED <<vars, pipeVars, shipVars>>

\* A payload, with or without a trace id, of an invocation up to the one numbered
\* last whose agent was not heard yet: it goes to the request begun last.
AddAgentTelemetry(from, to, last) ==
  /\ main = "looping" /\ stage = from /\ stage' = to
  /\ taken' \in {n \in DOMAIN Invocations : taken < n /\ n <= last}
  /\ \E trace \in {Invocations[taken'], NoTrace} :
       /\ batch' = B!AddTelemetry(batch, RequestOf[Current],
                                  Payload(trace), TRUE)
       /\ accepted' = IF trace # NoTrace /\ B!Accepts(batch, RequestOf[Current])
                      THEN accepted \cup {[trace |-> trace, to |-> RequestOf[Current]]}
                      ELSE accepted
  /\ UNCHANGED <<vars, invoked, shipVars>>

ReceiveTelemetry == AddAgentTelemetry("waiting", "received", invoked)
\* The function of the next invocation may have been quicker than this poll.
CatchUp == AddAgentTelemetry("late", "next", invoked + 1)

TimeLimitReached ==
  /\ main = "looping" /\ stage = "waiting" /\ stage' = "late"
  /\ UNCHANGED <<vars, batch, invoked, pipeVars, shipVars>>

\* Before a wait, after telemetry, and when the loop has ended, which it does not
\* between CatchUp and the invocation whose payload that took.
BeginPoll ==
  /\ StartPoll /\ stage \in {"begun", "received", "next", "late"} /\ taken <= invoked
  /\ UNCHANGED <<loopVars, shipVars>>

\* A report goes to the batch; it never carries a trace id.
PollReport ==
  /\ PollOne
  /\ batch' = B!AddTelemetry(batch, Head(platformLogChan),
                             Payload(NoTrace), FALSE)
  /\ UNCHANGED <<stage, invoked, pipeVars, shipVars>>

\* Harvest, whichever the clock calls for.
ShipHarvest ==
  batch' \in {batch, B!AggressiveHarvest(batch, Start).batch,
              B!RipeHarvest(batch, Start).batch}

EndPoll ==
  /\ PollEmpty
  /\ IF BetweenEvents
     THEN main' = "polled" /\ UNCHANGED <<batch, stage>>
     ELSE /\ main' = "looping" /\ ShipHarvest
          /\ stage' = IF stage = "begun" THEN "waiting" ELSE "next"
  /\ UNCHANGED <<invoked, pipeVars, shipVars>>

CloseServer == Close /\ UNCHANGED <<loopVars, shipVars>>

FinalHarvest ==
  /\ main = "closed" /\ stage # "stopped" /\ stage' = "stopped"
  /\ batch' = B!Close(batch, Start).batch
  /\ UNCHANGED <<vars, invoked, pipeVars, shipVars>>

Loop == NextInvoke \/ ReceiveTelemetry \/ CatchUp \/ TimeLimitReached
        \/ BeginPoll \/ PollReport \/ EndPoll \/ CloseServer \/ FinalHarvest

-----------------------------------------------------------------------------
(* The goroutine that ships function logs: buildLogPayloads reads the trace *)
(* ids line by line; the lock of the batch is free in between.              *)

\* Mutant: every line gets the trace id of the request that started last.
StampLineByLastRequest ==
  /\ shipper = "shipping" /\ unstamped # << >>
  /\ LET line == Head(unstamped) IN
       shipped' = Append(shipped,
         [of |-> line.of, id |-> line.id,
          trace |-> B!RetrieveTraceID(batch, lastRequestId)])
  /\ unstamped' = Tail(unstamped)
  /\ UNCHANGED <<vars, loopVars>>

StampLine ==
  /\ shipper = "shipping" /\ unstamped # << >>
  /\ LET line == Head(unstamped) IN
       shipped' = Append(shipped,
         [of |-> line.of, id |-> line.id,
          trace |-> B!RetrieveTraceID(batch, line.id)])
  /\ unstamped' = Tail(unstamped)
  /\ UNCHANGED <<vars, loopVars>>

LogShipLoop ==
  \/ StampLine
  \/ ShipmentDone /\ unstamped = << >> /\ UNCHANGED <<loopVars, shipVars>>
  \/ SeeClosedChan /\ UNCHANGED <<loopVars, shipVars>>

-----------------------------------------------------------------------------
(* The handlers, and when the platform posts. *)

\* The platform begins an invocation when the extension has asked for the next
\* event, and reports on it when the extension has asked again.
Asked(n) == n < invoked \/ (n = invoked /\ BetweenEvents)
MayBePosted(event) ==
  event.of = NoId \/ \E n \in DOMAIN Invocations :
    /\ Invocations[n] = event.of
    /\ Asked(IF event.type = "platform.report" THEN n ELSE n - 1)

Post(h) ==
  /\ Enter(h) /\ \A i \in DOMAIN body[h] : MayBePosted(body[h][i])
  /\ UNCHANGED <<loopVars, shipVars>>

\* The shipping goroutine takes the lines with the send.
HandlePost(h) ==
  /\ Handler(h)
  /\ unstamped' = IF pc[h] = "sending" THEN functionLogs[h] ELSE unstamped
  /\ UNCHANGED <<loopVars, shipped>>

ShippingNext == Loop \/ LogShipLoop \/ \E h \in Posts : Post(h) \/ HandlePost(h)

ShippingSpec == ShippingInit /\ [][ShippingNext]_shippingVars

-----------------------------------------------------------------------------
(* What is assumed of the log stream, however it is cut into POSTs: a line that
   names a request names that of the invocation that wrote it, and any other line
   comes after the platform.start of its invocation and before the next one. *)

\* The order of the stream; position i of the POST h.
Precedes(g, j, h, i) == g < h \/ (g = h /\ j < i)

IsStart(event) == event.type = "platform.start" /\ event.id # NoId
NamesRequest(event) == NodeRuntime /\ event.type = "function" /\ event.id # NoId

LastStartBefore(d, g, j, h, i) ==
  /\ IsStart(d[g][j]) /\ Precedes(g, j, h, i)
  /\ \A f \in Posts : \A k \in DOMAIN d[f] :
       IsStart(d[f][k]) /\ Precedes(f, k, h, i) => ~Precedes(g, j, f, k)

StreamInOrder ==
  \A d \in Deliveries : \A h \in Posts : \A i \in DOMAIN d[h] :
    IsLine(d[h][i]) /\ d[h][i].of # NoId =>
      IF NamesRequest(d[h][i])
      THEN d[h][i].id = RequestOf[d[h][i].of]
      ELSE \E g \in Posts : \E j \in DOMAIN d[g] :
             LastStartBefore(d, g, j, h, i) /\ d[g][j].id = RequestOf[d[h][i].of]

-----------------------------------------------------------------------------
\* When the platform awaits each reply before the next POST, a line is attributed
\* to the request of the invocation that wrote it, wherever the log stream is cut
\* into POSTs, also when the line itself names no request (logserver.go:229).
AttributionExact ==
  \A h \in Posts : \A i \in DOMAIN functionLogs[h] :
    LET line == functionLogs[h][i] IN line.of # NoId => line.id = RequestOf[line.of]

\* A line carries a trace id only of a payload that the batch accepted for the
\* request of the invocation that wrote it, whatever the event loop does between
\* the lines of a POST: it is wrong only when that payload was another's.
TraceOfOwnRequest ==
  \A n \in DOMAIN shipped :
    LET line == shipped[n]
    IN  line.of # NoId /\ line.trace # NoTrace =>
          [trace |-> line.trace, to |-> RequestOf[line.of]] \in accepted

\* The line a step sends.
LineSent == shipped'[Len(shipped')]

\* "Telemetry batch may be late, so the trace ID would be blank" (client.go:332) is
\* the only reason for a blank: once the batch has accepted a payload with a trace
\* id for the request of the invocation that wrote a line, the line carries one,
\* also when that telemetry has been harvested before the line comes.
BlankOnlyWhenEarly ==
  [][shipped' # shipped /\ LineSent.of # NoId
       /\ (\E entry \in accepted : entry.to = RequestOf[LineSent.of])
     => LineSent.trace # NoTrace]_shippingVars
=============================================================================
