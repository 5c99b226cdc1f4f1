----------------------------- MODULE LogServer -----------------------------
(***************************************************************************)
(* The Logs API server of the extension (lambda/logserver/logserver.go)    *)
(* with the two goroutines that drain it: the main goroutine, which polls  *)
(* the platform reports and finally closes the server, and the goroutine   *)
(* that ships function logs (logShipLoop, or APMlogShipLoop in APM mode).  *)
(*                                                                         *)
(* Each POST of the platform runs its own handler goroutine, one per       *)
(* element of 1..NumPosts; its steps interleave with Close's.  platform-   *)
(* LogChan is buffered, functionLogChan is not: a handler that has lines   *)
(* to pass on blocks until the shipping goroutine takes them.              *)
(*                                                                         *)
(* http.Server.Shutdown stops the listener, but a connection accepted      *)
(* before may still start a handler, also after the 200ms that Close       *)
(* grants: a handler may enter at any time.                                *)
(*                                                                         *)
(* An event of a POST is a record: its type, the request id that can be    *)
(* read in its record (NoId if none), and, as history, the invocation that *)
(* really produced it.  "extension" stands for platform.fault as well,     *)
(* which the code treats alike.  sync.WaitGroup is an atomic counter.      *)
(***************************************************************************)
EXTENDS Integers, Sequences, FiniteSets

CONSTANTS Ids, NoId,               \* request ids, and the empty one
          NumPosts,                \* bound: POSTs the platform sends
          Deliveries,              \* the sequences of POST bodies considered
          PlatformLogBufferSize,   \* capacity of platformLogChan, 100
          NodeRuntime,             \* detectRuntime() = "Node"
          SerialDelivery,          \* the platform awaits each reply
          APMLambdaModes           \* the values of APMLambdaMode, which decides
                                   \* which goroutine ships function logs

EventTypes == {"platform.start", "platform.report", "function", "extension",
               "platform.logsDropped"}
Events == [type : EventTypes, id : Ids \cup {NoId}, of : Ids \cup {NoId}]
Posts == 1..NumPosts

ASSUME IdAssumption == NoId \notin Ids
ASSUME PostAssumption == NumPosts \in Nat /\ Deliveries \subseteq [Posts -> Seq(Events)]
ASSUME BufferAssumption == PlatformLogBufferSize \in Nat \ {0}
ASSUME ModeAssumption ==
  {NodeRuntime, SerialDelivery} \subseteq BOOLEAN /\ APMLambdaModes \subseteq BOOLEAN

VARIABLES body,             \* body[h]: the events handler h has still to process
          pc,               \* pc[h]: where handler h is
          functionLogs,     \* functionLogs[h]: the lines h has collected
          wg,               \* LogServer.wg
          isShuttingDown,   \* LogServer.isShuttingDown
          lastRequestId,    \* LogServer.lastRequestId
          platformLogChan,  \* the reports buffered in LogServer.platformLogChan
          main,             \* where the main goroutine is
          shipper,          \* where the log shipping goroutine is
          received,         \* history: the lines the shipping goroutine took
          delivery          \* history: the POST bodies as they were sent

vars == <<body, pc, functionLogs, wg, isShuttingDown, lastRequestId,
          platformLogChan, main, shipper, received, delivery>>
handlerVars == <<body, pc, functionLogs, wg>>
closeVars == <<isShuttingDown, main>>
historyVars == <<received, delivery>>

Lines == [id : Ids \cup {NoId}, of : Ids \cup {NoId}, post : Posts]

\* Handlers between wg.Add and wg.Done.
ActiveStates == {"entered", "refusing", "working", "sending", "replying"}
Active == {h \in Posts : pc[h] \in ActiveStates}

PlatformChanClosed == main \in {"platformClosed", "closed"}
FunctionChanClosed == main = "closed"

Init ==
  /\ delivery \in Deliveries /\ body = delivery
  /\ pc = [h \in Posts |-> "idle"]
  /\ functionLogs = [h \in Posts |-> << >>]
  /\ wg = 0
  /\ isShuttingDown = FALSE
  /\ lastRequestId = NoId
  /\ platformLogChan = << >>
  /\ main = "looping"
  /\ \E APMLambdaMode \in APMLambdaModes :
       shipper = IF APMLambdaMode THEN "gate" ELSE "awaiting"
  /\ received = << >>

-----------------------------------------------------------------------------
(* handler *)
Goto(h, state) == pc' = [pc EXCEPT ![h] = state]

Enter(h) ==
  /\ pc[h] = "idle"
  /\ SerialDelivery => \A g \in 1..(h - 1) : pc[g] \in {"refused", "replied"}
  /\ wg' = wg + 1
  /\ Goto(h, "entered")
  /\ UNCHANGED <<body, functionLogs, lastRequestId, platformLogChan, shipper>>
  /\ UNCHANGED closeVars /\ UNCHANGED historyVars

ReadFlag(h) ==
  /\ pc[h] = "entered"
  /\ Goto(h, IF isShuttingDown THEN "refusing" ELSE "working")
  /\ UNCHANGED <<body, functionLogs, wg, lastRequestId, platformLogChan, shipper>>
  /\ UNCHANGED closeVars /\ UNCHANGED historyVars

NextEvent(h) == Head(body[h])
HasEvent(h, type) ==
  pc[h] = "working" /\ body[h] # << >> /\ NextEvent(h).type = type
Consume(h) == body' = [body EXCEPT ![h] = Tail(@)]

HandleStart(h) ==
  /\ HasEvent(h, "platform.start")
  /\ lastRequestId' = IF NextEvent(h).id # NoId THEN NextEvent(h).id ELSE lastRequestId
  /\ Consume(h)
  /\ UNCHANGED <<pc, functionLogs, wg, platformLogChan, shipper>>
  /\ UNCHANGED closeVars /\ UNCHANGED historyVars

\* Mutant: the channel has no capacity.
HandleReportUnbounded(h) ==
  /\ HasEvent(h, "platform.report")
  /\ platformLogChan' = Append(platformLogChan, NextEvent(h).id)
  /\ Consume(h)
  /\ UNCHANGED <<pc, functionLogs, wg, lastRequestId, shipper>>
  /\ UNCHANGED closeVars /\ UNCHANGED historyVars

\* Blocks while the buffer is full.
HandleReport(h) ==
  /\ HasEvent(h, "platform.report")
  /\ Len(platformLogChan) < PlatformLogBufferSize
  /\ platformLogChan' = Append(platformLogChan, NextEvent(h).id)
  /\ Consume(h)
  /\ UNCHANGED <<pc, functionLogs, wg, lastRequestId, shipper>>
  /\ UNCHANGED closeVars /\ UNCHANGED historyVars

\* Mutant: no fallback for a line of a Node function that names no request.
LineRequestIdNoFallback(event) ==
  IF NodeRuntime /\ event.type = "function" THEN event.id ELSE lastRequestId

LineRequestId(event) ==
  IF NodeRuntime /\ event.type = "function" /\ event.id # NoId
  THEN event.id ELSE lastRequestId

HandleLine(h) ==
  /\ HasEvent(h, "function") \/ HasEvent(h, "extension")
  /\ functionLogs' = [functionLogs EXCEPT ![h] =
       Append(@, [id |-> LineRequestId(NextEvent(h)), of |-> NextEvent(h).of,
                  post |-> h])]
  /\ Consume(h)
  /\ UNCHANGED <<pc, wg, lastRequestId, platformLogChan, shipper>>
  /\ UNCHANGED closeVars /\ UNCHANGED historyVars

HandleLogsDropped(h) ==
  /\ HasEvent(h, "platform.logsDropped")
  /\ Consume(h)
  /\ UNCHANGED <<pc, functionLogs, wg, lastRequestId, platformLogChan, shipper>>
  /\ UNCHANGED closeVars /\ UNCHANGED historyVars

\* Mutant: lines collected before Close began are not sent any more.
EventsDoneDropsLines(h) ==
  /\ pc[h] = "working" /\ body[h] = << >>
  /\ Goto(h, IF functionLogs[h] # << >> /\ ~isShuttingDown THEN "sending" ELSE "replying")
  /\ UNCHANGED <<body, functionLogs, wg, lastRequestId, platformLogChan, shipper>>
  /\ UNCHANGED closeVars /\ UNCHANGED historyVars

EventsDone(h) ==
  /\ pc[h] = "working" /\ body[h] = << >>
  /\ Goto(h, IF functionLogs[h] # << >> THEN "sending" ELSE "replying")
  /\ UNCHANGED <<body, functionLogs, wg, lastRequestId, platformLogChan, shipper>>
  /\ UNCHANGED closeVars /\ UNCHANGED historyVars

\* The unbuffered send: handler and shipping goroutine step together.
SendFunctionLogs(h) ==
  /\ pc[h] = "sending" /\ shipper = "awaiting"
  /\ received' = received \o functionLogs[h]
  /\ shipper' = "shipping"
  /\ Goto(h, "replying")
  /\ UNCHANGED <<body, functionLogs, wg, lastRequestId, platformLogChan, delivery>>
  /\ UNCHANGED closeVars

\* Mutant: a refused POST returns without wg.Done.
ReturnWithoutDone(h) ==
  /\ pc[h] \in {"refusing", "replying"}
  /\ wg' = IF pc[h] = "refusing" THEN wg ELSE wg - 1
  /\ Goto(h, IF pc[h] = "refusing" THEN "refused" ELSE "replied")
  /\ UNCHANGED <<body, functionLogs, lastRequestId, platformLogChan, shipper>>
  /\ UNCHANGED closeVars /\ UNCHANGED historyVars

\* The reply and the deferred wg.Done.
Return(h) ==
  /\ pc[h] \in {"refusing", "replying"}
  /\ wg' = wg - 1
  /\ Goto(h, IF pc[h] = "refusing" THEN "refused" ELSE "replied")
  /\ UNCHANGED <<body, functionLogs, lastRequestId, platformLogChan, shipper>>
  /\ UNCHANGED closeVars /\ UNCHANGED historyVars

Handler(h) ==
  \/ ReadFlag(h) \/ HandleStart(h) \/ HandleReport(h) \/ HandleLine(h)
  \/ HandleLogsDropped(h) \/ EventsDone(h) \/ SendFunctionLogs(h) \/ Return(h)

-----------------------------------------------------------------------------
(* The main goroutine: it polls once per event of its loop, once more when
   the loop has ended, and then closes the server. *)
MainGoto(state) ==
  /\ main' = state
  /\ UNCHANGED <<lastRequestId, shipper>>
  /\ UNCHANGED handlerVars /\ UNCHANGED historyVars

StartPoll ==
  /\ main = "looping"
  /\ MainGoto("polling")
  /\ UNCHANGED <<isShuttingDown, platformLogChan>>

PollOne ==
  /\ main = "polling" /\ platformLogChan # << >>
  /\ platformLogChan' = Tail(platformLogChan)
  /\ MainGoto("polling")
  /\ UNCHANGED isShuttingDown

PollEmpty ==
  /\ main = "polling" /\ platformLogChan = << >>
  /\ \E next \in {"looping", "polled"} : MainGoto(next)
  /\ UNCHANGED <<isShuttingDown, platformLogChan>>

CloseSetsFlag ==
  /\ main = "polled"
  /\ isShuttingDown' = TRUE
  /\ MainGoto("shutdown")
  /\ UNCHANGED platformLogChan

\* http.Server.Shutdown returns when the connections are idle or after 200ms,
\* whichever comes first: no state of the handlers delays it for good.
ShutdownReturns ==
  /\ main = "shutdown"
  /\ MainGoto("waiting")
  /\ UNCHANGED <<isShuttingDown, platformLogChan>>

\* Mutant: Close does not wait for the handlers Shutdown gave up on.
WaitReturnsAtOnce ==
  /\ main = "waiting"
  /\ MainGoto("waited")
  /\ UNCHANGED <<isShuttingDown, platformLogChan>>

WaitReturns ==
  /\ main = "waiting" /\ wg = 0
  /\ MainGoto("waited")
  /\ UNCHANGED <<isShuttingDown, platformLogChan>>

ClosePlatformChan ==
  /\ main = "waited"
  /\ MainGoto("platformClosed")
  /\ UNCHANGED <<isShuttingDown, platformLogChan>>

CloseFunctionChan ==
  /\ main = "platformClosed"
  /\ MainGoto("closed")
  /\ UNCHANGED <<isShuttingDown, platformLogChan>>

Close ==
  CloseSetsFlag \/ ShutdownReturns \/ WaitReturns \/ ClosePlatformChan \/ CloseFunctionChan
Poll == StartPoll \/ PollOne \/ PollEmpty

-----------------------------------------------------------------------------
(* The log shipping goroutine. *)
ShipperGoto(state) ==
  /\ shipper' = state
  /\ UNCHANGED <<lastRequestId, platformLogChan>>
  /\ UNCHANGED handlerVars /\ UNCHANGED closeVars /\ UNCHANGED historyVars

\* Client.SendFunctionLogs returns: every attempt has a deadline.
ShipmentDone == shipper = "shipping" /\ ShipperGoto("awaiting")
\* Mutant: the loop does not look at "more".
SeeClosedChanIgnored == shipper = "awaiting" /\ FunctionChanClosed /\ ShipperGoto("shipping")

SeeClosedChan == shipper = "awaiting" /\ FunctionChanClosed /\ ShipperGoto("ended")

\* APMlogShipLoop first waits for the entity guid, or for the context to end.
EntityGuidKnown == shipper = "gate" /\ ShipperGoto("awaiting")
ContextDone == shipper = "gate" /\ ShipperGoto("ended")

Shipper == ShipmentDone \/ SeeClosedChan \/ EntityGuidKnown \/ ContextDone

-----------------------------------------------------------------------------
Next ==
  \/ \E h \in Posts : Enter(h) \/ Handler(h)
  \/ Poll \/ Close \/ Shipper

\* Goroutines that can run do run.  The platform owes us no POST, and nothing
\* makes the main goroutine leave its loop, or poll at all.
Fairness ==
  /\ \A h \in Posts : WF_vars(Handler(h))
  /\ WF_vars(Close)
  /\ WF_vars(ShipmentDone \/ SeeClosedChan)

Spec == Init /\ [][Next]_vars
FairSpec == Spec /\ Fairness

-----------------------------------------------------------------------------
\* The type invariant.
TypeOK ==
  /\ body \in [Posts -> Seq(Events)]
  /\ pc \in [Posts -> ActiveStates \cup {"idle", "refused", "replied"}]
  /\ functionLogs \in [Posts -> Seq(Lines)]
  /\ wg \in Nat
  /\ isShuttingDown \in BOOLEAN
  /\ lastRequestId \in Ids \cup {NoId}
  /\ platformLogChan \in Seq(Ids \cup {NoId})
  /\ Len(platformLogChan) <= PlatformLogBufferSize
  /\ main \in {"looping", "polling", "polled", "shutdown", "waiting", "waited",
               "platformClosed", "closed"}
  /\ shipper \in {"gate", "awaiting", "shipping", "ended"}
  /\ received \in Seq(Lines)
  /\ delivery \in [Posts -> Seq(Events)]

\* A handler never sends on a channel that Close has closed, which would panic
\* in the middle of a POST: not even a handler that enters after Shutdown gave
\* up waiting, or one that read the flag just before Close set it.
NoSendOnClosedChannel ==
  \A h \in Posts :
    /\ HasEvent(h, "platform.report") => ~PlatformChanClosed
    /\ pc[h] = "sending" => ~FunctionChanClosed

\* wg counts exactly the handlers that have entered and not returned; it never
\* goes negative (which panics) and Close cannot return past a live handler.
WaitGroupCountsHandlers == wg = Cardinality(Active)

\* The lines of a POST reach the shipping goroutine all together and once, if
\* the POST was accepted, and before it is answered; a refused POST leaves none.
IsLine(event) == event.type \in {"function", "extension"}
LinesOf(h) == {i \in DOMAIN delivery[h] : IsLine(delivery[h][i])}
ReceivedOf(h) == {i \in DOMAIN received : received[i].post = h}
PostShippedWhole ==
  \A h \in Posts :
    Cardinality(ReceivedOf(h)) =
      IF pc[h] \in {"replying", "replied"} THEN Cardinality(LinesOf(h)) ELSE 0

\* What may hold Close up for good: a handler on a full platformLogChan, which
\* nobody polls any more, or one whose lines the shipping goroutine will not take.
StuckOnReport == \E h \in Posts : HasEvent(h, "platform.report")
                                  /\ Len(platformLogChan) = PlatformLogBufferSize
StuckOnLines == shipper \in {"gate", "ended"} /\ \E h \in Posts : pc[h] = "sending"

\* Close returns, and then the log shipping goroutine ends, so that the
\* backgroundTasks.Wait of main returns and the extension can exit; unless a
\* handler is stuck.
ShutdownEnds ==
  main = "shutdown" ~> \/ main = "closed" /\ shipper \in {"ended", "gate"}
                       \/ StuckOnReport \/ StuckOnLines
=============================================================================
