------------------------------- MODULE APMLoop -------------------------------
(***************************************************************************)
(* The event loop of APM mode (main.go: mainAPMLoop, pollLogAPMServer and  *)
(* the end of main) and the goroutine that waits for the entity guid       *)
(* (getAPMEntityGUID) and the one that ships function lines once it is     *)
(* known (APMlogShipLoop), around the application of APMApp.tla, with the  *)
(* Lambda platform, the agent and its pipe, and SIGTERM.                   *)
(*                                                                         *)
(* Invocation k is the k-th event; its agent writes payload k, and whether *)
(* the pipe's reader is at its send when telemetryChan is looked at is the *)
(* agent's choice.  What takes place between two blocking points of the    *)
(* main goroutine is one step.  Instants are the events they belong to:    *)
(* lastEventStart = k is the start of invocation k, 0 the zero time.       *)
(* LogServer.tla has the log server; here it is what a poll of the reports *)
(* finds and whether Close finds a handler with lines to pass on.          *)
(***************************************************************************)
EXTENDS APMApp

CONSTANTS NumInvocations,   \* bound: invocations the platform delivers
          NumReports,       \* bound: platform reports polled
          ReportKinds,      \* the kinds of report the platform may post
          MaxErrors,        \* bound: failed calls of NextEvent
          MaySignal         \* may SIGTERM arrive?

ASSUME LoopAssumption ==
  /\ NumInvocations \in Nat \ {0} /\ NumReports \in Nat /\ MaxErrors \in Nat
  /\ MaySignal \in BOOLEAN /\ Payloads = 1..NumInvocations
  /\ ReportKinds \subseteq {"metrics", "status", "neither"}

VARIABLES pc,               \* where the main goroutine is
          event,            \* the event it is handling
          probablyTimeout, lastEventStart,
          held,             \* telemetryBytes: what it is about to send to DataChan
          entityGuid,
          watcher,          \* where getAPMEntityGUID is
          ctxDone,          \* SIGTERM has cancelled the context
          errors,           \* failed calls of NextEvent
          current,          \* invocations delivered
          taken,            \* payloads taken from telemetryChan
          polled,           \* reports polled, their metrics not sent yet
          reported,         \* reports polled so far
          shipper,          \* where APMlogShipLoop is
          linesWaiting      \* Close has found a handler with lines to pass on

reportVars == <<polled, reported>>
loopVars == <<pc, event, probablyTimeout, lastEventStart, held, errors, current, reportVars>>
guidVars == <<entityGuid, watcher>>
shipVars == <<shipper, linesWaiting>>
vars == <<appVars, loopVars, guidVars, ctxDone, taken, shipVars>>

Nothing == 0
NoRequest == 0

Init ==
  /\ AppInit
  /\ pc = "top" /\ event = "none" /\ probablyTimeout = FALSE /\ lastEventStart = 0
  /\ held = Nothing /\ errors = 0 /\ current = 0 /\ polled = << >>
  /\ entityGuid = Empty /\ watcher = "check" /\ ctxDone = FALSE
  /\ taken = {} /\ reported = 0
  /\ shipper = "gate" /\ linesWaiting = FALSE

-----------------------------------------------------------------------------
(* mainAPMLoop *)

\* Mutant: the loop does not look at its context.
CheckNoContext ==
  /\ pc = "top" /\ pc' = "next"
  /\ UNCHANGED <<appVars, event, probablyTimeout, lastEventStart, held,
                 errors, current, reportVars, guidVars, ctxDone, taken, shipVars>>

CheckContext ==
  /\ pc = "top" /\ pc' = IF ctxDone THEN "lastGuid" ELSE "next"
  /\ UNCHANGED <<appVars, event, probablyTimeout, lastEventStart, held,
                 errors, current, reportVars, guidVars, ctxDone, taken, shipVars>>

\* NextEvent fails for a reason of its own, or because its context is done.
NextEventFails ==
  /\ pc = "next" /\ (ctxDone \/ errors < MaxErrors)
  /\ errors' = IF ctxDone THEN errors ELSE errors + 1
  /\ pc' = "top"
  /\ UNCHANGED <<appVars, event, probablyTimeout, lastEventStart, held,
                 current, reportVars, guidVars, ctxDone, taken, shipVars>>

\* Where the loop goes with an event.
Handling(e) ==
  CASE e = "invoke"                 -> "awaitGuid"
    [] e \in {"timeout", "failure"} -> "sendFault"
    [] OTHER                        -> "lastGuid"

\* The payload of an invocation that has begun is taken from telemetryChan.
TakeFromPipe ==
  \E k \in Payloads \ taken :
    /\ k <= current'
    /\ held' = k /\ taken' = taken \cup {k}

\* NextEvent is answered.  After a suspected timeout telemetryChan is polled,
\* without waiting, before the event is looked at.
Answered(e) ==
  /\ pc = "next"
  /\ event' = e
  /\ \/ /\ probablyTimeout
        /\ TakeFromPipe
        /\ pc' = "catchUp"
        /\ UNCHANGED probablyTimeout
     \/ /\ pc' = Handling(e)
        /\ probablyTimeout' = IF e = "invoke" THEN FALSE ELSE probablyTimeout
        /\ UNCHANGED <<held, taken>>
  /\ UNCHANGED <<appVars, lastEventStart, errors, reportVars, guidVars, ctxDone,
                 shipVars>>

NextInvoke ==
  /\ current < NumInvocations
  /\ current' = current + 1
  /\ Answered("invoke")

NextShutdown ==
  /\ UNCHANGED current
  /\ \E reason \in {"timeout", "failure", "spindown"} : Answered(reason)

SendHeld ==
  /\ Len(dataChan) < DataCap
  /\ dataChan' = Append(dataChan, held)
  /\ held' = Nothing
  /\ UNCHANGED <<exit, processVars, errorEventChan, collectorErrorChan, connectChan,
                 lambdaLogChan, routines, harvests, started, refused>>

CatchUp ==
  /\ pc = "catchUp"
  /\ SendHeld
  /\ pc' = Handling(event)
  /\ probablyTimeout' = IF event = "invoke" THEN FALSE ELSE probablyTimeout
  /\ UNCHANGED <<event, lastEventStart, errors, current, reportVars, guidVars,
                 ctxDone, taken, shipVars>>

\* PollPlatformChannel: whatever has been posted in the meantime.
PollPlatformChannel ==
  \E n \in 0..(NumReports - reported) :
    polled' \in [1..n -> ReportKinds] /\ reported' = reported + n

\* Mutant: the poll of the reports does not wait for the guid.
AwaitNoGuid ==
  /\ pc \in {"awaitGuid", "lastGuid"}
  /\ PollPlatformChannel
  /\ pc' = IF pc = "awaitGuid" THEN "metrics" ELSE "lastMetrics"
  /\ UNCHANGED <<appVars, event, probablyTimeout, lastEventStart, held,
                 errors, current, guidVars, ctxDone, taken, shipVars>>

\* pollLogAPMServer: nothing is polled before the guid is known, and nothing
\* any more once the context is done.
AwaitGuid ==
  /\ pc \in {"awaitGuid", "lastGuid"} /\ (ctxDone \/ entityGuid # Empty)
  /\ IF ctxDone THEN UNCHANGED reportVars ELSE PollPlatformChannel
  /\ pc' = IF pc = "awaitGuid" THEN "metrics" ELSE "lastMetrics"
  /\ UNCHANGED <<appVars, event, probablyTimeout, lastEventStart, held,
                 errors, current, guidVars, ctxDone, taken, shipVars>>

\* What ParseLambdaReportLog finds in a report: metrics, the status of a fault, or
\* neither; then it returns nil and an error that pollLogAPMServer ignores.
InMetrics == pc \in {"metrics", "lastMetrics"}
Unreadable == InMetrics /\ polled # << >> /\ Head(polled) = "neither"

\* ConvertToMetrics dereferences the nil.
ReportUnreadable ==
  /\ Unreadable
  /\ exit' = "panicked"
  /\ UNCHANGED <<processVars, channels, routines, harvests, started, refused, loopVars,
                 guidVars, ctxDone, taken, shipVars>>

\* SendMetrics waits for an answer as long as it takes: its client has no timeout.
MetricsAnswered ==
  /\ InMetrics /\ polled # << >> /\ ~Unreadable
  /\ polled' = Tail(polled)
  /\ UNCHANGED <<appVars, pc, event, probablyTimeout, lastEventStart, held,
                 errors, current, reported, guidVars, ctxDone, taken, shipVars>>

MetricsSent ==
  /\ InMetrics /\ polled = << >>
  /\ pc' = IF pc = "metrics" THEN "awaitTelemetry" ELSE "close"
  /\ UNCHANGED <<appVars, event, probablyTimeout, lastEventStart, held,
                 errors, current, reportVars, guidVars, ctxDone, taken, shipVars>>

\* timeLimitContext is done: the time has passed, at any moment of the wait, or SIGTERM
\* has come.
TimeLimitReached ==
  /\ pc = "awaitTelemetry"
  /\ probablyTimeout' = TRUE
  /\ pc' = "top"
  /\ UNCHANGED <<appVars, event, lastEventStart, held, errors, current,
                 reportVars, guidVars, ctxDone, taken, shipVars>>

ReceiveTelemetry ==
  /\ pc = "awaitTelemetry"
  /\ UNCHANGED current
  /\ TakeFromPipe
  /\ pc' = "handOver"
  /\ UNCHANGED <<appVars, event, probablyTimeout, lastEventStart, errors, reportVars,
                 guidVars, ctxDone, shipVars>>

HandOver ==
  /\ pc = "handOver"
  /\ SendHeld
  /\ lastEventStart' = current
  /\ pc' = "top"
  /\ UNCHANGED <<event, probablyTimeout, errors, current, reportVars, guidVars,
                 ctxDone, taken, shipVars>>

\* The error event of a Shutdown.  mainAPMLoop never sets lastRequestId.
Fault == [kind |-> event, request |-> NoRequest, from |-> lastEventStart]

SendFault ==
  /\ pc = "sendFault" /\ Len(errorEventChan) < ErrorCap
  /\ errorEventChan' = Append(errorEventChan, Fault)
  /\ pc' = "lastGuid"
  /\ UNCHANGED <<exit, processVars, dataChan, collectorErrorChan, connectChan,
                 lambdaLogChan, routines, harvests, started, refused,
                 event, probablyTimeout, lastEventStart, held, errors,
                 current, reportVars, guidVars, ctxDone, taken, shipVars>>

\* LogServer.Close refuses every POST from here on.  Handlers that came before may
\* have function lines that have not been taken from them.
CloseRefuses ==
  /\ pc = "close"
  /\ pc' = "closing"
  /\ linesWaiting' \in BOOLEAN
  /\ UNCHANGED <<appVars, event, probablyTimeout, lastEventStart, held, errors, current,
                 reportVars, guidVars, ctxDone, taken, shipper>>

\* Its wg.Wait returns when every handler has passed its lines on, and main ends: it
\* waits for nothing of the application.
CloseReturns ==
  /\ pc = "closing" /\ ~linesWaiting
  /\ exit' = "returned"
  /\ UNCHANGED <<processVars, channels, routines, harvests, started, refused, loopVars,
                 guidVars, ctxDone, taken, shipVars>>

Main ==
  \/ CheckContext \/ NextEventFails \/ NextInvoke \/ NextShutdown
  \/ CatchUp \/ AwaitGuid \/ ReportUnreadable \/ MetricsAnswered \/ MetricsSent
  \/ TimeLimitReached \/ ReceiveTelemetry \/ HandOver \/ SendFault
  \/ CloseRefuses \/ CloseReturns

-----------------------------------------------------------------------------
(* getAPMEntityGUID: InternalAPMApp.Run is read without its lock, once for     *)
(* each use.                                                                   *)

WatcherGoes(from, to) ==
  /\ watcher = from /\ watcher' = to
  /\ UNCHANGED <<appVars, loopVars, entityGuid, ctxDone, taken, shipVars>>

\* The run is dereferenced: of nil this is a panic.
Dereference(from, then) ==
  IF appRun = NoRun
  THEN /\ watcher = from /\ exit' = "panicked"
       /\ UNCHANGED <<processVars, channels, routines, harvests, started, refused,
                      loopVars, guidVars, ctxDone, taken, shipVars>>
  ELSE then

CheckRun == WatcherGoes("check", IF appRun # NoRun THEN "compare" ELSE "select")

CompareGuid ==
  /\ watcher = "compare"
  /\ Dereference("compare",
       WatcherGoes("compare", IF appRun.guid # Empty THEN "set" ELSE "select"))

SetEntityGuid ==
  /\ watcher = "set"
  /\ Dereference("set",
       /\ entityGuid' = appRun.guid /\ watcher' = "done"
       /\ UNCHANGED <<appVars, loopVars, ctxDone, taken, shipVars>>)

ReceiveGuid ==
  /\ watcher = "select" /\ lambdaLogChan # << >>
  /\ lambdaLogChan' = Tail(lambdaLogChan)
  /\ watcher' = IF appRun # NoRun THEN "set" ELSE "check"
  /\ UNCHANGED <<exit, processVars, dataChan, errorEventChan, collectorErrorChan,
                 connectChan, routines, harvests, started, refused, loopVars,
                 entityGuid, ctxDone, taken, shipVars>>

TickerFires == WatcherGoes("select", "check")
WatcherSeesContext == ctxDone /\ WatcherGoes("select", "done")

GetAPMEntityGUID ==
  CheckRun \/ CompareGuid \/ SetEntityGuid \/ ReceiveGuid \/ TickerFires
  \/ WatcherSeesContext

-----------------------------------------------------------------------------
(* APMlogShipLoop: it takes no lines before it has seen the guid, and none at   *)
(* all once it has left, which it does only while it waits for the guid.        *)

ShipperStep == UNCHANGED <<appVars, loopVars, guidVars, ctxDone, taken>>

LeaveGate ==
  /\ shipper = "gate" /\ ctxDone
  /\ shipper' = "gone"
  /\ UNCHANGED linesWaiting
  /\ ShipperStep

PassGate ==
  /\ shipper = "gate" /\ entityGuid # Empty
  /\ shipper' = "taking"
  /\ UNCHANGED linesWaiting
  /\ ShipperStep

\* It takes what waits and sends it, which takes a bounded time (TelemetryClient.tla).
TakeLines ==
  /\ shipper = "taking" /\ linesWaiting
  /\ linesWaiting' = FALSE
  /\ UNCHANGED shipper
  /\ ShipperStep

APMlogShipLoop == LeaveGate \/ PassGate \/ TakeLines

-----------------------------------------------------------------------------
Sigterm ==
  /\ MaySignal /\ ~ctxDone
  /\ ctxDone' = TRUE
  /\ UNCHANGED <<appVars, loopVars, guidVars, taken, shipVars>>

AppStep(A) == A /\ UNCHANGED <<loopVars, guidVars, ctxDone, taken, shipVars>>
Application ==
  \/ AppStep(Process)
  \/ \E n \in DOMAIN routines : AppStep(ConnectRoutine(n))
  \/ \E h \in harvests : AppStep(DoHarvest(h))

Next == Running /\ (Main \/ GetAPMEntityGUID \/ APMlogShipLoop
                   \/ Application \/ Sigterm)

\* Every goroutine runs, and every request to the collector is answered or times
\* out, so that process and connectRoutine go on; so does time.  The
\* platform owes no event, the agent no payload, the metric endpoint no answer;
\* a call of NextEvent ends when its context is done.
Fairness ==
  /\ WF_vars(Running /\ (CheckContext \/ CatchUp \/ AwaitGuid \/ ReportUnreadable
                         \/ MetricsSent \/ TimeLimitReached \/ HandOver \/ SendFault
                         \/ CloseRefuses \/ CloseReturns))
  /\ WF_vars(Running /\ ctxDone /\ NextEventFails)
  /\ WF_vars(Running /\ (CheckRun \/ CompareGuid \/ SetEntityGuid))
  /\ WF_vars(Running /\ TickerFires)
  /\ WF_vars(Running /\ AppStep(Process))
  /\ WF_vars(Running /\ \E n \in DOMAIN routines : AppStep(ConnectRoutine(n)))
  /\ WF_vars(Running /\ APMlogShipLoop)

Spec == Init /\ [][Next]_vars /\ Fairness

-----------------------------------------------------------------------------
(* Properties *)

\* Types of the state of the application and of its event loop; no channel holds
\* more than its capacity.
TypeOK ==
  /\ exit \in {"running", "returned", "fatal", "panicked"}
  /\ processPc \in {"select", "sendGuid", "sendError"}
  /\ run \in Runs /\ appRun \in Runs
  /\ apmHarvest \in Seq(Payloads)
  /\ dataChan \in Seq(Payloads) /\ Len(dataChan) <= DataCap
  /\ Len(errorEventChan) <= ErrorCap /\ Len(collectorErrorChan) <= 1
  /\ connectChan \in Seq(Runs) /\ Len(connectChan) <= 1
  /\ lambdaLogChan \in Seq({Empty, 1}) /\ Len(lambdaLogChan) <= 1
  /\ \A n \in DOMAIN routines :
       /\ routines[n].pc \in {"attempt", "deliver", "done"}
       /\ routines[n].attempts \in 0..MaxAttempts
  /\ \A h \in harvests : h.payload \in Payloads /\ h.pc \in {"sending", "reporting"}
  /\ started \in [Payloads -> Nat] /\ refused \in BOOLEAN
  /\ pc \in {"top", "next", "catchUp", "awaitGuid", "metrics", "awaitTelemetry",
             "handOver", "sendFault", "lastGuid", "lastMetrics", "close", "closing"}
  /\ watcher \in {"check", "compare", "set", "select", "done"}
  /\ entityGuid \in {Empty, 1} /\ ctxDone \in BOOLEAN
  /\ held \in Payloads \cup {Nothing}
  /\ taken \subseteq Payloads /\ current \in 0..NumInvocations
  /\ polled \in Seq(ReportKinds) /\ reported \in 0..NumReports
  /\ shipper \in {"gate", "taking", "gone"} /\ linesWaiting \in BOOLEAN

\* A payload the loop has taken from telemetryChan is held, queued, put aside or
\* given to one doHarvest: it is never dropped on the way to the collector, and
\* what process has put aside is never sent more than once, although process
\* does not clear it (the event loop's wait for the guid keeps data away until
\* a run is there).
Once(present) == IF present THEN 1 ELSE 0
PayloadInOnePlace ==
  /\ IsInjective(dataChan) /\ IsInjective(apmHarvest)
  /\ \A p \in taken :
       Once(held = p) + Once(p \in ToSet(dataChan)) + Once(p \in ToSet(apmHarvest))
         + started[p] = 1

\* The two nils that can end the extension.  getAPMEntityGUID reads Run again after
\* it has compared it with nil, without the lock, while process withdraws it on
\* every failed harvest; the event loop lets no harvest begin before the guid is
\* known, so that this takes a SIGTERM.  A report with neither metrics nor status
\* (main.go:532) needs none.
NilOnlyTwoWays == exit = "panicked" => ctxDone \/ Unreadable

\* process never blocks on LambdaLogChan, whose reader may have left: there is
\* always room for the guid.
ProcessNotStuck == processPc = "sendGuid" => lambdaLogChan = << >>

\* Close waits for handlers whose lines nobody will take: APMlogShipLoop has left at a
\* SIGTERM that came before it saw the guid.
CloseHangs == pc = "closing" /\ linesWaiting /\ shipper = "gone"

\* mainAPMLoop always gets back to NextEvent or the extension ends, unless main waits
\* for the metric endpoint or Close hangs: no channel and no failed connection holds
\* it for good, nor do lines whose taker waits for the guid.
LoopGoesOn == (pc # "next") ~> (pc = "next" \/ InMetrics \/ CloseHangs \/ ~Running)

\* After SIGTERM the extension ends, unless main waits for the metric endpoint or
\* Close hangs.
StopsWhenTold == ctxDone ~> (InMetrics \/ CloseHangs \/ ~Running)

\* "the agent should disconnect" (collector.go:89): when process has handled a
\* response the collector had answered with 410, the extension has ended.
DisconnectObeyed == refused => exit = "fatal"

=============================================================================
