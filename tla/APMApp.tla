------------------------------- MODULE APMApp -------------------------------
(***************************************************************************)
(* The application of APM mode (apm/internal_app.go): the goroutine        *)
(* process, the connectRoutine that gets it a run from the collector, one  *)
(* doHarvest goroutine per payload it sends, and the buffered channels     *)
(* between them.  APMLoop.tla has the event loop that feeds it.            *)
(*                                                                         *)
(* A payload is its identity.  A run is what Connect returns, a run id and *)
(* an entity guid; Empty stands for "".  A collector request is answered   *)
(* with a status, or with NoAnswer (no connection, a timeout of the HTTP   *)
(* client, or a payload that cannot be decoded, for which none is made).   *)
(* shutdownStarted is left out: nothing in the program closes it.          *)
(***************************************************************************)
EXTENDS Naturals, SequencesExt

CONSTANTS Payloads,       \* what the agent may write
          DataCap,        \* capacity of DataChan
          ErrorCap,       \* capacity of ErrorEventChan
          Answers,        \* how the collector may answer a request
          CompleteReplies \* does the collector fill in both fields of a reply?

ASSUME AppAssumption ==
  /\ Payloads \subseteq Nat \ {0}
  /\ DataCap \in Nat \ {0} /\ ErrorCap \in Nat \ {0}
  /\ Answers \subseteq Nat /\ 200 \in Answers
  /\ CompleteReplies \in BOOLEAN

Empty == 0
MaxAttempts == 3
NoRun == [runId |-> Empty, guid |-> Empty]   \* nil: Connect never returns it
Runs == [runId : {Empty, 1}, guid : {Empty, 1}]

NoAnswer == 0

VARIABLES exit,               \* whether the extension still runs, or how it ended
          processPc,          \* where process is
          run,                \* its local variable
          appRun,             \* InternalAPMApp.Run
          apmHarvest,         \* apmHarvest.data
          dataChan, errorEventChan, collectorErrorChan, connectChan, lambdaLogChan,
          routines,           \* the connectRoutine goroutines started so far
          harvests,           \* the doHarvest goroutines
          started,            \* history: doHarvest calls per payload
          refused             \* history: process has handled the answer 410

channels == <<dataChan, errorEventChan, collectorErrorChan, connectChan, lambdaLogChan>>
processVars == <<processPc, run, appRun, apmHarvest>>
appVars == <<exit, processVars, channels, routines, harvests, started, refused>>

Running == exit = "running"
NewRoutine == [pc |-> "attempt", attempts |-> 0, reply |-> NoRun, resp |-> NoAnswer]

AppInit ==
  /\ exit = "running"
  /\ processPc = "select" /\ run = NoRun /\ appRun = NoRun /\ apmHarvest = << >>
  /\ dataChan = << >> /\ errorEventChan = << >> /\ collectorErrorChan = << >>
  /\ connectChan = << >> /\ lambdaLogChan = << >>
  /\ routines = << NewRoutine >> /\ harvests = {}
  /\ started = [p \in Payloads |-> 0] /\ refused = FALSE

-----------------------------------------------------------------------------
(* Responses *)

\* Mutant: the status goes with the error.
NewRPMResponseKeepsStatus(answer) == answer

\* newRPMResponse, and connectAttempt in its place, make a response of an error,
\* without a status code: what the collector answered is not in it.
NewRPMResponse(answer) == 0

\* A response, with what the collector had answered as history.
Response(answer) == [statusCode |-> NewRPMResponse(answer), answered |-> answer]

IsDisconnect(statusCode) == statusCode = 410
IsRestartException(statusCode) == statusCode \in {401, 409}

\* Connect accepts a reply unless both fields are missing.
Replies == IF CompleteReplies
           THEN {r \in Runs : r.runId # Empty /\ r.guid # Empty}
           ELSE Runs \ {NoRun}

-----------------------------------------------------------------------------
(* connectRoutine *)

ConnectSucceeds(n) ==
  /\ routines[n].pc = "attempt" /\ routines[n].attempts < MaxAttempts
  /\ \E reply \in Replies :
       routines' = [routines EXCEPT ![n].pc = "deliver", ![n].reply = reply]
  /\ UNCHANGED <<exit, processVars, channels, harvests, started, refused>>

\* Mutant: one attempt more than the limit.
ConnectFailsOnceMore(n) ==
  /\ routines[n].pc = "attempt" /\ routines[n].attempts <= MaxAttempts
  /\ routines' = [routines EXCEPT ![n].attempts = @ + 1]
  /\ UNCHANGED <<exit, processVars, channels, harvests, started, refused>>

\* A failed attempt: on a disconnect the routine ends, otherwise it tries again
\* after a pause.
ConnectFails(n) ==
  /\ routines[n].pc = "attempt" /\ routines[n].attempts < MaxAttempts
  /\ \E answer \in Answers :
       routines' = IF IsDisconnect(NewRPMResponse(answer))
                   THEN [routines EXCEPT ![n].pc = "deliver", ![n].resp = answer]
                   ELSE [routines EXCEPT ![n].attempts = @ + 1]
  /\ UNCHANGED <<exit, processVars, channels, harvests, started, refused>>

\* Mutant: the routine gives up quietly.
AttemptsExhaustedQuietly(n) ==
  /\ routines[n].pc = "attempt" /\ routines[n].attempts = MaxAttempts
  /\ routines' = [routines EXCEPT ![n].pc = "done"]
  /\ UNCHANGED <<exit, processVars, channels, harvests, started, refused>>

\* util.Fatal ends the extension.
AttemptsExhausted(n) ==
  /\ routines[n].pc = "attempt" /\ routines[n].attempts = MaxAttempts
  /\ exit' = "fatal"
  /\ UNCHANGED <<processVars, channels, routines, harvests, started, refused>>

\* The routine ends with its run, or the disconnect, in a channel.
Deliver(n) ==
  /\ routines[n].pc = "deliver"
  /\ LET resp == routines[n].resp IN
       IF resp = NoAnswer
       THEN /\ Len(connectChan) < 1
            /\ connectChan' = Append(connectChan, routines[n].reply)
            /\ UNCHANGED collectorErrorChan
       ELSE /\ Len(collectorErrorChan) < 1
            /\ collectorErrorChan' = Append(collectorErrorChan, Response(resp))
            /\ UNCHANGED connectChan
  /\ routines' = [routines EXCEPT ![n].pc = "done"]
  /\ UNCHANGED <<exit, processVars, dataChan, errorEventChan, lambdaLogChan, harvests,
                 started, refused>>

ConnectRoutine(n) ==
  ConnectSucceeds(n) \/ ConnectFails(n) \/ AttemptsExhausted(n) \/ Deliver(n)

-----------------------------------------------------------------------------
(* doHarvest *)

Succeeds(answer) == answer \in {200, 202}

\* SendAPMTelemetry returns: its requests have been answered, in whichever way,
\* or the context of the extension is done.
HarvestAnswered(h) ==
  /\ h.pc = "sending"
  /\ \E answer \in Answers :
       harvests' = IF Succeeds(answer)
                   THEN harvests \ {h}
                   ELSE (harvests \ {h})
                        \cup {[h EXCEPT !.pc = "reporting", !.answer = answer]}
  /\ UNCHANGED <<exit, processVars, channels, routines, started, refused>>

HarvestReports(h) ==
  /\ h.pc = "reporting" /\ Len(collectorErrorChan) < 1
  /\ collectorErrorChan' =
       Append(collectorErrorChan, Response(h.answer))
  /\ harvests' = harvests \ {h}
  /\ UNCHANGED <<exit, processVars, dataChan, errorEventChan, connectChan,
                 lambdaLogChan, routines, started, refused>>

DoHarvest(h) == HarvestAnswered(h) \/ HarvestReports(h)

-----------------------------------------------------------------------------
(* process: one action per case of its select *)

HaveRun == run # NoRun /\ run.runId # Empty

Harvest(p) == [payload |-> p, nth |-> started[p] + 1, pc |-> "sending", answer |-> NoAnswer]

\* Mutant: without a run the payload is dropped.
TakeDataDrops ==
  /\ processPc = "select" /\ dataChan # << >>
  /\ dataChan' = Tail(dataChan)
  /\ IF HaveRun
     THEN /\ harvests' = harvests \cup {Harvest(Head(dataChan))}
          /\ started' = [started EXCEPT ![Head(dataChan)] = @ + 1]
     ELSE UNCHANGED <<harvests, started>>
  /\ UNCHANGED <<exit, processPc, run, appRun, apmHarvest, errorEventChan,
                 collectorErrorChan, connectChan, lambdaLogChan, routines, refused>>

\* The payload and everything put aside are sent; what was put aside stays there.
TakeData ==
  /\ processPc = "select" /\ dataChan # << >>
  /\ dataChan' = Tail(dataChan)
  /\ LET data == Head(dataChan)
         sending == {data} \cup ToSet(apmHarvest)
     IN  IF HaveRun
         THEN /\ harvests' = harvests \cup {Harvest(p) : p \in sending}
              /\ started' = [p \in Payloads |-> IF p \in sending THEN started[p] + 1
                                                                 ELSE started[p]]
              /\ UNCHANGED apmHarvest
         ELSE /\ apmHarvest' = Append(apmHarvest, data)
              /\ UNCHANGED <<harvests, started>>
  /\ UNCHANGED <<exit, processPc, run, appRun, errorEventChan, collectorErrorChan,
                 connectChan, lambdaLogChan, routines, refused>>

\* The published run is withdrawn; process goes on with its own.
TakeCollectorError ==
  /\ processPc = "select" /\ collectorErrorChan # << >>
  /\ collectorErrorChan' = Tail(collectorErrorChan)
  /\ appRun' = NoRun
  /\ LET resp == Head(collectorErrorChan) IN
       /\ refused' = (refused \/ IsDisconnect(resp.answered))
       /\ exit' = IF IsDisconnect(resp.statusCode) THEN "fatal" ELSE exit
       /\ routines' = IF IsRestartException(resp.statusCode)
                      THEN Append(routines, NewRoutine) ELSE routines
  /\ UNCHANGED <<processPc, run, apmHarvest, dataChan, errorEventChan, connectChan,
                 lambdaLogChan, harvests, started>>

TakeRun ==
  /\ processPc = "select" /\ connectChan # << >>
  /\ connectChan' = Tail(connectChan)
  /\ run' = Head(connectChan) /\ appRun' = Head(connectChan)
  /\ processPc' = "sendGuid"
  /\ UNCHANGED <<exit, apmHarvest, dataChan, errorEventChan, collectorErrorChan,
                 lambdaLogChan, routines, harvests, started, refused>>

SendGuid ==
  /\ processPc = "sendGuid" /\ Len(lambdaLogChan) < 1
  /\ lambdaLogChan' = Append(lambdaLogChan, run.guid)
  /\ processPc' = "select"
  /\ UNCHANGED <<exit, run, appRun, apmHarvest, dataChan, errorEventChan,
                 collectorErrorChan, connectChan, routines, harvests, started, refused>>

\* sendError makes its request on this goroutine; its answer is not looked at.
TakeErrorEvent ==
  /\ processPc = "select" /\ errorEventChan # << >>
  /\ errorEventChan' = Tail(errorEventChan)
  /\ processPc' = IF HaveRun THEN "sendError" ELSE "select"
  /\ UNCHANGED <<exit, run, appRun, apmHarvest, dataChan, collectorErrorChan,
                 connectChan, lambdaLogChan, routines, harvests, started, refused>>

ErrorEventAnswered ==
  /\ processPc = "sendError"
  /\ processPc' = "select"
  /\ UNCHANGED <<exit, run, appRun, apmHarvest, channels, routines, harvests, started,
                 refused>>

Process ==
  \/ TakeData \/ TakeCollectorError \/ TakeRun \/ SendGuid
  \/ TakeErrorEvent \/ ErrorEventAnswered
=============================================================================
