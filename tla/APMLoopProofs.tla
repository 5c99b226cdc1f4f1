--------------------------- MODULE APMLoopProofs ---------------------------
(***************************************************************************)
(* Theorems about APM mode, for any payloads, capacities, answers of the   *)
(* collector, kinds of report and number of invocations: the types, that   *)
(* process is never stuck at LambdaLogChan, that a nil ends the extension  *)
(* in two ways only, and that a payload is in one place.                   *)
(*                                                                         *)
(* Four facts carry the argument.  No response has a status code, so that  *)
(* no second connectRoutine is ever started and its run passes once from   *)
(* the routine to process to LambdaLogChan (OneRun).  Until the guid is    *)
(* known or SIGTERM has come the event loop lets no payload through, so    *)
(* that no harvest fails and the published run is not withdrawn (Early).   *)
(* Once a payload has come process has its run and puts nothing aside      *)
(* (Late).  And the channels hold a payload at most once (Unique).         *)
(***************************************************************************)
EXTENDS APMLoop, TLAPS

Events == {"none", "invoke", "timeout", "failure", "spindown"}
Faults == [kind : Events, request : {NoRequest}, from : Nat]
Replied == Runs \ {NoRun}
RoutineType == [pc : {"attempt", "deliver", "done"}, attempts : 0..MaxAttempts,
                reply : Runs, resp : {NoAnswer}]
HarvestType == [payload : Payloads, nth : Nat, pc : {"sending", "reporting"}, answer : Nat]
ResponseType == [statusCode : {0}, answered : Nat]

\* The state of the application; one connectRoutine, and no status in a response.
AppTyped ==
  /\ processPc \in {"select", "sendGuid", "sendError"}
  /\ run \in Runs /\ appRun \in Runs
  /\ apmHarvest \in Seq(Payloads)
  /\ dataChan \in Seq(Payloads) /\ Len(dataChan) <= DataCap
  /\ errorEventChan \in Seq(Faults) /\ Len(errorEventChan) <= ErrorCap
  /\ collectorErrorChan \in Seq(ResponseType) /\ Len(collectorErrorChan) <= 1
  /\ connectChan \in Seq(Replied) /\ Len(connectChan) <= 1
  /\ lambdaLogChan \in Seq({Empty, 1}) /\ Len(lambdaLogChan) <= 1
  /\ routines = << routines[1] >> /\ routines[1] \in RoutineType
  /\ routines[1].pc = "deliver" => routines[1].reply \in Replied
  /\ harvests \subseteq HarvestType
  /\ started \in [Payloads -> Nat] /\ refused \in BOOLEAN

\* The state of the event loop, of the guid's watcher and of the surroundings.
LoopTyped ==
  /\ pc \in {"top", "next", "catchUp", "awaitGuid", "metrics", "awaitTelemetry",
             "handOver", "sendFault", "lastGuid", "lastMetrics", "close", "closing"}
  /\ event \in Events /\ probablyTimeout \in BOOLEAN /\ lastEventStart \in Nat
  /\ watcher \in {"check", "compare", "set", "select", "done"}
  /\ entityGuid \in {Empty, 1} /\ ctxDone \in BOOLEAN
  /\ held \in Payloads \cup {Nothing}
  /\ pc \in {"catchUp", "handOver"} => held \in Payloads
  /\ taken \subseteq Payloads /\ current \in 0..NumInvocations
  /\ polled \in Seq(ReportKinds) /\ reported \in 0..NumReports
  /\ shipper \in {"gate", "taking", "gone"} /\ linesWaiting \in BOOLEAN

\* The run of the one connectRoutine is with it, in connectChan, with process,
\* or its guid has been sent.
OneRun ==
  /\ routines[1].pc # "done" =>
       connectChan = << >> /\ processPc # "sendGuid" /\ lambdaLogChan = << >>
  /\ connectChan # << >> => processPc # "sendGuid" /\ lambdaLogChan = << >>
  /\ processPc = "sendGuid" => lambdaLogChan = << >>

\* Before the watcher has set the guid, or SIGTERM has come, nothing is sent.
Early ==
  ~ctxDone /\ watcher # "done" =>
    /\ entityGuid = Empty /\ probablyTimeout = FALSE
    /\ pc \in {"top", "next", "awaitGuid", "sendFault", "lastGuid"}
    /\ dataChan = << >> /\ collectorErrorChan = << >> /\ harvests = {}
    /\ watcher \in {"compare", "set"} => appRun # NoRun

Exits ==
  /\ exit \in {"running", "returned", "fatal", "panicked"}
  /\ exit = "panicked" => ctxDone \/ Unreadable

Inv == AppTyped /\ LoopTyped /\ OneRun /\ Early /\ Exits

-----------------------------------------------------------------------------
LEMMA RunTypes ==
  /\ NoRun \in Runs /\ Replied \subseteq Runs /\ Replies \subseteq Replied
  /\ NewRoutine \in RoutineType
  <1>1. NoRun \in Runs
    BY DEF NoRun, Runs, Empty
  <1>2. Replied \subseteq Runs
    BY DEF Replied
  <1>3. Replies \subseteq Replied
    BY DEF Replies, Replied, NoRun
  <1>4. NewRoutine \in RoutineType
    BY <1>1 DEF NewRoutine, RoutineType, MaxAttempts
  <1> QED
    BY <1>1, <1>2, <1>3, <1>4

LEMMA InitInv == Init => Inv
  <1> SUFFICES ASSUME Init PROVE Inv
    OBVIOUS
  <1>1. AppTyped
    <2>1. /\ DataCap \in Nat /\ ErrorCap \in Nat
      BY AppAssumption
    <2>2. /\ routines = << routines[1] >> /\ routines[1] \in RoutineType
          /\ routines[1].pc # "deliver"
      <3>1. routines = << NewRoutine >> /\ NewRoutine.pc = "attempt"
        BY DEF Init, AppInit, NewRoutine
      <3> QED
        BY <3>1, RunTypes
    <2>3. started \in [Payloads -> Nat]
      BY DEF Init, AppInit
    <2>4. /\ apmHarvest = << >> /\ dataChan = << >> /\ errorEventChan = << >>
          /\ collectorErrorChan = << >> /\ connectChan = << >> /\ lambdaLogChan = << >>
      BY DEF Init, AppInit
    <2>5. /\ processPc = "select" /\ run \in Runs /\ appRun \in Runs /\ harvests = {}
          /\ refused \in BOOLEAN
      BY RunTypes DEF Init, AppInit
    <2> QED
      BY <2>1, <2>2, <2>3, <2>4, <2>5 DEF AppTyped
  <1>2. LoopTyped
    <2>1. current \in 0..NumInvocations
      BY LoopAssumption DEF Init
    <2>2. polled = << >> /\ reported = 0
      BY DEF Init
    <2>3. shipper = "gate" /\ linesWaiting \in BOOLEAN
      BY DEF Init
    <2>4. reported \in 0..NumReports
      BY <2>2, LoopAssumption
    <2>5. /\ pc = "top" /\ event \in Events /\ probablyTimeout \in BOOLEAN
          /\ lastEventStart \in Nat /\ watcher = "check" /\ entityGuid \in {Empty, 1}
          /\ ctxDone \in BOOLEAN /\ held = Nothing /\ taken = {}
      BY DEF Init, Events
    <2> QED
      BY <2>1, <2>2, <2>3, <2>4, <2>5 DEF LoopTyped
  <1>3. OneRun /\ Early /\ Exits
    BY DEF Init, AppInit, OneRun, Early, Exits
  <1> QED
    BY <1>1, <1>2, <1>3 DEF Inv

-----------------------------------------------------------------------------
(* What a step of one side leaves to the other. *)

LEMMA AppKept == AppTyped /\ OneRun /\ UNCHANGED appVars => AppTyped' /\ OneRun'
  BY DEF AppTyped, OneRun, appVars, processVars, channels

LEMMA ExitOnly ==
  AppTyped /\ OneRun /\ UNCHANGED <<processVars, channels, routines, harvests, started, refused>>
    => AppTyped' /\ OneRun'
  BY DEF AppTyped, OneRun, processVars, channels

LEMMA LoopKept ==
  LoopTyped /\ UNCHANGED <<loopVars, guidVars, ctxDone, taken, shipVars>> => LoopTyped'
  BY DEF LoopTyped, loopVars, reportVars, guidVars, shipVars

\* process.
LEMMA ProcessInv == Inv /\ Running /\ AppStep(Process) => Inv'
  <1> SUFFICES ASSUME Inv, Running, AppStep(Process) PROVE Inv'
    OBVIOUS
  <1>0. /\ AppTyped /\ LoopTyped /\ OneRun /\ Early /\ Process
        /\ UNCHANGED <<loopVars, guidVars, ctxDone, taken, shipVars>>
    BY DEF Inv, AppStep
  <1>1. LoopTyped'
    BY <1>0, LoopKept
  <1>2. CASE TakeData
    <2> DEFINE data == Head(dataChan)
               sending == {data} \cup ToSet(apmHarvest)
    <2>1. /\ data \in Payloads /\ dataChan' \in Seq(Payloads)
          /\ Len(dataChan') <= DataCap /\ dataChan # << >>
      BY <1>0, <1>2, AppAssumption, SMTT(30) DEF TakeData, AppTyped
    <2>2. sending \subseteq Payloads
      BY <1>0, <2>1 DEF AppTyped, ToSet
    <2>3. \A p \in Payloads : Harvest(p) \in HarvestType
      BY <1>0 DEF Harvest, HarvestType, AppTyped, NoAnswer
    <2>4. harvests' \subseteq HarvestType /\ started' \in [Payloads -> Nat]
          /\ apmHarvest' \in Seq(Payloads)
      <3> HIDE DEF data
      <3>1. CASE HaveRun
        BY <1>0, <1>2, <2>2, <2>3, <3>1 DEF TakeData, AppTyped, data
      <3>2. CASE ~HaveRun
        <4>1. apmHarvest' = Append(apmHarvest, data) /\ UNCHANGED <<harvests, started>>
          BY <1>2, <3>2 DEF TakeData, data
        <4> QED
          BY <1>0, <2>1, <4>1 DEF AppTyped
      <3> QED
        BY <3>1, <3>2
    <2>5. AppTyped' /\ OneRun'
      BY <1>0, <1>2, <2>1, <2>4 DEF TakeData, AppTyped, OneRun
    <2>6. Early' /\ Exits'
      BY <1>0, <1>2, <2>1 DEF TakeData, Early, Exits, Running, guidVars, loopVars
    <2> QED
      BY <1>1, <2>5, <2>6 DEF Inv
  <1>3. CASE TakeCollectorError
    <2>1. /\ Head(collectorErrorChan) \in ResponseType /\ collectorErrorChan # << >>
          /\ collectorErrorChan' \in Seq(ResponseType) /\ Len(collectorErrorChan') <= 1
      BY <1>0, <1>3 DEF TakeCollectorError, AppTyped
    <2>2. Head(collectorErrorChan).statusCode = 0
      BY <2>1 DEF ResponseType
    <2>3. routines' = routines /\ exit' = exit /\ refused' \in BOOLEAN
      BY <1>0, <1>3, <2>2
      DEF TakeCollectorError, IsDisconnect, IsRestartException, AppTyped
    <2>4. AppTyped' /\ OneRun'
      BY <1>0, <1>3, <2>1, <2>3, RunTypes DEF TakeCollectorError, AppTyped, OneRun
    <2>5. Early' /\ Exits'
      BY <1>0, <1>3, <2>1, <2>3 DEF Early, Exits, Running, guidVars
    <2> QED
      BY <1>1, <2>4, <2>5 DEF Inv
  <1>4. CASE TakeRun
    <2>1. /\ Head(connectChan) \in Replied /\ connectChan # << >> /\ connectChan' = << >>
      BY <1>0, <1>4 DEF TakeRun, AppTyped
    <2>2. AppTyped' /\ OneRun'
      BY <1>0, <1>4, <2>1, RunTypes DEF TakeRun, AppTyped, OneRun
    <2>3. Early' /\ Exits'
      BY <1>0, <1>4, <2>1 DEF TakeRun, Early, Exits, Running, Replied, guidVars, loopVars
    <2> QED
      BY <1>1, <2>2, <2>3 DEF Inv
  <1>5. CASE SendGuid
    <2>1. run.guid \in {Empty, 1} /\ lambdaLogChan' \in Seq({Empty, 1}) /\ Len(lambdaLogChan') <= 1
      BY <1>0, <1>5 DEF SendGuid, AppTyped, Runs
    <2>2. AppTyped' /\ OneRun'
      BY <1>0, <1>5, <2>1 DEF SendGuid, AppTyped, OneRun
    <2>3. Early' /\ Exits'
      BY <1>0, <1>5 DEF SendGuid, Early, Exits, Running, guidVars, loopVars
    <2> QED
      BY <1>1, <2>2, <2>3 DEF Inv
  <1>6. CASE TakeErrorEvent
    <2>1. errorEventChan' \in Seq(Faults) /\ Len(errorEventChan') <= ErrorCap
      BY <1>0, <1>6, AppAssumption DEF TakeErrorEvent, AppTyped
    <2>2. AppTyped' /\ OneRun'
      BY <1>0, <1>6, <2>1 DEF TakeErrorEvent, AppTyped, OneRun
    <2>3. Early' /\ Exits'
      BY <1>0, <1>6 DEF TakeErrorEvent, Early, Exits, Running, guidVars, loopVars
    <2> QED
      BY <1>1, <2>2, <2>3 DEF Inv
  <1>7. CASE ErrorEventAnswered
    <2>1. AppTyped' /\ OneRun'
      BY <1>0, <1>7 DEF ErrorEventAnswered, AppTyped, OneRun, channels
    <2>2. Early' /\ Exits'
      BY <1>0, <1>7 DEF ErrorEventAnswered, Early, Exits, Running, guidVars, loopVars, channels
    <2> QED
      BY <1>1, <2>1, <2>2 DEF Inv
  <1> QED
    BY <1>0, <1>2, <1>3, <1>4, <1>5, <1>6, <1>7 DEF Process

\* connectRoutine.
LEMMA RoutineSet ==
  ASSUME AppTyped, NEW x \in RoutineType, routines' = [routines EXCEPT ![1] = x]
  PROVE  routines' = << routines'[1] >> /\ routines'[1] = x
  BY DEF AppTyped

LEMMA ConnectRoutineInv ==
  ASSUME Inv, Running, NEW n \in DOMAIN routines, AppStep(ConnectRoutine(n))
  PROVE  Inv'
  <1>a. n = 1 /\ routines[1] \in RoutineType
    <2>1. AppTyped
      BY DEF Inv
    <2>2. DOMAIN routines = {1}
      BY <2>1 DEF AppTyped
    <2> QED
      BY <2>1, <2>2 DEF AppTyped
  <1>0. /\ AppTyped /\ LoopTyped /\ OneRun /\ Early /\ ConnectRoutine(1)
        /\ UNCHANGED <<loopVars, guidVars, ctxDone, taken, shipVars>>
        /\ routines[1] \in RoutineType
    BY <1>a DEF Inv, AppStep
  <1>1. LoopTyped'
    BY <1>0, LoopKept
  <1> DEFINE routine == routines[1]
  <1>2. CASE ConnectSucceeds(1)
    <2>1. PICK reply \in Replied :
            routines' = [routines EXCEPT ![1] = [routine EXCEPT !.pc = "deliver",
                                                                !.reply = reply]]
      BY <1>2, RunTypes DEF ConnectSucceeds
    <2> DEFINE next == [routine EXCEPT !.pc = "deliver", !.reply = reply]
    <2>2. next \in RoutineType /\ next.reply = reply /\ next.pc = "deliver"
      BY <1>0, RunTypes DEF RoutineType
    <2>3. /\ routines' = << routines'[1] >> /\ routines'[1] \in RoutineType
          /\ routines'[1].reply = reply /\ routines'[1].pc = "deliver"
      <3> HIDE DEF next
      <3> QED
        BY <1>0, <2>1, <2>2, RoutineSet DEF next
    <2>4. AppTyped' /\ OneRun'
      BY <1>0, <1>2, <2>3 DEF ConnectSucceeds, AppTyped, OneRun, processVars, channels
    <2>5. Early' /\ Exits'
      BY <1>0, <1>2 DEF ConnectSucceeds, Early, Exits, Running, guidVars, loopVars,
                        processVars, channels
    <2> QED
      BY <1>1, <2>4, <2>5 DEF Inv
  <1>3. CASE ConnectFails(1)
    <2>1. routines' = [routines EXCEPT ![1] = [routine EXCEPT !.attempts = @ + 1]]
      BY <1>3 DEF ConnectFails, NewRPMResponse, IsDisconnect
    <2> DEFINE next == [routine EXCEPT !.attempts = @ + 1]
    <2>2. next \in RoutineType /\ next.pc = "attempt"
      BY <1>0, <1>3 DEF ConnectFails, RoutineType, MaxAttempts
    <2>3. /\ routines' = << routines'[1] >> /\ routines'[1] \in RoutineType
          /\ routines'[1].pc = "attempt" /\ routines[1].pc = "attempt"
      <3>1. routines[1].pc = "attempt"
        BY <1>3 DEF ConnectFails
      <3> HIDE DEF next
      <3> QED
        BY <1>0, <2>1, <2>2, <3>1, RoutineSet DEF next
    <2>4. AppTyped' /\ OneRun'
      BY <1>0, <1>3, <2>3 DEF ConnectFails, AppTyped, OneRun, processVars, channels
    <2>5. Early' /\ Exits'
      BY <1>0, <1>3 DEF ConnectFails, Early, Exits, Running, guidVars, loopVars,
                        processVars, channels
    <2> QED
      BY <1>1, <2>4, <2>5 DEF Inv
  <1>4. CASE AttemptsExhausted(1)
    <2>1. AppTyped' /\ OneRun'
      BY <1>0, <1>4, ExitOnly DEF AttemptsExhausted
    <2>2. Early' /\ Exits'
      BY <1>0, <1>4 DEF AttemptsExhausted, Early, Exits, guidVars, loopVars,
                        processVars, channels
    <2> QED
      BY <1>1, <2>1, <2>2 DEF Inv
  <1>5. CASE Deliver(1)
    <2>1. /\ routines' = [routines EXCEPT ![1] = [routine EXCEPT !.pc = "done"]]
          /\ routine.pc = "deliver" /\ routine.resp = NoAnswer /\ routine.reply \in Replied
          /\ connectChan' = Append(connectChan, routine.reply)
          /\ UNCHANGED collectorErrorChan
      BY <1>0, <1>5 DEF Deliver, AppTyped, RoutineType
    <2> DEFINE next == [routine EXCEPT !.pc = "done"]
    <2>2. next \in RoutineType /\ next.pc = "done"
      BY <1>0 DEF RoutineType
    <2>3. /\ routines' = << routines'[1] >> /\ routines'[1] \in RoutineType
          /\ routines'[1].pc = "done"
      <3> HIDE DEF next
      <3> QED
        BY <1>0, <2>1, <2>2, RoutineSet DEF next
    <2>4. /\ connectChan = << >> /\ processPc # "sendGuid" /\ lambdaLogChan = << >>
          /\ connectChan' \in Seq(Replied) /\ Len(connectChan') <= 1
      BY <1>0, <2>1 DEF OneRun, AppTyped
    <2>5. AppTyped' /\ OneRun'
      BY <1>0, <1>5, <2>1, <2>3, <2>4 DEF Deliver, AppTyped, OneRun, processVars
    <2>6. Early' /\ Exits'
      BY <1>0, <1>5, <2>1 DEF Deliver, Early, Exits, Running, guidVars, loopVars, processVars
    <2> QED
      BY <1>1, <2>5, <2>6 DEF Inv
  <1> QED
    BY <1>0, <1>2, <1>3, <1>4, <1>5 DEF ConnectRoutine

\* doHarvest.
LEMMA DoHarvestInv ==
  ASSUME Inv, Running, NEW h \in harvests, AppStep(DoHarvest(h))
  PROVE  Inv'
  <1>0. /\ AppTyped /\ LoopTyped /\ OneRun /\ Early /\ DoHarvest(h) /\ h \in HarvestType
        /\ UNCHANGED <<loopVars, guidVars, ctxDone, taken, shipVars>>
    BY DEF Inv, AppStep, AppTyped
  <1>1. LoopTyped'
    BY <1>0, LoopKept
  <1>2. ctxDone' \/ watcher' = "done"
    BY <1>0 DEF Early, guidVars
  <1>3. CASE HarvestAnswered(h)
    <2>1. PICK answer \in Answers :
            harvests' \subseteq harvests \cup {[h EXCEPT !.pc = "reporting", !.answer = answer]}
      BY <1>3 DEF HarvestAnswered
    <2>2. [h EXCEPT !.pc = "reporting", !.answer = answer] \in HarvestType
      BY <1>0, AppAssumption DEF HarvestType
    <2>3. harvests' \subseteq HarvestType
      BY <1>0, <2>1, <2>2 DEF AppTyped
    <2>4. AppTyped' /\ OneRun'
      BY <1>0, <1>3, <2>3 DEF HarvestAnswered, AppTyped, OneRun, processVars, channels
    <2>5. Early' /\ Exits'
      BY <1>2, <1>3 DEF HarvestAnswered, Early, Exits, Running
    <2> QED
      BY <1>1, <2>4, <2>5 DEF Inv
  <1>4. CASE HarvestReports(h)
    <2>1. Response(h.answer) \in ResponseType
      BY <1>0 DEF Response, ResponseType, NewRPMResponse, HarvestType
    <2>2. collectorErrorChan' \in Seq(ResponseType) /\ Len(collectorErrorChan') <= 1
      <3> HIDE DEF HarvestType
      <3> QED
        BY <1>0, <1>4, <2>1 DEF HarvestReports, AppTyped
    <2>3. AppTyped' /\ OneRun'
      BY <1>0, <1>4, <2>2 DEF HarvestReports, AppTyped, OneRun, processVars
    <2>4. Early' /\ Exits'
      BY <1>2, <1>4 DEF HarvestReports, Early, Exits, Running
    <2> QED
      BY <1>1, <2>3, <2>4 DEF Inv
  <1> QED
    BY <1>0, <1>3, <1>4 DEF DoHarvest

-----------------------------------------------------------------------------
(* The event loop. *)

\* What the loop holds after it has taken a payload.
LEMMA Held ==
  ASSUME LoopTyped, TakeFromPipe
  PROVE  held' \in Payloads /\ taken' \subseteq Payloads
  BY DEF LoopTyped, TakeFromPipe

LEMMA AnsweredInv ==
  ASSUME Inv, Running, NEW e \in {"invoke", "timeout", "failure", "spindown"}, Answered(e),
         current' \in 0..NumInvocations
  PROVE  Inv'
  <1>0. /\ AppTyped /\ LoopTyped /\ OneRun /\ Early
        /\ UNCHANGED <<appVars, lastEventStart, errors, reportVars, guidVars, ctxDone, shipVars>>
        /\ event' = e /\ e \in Events /\ pc = "next"
    BY DEF Inv, Answered, Events
  <1>1. CASE probablyTimeout /\ TakeFromPipe /\ pc' = "catchUp" /\ UNCHANGED probablyTimeout
    <2>1. held' \in Payloads /\ taken' \subseteq Payloads
      BY <1>0, <1>1, Held
    <2>2. LoopTyped'
      BY <1>0, <1>1, <2>1 DEF LoopTyped, guidVars, reportVars, shipVars
    <2>3. Early' /\ Exits'
      BY <1>0, <1>1 DEF Early, Exits, Running, appVars, processVars, channels, guidVars
    <2> QED
      BY <1>0, <2>2, <2>3, AppKept DEF Inv
  <1>2. CASE /\ pc' = Handling(e)
             /\ probablyTimeout' = IF e = "invoke" THEN FALSE ELSE probablyTimeout
             /\ UNCHANGED <<held, taken>>
    <2>1. /\ pc' \in {"awaitGuid", "sendFault", "lastGuid"}
          /\ probablyTimeout' \in {FALSE, probablyTimeout}
      BY <1>0, <1>2 DEF Handling
    <2>2. LoopTyped'
      BY <1>0, <1>2, <2>1, ZenonT(30) DEF LoopTyped, guidVars, reportVars, shipVars
    <2>3. Early' /\ Exits'
      BY <1>0, <2>1 DEF Early, Exits, Running, appVars, processVars, channels, guidVars
    <2> QED
      BY <1>0, <2>2, <2>3, AppKept DEF Inv
  <1> QED
    BY <1>1, <1>2 DEF Answered

LEMMA MainInv == Inv /\ Running /\ Main => Inv'
  <1> SUFFICES ASSUME Inv, Running, Main PROVE Inv'
    OBVIOUS
  <1>0. AppTyped /\ LoopTyped /\ OneRun /\ Early
    BY DEF Inv
  <1>1. CASE CheckContext
    <2>1. UNCHANGED appVars
      BY <1>1 DEF CheckContext
    <2>2. LoopTyped'
      BY <1>0, <1>1 DEF CheckContext, LoopTyped, guidVars, reportVars, shipVars
    <2>3. Early' /\ Exits'
      BY <1>0, <1>1, <2>1 DEF CheckContext, Early, Exits, Running, appVars, processVars,
                                channels, guidVars, LoopTyped
    <2> QED
      BY <1>0, <2>1, <2>2, <2>3, AppKept DEF Inv
  <1>2. CASE NextEventFails
    <2>1. UNCHANGED appVars
      BY <1>2 DEF NextEventFails
    <2>2. LoopTyped'
      BY <1>0, <1>2 DEF NextEventFails, LoopTyped, guidVars, reportVars, shipVars
    <2>3. Early' /\ Exits'
      BY <1>0, <1>2, <2>1 DEF NextEventFails, Early, Exits, Running, appVars, processVars,
                                channels, guidVars, LoopTyped
    <2> QED
      BY <1>0, <2>1, <2>2, <2>3, AppKept DEF Inv
  <1>3. CASE NextInvoke
    <2>1. Answered("invoke") /\ current' \in 0..NumInvocations
      BY <1>0, <1>3, LoopAssumption DEF NextInvoke, LoopTyped
    <2> QED
      BY <2>1, AnsweredInv
  <1>4. CASE NextShutdown
    <2>1. PICK reason \in {"timeout", "failure", "spindown"} : Answered(reason)
      BY <1>4 DEF NextShutdown
    <2>2. current' \in 0..NumInvocations
      BY <1>0, <1>4 DEF NextShutdown, LoopTyped
    <2> QED
      BY <2>1, <2>2, AnsweredInv
  <1>5. CASE CatchUp
    <2>1. /\ dataChan' \in Seq(Payloads) /\ Len(dataChan') <= DataCap
          /\ UNCHANGED <<exit, processVars, errorEventChan, collectorErrorChan, connectChan,
                         lambdaLogChan, routines, harvests, started, refused>>
      BY <1>0, <1>5, AppAssumption DEF CatchUp, SendHeld, AppTyped, LoopTyped
    <2>2. AppTyped' /\ OneRun'
      BY <1>0, <2>1 DEF AppTyped, OneRun, processVars
    <2>3. LoopTyped'
      BY <1>0, <1>5 DEF CatchUp, SendHeld, Handling, LoopTyped, guidVars, reportVars, shipVars
    <2>4. Early' /\ Exits'
      BY <1>0, <1>5, <2>1 DEF CatchUp, Early, Exits, Running, guidVars
    <2> QED
      BY <2>2, <2>3, <2>4 DEF Inv
  <1>6. CASE AwaitGuid
    <2>1. UNCHANGED appVars
      BY <1>6 DEF AwaitGuid
    <2>2. LoopTyped'
      <3>1. polled' \in Seq(ReportKinds) /\ reported' \in 0..NumReports
        <4>1. CASE UNCHANGED reportVars
          BY <1>0, <4>1 DEF LoopTyped, reportVars
        <4>2. ASSUME PollPlatformChannel
              PROVE  polled' \in Seq(ReportKinds) /\ reported' \in 0..NumReports
          BY <1>0, <4>2, LoopAssumption DEF PollPlatformChannel, LoopTyped
        <4> QED
          BY <1>6, <4>1, <4>2 DEF AwaitGuid
      <3> QED
        BY <1>0, <1>6, <3>1 DEF AwaitGuid, LoopTyped, guidVars, shipVars
    <2>3. Early' /\ Exits'
      BY <1>0, <1>6, <2>1 DEF AwaitGuid, Early, Exits, Running, appVars, processVars,
                                channels, guidVars, LoopTyped
    <2> QED
      BY <1>0, <2>1, <2>2, <2>3, AppKept DEF Inv
  <1>7. CASE ReportUnreadable
    <2>1. AppTyped' /\ OneRun' /\ LoopTyped'
      BY <1>0, <1>7, ExitOnly, LoopKept DEF ReportUnreadable, channels
    <2>2. Early' /\ Exits'
      BY <1>0, <1>7 DEF ReportUnreadable, Unreadable, InMetrics, Early, Exits, loopVars,
                        reportVars, guidVars, processVars, channels
    <2> QED
      BY <2>1, <2>2 DEF Inv
  <1>8. CASE MetricsAnswered
    <2>1. UNCHANGED appVars
      BY <1>8 DEF MetricsAnswered, InMetrics
    <2>2. LoopTyped'
      BY <1>0, <1>8 DEF MetricsAnswered, InMetrics, LoopTyped, guidVars, reportVars, shipVars
    <2>3. Early' /\ Exits'
      BY <1>0, <1>8, <2>1 DEF MetricsAnswered, InMetrics, Early, Exits, Running, appVars, processVars,
                                channels, guidVars, LoopTyped
    <2> QED
      BY <1>0, <2>1, <2>2, <2>3, AppKept DEF Inv
  <1>9. CASE MetricsSent
    <2>1. UNCHANGED appVars
      BY <1>9 DEF MetricsSent, InMetrics
    <2>2. LoopTyped'
      BY <1>0, <1>9 DEF MetricsSent, InMetrics, LoopTyped, guidVars, reportVars, shipVars
    <2>3. Early' /\ Exits'
      BY <1>0, <1>9, <2>1 DEF MetricsSent, InMetrics, Early, Exits, Running, appVars, processVars,
                                channels, guidVars, LoopTyped
    <2> QED
      BY <1>0, <2>1, <2>2, <2>3, AppKept DEF Inv
  <1>10. CASE TimeLimitReached
    <2>1. UNCHANGED appVars
      BY <1>10 DEF TimeLimitReached
    <2>2. LoopTyped'
      BY <1>0, <1>10 DEF TimeLimitReached, LoopTyped, guidVars, reportVars, shipVars
    <2>3. Early' /\ Exits'
      BY <1>0, <1>10, <2>1 DEF TimeLimitReached, Early, Exits, Running, appVars, processVars,
                                channels, guidVars, LoopTyped
    <2> QED
      BY <1>0, <2>1, <2>2, <2>3, AppKept DEF Inv
  <1>11. CASE ReceiveTelemetry
    <2>1. UNCHANGED appVars
      BY <1>11 DEF ReceiveTelemetry
    <2>2. LoopTyped'
      <3>1. held' \in Payloads /\ taken' \subseteq Payloads
        BY <1>0, <1>11, Held DEF ReceiveTelemetry
      <3> QED
        BY <1>0, <1>11, <3>1 DEF ReceiveTelemetry, LoopTyped, guidVars, reportVars, shipVars
    <2>3. Early' /\ Exits'
      BY <1>0, <1>11, <2>1 DEF ReceiveTelemetry, Early, Exits, Running, appVars, processVars,
                                channels, guidVars, LoopTyped
    <2> QED
      BY <1>0, <2>1, <2>2, <2>3, AppKept DEF Inv
  <1>12. CASE HandOver
    <2>1. /\ dataChan' \in Seq(Payloads) /\ Len(dataChan') <= DataCap
          /\ UNCHANGED <<exit, processVars, errorEventChan, collectorErrorChan, connectChan,
                         lambdaLogChan, routines, harvests, started, refused>>
      BY <1>0, <1>12, AppAssumption DEF HandOver, SendHeld, AppTyped, LoopTyped
    <2>2. AppTyped' /\ OneRun'
      BY <1>0, <2>1 DEF AppTyped, OneRun, processVars
    <2>3. LoopTyped'
      BY <1>0, <1>12 DEF HandOver, SendHeld, Handling, LoopTyped, guidVars, reportVars, shipVars
    <2>4. Early' /\ Exits'
      BY <1>0, <1>12, <2>1 DEF HandOver, Early, Exits, Running, guidVars
    <2> QED
      BY <2>2, <2>3, <2>4 DEF Inv
  <1>13. CASE SendFault
    <2>1. Fault \in Faults
      BY <1>0 DEF Fault, Faults, LoopTyped
    <2>2. errorEventChan' \in Seq(Faults) /\ Len(errorEventChan') <= ErrorCap
      BY <1>0, <1>13, <2>1, AppAssumption DEF SendFault, AppTyped
    <2>3. AppTyped' /\ OneRun'
      BY <1>0, <1>13, <2>2 DEF SendFault, AppTyped, OneRun, processVars
    <2>4. LoopTyped'
      BY <1>0, <1>13 DEF SendFault, LoopTyped, guidVars, reportVars, shipVars
    <2>5. Early' /\ Exits'
      BY <1>0, <1>13 DEF SendFault, Early, Exits, Running, guidVars, processVars
    <2> QED
      BY <2>3, <2>4, <2>5 DEF Inv
  <1>14. CASE CloseRefuses
    <2>1. UNCHANGED appVars
      BY <1>14 DEF CloseRefuses
    <2>2. LoopTyped'
      BY <1>0, <1>14 DEF CloseRefuses, LoopTyped, guidVars, reportVars
    <2>3. Early' /\ Exits'
      BY <1>0, <1>14, <2>1 DEF CloseRefuses, Early, Exits, Running, appVars, processVars,
                                channels, guidVars, LoopTyped
    <2> QED
      BY <1>0, <2>1, <2>2, <2>3, AppKept DEF Inv
  <1>15. CASE CloseReturns
    <2>1. AppTyped' /\ OneRun' /\ LoopTyped'
      BY <1>0, <1>15, ExitOnly, LoopKept DEF CloseReturns, channels
    <2>2. Early' /\ Exits'
      BY <1>0, <1>15 DEF CloseReturns, Early, Exits, loopVars, guidVars, processVars, channels
    <2> QED
      BY <2>1, <2>2 DEF Inv
  <1> QED
    BY <1>1, <1>2, <1>3, <1>4, <1>5, <1>6, <1>7, <1>8, <1>9, <1>10, <1>11, <1>12,
       <1>13, <1>14, <1>15 DEF Main

-----------------------------------------------------------------------------
(* The goroutine that waits for the guid. *)

LEMMA WatcherMoves ==
  ASSUME Inv, Running, NEW from, NEW to \in {"check", "compare", "set", "select", "done"},
         WatcherGoes(from, to), from # "done",
         to \in {"compare", "set"} => appRun # NoRun, to = "done" => ctxDone
  PROVE  Inv'
  <1>1. AppTyped /\ LoopTyped /\ OneRun /\ Early /\ UNCHANGED appVars
    BY DEF Inv, WatcherGoes
  <1>2. LoopTyped'
    BY <1>1 DEF WatcherGoes, LoopTyped, loopVars, reportVars, shipVars
  <1>3. Early' /\ Exits'
    BY <1>1 DEF WatcherGoes, Early, Exits, Running, appVars, processVars, channels, loopVars
  <1> QED
    BY <1>1, <1>2, <1>3, AppKept DEF Inv

\* Without a run the dereference needs a SIGTERM.
LEMMA Panics ==
  ASSUME Inv, Running, watcher \in {"compare", "set"}, appRun = NoRun,
         exit' = "panicked",
         UNCHANGED <<processVars, channels, routines, harvests, started, refused,
                     loopVars, guidVars, ctxDone, taken, shipVars>>
  PROVE  Inv'
  <1>1. AppTyped /\ LoopTyped /\ OneRun /\ Early /\ ctxDone
    BY DEF Inv, Early
  <1>2. AppTyped' /\ OneRun' /\ LoopTyped'
    BY <1>1, ExitOnly, LoopKept
  <1>3. Early' /\ Exits'
    BY <1>1 DEF Early, Exits
  <1> QED
    BY <1>2, <1>3 DEF Inv

LEMMA GuidInv == Inv /\ Running /\ GetAPMEntityGUID => Inv'
  <1> SUFFICES ASSUME Inv, Running, GetAPMEntityGUID PROVE Inv'
    OBVIOUS
  <1>0. AppTyped /\ LoopTyped /\ OneRun /\ Early
    BY DEF Inv
  <1>1. CASE CheckRun
    BY <1>1, WatcherMoves DEF CheckRun
  <1>2. CASE CompareGuid
    <2>1. CASE appRun = NoRun
      BY <1>2, <2>1, Panics DEF CompareGuid, Dereference
    <2>2. CASE appRun # NoRun
      BY <1>2, <2>2, WatcherMoves DEF CompareGuid, Dereference
    <2> QED
      BY <2>1, <2>2
  <1>3. CASE SetEntityGuid
    <2>1. CASE appRun = NoRun
      BY <1>3, <2>1, Panics DEF SetEntityGuid, Dereference
    <2>2. CASE appRun # NoRun
      <3>1. /\ entityGuid' = appRun.guid /\ watcher' = "done"
            /\ UNCHANGED <<appVars, loopVars, ctxDone, taken, shipVars>>
        BY <1>3, <2>2 DEF SetEntityGuid, Dereference
      <3>2. entityGuid' \in {Empty, 1}
        BY <1>0, <3>1 DEF AppTyped, Runs
      <3>3. LoopTyped'
        BY <1>0, <3>1, <3>2 DEF LoopTyped, loopVars, reportVars, shipVars
      <3>4. Early' /\ Exits'
        BY <3>1 DEF Early, Exits, Running, appVars
      <3> QED
        BY <1>0, <3>1, <3>3, <3>4, AppKept DEF Inv
    <2> QED
      BY <2>1, <2>2
  <1>4. CASE ReceiveGuid
    <2>1. /\ lambdaLogChan # << >> /\ lambdaLogChan' = << >>
          /\ watcher = "select" /\ watcher' \in {"set", "check"}
          /\ watcher' = "set" => appRun # NoRun
          /\ UNCHANGED <<exit, processVars, dataChan, errorEventChan, collectorErrorChan,
                         connectChan, routines, harvests, started, refused, loopVars,
                         entityGuid, ctxDone, taken, shipVars>>
      BY <1>0, <1>4 DEF ReceiveGuid, AppTyped
    <2>2. AppTyped' /\ OneRun'
      BY <1>0, <2>1 DEF AppTyped, OneRun, processVars
    <2>3. LoopTyped'
      BY <1>0, <2>1 DEF LoopTyped, loopVars, reportVars, shipVars
    <2>4. Early' /\ Exits'
      BY <1>0, <2>1 DEF Early, Exits, Running, processVars, loopVars
    <2> QED
      BY <2>2, <2>3, <2>4 DEF Inv
  <1>5. CASE TickerFires
    BY <1>5, WatcherMoves DEF TickerFires
  <1>6. CASE WatcherSeesContext
    BY <1>6, WatcherMoves DEF WatcherSeesContext
  <1> QED
    BY <1>1, <1>2, <1>3, <1>4, <1>5, <1>6 DEF GetAPMEntityGUID

-----------------------------------------------------------------------------
(* The goroutine that ships function lines, and SIGTERM. *)

LEMMA ShipInv == Inv /\ Running /\ APMlogShipLoop => Inv'
  <1> SUFFICES ASSUME Inv, Running, APMlogShipLoop PROVE Inv'
    OBVIOUS
  <1>0. /\ AppTyped /\ LoopTyped /\ OneRun /\ Early
        /\ UNCHANGED <<appVars, loopVars, guidVars, ctxDone, taken>>
        /\ shipper' \in {"gate", "taking", "gone"} /\ linesWaiting' \in BOOLEAN
    BY DEF Inv, APMlogShipLoop, LeaveGate, PassGate, TakeLines, ShipperStep, LoopTyped
  <1>1. LoopTyped'
    BY <1>0 DEF LoopTyped, loopVars, reportVars, guidVars
  <1>2. Early' /\ Exits'
    BY <1>0 DEF Early, Exits, Running, appVars, processVars, channels, loopVars, guidVars
  <1> QED
    BY <1>0, <1>1, <1>2, AppKept DEF Inv

LEMMA SigtermInv == Inv /\ Running /\ Sigterm => Inv'
  <1> SUFFICES ASSUME Inv, Running, Sigterm PROVE Inv'
    OBVIOUS
  <1>0. AppTyped /\ LoopTyped /\ OneRun /\ UNCHANGED appVars
    BY DEF Inv, Sigterm
  <1>1. LoopTyped'
    BY <1>0 DEF Sigterm, LoopTyped, loopVars, reportVars, guidVars, shipVars
  <1>2. Early' /\ Exits'
    BY <1>0 DEF Sigterm, Early, Exits, Running, appVars
  <1> QED
    BY <1>0, <1>1, <1>2, AppKept DEF Inv

-----------------------------------------------------------------------------
LEMMA NextInv == Inv /\ [Next]_vars => Inv'
  <1> SUFFICES ASSUME Inv, [Next]_vars PROVE Inv'
    OBVIOUS
  <1>1. CASE Running /\ Main
    BY <1>1, MainInv
  <1>2. CASE Running /\ GetAPMEntityGUID
    BY <1>2, GuidInv
  <1>3. CASE Running /\ Application
    BY <1>3, ProcessInv, ConnectRoutineInv, DoHarvestInv DEF Application
  <1>4. CASE Running /\ (APMlogShipLoop \/ Sigterm)
    BY <1>4, ShipInv, SigtermInv
  <1>5. CASE UNCHANGED vars
    <2>1. /\ AppTyped /\ LoopTyped /\ OneRun /\ Early /\ Exits
          /\ UNCHANGED <<appVars, loopVars, guidVars, ctxDone, taken, shipVars>>
      BY <1>5 DEF Inv, vars
    <2>2. Early' /\ Exits'
      BY <2>1 DEF Early, Exits, Unreadable, InMetrics, appVars, processVars, channels, loopVars,
                  reportVars, guidVars
    <2> QED
      BY <2>1, <2>2, AppKept, LoopKept DEF Inv
  <1> QED
    BY <1>1, <1>2, <1>3, <1>4, <1>5 DEF Next

LEMMA Invariance == Spec => []Inv
  BY InitInv, NextInv, PTL DEF Spec

\* Types of the application and its event loop; no channel holds more than its
\* capacity.
THEOREM TypeCorrect == Spec => []TypeOK
  <1>1. Inv => TypeOK
    <2> SUFFICES ASSUME Inv PROVE TypeOK
      OBVIOUS
    <2>1. AppTyped /\ LoopTyped /\ Exits
      BY DEF Inv
    <2>2. \A n \in DOMAIN routines : /\ routines[n].pc \in {"attempt", "deliver", "done"}
                                     /\ routines[n].attempts \in 0..MaxAttempts
      BY <2>1 DEF AppTyped, RoutineType
    <2>3. \A h \in harvests : h.payload \in Payloads /\ h.pc \in {"sending", "reporting"}
      BY <2>1 DEF AppTyped, HarvestType
    <2>4. connectChan \in Seq(Runs)
      BY <2>1, RunTypes DEF AppTyped
    <2> QED
      BY <2>1, <2>2, <2>3, <2>4 DEF AppTyped, LoopTyped, Exits, TypeOK
  <1> QED
    BY <1>1, Invariance, PTL

\* process always finds room in LambdaLogChan, whether or not the guid's reader
\* has left, however the collector answers and whatever fails.
THEOREM GuidNeverBlocks == Spec => []ProcessNotStuck
  <1>1. Inv => ProcessNotStuck
    BY DEF Inv, OneRun, ProcessNotStuck
  <1> QED
    BY <1>1, Invariance, PTL

\* A nil dereference takes a SIGTERM, while the guid is awaited, or a report with
\* neither metrics nor status.
THEOREM TwoNils == Spec => []NilOnlyTwoWays
  <1>1. Inv => NilOnlyTwoWays
    BY DEF Inv, Exits, NilOnlyTwoWays
  <1> QED
    BY <1>1, Invariance, PTL

-----------------------------------------------------------------------------
(* A payload is in one place.  Process would send again what it has put aside; *)
(* but it puts aside for ever (the run has no id), or one payload only, which  *)
(* SIGTERM let past the wait for the guid, and then nothing follows it (Late). *)

Ends == {"top", "lastGuid", "lastMetrics", "close", "closing"}

Late ==
  /\ routines[1].pc # "done" \/ connectChan # << >> => run = NoRun
  /\ run = NoRun => appRun = NoRun
  /\ watcher = "done" /\ ~ctxDone => run # NoRun
  /\ run = NoRun =>
       /\ pc # "catchUp"
       /\ probablyTimeout => ctxDone /\ pc \in Ends
       /\ dataChan # << >> =>
            ctxDone /\ pc \in Ends /\ Len(dataChan) = 1 /\ apmHarvest = << >>
  /\ apmHarvest # << >> =>
       \/ run # NoRun /\ run.runId = Empty
       \/ ctxDone /\ dataChan = << >> /\ pc \in Ends

LEMMA InitLate == Init => Late
  BY DEF Init, AppInit, Late

\* Most steps leave alone what Late is about.
LEMMA LateKept ==
  ASSUME Late, UNCHANGED <<run, appRun, apmHarvest, dataChan, connectChan, routines, watcher>>,
         (ctxDone => ctxDone'),
         pc' = pc \/ (pc \in Ends /\ pc' \in Ends) \/ (pc \notin Ends /\ pc' # "catchUp"),
         (probablyTimeout' => probablyTimeout)
  PROVE  Late'
  BY DEF Late, Ends

LEMMA MainLate == Inv /\ Late /\ Running /\ Main => Late'
  <1> SUFFICES ASSUME Inv, Late, Running, Main PROVE Late'
    OBVIOUS
  <1>0. AppTyped /\ LoopTyped /\ Early
    BY DEF Inv
  <1>1. CASE CheckContext \/ NextEventFails \/ AwaitGuid \/ MetricsAnswered \/ MetricsSent
             \/ ReceiveTelemetry \/ SendFault \/ ReportUnreadable \/ CloseRefuses
             \/ CloseReturns
    <2>1. /\ UNCHANGED <<run, appRun, apmHarvest, dataChan, connectChan, routines, watcher>>
          /\ ctxDone' = ctxDone /\ probablyTimeout' = probablyTimeout
      BY <1>1 DEF CheckContext, NextEventFails, AwaitGuid, MetricsAnswered, MetricsSent,
         ReceiveTelemetry, SendFault, ReportUnreadable, CloseRefuses, CloseReturns, appVars, processVars, channels,
         loopVars, guidVars
    <2>2. pc' = pc \/ (pc \in Ends /\ pc' \in Ends) \/ (pc \notin Ends /\ pc' # "catchUp")
                   \/ (CheckContext /\ ~ctxDone)
      BY <1>1 DEF CheckContext, NextEventFails, AwaitGuid, MetricsAnswered, MetricsSent, InMetrics,
         ReceiveTelemetry, SendFault, ReportUnreadable, CloseRefuses, CloseReturns, loopVars, Ends
    <2>3. CASE CheckContext /\ ~ctxDone
      <3>1. pc' = "next"
        BY <2>3 DEF CheckContext
      <3> QED
        BY <2>1, <2>3, <3>1 DEF Late
    <2> QED
      BY <2>1, <2>2, <2>3, LateKept
  <1>2. ASSUME NEW e, Answered(e) PROVE Late'
    <2>1. /\ UNCHANGED <<run, appRun, apmHarvest, dataChan, connectChan, routines, watcher>>
          /\ ctxDone' = ctxDone /\ pc = "next" /\ (probablyTimeout' => probablyTimeout)
          /\ pc' = "catchUp" => probablyTimeout
      BY <1>2 DEF Answered, Handling, appVars, processVars, channels, guidVars
    <2>2. run = NoRun => ~probablyTimeout
      BY <2>1 DEF Late, Ends
    <2>3. pc \notin Ends
      BY <2>1 DEF Ends
    <2> QED
      BY <2>1, <2>2, <2>3 DEF Late
  <1>3. ASSUME pc \in {"catchUp", "handOver"}, pc' # "catchUp", SendHeld,
               UNCHANGED <<watcher, ctxDone>>, (probablyTimeout' => probablyTimeout),
               pc = "handOver" => pc' = "top"
        PROVE  Late'
    <2>1. /\ UNCHANGED <<run, appRun, apmHarvest, connectChan, routines>>
          /\ dataChan' = Append(dataChan, held)
      BY <1>3 DEF SendHeld, processVars
    <2>2. pc \notin Ends
      BY <1>3 DEF Ends
    <2>3. CASE run = NoRun
      <3>1. pc = "handOver" /\ dataChan = << >> /\ apmHarvest = << >> /\ ~probablyTimeout
        BY <1>3, <2>2, <2>3 DEF Late
      <3>2. ctxDone
        BY <1>0, <2>3, <3>1 DEF Late, Early
      <3>3. Len(dataChan') = 1
        BY <2>1, <3>1
      <3> QED
        BY <1>3, <2>1, <2>3, <3>1, <3>2, <3>3 DEF Late, Ends
    <2>4. CASE run # NoRun
      BY <1>3, <2>1, <2>2, <2>4 DEF Late
    <2> QED
      BY <2>3, <2>4
  <1>4. CASE CatchUp
    BY <1>3, <1>4 DEF CatchUp, Handling, guidVars
  <1>5. CASE HandOver
    BY <1>3, <1>5 DEF HandOver, guidVars
  <1>6. CASE TimeLimitReached
    <2>1. /\ UNCHANGED <<run, appRun, apmHarvest, dataChan, connectChan, routines, watcher>>
          /\ ctxDone' = ctxDone /\ pc = "awaitTelemetry" /\ pc' = "top"
      BY <1>6 DEF TimeLimitReached, appVars, processVars, channels, guidVars
    <2>2. ctxDone \/ watcher = "done"
      BY <1>0, <2>1 DEF Early
    <2>3. pc \notin Ends /\ pc' \in Ends
      BY <2>1 DEF Ends
    <2> QED
      BY <2>1, <2>2, <2>3 DEF Late
  <1> QED
    BY <1>1, <1>2, <1>4, <1>5, <1>6 DEF Main, NextInvoke, NextShutdown

LEMMA ApplicationLate == Inv /\ Late /\ Running /\ Application => Late'
  <1> SUFFICES ASSUME Inv, Late, Running, Application PROVE Late'
    OBVIOUS
  <1>0. /\ AppTyped /\ OneRun /\ UNCHANGED <<pc, probablyTimeout, watcher, ctxDone>>
    BY DEF Inv, Application, AppStep, loopVars, guidVars
  <1>1. CASE TakeData
    <2>1. /\ UNCHANGED <<run, appRun, connectChan, routines>> /\ dataChan # << >>
          /\ dataChan' = Tail(dataChan) /\ Len(dataChan') = Len(dataChan) - 1
          /\ HaveRun => apmHarvest' = apmHarvest
          /\ dataChan \in Seq(Payloads) /\ dataChan' \in Seq(Payloads)
      BY <1>0, <1>1 DEF TakeData, AppTyped
    <2>2. CASE run = NoRun
      <3>1. ctxDone /\ pc \in Ends /\ dataChan' = << >>
        BY <2>1, <2>2 DEF Late
      <3> QED
        BY <1>0, <2>1, <2>2, <3>1 DEF Late
    <2>3. CASE run # NoRun
      BY <1>0, <2>1, <2>3 DEF Late, HaveRun
    <2> QED
      BY <2>2, <2>3
  <1>2. CASE TakeCollectorError
    <2>1. /\ UNCHANGED <<run, apmHarvest, dataChan, connectChan>> /\ appRun' = NoRun
          /\ routines' = routines
      <3>1. Head(collectorErrorChan) \in ResponseType
        BY <1>0, <1>2 DEF TakeCollectorError, AppTyped
      <3>2. Head(collectorErrorChan).statusCode = 0
        BY <3>1 DEF ResponseType
      <3> QED
        BY <1>2, <3>2 DEF TakeCollectorError, IsRestartException
    <2> QED
      BY <1>0, <2>1 DEF Late
  <1>3. CASE TakeRun
    <2>1. /\ Head(connectChan) \in Replied /\ connectChan # << >> /\ connectChan' = << >>
          /\ run' = Head(connectChan) /\ UNCHANGED <<apmHarvest, dataChan, routines>>
      BY <1>0, <1>3 DEF TakeRun, AppTyped
    <2>2. run = NoRun /\ run' # NoRun
      BY <2>1 DEF Late, Replied
    <2>3. routines[1].pc = "done"
      BY <1>0, <2>1 DEF OneRun
    <2> QED
      BY <1>0, <2>1, <2>2, <2>3 DEF Late
  <1>4. CASE SendGuid \/ TakeErrorEvent \/ ErrorEventAnswered
    <2>1. UNCHANGED <<run, appRun, apmHarvest, dataChan, connectChan, routines>>
      BY <1>4 DEF SendGuid, TakeErrorEvent, ErrorEventAnswered, channels
    <2> QED
      BY <1>0, <2>1 DEF Late
  <1>5. ASSUME NEW n \in DOMAIN routines, AppStep(ConnectRoutine(n)) PROVE Late'
    <2>1. UNCHANGED <<run, appRun, apmHarvest, dataChan>>
      BY <1>5 DEF AppStep, ConnectRoutine, ConnectSucceeds, ConnectFails, AttemptsExhausted,
                  Deliver, processVars, channels
    <2>2. n = 1
      BY <1>0 DEF AppTyped
    <2>3. routines[1].pc # "done" \/ UNCHANGED <<routines, connectChan>>
      BY <1>5, <2>2 DEF AppStep, ConnectRoutine, ConnectSucceeds, ConnectFails,
                        AttemptsExhausted, Deliver
    <2> QED
      BY <1>0, <2>1, <2>3 DEF Late
  <1>6. ASSUME NEW h \in harvests, AppStep(DoHarvest(h)) PROVE Late'
    <2>1. UNCHANGED <<run, appRun, apmHarvest, dataChan, connectChan, routines>>
      BY <1>6 DEF AppStep, DoHarvest, HarvestAnswered, HarvestReports, processVars, channels
    <2> QED
      BY <1>0, <2>1 DEF Late
  <1> QED
    BY <1>1, <1>2, <1>3, <1>4, <1>5, <1>6 DEF Application, AppStep, Process

LEMMA OthersLate ==
  Inv /\ Late /\ Running /\ (GetAPMEntityGUID \/ APMlogShipLoop \/ Sigterm) => Late'
  <1> SUFFICES ASSUME Inv, Late, Running, GetAPMEntityGUID \/ APMlogShipLoop \/ Sigterm
               PROVE  Late'
    OBVIOUS
  <1>1. CASE APMlogShipLoop \/ Sigterm
    <2>1. /\ UNCHANGED <<run, appRun, apmHarvest, dataChan, connectChan, routines, watcher>>
          /\ UNCHANGED <<pc, probablyTimeout>> /\ (ctxDone => ctxDone')
      BY <1>1 DEF APMlogShipLoop, LeaveGate, PassGate, TakeLines, ShipperStep, Sigterm, appVars,
                  processVars, channels, loopVars, guidVars
    <2> QED
      BY <2>1, LateKept
  <1>2. CASE GetAPMEntityGUID
    <2>1. /\ UNCHANGED <<run, appRun, apmHarvest, dataChan, connectChan, routines>>
          /\ UNCHANGED <<pc, probablyTimeout, ctxDone>>
      BY <1>2 DEF GetAPMEntityGUID, CheckRun, CompareGuid, SetEntityGuid, ReceiveGuid,
                  TickerFires, WatcherSeesContext, WatcherGoes, Dereference, appVars,
                  processVars, channels, loopVars
    <2>2. watcher' = "done" => watcher = "done" \/ ctxDone \/ appRun # NoRun
      <3>1. CASE CheckRun \/ ReceiveGuid \/ TickerFires \/ WatcherSeesContext
        BY <3>1 DEF CheckRun, ReceiveGuid, TickerFires, WatcherSeesContext, WatcherGoes
      <3>2. CASE CompareGuid \/ SetEntityGuid
        BY <3>2 DEF CompareGuid, SetEntityGuid, WatcherGoes, Dereference, guidVars
      <3> QED
        BY <1>2, <3>1, <3>2 DEF GetAPMEntityGUID
    <2> QED
      BY <2>1, <2>2 DEF Late
  <1> QED
    BY <1>1, <1>2

LEMMA NextLate == Inv /\ Late /\ [Next]_vars => Late'
  <1>1. UNCHANGED vars /\ Late => Late'
    BY DEF vars, appVars, processVars, channels, loopVars, guidVars, Late
  <1> QED
    BY <1>1, MainLate, ApplicationLate, OthersLate DEF Next

-----------------------------------------------------------------------------
Places(p) ==
  Once(held = p) + Once(p \in ToSet(dataChan)) + Once(p \in ToSet(apmHarvest)) + started[p]

Unique ==
  /\ IsInjective(dataChan) /\ IsInjective(apmHarvest)
  /\ held # Nothing => pc \in {"catchUp", "handOver"}
  /\ \A p \in Payloads : Places(p) = Once(p \in taken)

LEMMA TailSet ==
  ASSUME NEW S, NEW seq \in Seq(S), seq # << >>, IsInjective(seq)
  PROVE  /\ IsInjective(Tail(seq)) /\ Head(seq) \in ToSet(seq)
         /\ ToSet(Tail(seq)) = ToSet(seq) \ {Head(seq)}
  <1>1. /\ Len(seq) \in Nat /\ Len(seq) > 0 /\ DOMAIN seq = 1..Len(seq) /\ Head(seq) = seq[1]
        /\ DOMAIN Tail(seq) = 1..(Len(seq) - 1)
        /\ \A i \in 1..(Len(seq) - 1) : Tail(seq)[i] = seq[i + 1]
    OBVIOUS
  <1>2. \A i \in 1..(Len(seq) - 1) : i + 1 \in 1..Len(seq)
    BY <1>1
  <1>3. \A i \in 1..Len(seq) : i = 1 \/ (i - 1 \in 1..(Len(seq) - 1) /\ (i - 1) + 1 = i)
    BY <1>1
  <1>4. IsInjective(Tail(seq))
    BY <1>1, <1>2 DEF IsInjective
  <1>5. ToSet(Tail(seq)) = ToSet(seq) \ {Head(seq)}
    <2>1. ASSUME NEW x \in ToSet(Tail(seq)) PROVE x \in ToSet(seq) /\ x # Head(seq)
      <3>1. PICK i \in 1..(Len(seq) - 1) : x = seq[i + 1]
        BY <1>1 DEF ToSet
      <3>2. i + 1 \in 1..Len(seq) /\ i + 1 # 1 /\ 1 \in 1..Len(seq)
        BY <1>1, <1>2
      <3> QED
        BY <1>1, <3>1, <3>2 DEF ToSet, IsInjective
    <2>2. ASSUME NEW x \in ToSet(seq), x # Head(seq) PROVE x \in ToSet(Tail(seq))
      <3>1. PICK i \in 1..Len(seq) : x = seq[i]
        BY <1>1 DEF ToSet
      <3>2. i - 1 \in 1..(Len(seq) - 1) /\ Tail(seq)[i - 1] = x
        BY <1>1, <1>3, <2>2, <3>1
      <3> QED
        BY <1>1, <3>2 DEF ToSet
    <2> QED
      BY <2>1, <2>2
  <1>6. Head(seq) \in ToSet(seq)
    <2>1. 1 \in DOMAIN seq /\ Head(seq) = seq[1]
      BY <1>1
    <2> QED
      BY <2>1, Zenon DEF ToSet
  <1> QED
    BY <1>4, <1>5, <1>6

LEMMA AppendSet ==
  ASSUME NEW S, NEW seq \in Seq(S), NEW x \in S, x \notin ToSet(seq), IsInjective(seq)
  PROVE  IsInjective(Append(seq, x)) /\ ToSet(Append(seq, x)) = ToSet(seq) \cup {x}
  <1> DEFINE longer == Append(seq, x)
             last == Len(seq) + 1
  <1>1. /\ DOMAIN longer = DOMAIN seq \cup {last} /\ last \notin DOMAIN seq
        /\ \A i \in DOMAIN seq : longer[i] = seq[i]
        /\ longer[last] = x
    OBVIOUS
  <1> HIDE DEF longer, last
  <1>2. \A i \in DOMAIN seq : seq[i] # x
    BY DEF ToSet
  <1>3. IsInjective(longer)
    BY <1>1, <1>2 DEF IsInjective
  <1>4. ToSet(longer) = ToSet(seq) \cup {x}
    BY <1>1 DEF ToSet
  <1> QED
    BY <1>3, <1>4 DEF longer

LEMMA InitUnique == Init => Unique
  <1> SUFFICES ASSUME Init PROVE Unique
    OBVIOUS
  <1>1. /\ held = Nothing /\ taken = {}
        /\ dataChan = << >> /\ apmHarvest = << >> /\ started = [p \in Payloads |-> 0]
    BY DEF Init, AppInit
  <1>2. ToSet(<< >>) = {} /\ IsInjective(<< >>)
    BY DEF ToSet, IsInjective
  <1>3. Nothing \notin Payloads
    BY AppAssumption DEF Nothing
  <1> QED
    BY <1>1, <1>2, <1>3 DEF Unique, Places, Once

\* Most steps move no payload.
LEMMA UniqueKept ==
  ASSUME Unique, UNCHANGED <<held, dataChan, apmHarvest, started, taken>>,
         pc' = pc \/ pc \notin {"catchUp", "handOver"}
  PROVE  Unique'
  BY DEF Unique, Places

\* Taken from telemetryChan.
LEMMA TakenUnique ==
  ASSUME AppTyped, LoopTyped, Unique, pc \notin {"catchUp", "handOver"}, TakeFromPipe,
         pc' \in {"catchUp", "handOver"}, UNCHANGED <<dataChan, apmHarvest, started>>
  PROVE  Unique'
  <1>1. PICK k \in Payloads \ taken : held' = k /\ taken' = taken \cup {k}
    BY DEF TakeFromPipe
  <1>2. held = Nothing /\ Nothing \notin Payloads
    BY AppAssumption DEF Unique, Nothing
  <1>3. ASSUME NEW p \in Payloads
        PROVE  Places(p)' = Once(p \in taken')
    <2>1. Places(p) = Once(p \in taken) /\ started[p] \in Nat
      BY DEF Unique, AppTyped
    <2>2. CASE p = k
      BY <1>1, <1>2, <2>1, <2>2 DEF Places, Once
    <2>3. CASE p # k
      BY <1>1, <1>2, <2>1, <2>3 DEF Places, Once
    <2> QED
      BY <2>2, <2>3
  <1> QED
    BY <1>3 DEF Unique

\* Sent to DataChan.
LEMMA SentUnique ==
  ASSUME AppTyped, LoopTyped, Unique, pc \in {"catchUp", "handOver"}, SendHeld,
         UNCHANGED taken
  PROVE  Unique'
  <1>1. /\ held \in Payloads /\ Nothing \notin Payloads /\ held' = Nothing
        /\ dataChan' = Append(dataChan, held) /\ dataChan \in Seq(Payloads)
        /\ UNCHANGED <<apmHarvest, started>>
    BY AppAssumption DEF SendHeld, LoopTyped, AppTyped, Nothing, processVars
  <1>2. held \notin ToSet(dataChan)
    <2>1. Places(held) \in {0, 1} /\ started[held] \in Nat
      BY <1>1 DEF Unique, Once, AppTyped
    <2> QED
      BY <2>1 DEF Places, Once
  <1>3. IsInjective(dataChan') /\ ToSet(dataChan') = ToSet(dataChan) \cup {held}
    BY <1>1, <1>2, AppendSet DEF Unique
  <1>4. ASSUME NEW p \in Payloads
        PROVE  Places(p)' = Places(p)
    <2>1. started[p] \in Nat /\ Once(held' = p) = 0
      BY <1>1 DEF AppTyped, Once
    <2>2. CASE p = held
      BY <1>1, <1>2, <1>3, <2>1, <2>2 DEF Places, Once
    <2>3. CASE p # held
      BY <1>1, <1>3, <2>1, <2>3 DEF Places, Once
    <2> QED
      BY <2>2, <2>3
  <1> QED
    BY <1>1, <1>3, <1>4 DEF Unique

\* Taken by process: when it has a run, nothing has been put aside.
LEMMA TakeDataUnique ==
  ASSUME AppTyped, Late, Unique, TakeData, UNCHANGED <<held, taken, pc>>
  PROVE  Unique'
  <1> DEFINE data == Head(dataChan)
  <1>1. /\ dataChan \in Seq(Payloads) /\ dataChan # << >> /\ dataChan' = Tail(dataChan)
        /\ data \in Payloads /\ apmHarvest \in Seq(Payloads)
        /\ IsInjective(dataChan) /\ IsInjective(apmHarvest)
    BY DEF TakeData, AppTyped, Unique
  <1>2. /\ IsInjective(dataChan') /\ data \in ToSet(dataChan)
        /\ ToSet(dataChan') = ToSet(dataChan) \ {data}
    BY <1>1, TailSet
  <1>3. \A p \in Payloads : started[p] \in Nat /\ Places(p) \in {0, 1}
    BY DEF AppTyped, Unique, Once
  <1>4. data \notin ToSet(apmHarvest) /\ started[data] = 0
    BY <1>1, <1>2, <1>3, SMTT(30) DEF Places, Once
  <1>5. CASE HaveRun
    <2>1. apmHarvest = << >>
      BY <1>1, <1>5 DEF Late, HaveRun
    <2>2. ToSet(apmHarvest) = {}
      BY <2>1 DEF ToSet
    <2>3. /\ apmHarvest' = apmHarvest
          /\ started' = [p \in Payloads |-> IF p = data THEN started[p] + 1 ELSE started[p]]
      BY <1>5, <2>2 DEF TakeData
    <2>4. ASSUME NEW p \in Payloads PROVE Places(p)' = Places(p)
      <3> HIDE DEF data
      <3>1. CASE p = data
        BY <1>2, <1>4, <2>3, <3>1 DEF Places, Once
      <3>2. CASE p # data
        BY <1>2, <2>3, <3>2 DEF Places, Once
      <3> QED
        BY <3>1, <3>2
    <2> QED
      BY <1>1, <1>2, <2>3, <2>4 DEF Unique
  <1>6. CASE ~HaveRun
    <2>1. apmHarvest' = Append(apmHarvest, data) /\ started' = started
      BY <1>6 DEF TakeData
    <2>2. IsInjective(apmHarvest') /\ ToSet(apmHarvest') = ToSet(apmHarvest) \cup {data}
      BY <1>1, <1>4, <2>1, AppendSet
    <2>3. ASSUME NEW p \in Payloads PROVE Places(p)' = Places(p)
      <3> HIDE DEF data
      <3>1. CASE p = data
        BY <1>2, <1>3, <1>4, <2>1, <2>2, <3>1 DEF Places, Once
      <3>2. CASE p # data
        BY <1>2, <2>1, <2>2, <3>2 DEF Places, Once
      <3> QED
        BY <3>1, <3>2
    <2> QED
      BY <1>1, <1>2, <2>2, <2>3 DEF Unique
  <1> QED
    BY <1>5, <1>6

LEMMA NextUnique == Inv /\ Late /\ Unique /\ [Next]_vars => Unique'
  <1> SUFFICES ASSUME Inv, Late, Unique, [Next]_vars PROVE Unique'
    OBVIOUS
  <1>0. AppTyped /\ LoopTyped
    BY DEF Inv
  <1>1. CASE CheckContext \/ NextEventFails \/ AwaitGuid \/ MetricsAnswered \/ MetricsSent
             \/ TimeLimitReached \/ SendFault \/ ReportUnreadable \/ CloseRefuses
             \/ CloseReturns
    <2>1. /\ UNCHANGED <<held, dataChan, apmHarvest, started, taken>>
          /\ pc' = pc \/ pc \notin {"catchUp", "handOver"}
      BY <1>1 DEF CheckContext, NextEventFails, AwaitGuid, MetricsAnswered, MetricsSent,
         TimeLimitReached, SendFault, ReportUnreadable, CloseRefuses, CloseReturns, InMetrics, appVars,
         processVars, channels, loopVars
    <2> QED
      BY <2>1, UniqueKept
  <1>2. ASSUME NEW e, Answered(e) PROVE Unique'
    <2>1. /\ UNCHANGED <<dataChan, apmHarvest, started>>
          /\ pc = "next" /\ pc \notin {"catchUp", "handOver"}
          /\ \/ TakeFromPipe /\ pc' = "catchUp"
             \/ UNCHANGED <<held, taken>> /\ pc' = Handling(e)
      BY <1>2 DEF Answered, appVars, processVars, channels
    <2>2. Handling(e) \notin {"catchUp", "handOver"}
      BY DEF Handling
    <2> QED
      BY <1>0, <2>1, <2>2, TakenUnique, UniqueKept
  <1>3. CASE ReceiveTelemetry
    <2>1. /\ UNCHANGED <<dataChan, apmHarvest, started>> /\ TakeFromPipe
          /\ pc \notin {"catchUp", "handOver"} /\ pc' = "handOver"
      BY <1>3 DEF ReceiveTelemetry, appVars, processVars, channels
    <2> QED
      BY <1>0, <2>1, TakenUnique
  <1>4. CASE CatchUp \/ HandOver
    <2>1. pc \in {"catchUp", "handOver"} /\ SendHeld /\ UNCHANGED taken
      BY <1>4 DEF CatchUp, HandOver
    <2> QED
      BY <1>0, <2>1, SentUnique
  <1>5. CASE GetAPMEntityGUID
    <2>1. UNCHANGED <<held, dataChan, apmHarvest, started, taken, pc>>
      BY <1>5 DEF GetAPMEntityGUID, CheckRun, CompareGuid, SetEntityGuid, ReceiveGuid,
                  TickerFires, WatcherSeesContext, WatcherGoes, Dereference, appVars,
                  processVars, channels, loopVars
    <2> QED
      BY <2>1, UniqueKept
  <1>6. CASE AppStep(TakeData)
    <2>1. TakeData /\ UNCHANGED <<held, taken, pc>>
      BY <1>6 DEF AppStep, loopVars
    <2> QED
      BY <1>0, <2>1, TakeDataUnique
  <1>7. ASSUME \/ AppStep(TakeCollectorError) \/ AppStep(TakeRun) \/ AppStep(SendGuid)
               \/ AppStep(TakeErrorEvent) \/ AppStep(ErrorEventAnswered)
               \/ \E n \in DOMAIN routines : AppStep(ConnectRoutine(n))
               \/ \E h \in harvests : AppStep(DoHarvest(h))
        PROVE  Unique'
    <2>1. UNCHANGED <<held, dataChan, apmHarvest, started, taken, pc>>
      BY <1>7 DEF AppStep, TakeCollectorError, TakeRun, SendGuid, TakeErrorEvent,
         ErrorEventAnswered, ConnectRoutine, ConnectSucceeds, ConnectFails, AttemptsExhausted,
         Deliver, DoHarvest, HarvestAnswered, HarvestReports, processVars, channels, loopVars
    <2> QED
      BY <2>1, UniqueKept
  <1>8. CASE APMlogShipLoop \/ Sigterm \/ UNCHANGED vars
    <2>1. UNCHANGED <<held, dataChan, apmHarvest, started, taken, pc>>
      BY <1>8 DEF APMlogShipLoop, LeaveGate, PassGate, TakeLines, ShipperStep, Sigterm, vars,
                  appVars, processVars, channels, loopVars
    <2> QED
      BY <2>1, UniqueKept
  <1> QED
    BY <1>1, <1>2, <1>3, <1>4, <1>5, <1>6, <1>7, <1>8
    DEF Next, Main, NextInvoke, NextShutdown, Application, AppStep, Process

\* A payload that the loop has taken from the agent's pipe is in one place until a
\* doHarvest has it, and only one doHarvest ever does, whatever the capacity of
\* DataChan and whenever the run, an error or SIGTERM comes.
THEOREM NeitherDroppedNorResent == Spec => []PayloadInOnePlace
  <1>1. Unique /\ Inv => PayloadInOnePlace
    <2> SUFFICES ASSUME Unique, Inv, NEW p \in taken PROVE Places(p) = 1
      BY DEF PayloadInOnePlace, Unique, Places
    <2>1. p \in Payloads
      BY DEF Inv, LoopTyped
    <2> QED
      BY <2>1 DEF Unique, Once
  <1> QED
    BY <1>1, InitInv, InitLate, InitUnique, NextInv, NextLate, NextUnique, PTL DEF Spec
=============================================================================
