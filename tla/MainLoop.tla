------------------------------ MODULE MainLoop ------------------------------
(***************************************************************************)
(* The event loop of the extension outside APM mode (main.go: mainLoop and *)
(* the shutdown sequence of main), composed with the telemetry batch, the  *)
(* goroutine that reads the agent's named pipe (telemetry/ipc.go), the     *)
(* buffered platform reports, and the Lambda platform around them: the     *)
(* function and its agent, the events answered to NextEvent, SIGTERM.      *)
(*                                                                         *)
(* Lambda retries a failed asynchronous invocation under its request id,   *)
(* so that a request id, which is all the program knows, may come back:    *)
(* requestOf gives the request of each invocation, named for its first     *)
(* attempt; 0 is "" (no request yet).  Where a function times out or       *)
(* crashes the extension is shut down with it; a retry in the same         *)
(* environment follows an attempt that finished with an error.             *)
(*                                                                         *)
(* The main goroutine runs between two blocking points in one step:        *)
(* no other goroutine touches the batch in between, and what they do to    *)
(* the channels meanwhile is the same as if they did it before or after.   *)
(* The clock advances only while the main goroutine blocks.                *)
(*                                                                         *)
(* What shipHarvest hands to the telemetry client is recorded in handed;   *)
(* whether New Relic receives it is the client's affair.  The log server   *)
(* is its report buffer, with room for every report (NumInvocations is far *)
(* below 100), and the flag that Close sets; LogServer.tla has the rest.   *)
(***************************************************************************)
EXTENDS BatchOps, FiniteSets, SequencesExt

CONSTANTS NumInvocations,   \* bound: invocations the platform delivers
          FunctionTimeout,  \* the function's timeout
          WatchMargin,      \* timeoutWatchBegins, 200ms before the deadline
          MaxErrors,        \* bound: failed calls of NextEvent
          MaySignal,        \* may SIGTERM arrive?
          FirstInstant,     \* extensionStartup
          LastInstant       \* bound: no invocation ends later

ASSUME BoundAssumption ==
  /\ NumInvocations \in Nat \ {0} /\ MaxErrors \in Nat /\ MaySignal \in BOOLEAN
  /\ FunctionTimeout \in Nat \ {0} /\ WatchMargin \in Nat
  /\ FirstInstant \in Nat /\ LastInstant \in Nat
  /\ FirstInstant > RipeDuration /\ FirstInstant > VeryOldDuration
  /\ FirstInstant <= LastInstant

VARIABLES pc,               \* where the main goroutine is
          now,              \* the clock
          batch,            \* the telemetry batch
          probablyTimeout, lastRequestId, lastEventStart, eventStart, timeLimit,
          ctxDone,          \* SIGTERM has cancelled the context
          errors,           \* failed calls of NextEvent so far
          requestOf,        \* the request of each invocation, retries included
          current,          \* the invocation the platform delivered last
          function,         \* what the function is doing
          deadline,         \* when the platform kills it
          wrote,            \* its agent has written its payload
          shutdown,         \* the reason of the Shutdown event, once answered
          reader,           \* the goroutine of InitTelemetryChannel
          parcel,           \* the payload it has read: whose agent wrote it
          reported,         \* invocations whose platform.report was posted
          platformLogs,     \* reports in the log server, not yet polled
          serverOpen,       \* the log server still accepts POSTs
          attached,         \* history: what AddTelemetry accepted
          ignored,          \* history: what AddTelemetry turned away
          handed,           \* history: what shipHarvest handed to the client
          discarded,        \* history: what AddInvocation replaced
          since,            \* history: how much was handed when the last record began
          raced             \* history: a poll came too early or too late

loopVars == <<probablyTimeout, lastRequestId, lastEventStart, eventStart, timeLimit>>
platformVars == <<requestOf, current, function, deadline, wrote, shutdown>>
pipeVars == <<reader, parcel>>
logVars == <<reported, platformLogs, serverOpen>>
batchVars == <<batch, attached, ignored, handed, discarded, since>>
vars == <<pc, now, loopVars, ctxDone, errors, platformVars, pipeVars, logVars,
          batchVars, raced>>

Invocations == 1..NumInvocations
Requests == 1..NumInvocations
NoRequest == 0
ZeroTime == 0

\* Which invocations are retries, and of which request.
Assignments ==
  {ids \in [Invocations -> Requests] :
     \A k \in Invocations : ids[k] = k \/ \E j \in 1..(k - 1) : ids[k] = ids[j]}

\* Telemetry: the payload of an agent or the report of an invocation (of), or a
\* message synthesized at shutdown, which gives a duration in secs.
Kinds == {"agent", "report", "timeout", "fault"}
Payload(kind, of, secs) ==
  [id |-> [kind |-> kind, of |-> of, secs |-> secs], trace |-> NoTrace]

Init ==
  /\ pc = "top" /\ now = FirstInstant
  /\ batch = NewBatch
  /\ probablyTimeout = FALSE /\ lastRequestId = NoRequest
  /\ lastEventStart = ZeroTime /\ eventStart = ZeroTime /\ timeLimit = ZeroTime
  /\ ctxDone = FALSE /\ errors = 0
  /\ requestOf \in Assignments
  /\ current = 0 /\ function = "idle" /\ deadline = ZeroTime /\ wrote = FALSE
  /\ shutdown = "none"
  /\ reader = "open" /\ parcel = NoRequest
  /\ reported = {} /\ platformLogs = << >> /\ serverOpen = TRUE
  /\ attached = {} /\ ignored = {} /\ handed = << >> /\ discarded = {} /\ since = 0
  /\ raced = FALSE

-----------------------------------------------------------------------------
(* Operations on the batch, with their history.  A book is the batch together
   with what AddTelemetry has accepted and turned away, what AddInvocation has
   replaced and what was handed to the client. *)
Book ==
  [batch |-> batch, attached |-> attached, ignored |-> ignored, handed |-> handed,
   discarded |-> discarded, since |-> since]
SetBook(book) ==
  \E b \in {book} :
    /\ batch' = b.batch /\ attached' = b.attached /\ ignored' = b.ignored
    /\ handed' = b.handed /\ discarded' = b.discarded /\ since' = b.since

\* The entries a batch holds for a request.
HeldFor(b, r) ==
  IF Accepts(b, r)
  THEN {[to |-> r, what |-> p.id] : p \in Range(b.invocations[r].telemetry)} ELSE {}

Attach(book, requestId, payload) ==
  LET entry == [to |-> requestId, what |-> payload.id]
  IN  IF Accepts(book.batch, requestId)
      THEN [book EXCEPT !.batch = AddTelemetry(@, requestId, payload, FALSE),
                        !.attached = @ \cup {entry}]
      ELSE [book EXCEPT !.ignored = @ \cup {entry}]

\* The record of an earlier attempt is replaced with what it holds.
Begin(book, requestId, start) ==
  [book EXCEPT !.batch = AddInvocation(@, requestId, start),
               !.discarded = @ \cup HeldFor(book.batch, requestId),
               !.since = Len(book.handed)]

\* pollLogServer: every buffered report goes to the request it names.
PollLogServer(book) ==
  LET polled[n \in 0..Len(platformLogs)] ==
        IF n = 0 THEN book
        ELSE Attach(polled[n - 1], requestOf[platformLogs[n]],
                    Payload("report", platformLogs[n], 0))
  IN  polled[Len(platformLogs)]

\* shipHarvest flattens the invocations into one slice of payloads.
Sent(harvest, r) ==
  [i \in DOMAIN harvest.taken[r].telemetry |->
     [to |-> r, what |-> harvest.taken[r].telemetry[i].id]]
ShipHarvest(book, harvest) ==
  LET order == SetToSeq(DOMAIN harvest.taken)
      slice[n \in 0..Len(order)] ==
        IF n = 0 THEN book.handed ELSE slice[n - 1] \o Sent(harvest, order[n])
  IN  [book EXCEPT !.batch = harvest.batch, !.handed = slice[Len(order)]]

PollHarvestShip(book) ==
  LET polled == PollLogServer(book)
  IN  ShipHarvest(polled, Harvest(polled.batch, now))

-----------------------------------------------------------------------------
(* mainLoop *)
\* Mutant: the loop does not look at the context.
CheckNoContext ==
  /\ pc = "top"
  /\ pc' = "next"
  /\ UNCHANGED <<now, ctxDone, errors, raced>>
  /\ UNCHANGED loopVars /\ UNCHANGED platformVars /\ UNCHANGED pipeVars
  /\ UNCHANGED logVars /\ UNCHANGED batchVars

CheckContext ==
  /\ pc = "top"
  /\ pc' = IF ctxDone THEN "finalPoll" ELSE "next"
  /\ UNCHANGED <<now, ctxDone, errors, raced>>
  /\ UNCHANGED loopVars /\ UNCHANGED platformVars /\ UNCHANGED pipeVars
  /\ UNCHANGED logVars /\ UNCHANGED batchVars

\* ExitError reports the failure to the platform; then the loop goes on.
NextEventFails ==
  /\ pc = "next"
  /\ ctxDone \/ errors < MaxErrors
  /\ errors' = IF ctxDone THEN errors ELSE errors + 1
  /\ pc' = "top"
  /\ UNCHANGED <<now, ctxDone, raced>>
  /\ UNCHANGED loopVars /\ UNCHANGED platformVars /\ UNCHANGED pipeVars
  /\ UNCHANGED logVars /\ UNCHANGED batchVars

NextInvoke ==
  /\ pc = "next" /\ function \in {"idle", "finished"}
  /\ current < NumInvocations /\ now + FunctionTimeout <= LastInstant
  /\ current' = current + 1 /\ function' = "running" /\ wrote' = FALSE
  /\ deadline' = now + FunctionTimeout
  /\ eventStart' = now
  /\ pc' = "thawed"
  /\ UNCHANGED <<now, probablyTimeout, lastRequestId, lastEventStart, timeLimit,
                 ctxDone, errors, requestOf, shutdown, raced>>
  /\ UNCHANGED pipeVars /\ UNCHANGED logVars /\ UNCHANGED batchVars

NextShutdown ==
  /\ pc = "next" /\ function # "running"
  /\ shutdown' = CASE function = "timedout" -> "timeout"
                   [] function = "crashed"  -> "failure"
                   [] OTHER                 -> "spindown"
  /\ eventStart' = now
  /\ pc' = "thawed"
  /\ UNCHANGED <<now, probablyTimeout, lastRequestId, lastEventStart, timeLimit,
                 ctxDone, errors, requestOf, current, function, deadline, wrote, raced>>
  /\ UNCHANGED pipeVars /\ UNCHANGED logVars /\ UNCHANGED batchVars

\* The non-blocking poll after a suspected timeout: it takes a payload only if
\* the reader is already waiting in its send.
PollSucceeds == probablyTimeout /\ reader = "parked"
CatchUp ==
  IF PollSucceeds THEN Attach(Book, lastRequestId, Payload("agent", parcel, 0)) ELSE Book
\* The payload of the last invocation is still with the reader, or the function
\* of the new one has been quicker than this goroutine.
PollTooEarly == probablyTimeout /\ reader = "holding" /\ parcel # current
PollTooLate == PollSucceeds /\ parcel = current /\ shutdown = "none"
PollPipe ==
  /\ raced' = (raced \/ PollTooEarly \/ PollTooLate)
  /\ IF PollSucceeds THEN reader' = "open" /\ parcel' = NoRequest
                     ELSE UNCHANGED pipeVars

\* Mutant: the zero time is not replaced.
MeasuredFromZero == lastEventStart

\* Since when the timeout message counts.
MeasuredFrom == IF lastEventStart = ZeroTime THEN FirstInstant ELSE lastEventStart

\* Mutant: no message for an invocation that sent no telemetry before.
LastWordsAfterTelemetry(book) ==
  IF shutdown = "timeout" /\ lastEventStart # ZeroTime
  THEN Attach(book, lastRequestId,
              Payload("timeout", current, eventStart - MeasuredFrom))
  ELSE book

\* The message synthesized for an invocation that ended the extension.
LastWords(book) ==
  CASE shutdown = "timeout" /\ lastRequestId # NoRequest ->
         Attach(book, lastRequestId,
                Payload("timeout", current, eventStart - MeasuredFrom))
    [] shutdown = "failure" /\ lastRequestId # NoRequest ->
         Attach(book, lastRequestId, Payload("fault", current, 0))
    [] OTHER -> book

HandleShutdown ==
  /\ pc = "thawed" /\ shutdown # "none"
  /\ PollPipe
  /\ SetBook(LastWords(CatchUp))
  /\ lastEventStart' = IF shutdown = "timeout" /\ lastRequestId # NoRequest
                       THEN MeasuredFrom ELSE lastEventStart
  /\ pc' = "finalPoll"
  /\ UNCHANGED <<now, probablyTimeout, lastRequestId, eventStart, timeLimit,
                 ctxDone, errors>>
  /\ UNCHANGED platformVars /\ UNCHANGED logVars

HandleInvoke ==
  /\ pc = "thawed" /\ shutdown = "none"
  /\ PollPipe
  /\ probablyTimeout' = FALSE
  /\ lastRequestId' = requestOf[current]
  /\ timeLimit' = deadline - WatchMargin
  /\ SetBook(PollHarvestShip(Begin(CatchUp, requestOf[current], eventStart)))
  /\ platformLogs' = << >>
  /\ pc' = "await"
  /\ UNCHANGED <<now, lastEventStart, eventStart, ctxDone, errors, reported, serverOpen>>
  /\ UNCHANGED platformVars

\* Mutant: the suspicion of a timeout is not remembered.
TimeLimitForgotten ==
  /\ pc = "await"
  /\ now >= timeLimit \/ ctxDone
  /\ pc' = "top"
  /\ UNCHANGED <<now, ctxDone, errors, raced>>
  /\ UNCHANGED loopVars /\ UNCHANGED platformVars /\ UNCHANGED pipeVars
  /\ UNCHANGED logVars /\ UNCHANGED batchVars

\* Mutant: the loop waits for telemetry without a limit.
TimeLimitIgnored ==
  /\ pc = "await" /\ ctxDone
  /\ probablyTimeout' = TRUE
  /\ pc' = "top"
  /\ UNCHANGED <<now, lastRequestId, lastEventStart, eventStart, timeLimit,
                 ctxDone, errors, raced>>
  /\ UNCHANGED platformVars /\ UNCHANGED pipeVars /\ UNCHANGED logVars
  /\ UNCHANGED batchVars

\* The select of mainLoop: when both cases are ready either may be taken.
TimeLimitReached ==
  /\ pc = "await"
  /\ now >= timeLimit \/ ctxDone
  /\ probablyTimeout' = TRUE
  /\ pc' = "top"
  /\ UNCHANGED <<now, lastRequestId, lastEventStart, eventStart, timeLimit,
                 ctxDone, errors, raced>>
  /\ UNCHANGED platformVars /\ UNCHANGED pipeVars /\ UNCHANGED logVars
  /\ UNCHANGED batchVars

ReceiveTelemetry ==
  /\ pc = "await" /\ reader = "parked"
  /\ SetBook(PollHarvestShip(Attach(Book, lastRequestId, Payload("agent", parcel, 0))))
  /\ reader' = "open" /\ parcel' = NoRequest
  /\ platformLogs' = << >>
  /\ lastEventStart' = eventStart
  /\ pc' = "top"
  /\ UNCHANGED <<now, probablyTimeout, lastRequestId, eventStart, timeLimit,
                 ctxDone, errors, reported, serverOpen, raced>>
  /\ UNCHANGED platformVars

-----------------------------------------------------------------------------
(* The end of main *)
FinalPoll ==
  /\ pc = "finalPoll"
  /\ SetBook(PollLogServer(Book))
  /\ platformLogs' = << >>
  /\ pc' = "closeServer"
  /\ UNCHANGED <<now, ctxDone, errors, reported, serverOpen, raced>>
  /\ UNCHANGED loopVars /\ UNCHANGED platformVars /\ UNCHANGED pipeVars

CloseServer ==
  /\ pc = "closeServer"
  /\ serverOpen' = FALSE
  /\ pc' = "finalHarvest"
  /\ UNCHANGED <<now, ctxDone, errors, reported, platformLogs, raced>>
  /\ UNCHANGED loopVars /\ UNCHANGED platformVars /\ UNCHANGED pipeVars
  /\ UNCHANGED batchVars

\* Mutant: the last harvest is an ordinary one.
FinalHarvestOrdinary ==
  /\ pc = "finalHarvest"
  /\ SetBook(ShipHarvest(Book, Harvest(batch, now)))
  /\ pc' = "stopped"
  /\ UNCHANGED <<now, ctxDone, errors, raced>>
  /\ UNCHANGED loopVars /\ UNCHANGED platformVars /\ UNCHANGED pipeVars
  /\ UNCHANGED logVars

FinalHarvest ==
  /\ pc = "finalHarvest"
  /\ SetBook(ShipHarvest(Book, Close(batch, now)))
  /\ pc' = "stopped"
  /\ UNCHANGED <<now, ctxDone, errors, raced>>
  /\ UNCHANGED loopVars /\ UNCHANGED platformVars /\ UNCHANGED pipeVars
  /\ UNCHANGED logVars

Main ==
  \/ CheckContext \/ HandleShutdown \/ HandleInvoke
  \/ TimeLimitReached \/ ReceiveTelemetry
  \/ FinalPoll \/ CloseServer \/ FinalHarvest

-----------------------------------------------------------------------------
(* The goroutine of InitTelemetryChannel, the function and its agent, the
   platform, the clock. *)
EnvironmentKeeps ==
  /\ UNCHANGED <<pc, errors, raced>>
  /\ UNCHANGED loopVars /\ UNCHANGED batchVars

\* Opening the pipe for writing blocks until the reader has opened it too, so
\* the agent gets through only while no earlier payload is being passed on.
AgentWrites ==
  /\ function = "running" /\ ~wrote /\ reader = "open"
  /\ wrote' = TRUE
  /\ reader' = "holding" /\ parcel' = current
  /\ UNCHANGED <<now, ctxDone, requestOf, current, function, deadline, shutdown,
                 logVars>>
  /\ EnvironmentKeeps

ReaderParks ==
  /\ reader = "holding" /\ reader' = "parked"
  /\ UNCHANGED <<now, ctxDone, parcel, platformVars, logVars>>
  /\ EnvironmentKeeps

\* A function without an agent, or whose agent failed, ends without a payload.
FunctionEnds ==
  /\ function = "running"
  /\ \/ function' \in {"finished", "crashed"}
     \/ now >= deadline /\ function' = "timedout"
  /\ UNCHANGED <<now, ctxDone, requestOf, current, deadline, wrote, shutdown, pipeVars,
                 logVars>>
  /\ EnvironmentKeeps

\* The report of an invocation is posted when its function has ended and the
\* extension has asked for the next event, or later.
Over(k) ==
  k < current \/ (k = current /\ function # "running"
                  /\ (pc = "next" \/ shutdown # "none"))
PostReport(k) ==
  /\ k \notin reported /\ Over(k)
  /\ reported' = reported \cup {k}
  /\ platformLogs' = IF serverOpen THEN Append(platformLogs, k) ELSE platformLogs
  /\ UNCHANGED <<now, ctxDone, serverOpen, platformVars, pipeVars>>
  /\ EnvironmentKeeps

Signal ==
  /\ MaySignal /\ ~ctxDone
  /\ ctxDone' = TRUE
  /\ UNCHANGED <<now, platformVars, pipeVars, logVars>>
  /\ EnvironmentKeeps

Tick ==
  /\ pc \in {"next", "await"} /\ now < LastInstant
  /\ now' = now + 1
  /\ UNCHANGED <<ctxDone, platformVars, pipeVars, logVars>>
  /\ EnvironmentKeeps

Next ==
  \/ Main
  \/ NextEventFails \/ NextInvoke \/ NextShutdown
  \/ AgentWrites \/ ReaderParks \/ FunctionEnds
  \/ \E k \in Invocations : PostReport(k)
  \/ Signal \/ Tick

\* The main goroutine runs, time passes, a function ends, and a request made
\* under a cancelled context fails.  The platform owes the extension no event.
Fairness ==
  /\ WF_vars(Main) /\ WF_vars(Tick)
  /\ WF_vars(ctxDone /\ NextEventFails)

Spec == Init /\ [][Next]_vars
FairSpec == Spec /\ Fairness

-----------------------------------------------------------------------------
Instants == FirstInstant..LastInstant
PayloadIds == [kind : Kinds, of : Invocations, secs : 0..(LastInstant - FirstInstant)]
Entries == [to : Requests, what : PayloadIds]

\* The type invariant.
TypeOK ==
  /\ pc \in {"top", "next", "thawed", "await", "finalPoll", "closeServer",
             "finalHarvest", "stopped"}
  /\ now \in Instants
  /\ probablyTimeout \in BOOLEAN /\ ctxDone \in BOOLEAN /\ serverOpen \in BOOLEAN
  /\ wrote \in BOOLEAN /\ raced \in BOOLEAN
  /\ lastRequestId \in Requests \cup {NoRequest} /\ current \in 0..NumInvocations
  /\ requestOf \in Assignments
  /\ {lastEventStart, eventStart} \subseteq Instants \cup {ZeroTime}
  /\ timeLimit \in Int /\ deadline \in Instants \cup {ZeroTime}
  /\ errors \in 0..MaxErrors
  /\ function \in {"idle", "running", "finished", "timedout", "crashed"}
  /\ shutdown \in {"none", "spindown", "timeout", "failure"}
  /\ reader \in {"open", "holding", "parked"}
  /\ parcel \in Invocations \cup {NoRequest} /\ (parcel = NoRequest <=> reader = "open")
  /\ reported \subseteq Invocations /\ Range(platformLogs) \subseteq Invocations
  /\ attached \subseteq Entries /\ ignored \subseteq Entries
  /\ Range(handed) \subseteq Entries /\ discarded \subseteq Entries
  /\ since \in 0..Len(handed)

Held == UNION {HeldFor(batch, r) : r \in DOMAIN batch.invocations}
TimesHanded(entry) == Cardinality({i \in DOMAIN handed : handed[i] = entry})
Attempts(r) == {k \in 1..current : requestOf[k] = r}
Retried(r) == \E j, k \in Attempts(r) : j # k
\* The invocation of request r as it was shipped.
Shipped(r) ==
  LET places == {i \in DOMAIN handed : handed[i].to = r}
  IN  [telemetry |-> [n \in 1..Cardinality(places) |-> handed[SetToSeq(places)[n]].what]]

\* What AddTelemetry accepts is handed to the client exactly once, by a harvest
\* of the loop or at the latest by the final harvest, however the extension was
\* told to stop.  There is one way to lose it: a retry begins while the record of
\* the earlier attempt still holds it (AddInvocation, batch.go:51).
HandedExactlyOnce ==
  /\ \A entry \in attached :
       TimesHanded(entry) + (IF entry \in Held THEN 1 ELSE 0)
         + (IF entry \in discarded THEN 1 ELSE 0) = 1
  /\ Range(handed) \cup Held \cup discarded = attached
  /\ \A entry \in discarded : Retried(entry.to)
  /\ pc = "stopped" => Held = {}

\* Neither "Failed to add telemetry for request" of mainLoop nor the unchecked
\* AddTelemetry after a suspected timeout loses an agent's payload, but in one
\* case: its request came back, and the report of an earlier attempt was shipped
\* with the record of the retry.
AgentTelemetryAlwaysAttached ==
  \A entry \in ignored : entry.what.kind = "agent" =>
    \E i \in DOMAIN handed :
      /\ handed[i].to = entry.to /\ handed[i].what.kind = "report"
      /\ \E k \in Attempts(entry.to) : k > handed[i].what.of

\* "Sending a ripe invocation won't omit data" (batch.go:179), for a request that
\* does not come back: what AddTelemetry turned away was for an invocation that
\* had been shipped before it was ripe.
RipeOmitsNothing ==
  \A entry \in ignored :
    ~Retried(entry.to) =>
      ~IsEmpty(Shipped(entry.to)) /\ ~IsRipe(Shipped(entry.to))

\* A payload is attached to another request than the one that produced it
\* only after the poll that follows a suspected timeout lost a race: the select
\* of the loop alone never confuses requests.
MisattributedOnlyByRace ==
  raced \/ \A entry \in attached :
             entry.what.kind = "agent" => entry.to = requestOf[entry.what.of]

\* A timeout that ends the extension is reported: the message is handed over, or
\* was turned away because the record of the invocation had been shipped between
\* its beginning and the Shutdown event.
TimeoutReportedOrShipped ==
  pc = "stopped" /\ shutdown = "timeout" =>
    \E secs \in 0..(LastInstant - FirstInstant) :
      LET entry == [to |-> requestOf[current], what |-> Payload("timeout", current, secs).id]
      IN  \/ entry \in Range(handed)
          \/ /\ entry \in ignored
             /\ \E i \in (since + 1)..Len(handed) : handed[i].to = requestOf[current]

\* "We are about to timeout": the loop never waits for telemetry for good, so
\* the next call of NextEvent, which the platform needs, is made; and a Shutdown
\* event, or SIGTERM, stops the extension, wherever the loop is.
LoopNeverStuck ==
  /\ pc = "await" ~> pc # "await"
  /\ (shutdown # "none" \/ ctxDone) ~> pc = "stopped"

-----------------------------------------------------------------------------
(* What comments of the code say, and the runs refute. *)

\* main.go:325: "we've gotten to the next event, so telemetry will have arrived
\* for the last request if it's going to": when the loop awaits the telemetry
\* of an invocation, nothing of an earlier one is still on its way.
TelemetryArrivedByNextEvent == pc = "await" => parcel \in {NoRequest, current}

\* main.go:341: "Synthesize the timeout error message that the platform
\* produces": the platform's message gives the duration of the invocation that
\* timed out.
InvocationStart == deadline - FunctionTimeout
TimeoutDurationExact ==
  \A entry \in attached :
    entry.what.kind = "timeout" => entry.what.secs = eventStart - InvocationStart

=============================================================================
